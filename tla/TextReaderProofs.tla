-------------------------- MODULE TextReaderProofs --------------------------
(***************************************************************************)
(* That the buffers of TextReader are coherent, for every file content,    *)
(* chunk size and kind of source.  The work is in what GetText does to one *)
(* FileState, stated once and used by every action.  In the second half,   *)
(* that the reader implements PascalText.                                  *)
(***************************************************************************)
EXTENDS TextReader, WellFoundedInduction, SequenceTheorems, TLAPS

(* What BuffersCoherent says of a FileState s that is not (yet) f.         *)
Good(s) ==
  /\ s \in FileState
  /\ s.off <= End
  /\ ChunkOk(s)
  /\ LookaheadOk(s)

(* What the lemmas need of the rest of the state.                          *)
Context ==
  /\ content \in Seq(0 .. 255)
  /\ source \in {"file", "pipe", "tty"}
  /\ mixed \in BOOLEAN

LEMMA SCharType == \A b \in 0 .. 255 : SChar(b) \in -128 .. 127
  BY DEF SChar

LEMMA SCharOfChar == \A c \in -128 .. 127 : SChar(c) = c
  BY DEF SChar

LEMMA EndNat == Context => End \in Nat
  BY DEF Context, End

LEMMA ByteType ==
  ASSUME Context, NEW i \in 1 .. End
  PROVE  content[i] \in 0 .. 255
  <1>1. i \in 1 .. Len(content)
    BY DEF End
  <1>2. \A S : content \in Seq(S) => \A j \in 1 .. Len(content) : content[j] \in S
    OBVIOUS
  <1>3. QED  BY <1>1, <1>2 DEF Context

(* fread of a chunk: how much, and what is in the buffer then.             *)
LEMMA FillType ==
  ASSUME Context, NEW s \in FileState, s.off <= End
  PROVE  /\ FReadCount(s) \in 0 .. RecSize
         /\ s.off + FReadCount(s) <= End
         /\ Filled(s) \in [0 .. RecSize - 1 -> -128 .. 127]
         /\ \A i \in 0 .. FReadCount(s) - 1 :
              Filled(s)[i] = SChar(content[s.off + i + 1])
  <1>1. RecSize \in Nat \ {0} /\ End \in Nat /\ s.off \in Nat
    BY TextReaderAssumption, EndNat DEF FileState
  <1>2. FReadCount(s) \in 0 .. RecSize /\ s.off + FReadCount(s) <= End
    BY <1>1 DEF FReadCount
  <1>3. ASSUME NEW i \in 0 .. RecSize - 1, i < FReadCount(s)
        PROVE  SChar(content[s.off + i + 1]) \in -128 .. 127
    <2>1. s.off + i + 1 \in 1 .. End
      BY <1>1, <1>2, <1>3
    <2>2. content[s.off + i + 1] \in 0 .. 255
      BY <2>1, ByteType
    <2>3. QED  BY <2>2, SCharType
  <1>4. s.buffer \in [0 .. RecSize - 1 -> -128 .. 127]
    BY DEF FileState
  <1>5. Filled(s) \in [0 .. RecSize - 1 -> -128 .. 127]
    BY <1>3, <1>4 DEF Filled
  <1>6. ASSUME NEW i \in 0 .. FReadCount(s) - 1
        PROVE  Filled(s)[i] = SChar(content[s.off + i + 1])
    <2>1. i \in 0 .. RecSize - 1 /\ i < FReadCount(s)
      BY <1>1, <1>2
    <2>2. QED  BY <2>1 DEF Filled
  <1>7. QED  BY <1>2, <1>5, <1>6

LEMMA GetCType ==
  ASSUME Context, NEW s \in FileState
  PROVE  /\ FGetC(s) # EOF <=> s.off < End
         /\ s.off < End => /\ FGetC(s) = content[s.off + 1]
                           /\ FGetC(s) \in 0 .. 255
  <1>1. End \in Nat /\ s.off \in Nat
    BY EndNat DEF FileState
  <1>2. s.off < End => content[s.off + 1] \in 0 .. 255
    BY <1>1, ByteType
  <1>3. QED  BY <1>1, <1>2 DEF FGetC, EOF

(* The fields of the state GetText leaves, from those ReadChunkText leaves. *)
LEMMA GetTextFields ==
  ASSUME NEW s, ReadChunkText(s).st \in FileState, ReadChunkText(s).ch \in -128 .. 255
  PROVE  /\ GetText(s) \in FileState
         /\ GetText(s).off = ReadChunkText(s).st.off
         /\ GetText(s).readPos = ReadChunkText(s).st.readPos
         /\ GetText(s).bufferSize = ReadChunkText(s).st.bufferSize
         /\ ReadChunkText(s).ch = EOF => GetText(s).readAhead = 0
         /\ ReadChunkText(s).ch # EOF =>
              GetText(s).readAhead = ReadChunkText(s).st.readAhead
         /\ GetText(s).buffer[0] = SChar(ReadChunkText(s).ch)
         /\ \A i \in 1 .. RecSize - 1 :
              GetText(s).buffer[i] = ReadChunkText(s).st.buffer[i]
  <1>t. PICK t \in FileState : t = ReadChunkText(s).st
    OBVIOUS
  <1>c. PICK c \in -128 .. 255 : c = ReadChunkText(s).ch
    OBVIOUS
  <1>s. RecSize \in Nat \ {0}
    BY TextReaderAssumption
  <1> DEFINE b == [t.buffer EXCEPT ![0] = SChar(c)]
             a == IF c = EOF THEN 0 ELSE t.readAhead
  <1>1. SChar(c) \in -128 .. 127
    BY DEF SChar
  <1>2. t.buffer \in [0 .. RecSize - 1 -> -128 .. 127] /\ t.readAhead \in {0, 1}
    BY DEF FileState
  <1>3. /\ b \in [0 .. RecSize - 1 -> -128 .. 127]
        /\ b[0] = SChar(c)
        /\ \A i \in 1 .. RecSize - 1 : b[i] = t.buffer[i]
    <2>1. 0 \in 0 .. RecSize - 1
      BY <1>s
    <2>2. b \in [0 .. RecSize - 1 -> -128 .. 127]
      BY <1>1, <1>2
    <2>3. b[0] = SChar(c)
      BY <1>2, <2>1
    <2>4. ASSUME NEW i \in 1 .. RecSize - 1
          PROVE  b[i] = t.buffer[i]
      <3>1. i \in 0 .. RecSize - 1 /\ i # 0
        BY <1>s
      <3>2. QED  BY <1>2, <3>1
    <2>5. QED  BY <2>2, <2>3, <2>4
  <1>4. a \in {0, 1}
    BY <1>2
  <1>5. GetText(s) = [off |-> t.off, buffer |-> b, readPos |-> t.readPos,
                      bufferSize |-> t.bufferSize, readAhead |-> a]
    <2>1. GetText(s) = [t EXCEPT !.buffer = b, !.readAhead = a]
      BY <1>t, <1>c DEF GetText
    <2>2. QED  BY <2>1 DEF FileState
  <1> HIDE DEF a, b
  <1>6. QED  BY <1>t, <1>c, <1>3, <1>4, <1>5 DEF FileState, a

(* __get_text keeps the two buffers and the FILE in step: it hands out the *)
(* next byte of the chunk, fetches a chunk, or finds the end.              *)
LEMMA GetTextGood ==
  ASSUME Context, NEW s, Good(s)
  PROVE  Good(GetText(s))
  <1>0. /\ s \in FileState
        /\ RecSize \in Nat \ {0}
        /\ End \in Nat
        /\ s.off \in Nat /\ s.readPos \in Nat /\ s.bufferSize \in Nat
        /\ s.readAhead \in {0, 1}
        /\ s.buffer \in [0 .. RecSize - 1 -> -128 .. 127]
        /\ s.off <= End
    BY TextReaderAssumption, EndNat DEF Good, FileState
  <1>r. PICK r : r = GetText(s)
    OBVIOUS
  <1>1. CASE Tty /\ FGetC(s) # EOF
    <2>c. PICK c : c = FGetC(s)
      OBVIOUS
    <2>o. PICK o \in Nat : o = s.off + 1
      BY <1>0
    <2>t. PICK t : t = [s EXCEPT !.off = o, !.readAhead = 1, !.bufferSize = 1]
      OBVIOUS
    <2>1. ReadChunkText(s).ch = c /\ ReadChunkText(s).st = t
      BY <1>1, <2>c, <2>o, <2>t DEF ReadChunkText
    <2>2. s.off < End /\ c = content[s.off + 1] /\ c \in 0 .. 255
      BY <1>0, <1>1, <2>c, GetCType
    <2>3. /\ t \in FileState
          /\ t.off = s.off + 1 /\ t.readAhead = 1
      <3>1. t \in FileState
        BY <1>0, <2>t DEF FileState
      <3>2. t.off = s.off + 1 /\ t.readAhead = 1
        BY <1>0, <2>o, <2>t DEF FileState
      <3>3. QED  BY <3>1, <3>2
    <2>4. /\ r \in FileState
          /\ r.off = s.off + 1
          /\ r.readAhead = 1
          /\ r.buffer[0] = SChar(c)
      <3>1. c \in -128 .. 255 /\ c # EOF
        BY <2>2 DEF EOF
      <3>2. QED  BY <1>0, <1>r, <2>1, <2>3, <3>1, GetTextFields
    <2>5. Position(r) = s.off
      BY <1>0, <1>1, <2>4 DEF Position, Waiting
    <2>6. QED
      BY <1>0, <1>1, <1>r, <2>2, <2>4, <2>5 DEF Good, ChunkOk, LookaheadOk, Current
  <1>2. CASE Tty /\ FGetC(s) = EOF
    <2>t. PICK t : t = [s EXCEPT !.readAhead = 0, !.bufferSize = 0]
      OBVIOUS
    <2>1. ReadChunkText(s).ch = EOF /\ ReadChunkText(s).st = t
      BY <1>2, <2>t DEF ReadChunkText
    <2>2. t \in FileState /\ t.off = s.off
      <3>1. t \in FileState
        BY <1>0, <2>t DEF FileState
      <3>2. t.off = s.off
        BY <1>0, <2>t DEF FileState
      <3>3. QED  BY <3>1, <3>2
    <2>3. r \in FileState /\ r.off = s.off /\ r.readAhead = 0
      <3>1. EOF \in -128 .. 255
        BY DEF EOF
      <3>2. QED  BY <1>0, <1>r, <2>1, <2>2, <3>1, GetTextFields
    <2>4. QED  BY <1>0, <1>2, <1>r, <2>3 DEF Good, ChunkOk, LookaheadOk
  <1>3. CASE ~Tty /\ s.readPos # s.bufferSize
    <2>c. PICK c : c = s.buffer[s.readPos]
      OBVIOUS
    <2>p. PICK p \in Nat : p = s.readPos + 1
      BY <1>0
    <2>t. PICK t : t = [s EXCEPT !.readAhead = 1, !.readPos = p]
      OBVIOUS
    <2>1. /\ s.readPos \in 1 .. s.bufferSize - 1
          /\ s.bufferSize <= RecSize
          /\ s.bufferSize <= s.off
      BY <1>0, <1>3 DEF Good, ChunkOk
    <2>2. c \in -128 .. 127 /\ SChar(c) = c
      <3>1. s.readPos \in 0 .. RecSize - 1
        BY <1>0, <2>1
      <3>2. c \in -128 .. 127
        BY <1>0, <2>c, <3>1
      <3>3. QED  BY <3>2, SCharOfChar
    <2>3. ReadChunkText(s).ch = c /\ ReadChunkText(s).st = t
      BY <1>3, <2>c, <2>p, <2>t DEF ReadChunkText
    <2>4. /\ t \in FileState
          /\ t.off = s.off /\ t.bufferSize = s.bufferSize
          /\ t.readPos = s.readPos + 1 /\ t.buffer = s.buffer /\ t.readAhead = 1
      <3>1. t \in FileState
        BY <1>0, <2>t DEF FileState
      <3>2. t.off = s.off /\ t.bufferSize = s.bufferSize
        BY <1>0, <2>t DEF FileState
      <3>3. t.readPos = s.readPos + 1 /\ t.buffer = s.buffer /\ t.readAhead = 1
        BY <1>0, <2>p, <2>t DEF FileState
      <3>4. QED  BY <3>1, <3>2, <3>3
    <2>5. /\ r \in FileState
          /\ r.off = s.off /\ r.bufferSize = s.bufferSize
          /\ r.readPos = s.readPos + 1
          /\ r.buffer[0] = c
          /\ \A i \in 1 .. RecSize - 1 : r.buffer[i] = s.buffer[i]
      <3>1. c \in -128 .. 255
        BY <2>2
      <3>2. QED  BY <1>0, <1>r, <2>2, <2>3, <2>4, <3>1, GetTextFields
    <2>6. ~mixed => \A i \in s.readPos .. s.bufferSize - 1 :
                      s.buffer[i] = SChar(content[s.off - s.bufferSize + i + 1])
      BY <1>3 DEF Good, ChunkOk
    <2>7. ChunkOk(r)
      <3>1. ASSUME ~mixed, NEW i \in r.readPos .. r.bufferSize - 1
            PROVE  r.buffer[i] = SChar(content[r.off - r.bufferSize + i + 1])
        <4>1. i \in 1 .. RecSize - 1 /\ i \in s.readPos .. s.bufferSize - 1
          BY <1>0, <2>1, <2>5, <3>1
        <4>2. QED  BY <2>5, <2>6, <3>1, <4>1
      <3>2. r.bufferSize <= RecSize /\ r.bufferSize <= r.off /\ r.readPos <= r.bufferSize
            /\ r.readPos # 0
        BY <1>0, <2>1, <2>5
      <3>3. QED  BY <3>1, <3>2 DEF ChunkOk
    <2>8. LookaheadOk(r)
      <3>1. ASSUME r.readAhead = 1
            PROVE  Position(r) = s.off - s.bufferSize + s.readPos
        <4>1. Position(r) = s.off - (s.bufferSize - (s.readPos + 1)) - 1
          BY <1>3, <2>5, <3>1 DEF Position, Waiting
        <4>2. QED  BY <1>0, <4>1
      <3>2. ~mixed => c = SChar(content[s.off - s.bufferSize + s.readPos + 1])
        <4>1. s.readPos \in s.readPos .. s.bufferSize - 1
          BY <1>0, <2>1
        <4>2. QED  BY <2>c, <2>6, <4>1
      <3>3. QED  BY <1>0, <2>1, <2>5, <3>1, <3>2 DEF LookaheadOk, Current
    <2>9. QED  BY <1>0, <1>r, <2>5, <2>7, <2>8 DEF Good
  <1>4. CASE ~Tty /\ s.readPos = s.bufferSize /\ FReadCount(s) > 0
    <2>n. PICK n : n = FReadCount(s)
      OBVIOUS
    <2>b. PICK b : b = Filled(s)
      OBVIOUS
    <2>c. PICK c : c = b[0]
      OBVIOUS
    <2>1. /\ n \in 1 .. RecSize
          /\ s.off + n <= End
          /\ b \in [0 .. RecSize - 1 -> -128 .. 127]
          /\ \A i \in 0 .. n - 1 : b[i] = SChar(content[s.off + i + 1])
      <3>1. /\ FReadCount(s) \in 0 .. RecSize
            /\ s.off + FReadCount(s) <= End
            /\ Filled(s) \in [0 .. RecSize - 1 -> -128 .. 127]
            /\ \A i \in 0 .. FReadCount(s) - 1 :
                 Filled(s)[i] = SChar(content[s.off + i + 1])
        BY <1>0, FillType
      <3>2. n \in 1 .. RecSize
        BY <1>0, <1>4, <2>n, <3>1
      <3>3. QED  BY <2>n, <2>b, <3>1, <3>2
    <2>o. PICK o \in Nat : o = s.off + n
      BY <1>0, <2>1
    <2>t. PICK t : t = [s EXCEPT !.off = o, !.buffer = b, !.bufferSize = n,
                                 !.readAhead = 1, !.readPos = 1]
      OBVIOUS
    <2>2. c \in -128 .. 127 /\ SChar(c) = c
      <3>1. 0 \in 0 .. RecSize - 1
        BY <1>0
      <3>2. c \in -128 .. 127
        BY <2>1, <2>c, <3>1
      <3>3. QED  BY <3>2, SCharOfChar
    <2>3. ReadChunkText(s).ch = c /\ ReadChunkText(s).st = t
      BY <1>4, <2>n, <2>b, <2>c, <2>o, <2>t DEF ReadChunkText
    <2>4. /\ t \in FileState
          /\ t.off = s.off + n /\ t.bufferSize = n
          /\ t.readPos = 1 /\ t.buffer = b /\ t.readAhead = 1
      <3>1. n \in Nat
        BY <1>0, <2>1
      <3>2. t \in FileState
        BY <1>0, <2>t, <2>1, <3>1 DEF FileState
      <3>3. t.off = s.off + n /\ t.bufferSize = n
        BY <1>0, <2>o, <2>t DEF FileState
      <3>4. t.readPos = 1 /\ t.buffer = b /\ t.readAhead = 1
        BY <1>0, <2>t DEF FileState
      <3>5. QED  BY <3>2, <3>3, <3>4
    <2>5. /\ r \in FileState
          /\ r.off = s.off + n /\ r.bufferSize = n
          /\ r.readPos = 1
          /\ r.buffer[0] = c
          /\ \A i \in 1 .. RecSize - 1 : r.buffer[i] = b[i]
      <3>1. c \in -128 .. 255
        BY <2>2
      <3>2. QED  BY <1>0, <1>r, <2>2, <2>3, <2>4, <3>1, GetTextFields
    <2>6. ChunkOk(r)
      <3>1. ASSUME ~mixed, NEW i \in r.readPos .. r.bufferSize - 1
            PROVE  r.buffer[i] = SChar(content[r.off - r.bufferSize + i + 1])
        <4>1. i \in 1 .. RecSize - 1 /\ i \in 0 .. n - 1
          BY <1>0, <2>1, <2>5, <3>1
        <4>2. r.off - r.bufferSize = s.off
          BY <1>0, <2>1, <2>5
        <4>3. QED  BY <2>1, <2>5, <4>1, <4>2
      <3>2. r.bufferSize <= RecSize /\ r.bufferSize <= r.off /\ r.readPos <= r.bufferSize
            /\ r.readPos # 0
        BY <1>0, <2>1, <2>5
      <3>3. QED  BY <3>1, <3>2 DEF ChunkOk
    <2>7. LookaheadOk(r)
      <3>1. r.readAhead = 1 => Position(r) = s.off
        BY <1>0, <1>4, <2>1, <2>5 DEF Position, Waiting
      <3>2. c = SChar(content[s.off + 1])
        BY <1>0, <2>c, <2>1
      <3>3. QED  BY <1>0, <2>1, <2>5, <3>1, <3>2 DEF LookaheadOk, Current
    <2>8. QED  BY <1>r, <2>1, <2>5, <2>6, <2>7 DEF Good
  <1>5. CASE ~Tty /\ s.readPos = s.bufferSize /\ ~(FReadCount(s) > 0)
    <2>1. ReadChunkText(s).ch = EOF /\ ReadChunkText(s).st = s
      BY <1>5 DEF ReadChunkText
    <2>2. /\ r \in FileState
          /\ r.off = s.off /\ r.bufferSize = s.bufferSize /\ r.readPos = s.readPos
          /\ r.readAhead = 0
      <3>1. EOF \in -128 .. 255
        BY DEF EOF
      <3>2. QED  BY <1>0, <1>r, <2>1, <3>1, GetTextFields
    <2>3. ChunkOk(s)
      BY DEF Good
    <2>4. QED  BY <1>0, <1>r, <1>5, <2>2, <2>3 DEF Good, ChunkOk, LookaheadOk
  <1>6. QED  BY <1>1, <1>2, <1>3, <1>4, <1>5

LEMMA PrereadGood ==
  ASSUME Context, NEW s, Good(s)
  PROVE  Good(Preread(s))
  BY GetTextGood DEF Preread

LEMMA CurrentType ==
  ASSUME NEW s \in FileState
  PROVE  Current(s) \in -128 .. 127
  <1>1. 0 \in 0 .. RecSize - 1
    BY TextReaderAssumption
  <1>2. QED  BY <1>1 DEF Current, FileState

LEMMA PositionType ==
  ASSUME NEW s \in FileState
  PROVE  Position(s) \in Int
  BY DEF Position, Waiting, FileState

(* readln consumes the line end: nothing is read ahead then.               *)
LEMMA ConsumeGood ==
  ASSUME Context, NEW s, Good(s)
  PROVE  Good([s EXCEPT !.readAhead = 0])
  <1>t. PICK t : t = [s EXCEPT !.readAhead = 0]
    OBVIOUS
  <1>1. s \in FileState /\ s.off <= End /\ ChunkOk(s)
    BY DEF Good
  <1>2. t \in FileState
    BY <1>1, <1>t DEF FileState
  <1>3. /\ t.off = s.off /\ t.buffer = s.buffer /\ t.readPos = s.readPos
        /\ t.bufferSize = s.bufferSize /\ t.readAhead = 0
    BY <1>1, <1>t DEF FileState
  <1>4. ChunkOk(t)
    BY <1>1, <1>3 DEF ChunkOk
  <1>5. Good(t)
    BY <1>1, <1>2, <1>3, <1>4 DEF Good, LookaheadOk
  <1>6. QED  BY <1>5, <1>t

(* What the file of __get holds afterwards.                                *)
LEMMA GetFields ==
  ASSUME Context, NEW s \in FileState, s.off <= End
  PROVE  /\ GetOf(s) \in FileState
         /\ GetOf(s).readPos = s.readPos /\ GetOf(s).bufferSize = s.bufferSize
         /\ s.off < End => /\ GetOf(s).off = s.off + 1
                           /\ GetOf(s).readAhead = 1
                           /\ GetOf(s).buffer[0] = SChar(content[s.off + 1])
         /\ s.off = End => GetOf(s).off = s.off /\ GetOf(s).readAhead = 0
  <1>0. /\ RecSize \in Nat \ {0} /\ End \in Nat /\ s.off \in Nat
        /\ s.buffer \in [0 .. RecSize - 1 -> -128 .. 127]
        /\ 0 \in 0 .. RecSize - 1
    BY TextReaderAssumption, EndNat DEF FileState
  <1>r. PICK r : r = GetOf(s)
    OBVIOUS
  <1>1. CASE s.off < End
    <2>o. PICK o \in Nat : o = s.off + 1
      BY <1>0
    <2>c. PICK c \in -128 .. 127 : c = SChar(content[s.off + 1])
      <3>1. content[s.off + 1] \in 0 .. 255
        BY <1>1, GetCType
      <3>2. QED  BY <3>1, SCharType
    <2>b. PICK b : b = [s.buffer EXCEPT ![0] = c]
      OBVIOUS
    <2>1. b \in [0 .. RecSize - 1 -> -128 .. 127] /\ b[0] = c
      BY <1>0, <2>b
    <2>2. r = [s EXCEPT !.off = o, !.buffer = b, !.readAhead = 1]
      <3>1. FGetC(s) # EOF /\ FGetC(s) = content[s.off + 1]
        BY <1>1, GetCType
      <3>2. QED  BY <1>r, <2>o, <2>c, <2>b, <3>1 DEF GetOf
    <2>3. r \in FileState
      BY <2>1, <2>2 DEF FileState
    <2>4. r.readPos = s.readPos /\ r.bufferSize = s.bufferSize
      BY <2>2 DEF FileState
    <2>5. r.off = o /\ r.readAhead = 1 /\ r.buffer = b
      BY <2>2 DEF FileState
    <2>6. QED  BY <1>0, <1>1, <1>r, <2>o, <2>c, <2>1, <2>3, <2>4, <2>5
  <1>2. CASE s.off = End
    <2>b. PICK b : b = [s.buffer EXCEPT ![0] = SChar(EOF)]
      OBVIOUS
    <2>1. b \in [0 .. RecSize - 1 -> -128 .. 127]
      <3>1. SChar(EOF) \in -128 .. 127
        BY DEF SChar, EOF
      <3>2. QED  BY <1>0, <2>b, <3>1
    <2>2. r = [s EXCEPT !.buffer = b, !.readAhead = 0]
      <3>1. ~(s.off < End)
        BY <1>0, <1>2
      <3>2. FGetC(s) = EOF
        BY <3>1, GetCType
      <3>3. QED  BY <1>r, <2>b, <3>2 DEF GetOf
    <2>3. r \in FileState
      BY <2>1, <2>2 DEF FileState
    <2>4. /\ r.off = s.off /\ r.readPos = s.readPos
          /\ r.bufferSize = s.bufferSize /\ r.readAhead = 0
      BY <2>2 DEF FileState
    <2>5. QED  BY <1>0, <1>2, <1>r, <2>3, <2>4
  <1>3. QED  BY <1>0, <1>1, <1>2

(* A file that is open, and that reset has left at its first byte.         *)
LEMMA OpenedFields ==
  ASSUME Context
  PROVE  /\ Opened \in FileState
         /\ Opened.off = 0 /\ Opened.readPos = 0 /\ Opened.bufferSize = 0
         /\ Opened.readAhead = 0
         /\ GetOf(Opened) \in FileState
         /\ GetOf(Opened).readPos = 0 /\ GetOf(Opened).bufferSize = 0
         /\ 0 < End => /\ GetOf(Opened).off = 1 /\ GetOf(Opened).readAhead = 1
                       /\ GetOf(Opened).buffer[0] = SChar(content[1])
         /\ 0 = End => GetOf(Opened).off = 0 /\ GetOf(Opened).readAhead = 0
  <1>0. RecSize \in Nat \ {0} /\ End \in Nat
    BY TextReaderAssumption, EndNat
  <1>1. Opened \in FileState
    BY DEF Opened, FileState
  <1>2. /\ Opened.off = 0 /\ Opened.readPos = 0 /\ Opened.bufferSize = 0
        /\ Opened.readAhead = 0
    BY DEF Opened
  <1>3. QED  BY <1>0, <1>1, <1>2, GetFields

LEMMA OpenedGood ==
  ASSUME Context
  PROVE  Good(Opened) /\ Good(GetOf(Opened))
  <1>0. RecSize \in Nat \ {0} /\ End \in Nat
    BY TextReaderAssumption, EndNat
  <1>1. Good(Opened)
    BY <1>0, OpenedFields DEF Good, ChunkOk, LookaheadOk
  <1>r. PICK r : r = GetOf(Opened)
    OBVIOUS
  <1>2. /\ r \in FileState /\ r.readPos = 0 /\ r.bufferSize = 0
        /\ 0 < End => /\ r.off = 1 /\ r.readAhead = 1
                      /\ r.buffer[0] = SChar(content[1])
        /\ 0 = End => r.off = 0 /\ r.readAhead = 0
    BY <1>r, OpenedFields
  <1>3. r.off \in Nat /\ r.off <= End
    BY <1>0, <1>2
  <1>4. ChunkOk(r)
    BY <1>0, <1>2, <1>3 DEF ChunkOk
  <1>5. LookaheadOk(r)
    BY <1>0, <1>2 DEF LookaheadOk, Position, Waiting, Current
  <1>6. QED  BY <1>1, <1>2, <1>3, <1>4, <1>5, <1>r DEF Good

-----------------------------------------------------------------------------
(* readint64 keeps the sign and the number in two locals.                  *)
LocalsOk == pc \in {"spaces", "sign", "digits"} => acc \in Int \X Int

(* The inductive invariant.  LocalsOk is what the type of acc needs to     *)
(* stay what it is, the rest are the invariants to be proved.              *)
IInv == TypeOK /\ LocalsOk /\ BuffersCoherent

Loops == {"spaces", "sign", "digits", "string", "chars", "skipline"}

LEMMA InvariantGivesGood ==
  ASSUME IInv
  PROVE  Context /\ Good(f) /\ Good(Preread(f)) /\ Good(GetText(f))
         /\ Good(GetText(Preread(f)))
  <1>1. Context
    BY TextReaderAssumption DEF IInv, TypeOK, Context
  <1>2. Good(f)
    BY DEF IInv, TypeOK, BuffersCoherent, Good
  <1>3. QED  BY <1>1, <1>2, PrereadGood, GetTextGood

(* A step that leaves the file, the source and mixed alone and a Good file *)
(* state keeps the invariant, if the locals keep their types.              *)
LEMMA GoodStep ==
  ASSUME IInv, NEW s, Good(s), f' = s, UNCHANGED <<content, source, mixed>>,
         pc' \in {"idle"} \cup Loops, acc' \in Seq(Int), base' \in Int,
         pc' \in {"spaces", "sign", "digits"} => acc' \in Int \X Int
  PROVE  IInv'
  <1>1. TypeOK'
    BY DEF IInv, TypeOK, Good, Loops
  <1>2. LocalsOk'
    BY DEF LocalsOk
  <1>3. BuffersCoherent'
    <2>1. f'.off <= End'
      BY DEF Good, End
    <2>2. ChunkOk(f)'
      BY DEF Good, ChunkOk, Tty
    <2>3. LookaheadOk(f)'
      BY DEF Good, LookaheadOk, Position, Waiting, Current, End, Tty
    <2>4. QED  BY <2>1, <2>2, <2>3 DEF BuffersCoherent
  <1>4. QED  BY <1>1, <1>2, <1>3 DEF IInv

LEMMA CallStep ==
  ASSUME IInv, NEW s, Good(s), NEW op, NEW values, Call(op, s, values)
  PROVE  IInv'
  <1>1. pc' = "idle" /\ acc' \in Seq(Int)
    BY DEF Call, IInv, TypeOK
  <1>2. base' \in Int
    BY PositionType DEF Call, Good
  <1>3. f' = s /\ UNCHANGED <<content, source, mixed>>
    BY DEF Call, Env
  <1>4. QED  BY <1>1, <1>2, <1>3, GoodStep DEF Loops

LEMMA EnterStep ==
  ASSUME IInv, NEW s, Good(s), NEW p \in Loops, NEW a \in Seq(Int),
         p \in {"spaces", "sign", "digits"} => a \in Int \X Int,
         Enter(p, s, a) \/ Continue(p, s, a)
  PROVE  IInv'
  <1>1. /\ f' = s /\ pc' = p /\ acc' = a /\ base' = base
        /\ UNCHANGED <<content, source, mixed>>
    BY DEF Enter, Continue, Env
  <1>2. base' \in Int
    BY <1>1 DEF IInv, TypeOK
  <1>3. QED  BY <1>1, <1>2, GoodStep

LEMMA ReturnStep ==
  ASSUME IInv, NEW s, Good(s), NEW op, NEW values, Return(op, s, values)
  PROVE  IInv'
  <1>1. pc' = "idle" /\ acc' \in Seq(Int)
    BY DEF Return
  <1>2. base' \in Int
    BY PositionType DEF Return, Good
  <1>3. f' = s /\ UNCHANGED <<content, source, mixed>>
    BY DEF Return, Env
  <1>4. QED  BY <1>1, <1>2, <1>3, GoodStep DEF Loops

LEMMA InitInvariant == Init => IInv
  <1> SUFFICES ASSUME Init PROVE IInv
    OBVIOUS
  <1>1. Context
    BY TextReaderAssumption DEF Init, Context
  <1>2. Good(f)
    BY <1>1, OpenedGood DEF Init
  <1>3. acc \in Seq(Int) /\ base \in Int
    BY DEF Init
  <1>4. TypeOK
    BY <1>2, <1>3 DEF Init, TypeOK, Good
  <1>5. QED  BY <1>2, <1>4 DEF Init, IInv, LocalsOk, BuffersCoherent, Good

(* The operations that the program calls.                                  *)
LEMMA BeginInvariant ==
  ASSUME IInv, Begin
  PROVE  IInv'
  <1>0. /\ Context /\ Good(f) /\ Good(Preread(f))
        /\ Good(GetText(Preread(f)))
    BY InvariantGivesGood
  <1>e. <<>> \in Seq(Int)
    OBVIOUS
  <1>1. CASE Eof
    BY <1>0, <1>1, CallStep DEF Eof
  <1>2. CASE Eoln
    BY <1>0, <1>2, CallStep DEF Eoln
  <1>3. CASE ReadChar
    BY <1>0, <1>3, CallStep DEF ReadChar
  <1>4. CASE ReadInt
    <2>1. <<1, 0>> \in Seq(Int) /\ <<1, 0>> \in Int \X Int /\ "spaces" \in Loops
      BY DEF Loops
    <2>2. QED  BY <1>0, <1>4, <2>1, EnterStep DEF ReadInt
  <1>5. CASE ReadString
    <2>1. "string" \in Loops
      BY DEF Loops
    <2>2. QED  BY <1>0, <1>5, <1>e, <2>1, EnterStep DEF ReadString
  <1>6. CASE ReadChars
    <2>1. "chars" \in Loops
      BY DEF Loops
    <2>2. QED  BY <1>0, <1>6, <1>e, <2>1, EnterStep DEF ReadChars
  <1>7. CASE ReadLn
    <2>1. "skipline" \in Loops
      BY DEF Loops
    <2>2. CASE PrereadOk(f)
      BY <1>0, <1>7, <1>e, <2>1, <2>2, EnterStep DEF ReadLn
    <2>3. CASE ~PrereadOk(f)
      BY <1>0, <1>7, <2>3, CallStep DEF ReadLn
    <2>4. QED  BY <2>2, <2>3
  <1>8. CASE Get
    <2>0. /\ f' = GetOf(f) /\ mixed' = (mixed \/ Strays(f)) /\ base' = Position(GetOf(f))
          /\ UNCHANGED <<pc, acc, content, source>> /\ pc = "idle"
          /\ f.readAhead = 0 => FGetC(f) # EOF
      BY <1>8 DEF Get, Env
    <2>1. PICK r : r = GetOf(f)
      OBVIOUS
    <2>2. /\ f \in FileState /\ f.off <= End /\ ChunkOk(f) /\ LookaheadOk(f)
          /\ End \in Nat /\ f.off \in Nat /\ f.readPos \in Nat /\ f.bufferSize \in Nat
          /\ f.readAhead \in {0, 1}
      BY <1>0, EndNat DEF Good, FileState
    <2>3. /\ r \in FileState
          /\ r.readPos = f.readPos /\ r.bufferSize = f.bufferSize
          /\ f.off < End => /\ r.off = f.off + 1
                            /\ r.readAhead = 1
                            /\ r.buffer[0] = SChar(content[f.off + 1])
          /\ f.off = End => r.off = f.off /\ r.readAhead = 0
      BY <1>0, <2>1, <2>2, GetFields
    <2>4. r.off \in Nat /\ f.off <= r.off /\ r.off <= End
      BY <2>2, <2>3
    <2>5. /\ f' = r
          /\ End' = End /\ Tty' = Tty
      BY <2>0, <2>1 DEF End, Tty
    <2>6. ASSUME ~mixed'
          PROVE  ~mixed /\ Waiting(f) = 0 /\ f.readAhead = 1
      BY <2>0, <2>2, <2>6 DEF Strays
    <2>7. ChunkOk(f)'
      <3>1. ASSUME ~Tty
            PROVE  /\ r.bufferSize <= RecSize /\ r.bufferSize <= r.off
                   /\ r.readPos <= r.bufferSize
                   /\ r.readPos = 0 => r.bufferSize = 0
        <4>1. RecSize \in Nat
          BY TextReaderAssumption
        <4>2. QED  BY <2>2, <2>3, <2>4, <3>1, <4>1 DEF ChunkOk
      <3>2. ASSUME ~Tty, ~mixed', NEW i \in r.readPos .. r.bufferSize - 1
            PROVE  FALSE
        <4>1. f.bufferSize - f.readPos = 0
          BY <2>6, <3>2 DEF Waiting
        <4>2. QED  BY <2>2, <2>3, <3>2, <4>1
      <3>3. QED  BY <2>5, <3>1, <3>2 DEF ChunkOk
    <2>8. LookaheadOk(f)'
      <3>1. ASSUME r.readAhead = 1, ~mixed'
            PROVE  r.off - 1 = f.off /\ f.off < End
                   /\ r.buffer[0] = SChar(content[f.off + 1])
        BY <2>2, <2>3, <3>1
      <3>2. ASSUME ~mixed', r.readAhead = 1
            PROVE  Position(f)' = f.off
        <4>1. Waiting(f)' = 0
          <5>1. CASE Tty
            BY <2>5, <5>1 DEF Waiting
          <5>2. CASE ~Tty
            <6>1. f.bufferSize - f.readPos = 0
              BY <2>6, <3>2, <5>2 DEF Waiting
            <6>2. QED  BY <2>3, <2>5, <5>2, <6>1 DEF Waiting
          <5>3. QED  BY <5>1, <5>2
        <4>2. Position(f)' = r.off - 0 - 1
          BY <2>5, <3>2, <4>1 DEF Position
        <4>3. QED  BY <2>2, <2>4, <3>1, <3>2, <4>2
      <3>3. QED  BY <2>0, <2>5, <3>1, <3>2 DEF LookaheadOk, Current
    <2>9. BuffersCoherent'
      BY <2>4, <2>5, <2>7, <2>8 DEF BuffersCoherent
    <2>10. base' \in Int
      BY <2>0, <2>1, <2>3, PositionType
    <2>11. TypeOK'
      BY <2>0, <2>3, <2>5, <2>10 DEF IInv, TypeOK
    <2>12. LocalsOk'
      BY <2>0 DEF LocalsOk
    <2>13. QED  BY <2>9, <2>11, <2>12 DEF IInv
  <1>9. CASE Reset
    <2>1. PICK r : r = GetOf(Opened)
      OBVIOUS
    <2>2. Context'
      BY <1>0, <1>9 DEF Reset, Env, Context
    <2>3. /\ f' = r /\ mixed' = FALSE /\ base' = 0 /\ pc = "idle"
          /\ UNCHANGED <<pc, acc, content, source>>
      BY <1>9, <2>1 DEF Reset, Env
    <2>4. /\ r \in FileState /\ r.readPos = 0 /\ r.bufferSize = 0
          /\ 0 < End => /\ r.off = 1 /\ r.readAhead = 1
                        /\ r.buffer[0] = SChar(content[1])
          /\ 0 = End => r.off = 0 /\ r.readAhead = 0
      BY <1>0, <2>1, OpenedFields
    <2>5. /\ End \in Nat /\ End' = End /\ Tty' = Tty /\ RecSize \in Nat
      BY <1>0, <2>3, EndNat, TextReaderAssumption DEF End, Tty
    <2>6. r.off \in Nat /\ r.off <= End
      BY <2>4, <2>5
    <2>7. ChunkOk(f)'
      BY <2>3, <2>4, <2>5, <2>6 DEF ChunkOk
    <2>8. LookaheadOk(f)'
      BY <2>3, <2>4, <2>5 DEF LookaheadOk, Position, Waiting, Current
    <2>9. BuffersCoherent'
      BY <2>3, <2>5, <2>6, <2>7, <2>8 DEF BuffersCoherent
    <2>10. TypeOK'
      <3>1. base' \in Int
        BY <2>3
      <3>2. mixed' \in BOOLEAN
        BY <2>3, Zenon
      <3>3. QED  BY <2>3, <2>4, <3>1, <3>2 DEF IInv, TypeOK
    <2>11. LocalsOk'
      BY <2>3 DEF LocalsOk
    <2>12. QED  BY <2>9, <2>10, <2>11 DEF IInv
  <1>10. QED
    BY <1>1, <1>2, <1>3, <1>4, <1>5, <1>6, <1>7, <1>8, <1>9 DEF Begin

(* The iterations of the runtime's loops.                                  *)
LEMMA StepInvariant ==
  ASSUME IInv, Step
  PROVE  IInv'
  <1>0. /\ Good(f) /\ Good(Preread(f)) /\ Good(GetText(f))
        /\ Good(GetText(Preread(f)))
    BY InvariantGivesGood
  <1>a. acc \in Seq(Int)
    BY DEF IInv, TypeOK
  <1>n. /\ pc \in {"spaces", "sign", "digits"} => acc \in Int \X Int
        /\ {"spaces", "sign", "digits", "string", "chars", "skipline"} = Loops
    BY DEF IInv, LocalsOk, Loops
  <1>t. Current(f) \in Int /\ Current(Preread(f)) \in Int
    <2>1. Current(f) \in -128 .. 127 /\ Current(Preread(f)) \in -128 .. 127
      BY <1>0, CurrentType DEF Good
    <2>2. QED  BY <2>1
  <1>1. CASE SkipSpaces
    <2>1. PICK s : s = IF IsSpace(Current(f)) THEN Preread(f) ELSE f
      OBVIOUS
    <2>2. Good(s) /\ pc = "spaces" /\ acc \in Int \X Int
      BY <1>0, <1>1, <1>n, <2>1 DEF SkipSpaces
    <2>3. \/ Continue("spaces", GetText(Preread(f)), acc)
          \/ Continue("sign", s, acc)
      BY <1>1, <2>1 DEF SkipSpaces
    <2>4. QED  BY <1>0, <1>a, <1>n, <2>2, <2>3, EnterStep
  <1>2. CASE GetSign
    <2>1. PICK sign \in Int : sign = IF Current(f) = Minus THEN -1 ELSE 1
      OBVIOUS
    <2>2. \/ Continue("digits", GetText(f), <<sign, 0>>)
          \/ Continue("digits", f, acc)
      BY <1>2, <2>1 DEF GetSign
    <2>3. <<sign, 0>> \in Seq(Int) /\ <<sign, 0>> \in Int \X Int
      OBVIOUS
    <2>4. pc = "sign"
      BY <1>2 DEF GetSign
    <2>5. QED  BY <1>0, <1>a, <1>n, <2>2, <2>3, <2>4, EnterStep
  <1>3. CASE Digits
    <2>1. pc = "digits" /\ acc[1] \in Int /\ acc[2] \in Int
      BY <1>3, <1>n DEF Digits
    <2>2. PICK n \in Int : n = 10 * acc[2] + (Current(f) - Zero)
      BY <1>t, <2>1 DEF Zero
    <2>3. \/ Return("int", f, <<acc[1] * acc[2]>>)
          \/ Continue("digits", GetText(f), <<acc[1], n>>)
          \/ Return("int", GetText(f), <<acc[1] * n>>)
      BY <1>3, <2>2 DEF Digits
    <2>4. <<acc[1], n>> \in Seq(Int) /\ <<acc[1], n>> \in Int \X Int
      BY <2>1
    <2>5. QED  BY <1>0, <1>n, <2>3, <2>4, EnterStep, ReturnStep
  <1>4. CASE StringLoop
    <2>1. PICK more : more = Append(acc, Current(Preread(f)))
      OBVIOUS
    <2>2. more \in Seq(Int)
      BY <1>a, <1>t, <2>1
    <2>3. (\E s, v : Good(s) /\ Return("str", s, v))
          \/ Continue("string", GetText(Preread(f)), more)
      BY <1>0, <1>4, <2>1 DEF StringLoop
    <2>4. QED  BY <1>0, <1>n, <2>2, <2>3, EnterStep, ReturnStep
  <1>5. CASE CharsLoop
    <2>1. PICK more : more = Append(acc, Current(f))
      OBVIOUS
    <2>2. more \in Seq(Int)
      BY <1>a, <1>t, <2>1
    <2>3. (\E s, v : Good(s) /\ Return("chars", s, v))
          \/ Continue("chars", GetText(f), more)
      BY <1>0, <1>5, <2>1 DEF CharsLoop
    <2>4. QED  BY <1>0, <1>n, <2>2, <2>3, EnterStep, ReturnStep
  <1>6. CASE SkipLine
    <2>1. Good([f EXCEPT !.readAhead = 0]) /\ Good([GetText(f) EXCEPT !.readAhead = 0])
      BY <1>0, InvariantGivesGood, ConsumeGood
    <2>2. \/ Return("nl", [f EXCEPT !.readAhead = 0], <<>>)
          \/ Continue("skipline", GetText(f), acc)
          \/ Return("nl", [GetText(f) EXCEPT !.readAhead = 0], <<>>)
      BY <1>6 DEF SkipLine
    <2>3. QED  BY <1>0, <1>a, <1>n, <2>1, <2>2, EnterStep, ReturnStep
  <1>7. QED  BY <1>1, <1>2, <1>3, <1>4, <1>5, <1>6 DEF Step

LEMMA Invariant == Spec => []IInv
  <1>1. Init => IInv
    BY InitInvariant
  <1>2. IInv /\ [Next]_vars => IInv'
    <2> SUFFICES ASSUME IInv, [Next]_vars PROVE IInv'
      OBVIOUS
    <2>1. CASE Begin
      BY <2>1, BeginInvariant
    <2>2. CASE Step
      BY <2>2, StepInvariant
    <2>3. CASE UNCHANGED vars
      BY <2>3 DEF vars, IInv, TypeOK, LocalsOk, BuffersCoherent, ChunkOk, LookaheadOk,
                  Position, Waiting, Current, End, Tty
    <2>4. QED  BY <2>1, <2>2, <2>3 DEF Next
  <1>3. QED  BY <1>1, <1>2, PTL DEF Spec

(* Every variable of the reader keeps its type, whatever the file holds,   *)
(* however long the chunk is and whichever operations the program calls:   *)
(* the offset and the chunk's indexes never go negative (read.c).          *)
THEOREM TypeCorrect == Spec => []TypeOK
  <1>1. IInv => TypeOK
    BY DEF IInv
  <1>2. QED  BY <1>1, Invariant, PTL

(* The chunk, the buffer variable and the FILE's offset agree after every  *)
(* sequence of operations that does not mix get into buffered reading: no  *)
(* byte of the file is lost, repeated or replaced (read.c, getput.c).      *)
THEOREM Coherence == Spec => []BuffersCoherent
  <1>1. IInv => BuffersCoherent
    BY DEF IInv
  <1>2. QED  BY <1>1, Invariant, PTL

-----------------------------------------------------------------------------
(* The byte that is EOF once it is stored into a char.                     *)
LEMMA OnlyByte255IsEOF == \A b \in 0 .. 255 : SChar(b) = EOF => b = 255
  BY DEF SChar, EOF

(* What EofIsTrue says of a FileState s.                                   *)
AtEnd(s) ==
  \/ Position(s) = End
  \/ Position(s) > 0 /\ content[Position(s)] = 255

(* The byte that __get_text has just taken for EOF is the last one that    *)
(* has left the chunk; at the end of the file there is none.               *)
LEMMA NoCharacterAtEnd ==
  ASSUME Context, ~mixed, NEW s, Good(s), ReadChunkText(s).ch = EOF
  PROVE  AtEnd(GetText(s))
  <1>0. /\ s \in FileState
        /\ RecSize \in Nat \ {0}
        /\ End \in Nat
        /\ s.off \in Nat /\ s.readPos \in Nat /\ s.bufferSize \in Nat
        /\ s.readAhead \in {0, 1}
        /\ s.buffer \in [0 .. RecSize - 1 -> -128 .. 127]
        /\ s.off <= End
    BY TextReaderAssumption, EndNat DEF Good, FileState
  <1>e. EOF \in -128 .. 255
    BY DEF EOF
  <1>r. PICK r : r = GetText(s)
    OBVIOUS
  <1>1. CASE Tty /\ FGetC(s) # EOF
    BY <1>1 DEF ReadChunkText
  <1>2. CASE Tty /\ FGetC(s) = EOF
    <2>t. PICK t : t = [s EXCEPT !.readAhead = 0, !.bufferSize = 0]
      OBVIOUS
    <2>1. ReadChunkText(s).st = t
      BY <1>2, <2>t DEF ReadChunkText
    <2>2. t \in FileState
      BY <1>0, <2>t DEF FileState
    <2>3. t.off = s.off
      BY <1>0, <2>t DEF FileState
    <2>4. r.off = s.off /\ r.readAhead = 0
      BY <1>e, <1>r, <2>1, <2>2, <2>3, GetTextFields
    <2>5. s.off = End
      BY <1>0, <1>2, GetCType
    <2>6. QED  BY <1>0, <1>2, <1>r, <2>4, <2>5 DEF AtEnd, Position, Waiting
  <1>3. CASE ~Tty /\ s.readPos # s.bufferSize
    <2>p. PICK p \in Nat : p = s.readPos + 1
      BY <1>0
    <2>t. PICK t : t = [s EXCEPT !.readAhead = 1, !.readPos = p]
      OBVIOUS
    <2>1. s.readPos \in 1 .. s.bufferSize - 1 /\ s.bufferSize <= s.off
      BY <1>0, <1>3 DEF Good, ChunkOk
    <2>2. s.buffer[s.readPos] = EOF /\ ReadChunkText(s).st = t
      BY <1>3, <2>p, <2>t DEF ReadChunkText
    <2>3. t \in FileState
      BY <1>0, <2>p, <2>t DEF FileState
    <2>4. t.off = s.off /\ t.bufferSize = s.bufferSize /\ t.readPos = p
      BY <1>0, <2>p, <2>t DEF FileState
    <2>5. r.off = s.off /\ r.bufferSize = s.bufferSize /\ r.readPos = p /\ r.readAhead = 0
      BY <1>e, <1>r, <2>2, <2>3, <2>4, GetTextFields
    <2>k. PICK k \in Int : k = s.off - s.bufferSize + s.readPos + 1
      BY <1>0
    <2>6. k \in 1 .. End
      BY <1>0, <2>1, <2>k
    <2>7. content[k] = 255
      <3>1. s.readPos \in s.readPos .. s.bufferSize - 1
        BY <1>0, <2>1
      <3>2. SChar(content[k]) = EOF
        BY <1>3, <2>2, <2>k, <3>1 DEF Good, ChunkOk
      <3>3. content[k] \in 0 .. 255
        BY <2>6, ByteType
      <3>4. QED  BY <3>2, <3>3, OnlyByte255IsEOF
    <2>8. Position(r) = k
      <3>1. Position(r) = s.off - (s.bufferSize - p) - 0
        BY <1>3, <2>5 DEF Position, Waiting
      <3>2. QED  BY <1>0, <2>k, <2>p, <3>1
    <2>9. QED  BY <1>0, <1>r, <2>6, <2>7, <2>8 DEF AtEnd
  <1>4. CASE ~Tty /\ s.readPos = s.bufferSize /\ FReadCount(s) > 0
    <2>n. PICK n : n = FReadCount(s)
      OBVIOUS
    <2>b. PICK b : b = Filled(s)
      OBVIOUS
    <2>1. /\ n \in 1 .. RecSize
          /\ s.off + n <= End
          /\ b \in [0 .. RecSize - 1 -> -128 .. 127]
          /\ b[0] = SChar(content[s.off + 1])
      <3>1. /\ FReadCount(s) \in 0 .. RecSize
            /\ s.off + FReadCount(s) <= End
            /\ Filled(s) \in [0 .. RecSize - 1 -> -128 .. 127]
            /\ \A i \in 0 .. FReadCount(s) - 1 :
                 Filled(s)[i] = SChar(content[s.off + i + 1])
        BY <1>0, FillType
      <3>2. n \in 1 .. RecSize
        BY <1>0, <1>4, <2>n, <3>1
      <3>3. 0 \in 0 .. n - 1
        BY <1>0, <3>2
      <3>4. QED  BY <1>0, <2>n, <2>b, <3>1, <3>2, <3>3
    <2>o. PICK o \in Nat : o = s.off + n
      BY <1>0, <2>1
    <2>t. PICK t : t = [s EXCEPT !.off = o, !.buffer = b, !.bufferSize = n,
                                 !.readAhead = 1, !.readPos = 1]
      OBVIOUS
    <2>2. b[0] = EOF /\ ReadChunkText(s).st = t
      BY <1>4, <2>n, <2>b, <2>o, <2>t DEF ReadChunkText
    <2>3. t \in FileState
      <3>1. n \in Nat
        BY <1>0, <2>1
      <3>2. QED  BY <1>0, <2>t, <2>1, <3>1 DEF FileState
    <2>4. t.off = o /\ t.bufferSize = n /\ t.readPos = 1
      BY <1>0, <2>t DEF FileState
    <2>5. r.off = o /\ r.bufferSize = n /\ r.readPos = 1 /\ r.readAhead = 0
      BY <1>e, <1>r, <2>2, <2>3, <2>4, GetTextFields
    <2>6. s.off + 1 \in 1 .. End
      BY <1>0, <2>1
    <2>7. content[s.off + 1] = 255
      BY <2>1, <2>2, <2>6, ByteType, OnlyByte255IsEOF
    <2>8. Position(r) = s.off + 1
      <3>1. Position(r) = o - (n - 1) - 0
        BY <1>4, <2>5 DEF Position, Waiting
      <3>2. QED  BY <1>0, <2>1, <2>o, <3>1
    <2>9. QED  BY <1>0, <1>r, <2>6, <2>7, <2>8 DEF AtEnd
  <1>5. CASE ~Tty /\ s.readPos = s.bufferSize /\ ~(FReadCount(s) > 0)
    <2>1. ReadChunkText(s).st = s
      BY <1>5 DEF ReadChunkText
    <2>2. /\ r.off = s.off /\ r.bufferSize = s.bufferSize /\ r.readPos = s.readPos
          /\ r.readAhead = 0
      BY <1>0, <1>e, <1>r, <2>1, GetTextFields
    <2>3. s.off = End
      BY <1>0, <1>5 DEF FReadCount
    <2>4. Position(r) = s.off - (s.bufferSize - s.readPos) - 0
      BY <1>5, <2>2 DEF Position, Waiting
    <2>5. QED  BY <1>0, <1>5, <1>r, <2>3, <2>4 DEF AtEnd
  <1>6. QED  BY <1>1, <1>2, <1>3, <1>4, <1>5

(* A call that returns anything but the answer of eof.                     *)
LEMMA OtherAnswers ==
  ASSUME NEW op, op # "eof", NEW values, Answer(op, values)
  PROVE  EofIsTrue'
  BY DEF Answer, EofIsTrue

(* A loop of the runtime that goes on.                                     *)
LEMMA NoAnswerYet ==
  ASSUME NEW p \in Loops, pc' = p
  PROVE  EofIsTrue'
  BY DEF Loops, EofIsTrue

LEMMA EofStep ==
  ASSUME IInv, Eof
  PROVE  EofIsTrue'
  <1>0. Context /\ Good(f)
    BY InvariantGivesGood
  <1>1. /\ f' = Preread(f) /\ result' = [op |-> "eof", values |-> Truth(EofOf(f))]
        /\ UNCHANGED <<content, source, mixed>>
    BY DEF Eof, Call, Answer, Env
  <1>2. AtEnd(f)' <=> AtEnd(Preread(f))
    BY <1>1 DEF AtEnd, Position, Waiting, End, Tty
  <1>3. ASSUME result' = [op |-> "eof", values |-> Truth(TRUE)], ~mixed'
        PROVE  AtEnd(f)'
    <2>1. EofOf(f)
      BY <1>1, <1>3 DEF Truth
    <2>2. f.readAhead = 0 /\ ReadChunkText(f).ch = EOF
      <3>1. f.readAhead \in {0, 1}
        BY <1>0 DEF Good, FileState
      <3>2. QED  BY <2>1, <3>1 DEF EofOf, PrereadOk, GetTextOk
    <2>3. AtEnd(GetText(f))
      BY <1>0, <1>1, <1>3, <2>2, NoCharacterAtEnd
    <2>4. QED  BY <1>2, <2>2, <2>3 DEF Preread
  <1>4. QED  BY <1>3 DEF EofIsTrue, AtEnd

(* eof, answered TRUE, is right for every file, chunk size and source,     *)
(* after any sequence of buffered operations: the file has ended, or a     *)
(* byte 255 has just been taken for its end (__eof, __get_text of read.c). *)
THEOREM EofTruth == Spec => []EofIsTrue
  <1>1. Init => EofIsTrue
    BY DEF Init, EofIsTrue
  <1>2. IInv /\ EofIsTrue /\ [Next]_vars => EofIsTrue'
    <2> SUFFICES ASSUME IInv, EofIsTrue, [Next]_vars PROVE EofIsTrue'
      OBVIOUS
    <2>1. CASE Eof
      BY <2>1, EofStep
    <2>2. CASE Eoln \/ ReadChar \/ Get \/ Reset
      BY <2>2, OtherAnswers DEF Eoln, ReadChar, Get, Reset, Call
    <2>3. CASE ReadInt \/ ReadString \/ ReadChars \/ ReadLn
      BY <2>3, OtherAnswers, NoAnswerYet
         DEF ReadInt, ReadString, ReadChars, ReadLn, Call, Enter, Loops
    <2>4. CASE SkipSpaces \/ GetSign
      BY <2>4, NoAnswerYet DEF SkipSpaces, GetSign, Continue, Loops
    <2>5. CASE Digits
      BY <2>5, OtherAnswers, NoAnswerYet DEF Digits, Continue, Return, Loops
    <2>6. CASE StringLoop
      BY <2>6, OtherAnswers, NoAnswerYet DEF StringLoop, Continue, Return, Loops
    <2>7. CASE CharsLoop
      BY <2>7, OtherAnswers, NoAnswerYet DEF CharsLoop, Continue, Return, Loops
    <2>8. CASE SkipLine
      BY <2>8, OtherAnswers, NoAnswerYet DEF SkipLine, Continue, Return, Loops
    <2>9. CASE UNCHANGED vars
      BY <2>9 DEF vars, EofIsTrue, Position, Waiting, End, Tty
    <2>10. QED
      BY <2>1, <2>2, <2>3, <2>4, <2>5, <2>6, <2>7, <2>8, <2>9 DEF Next, Begin, Step
  <1>3. QED  BY <1>1, <1>2, Invariant, PTL DEF Spec

-----------------------------------------------------------------------------
(* That TextReader implements PascalText, for every chunk size, file and   *)
(* source, as long as the file holds no byte above 127 and the program     *)
(* does not mix get into buffered reading.  Everything the loops look at   *)
(* is the byte at Position, so each is proved against the scan of          *)
(* PascalText that it stands for.                                          *)

(* v is the function value of P!Decimal on p .. q.                         *)
IsValue(v, p, q) ==
  v = [i \in p .. q |-> IF i = p THEN 0 ELSE 10 * v[i - 1] + (P!At(i - 1) - P!Zero)]

LEMMA ValueUnique ==
  ASSUME NEW p \in Nat, NEW q \in Nat, NEW v, NEW w, IsValue(v, p, q), IsValue(w, p, q)
  PROVE  v = w
  <1> DEFINE Bad == {i \in p .. q : v[i] # w[i]}
  <1>1. CASE Bad = {}
    BY <1>1 DEF IsValue
  <1>2. CASE Bad # {}
    <2>1. Bad \subseteq Nat
      OBVIOUS
    <2>2. PICK k \in Bad : \A i \in Bad : <<i, k>> \notin OpToRel(<, Nat)
      <3> HIDE DEF Bad
      <3>1. QED  BY <1>2, <2>1, WFMin, NatLessThanWellFounded, Zenon
    <2>3. \A i \in p .. k - 1 : v[i] = w[i]
      <3>1. ASSUME NEW i \in p .. k - 1 PROVE i \in p .. q /\ i \in Nat /\ k \in Nat /\ i < k
        OBVIOUS
      <3>2. QED  BY <2>2, <3>1 DEF OpToRel
    <2>4. k \in p .. q /\ v[k] # w[k]
      OBVIOUS
    <2>5. k = p \/ k - 1 \in p .. k - 1
      BY <2>4
    <2>6. v[k] = w[k]
      BY <2>3, <2>4, <2>5 DEF IsValue
    <2>7. QED  BY <2>4, <2>6
  <1>3. QED  BY <1>1, <1>2

LEMMA DecimalIs ==
  ASSUME NEW p \in Nat, NEW q \in Nat, NEW v, IsValue(v, p, q)
  PROVE  P!Decimal(p, q) = v[q]
  <1>1. \A w : IsValue(w, p, q) => w = v
    BY ValueUnique
  <1>2. (CHOOSE w : IsValue(w, p, q)) = v
    BY <1>1
  <1>3. P!Decimal(p, q) = (CHOOSE w : IsValue(w, p, q))[q]
    BY DEF P!Decimal, IsValue
  <1>4. QED  BY <1>2, <1>3

LEMMA ValueExists ==
  ASSUME NEW p \in Nat, NEW q \in Nat, p <= q
  PROVE  \E v : IsValue(v, p, q)
  <1> DEFINE Bad == {n \in Nat : ~\E v : IsValue(v, p, p + n)}
  <1>1. CASE Bad = {}
    <2>1. q - p \in Nat /\ p + (q - p) = q
      OBVIOUS
    <2>2. QED  BY <1>1, <2>1
  <1>2. CASE Bad # {}
    <2>1. PICK k \in Bad : \A n \in Bad : <<n, k>> \notin OpToRel(<, Nat)
      <3>1. Bad \subseteq Nat
        OBVIOUS
      <3> HIDE DEF Bad
      <3>2. QED  BY <1>2, <3>1, WFMin, NatLessThanWellFounded, Zenon
    <2>2. k \in Nat /\ ~\E v : IsValue(v, p, p + k)
      OBVIOUS
    <2>3. CASE k = 0
      <3>1. PICK v : v = [i \in p .. p |-> 0]
        OBVIOUS
      <3>2. IsValue(v, p, p)
        BY <3>1 DEF IsValue
      <3>3. QED  BY <2>2, <2>3, <3>2
    <2>4. CASE k # 0
      <3>1. PICK m \in Nat : k = m + 1
        <4>1. k - 1 \in Nat /\ k = (k - 1) + 1
          BY <2>2, <2>4
        <4>2. QED  BY <4>1
      <3>2. m \notin Bad
        <4>1. m < k
          BY <3>1
        <4>2. QED  BY <2>1, <2>2, <3>1, <4>1 DEF OpToRel
      <3>3. PICK w : IsValue(w, p, p + m)
        BY <3>2
      <3>4. PICK v : v = [i \in p .. p + k |-> IF i = p THEN 0
                                               ELSE 10 * w[i - 1] + (P!At(i - 1) - P!Zero)]
        OBVIOUS
      <3>5. ASSUME NEW i \in p .. p + m
            PROVE  v[i] = w[i]
        <4>1. i \in p .. p + k
          BY <3>1
        <4>2. QED  BY <3>3, <3>4, <4>1 DEF IsValue
      <3>6. ASSUME NEW i \in p .. p + k, i # p
            PROVE  v[i - 1] = w[i - 1]
        <4>1. i - 1 \in p .. p + m
          BY <3>1, <3>6
        <4>2. QED  BY <3>5, <4>1
      <3>7. IsValue(v, p, p + k)
        BY <3>4, <3>6 DEF IsValue
      <3>8. QED  BY <2>2, <3>7
    <2>5. QED  BY <2>3, <2>4
  <1>3. QED  BY <1>1, <1>2

(* One more digit.                                                         *)
LEMMA DecimalStep ==
  ASSUME NEW p \in Nat, NEW q \in Nat, p <= q
  PROVE  /\ P!Decimal(p, p) = 0
         /\ P!Decimal(p, q + 1) = 10 * P!Decimal(p, q) + (P!At(q) - P!Zero)
  <1>1. P!Decimal(p, p) = 0
    <2>1. PICK v : v = [i \in p .. p |-> 0]
      OBVIOUS
    <2>2. IsValue(v, p, p)
      BY <2>1 DEF IsValue
    <2>3. QED  BY <2>1, <2>2, DecimalIs
  <1>2. PICK v : IsValue(v, p, q + 1)
    BY ValueExists
  <1>3. PICK w : w = [i \in p .. q |-> v[i]]
    OBVIOUS
  <1>4. \A i \in p .. q : i \in p .. q + 1
    OBVIOUS
  <1>5. \A i \in p .. q : i # p => i - 1 \in p .. q
    OBVIOUS
  <1>6. IsValue(w, p, q)
    BY <1>2, <1>3, <1>4, <1>5 DEF IsValue
  <1>7. P!Decimal(p, q) = v[q]
    BY <1>3, <1>6, DecimalIs
  <1>8. P!Decimal(p, q + 1) = v[q + 1]
    BY <1>2, DecimalIs
  <1>9. v[q + 1] = 10 * v[q] + (P!At(q) - P!Zero)
    BY <1>2 DEF IsValue
  <1>10. QED  BY <1>1, <1>7, <1>8, <1>9

-----------------------------------------------------------------------------
(* The scans of PascalText end where they are seen to end.                 *)

LEMMA BlanksEndIs ==
  ASSUME NEW p \in Nat, P!End \in Nat, NEW q \in p .. P!End,
         ~P!IsBlank(P!At(q)), \A i \in p .. q - 1 : P!IsBlank(P!At(i))
  PROVE  P!BlanksEnd(p) = q
  <1>1. ASSUME NEW r \in p .. P!End,
               ~P!IsBlank(P!At(r)), \A i \in p .. r - 1 : P!IsBlank(P!At(i))
        PROVE  r = q
    <2>1. ~(r \in p .. q - 1) /\ ~(q \in p .. r - 1)
      BY <1>1
    <2>2. QED  BY <2>1
  <1>2. QED  BY <1>1 DEF P!BlanksEnd

LEMMA DigitsEndIs ==
  ASSUME NEW p \in Nat, P!End \in Nat, NEW q \in p .. P!End,
         ~P!IsDigit(P!At(q)), \A i \in p .. q - 1 : P!IsDigit(P!At(i))
  PROVE  P!DigitsEnd(p) = q
  <1>1. ASSUME NEW r \in p .. P!End,
               ~P!IsDigit(P!At(r)), \A i \in p .. r - 1 : P!IsDigit(P!At(i))
        PROVE  r = q
    <2>1. ~(r \in p .. q - 1) /\ ~(q \in p .. r - 1)
      BY <1>1
    <2>2. QED  BY <2>1
  <1>2. QED  BY <1>1 DEF P!DigitsEnd

LEMMA LineEndIs ==
  ASSUME NEW p \in Nat, P!End \in Nat, NEW q \in p .. P!End,
         \A i \in p .. P!End - 1 : P!At(i) # P!EOF,
         P!At(q) \in {P!NL, P!EOF}, \A i \in p .. q - 1 : P!At(i) # P!NL
  PROVE  P!LineEnd(p) = q
  <1>1. ASSUME NEW r \in p .. P!End,
               P!At(r) \in {P!NL, P!EOF}, \A i \in p .. r - 1 : P!At(i) # P!NL
        PROVE  r = q
    <2>1. r \in p .. q - 1 => r \in p .. P!End - 1
      OBVIOUS
    <2>2. q \in p .. r - 1 => q \in p .. P!End - 1
      OBVIOUS
    <2>3. ~(r \in p .. q - 1)
      BY <1>1, <2>1
    <2>4. ~(q \in p .. r - 1)
      BY <1>1, <2>2
    <2>5. QED  BY <2>3, <2>4
  <1>2. QED  BY <1>1 DEF P!LineEnd

-----------------------------------------------------------------------------
(* The program's view of a FileState.                                      *)

Ascii == \A i \in 1 .. End : content[i] \in 0 .. 127

(* The current character of s is the byte at its position, or EOF.         *)
Looking(s) ==
  /\ Good(s)
  /\ Position(s) \in 0 .. End
  /\ s.readAhead = IF Position(s) < End THEN 1 ELSE 0
  /\ Current(s) = P!At(Position(s))

LEMMA AtIs ==
  ASSUME Context, Ascii, NEW i \in 0 .. End
  PROVE  /\ P!End = End /\ End \in Nat
         /\ P!At(i) \in -1 .. 127
         /\ P!At(i) = EOF <=> i = End
         /\ i < End => P!At(i) = content[i + 1] /\ SChar(content[i + 1]) = content[i + 1]
  <1>1. End \in Nat
    BY EndNat
  <1>2. P!End = End
    BY DEF P!End, End
  <1>3. P!At(i) = IF i < End THEN content[i + 1] ELSE -1
    BY <1>2 DEF P!At, P!EOF
  <1>4. i < End => content[i + 1] \in 0 .. 127
    BY <1>1 DEF Ascii
  <1>5. \A b \in 0 .. 127 : SChar(b) = b
    BY DEF SChar
  <1>6. QED  BY <1>1, <1>2, <1>3, <1>4, <1>5 DEF EOF

(* What is not consumed is waiting in the chunk or not read.               *)
LEMMA WaitingIs ==
  ASSUME Context, NEW s, Good(s)
  PROVE  /\ Waiting(s) \in 0 .. s.off
         /\ s.off \in 0 .. End
         /\ s.readAhead \in {0, 1}
         /\ Position(s) = s.off - Waiting(s) - s.readAhead
  <1>1. /\ s.off \in Nat /\ s.readPos \in Nat /\ s.bufferSize \in Nat /\ s.readAhead \in {0, 1}
        /\ s.off <= End /\ End \in Nat
    BY EndNat DEF Good, FileState
  <1>2. Waiting(s) \in 0 .. s.off
    BY <1>1 DEF Good, ChunkOk, Waiting
  <1>3. QED  BY <1>1, <1>2 DEF Position

(* A good state with a character read ahead shows it.                      *)
LEMMA ReadAheadLooks ==
  ASSUME Context, Ascii, ~mixed, NEW s, Good(s), s.readAhead = 1, Position(s) >= 0
  PROVE  Looking(s) /\ Position(s) < End
  <1>1. Position(s) < End /\ Current(s) = SChar(content[Position(s) + 1])
    BY DEF Good, LookaheadOk
  <1>2. Position(s) \in 0 .. End
    <2>1. Position(s) \in Int /\ End \in Nat
      BY PositionType, EndNat DEF Good
    <2>2. QED  BY <1>1, <2>1
  <1>3. P!At(Position(s)) = SChar(content[Position(s) + 1])
    BY <1>1, <1>2, AtIs
  <1>4. QED  BY <1>1, <1>2, <1>3 DEF Looking

LEMMA EndLooks ==
  ASSUME Context, Ascii, NEW s, Good(s), s.readAhead = 0, Position(s) = End, Current(s) = EOF
  PROVE  Looking(s)
  <1>1. End \in 0 .. End
    BY EndNat
  <1>2. P!At(End) = EOF
    BY <1>1, AtIs
  <1>3. QED  BY <1>1, <1>2 DEF Looking

(* __get_text moves to the byte behind what is consumed and read ahead, or *)
(* finds that there is none, whichever of the two buffers it comes from.   *)
LEMMA GetTextLooks ==
  ASSUME Context, Ascii, ~mixed, NEW s, Good(s),
         NEW n \in 0 .. End, n = s.off - Waiting(s)
  PROVE  /\ Looking(GetText(s))
         /\ Position(GetText(s)) = n
         /\ GetTextOk(s) <=> n < End
  <1>0. /\ s \in FileState
        /\ RecSize \in Nat \ {0}
        /\ End \in Nat
        /\ s.off \in Nat /\ s.readPos \in Nat /\ s.bufferSize \in Nat
        /\ s.readAhead \in {0, 1}
        /\ s.buffer \in [0 .. RecSize - 1 -> -128 .. 127]
        /\ s.off <= End
    BY TextReaderAssumption, EndNat DEF Good, FileState
  <1>e. EOF \in -128 .. 255 /\ SChar(EOF) = EOF
    BY DEF EOF, SChar
  <1>r. PICK r : r = GetText(s)
    OBVIOUS
  <1>g. Good(r)
    BY <1>r, GetTextGood
  <1>b. \A i \in 1 .. End : content[i] \in 0 .. 127 /\ SChar(content[i]) = content[i] /\ content[i] # EOF
    BY DEF Ascii, SChar, EOF
  (* It is enough to know the fields.                                      *)
  <1>y. ASSUME n < End, r.readAhead = 1, Position(r) = n, GetTextOk(s)
        PROVE  /\ Looking(GetText(s)) /\ Position(GetText(s)) = n
               /\ GetTextOk(s) <=> n < End
    <2>1. Position(r) >= 0
      BY <1>0, <1>y
    <2>2. QED  BY <1>r, <1>g, <1>y, <2>1, ReadAheadLooks
  <1>z. ASSUME n = End, r.readAhead = 0, Position(r) = n, ReadChunkText(s).ch = EOF, r.buffer[0] = EOF
        PROVE  /\ Looking(GetText(s)) /\ Position(GetText(s)) = n
               /\ GetTextOk(s) <=> n < End
    <2>1. ~GetTextOk(s) /\ ~(n < End)
      BY <1>0, <1>z DEF GetTextOk
    <2>2. Looking(r)
      BY <1>g, <1>z, EndLooks DEF Current
    <2>3. QED  BY <1>r, <1>z, <2>1, <2>2
  <1>1. CASE Tty /\ FGetC(s) # EOF
    <2>c. PICK c : c = FGetC(s)
      OBVIOUS
    <2>o. PICK o \in Nat : o = s.off + 1
      BY <1>0
    <2>t. PICK t : t = [s EXCEPT !.off = o, !.readAhead = 1, !.bufferSize = 1]
      OBVIOUS
    <2>1. ReadChunkText(s).ch = c /\ ReadChunkText(s).st = t
      BY <1>1, <2>c, <2>o, <2>t DEF ReadChunkText
    <2>2. s.off < End /\ c \in 0 .. 255 /\ c # EOF
      BY <1>0, <1>1, <2>c, GetCType
    <2>3. t \in FileState
      BY <1>0, <2>t DEF FileState
    <2>4. t.off = o /\ t.readAhead = 1
      BY <1>0, <2>t DEF FileState
    <2>5. r.off = o /\ r.readAhead = 1
      <3>1. c \in -128 .. 255
        BY <2>2
      <3>2. QED  BY <1>r, <2>1, <2>2, <2>3, <2>4, <3>1, GetTextFields
    <2>6. n = s.off
      BY <1>0, <1>1 DEF Waiting
    <2>7. Position(r) = n
      BY <1>0, <1>1, <2>5, <2>o, <2>6 DEF Position, Waiting
    <2>8. QED  BY <1>y, <2>1, <2>2, <2>5, <2>6, <2>7 DEF GetTextOk
  <1>2. CASE Tty /\ FGetC(s) = EOF
    <2>t. PICK t : t = [s EXCEPT !.readAhead = 0, !.bufferSize = 0]
      OBVIOUS
    <2>1. ReadChunkText(s).ch = EOF /\ ReadChunkText(s).st = t
      BY <1>2, <2>t DEF ReadChunkText
    <2>2. t \in FileState
      BY <1>0, <2>t DEF FileState
    <2>3. t.off = s.off
      BY <1>0, <2>t DEF FileState
    <2>4. r.off = s.off /\ r.readAhead = 0 /\ r.buffer[0] = EOF
      BY <1>e, <1>r, <2>1, <2>2, <2>3, GetTextFields
    <2>5. s.off = End /\ n = End
      BY <1>0, <1>2, GetCType DEF Waiting
    <2>6. Position(r) = n
      BY <1>0, <1>2, <2>4, <2>5 DEF Position, Waiting
    <2>7. QED  BY <1>z, <2>1, <2>4, <2>5, <2>6
  <1>3. CASE ~Tty /\ s.readPos # s.bufferSize
    <2>p. PICK p \in Nat : p = s.readPos + 1
      BY <1>0
    <2>c. PICK c : c = s.buffer[s.readPos]
      OBVIOUS
    <2>t. PICK t : t = [s EXCEPT !.readAhead = 1, !.readPos = p]
      OBVIOUS
    <2>1. s.readPos \in 1 .. s.bufferSize - 1 /\ s.bufferSize <= s.off /\ s.bufferSize <= RecSize
      BY <1>0, <1>3 DEF Good, ChunkOk
    <2>2. ReadChunkText(s).ch = c /\ ReadChunkText(s).st = t
      BY <1>3, <2>c, <2>p, <2>t DEF ReadChunkText
    <2>3. t \in FileState
      BY <1>0, <2>p, <2>t DEF FileState
    <2>4. t.off = s.off /\ t.bufferSize = s.bufferSize /\ t.readPos = p /\ t.readAhead = 1
      BY <1>0, <2>p, <2>t DEF FileState
    <2>5. c \in -128 .. 255 /\ c # EOF
      <3>1. PICK k \in 1 .. End : k = s.off - s.bufferSize + s.readPos + 1
        <4>1. s.off - s.bufferSize + s.readPos + 1 \in 1 .. End
          BY <1>0, <2>1
        <4>2. QED  BY <4>1
      <3>2. s.readPos \in s.readPos .. s.bufferSize - 1
        BY <1>0, <2>1
      <3>3. c = SChar(content[k])
        BY <1>3, <2>c, <3>1, <3>2 DEF Good, ChunkOk
      <3>4. c \in 0 .. 127 /\ c # EOF
        BY <1>b, <3>1, <3>3
      <3>5. QED  BY <3>4
    <2>6. r.off = s.off /\ r.bufferSize = s.bufferSize /\ r.readPos = p /\ r.readAhead = 1
      BY <1>r, <2>2, <2>3, <2>4, <2>5, GetTextFields
    <2>7. n = s.off - (s.bufferSize - s.readPos)
      BY <1>3 DEF Waiting
    <2>8. Position(r) = s.off - (s.bufferSize - p) - 1
      BY <1>3, <2>6 DEF Position, Waiting
    <2>9. Position(r) = n /\ n < End
      <3>1. n < End
        BY <1>0, <2>1, <2>7
      <3>2. \A x, y, z \in Nat : x - (y - (z + 1)) - 1 = x - (y - z)
        OBVIOUS
      <3>3. s.off - (s.bufferSize - (s.readPos + 1)) - 1 = s.off - (s.bufferSize - s.readPos)
        BY <1>0, <3>2
      <3>4. QED  BY <2>p, <2>7, <2>8, <3>1, <3>3
    <2>10. QED  BY <1>y, <2>2, <2>5, <2>6, <2>9 DEF GetTextOk
  <1>4. CASE ~Tty /\ s.readPos = s.bufferSize /\ FReadCount(s) > 0
    <2>n. PICK k : k = FReadCount(s)
      OBVIOUS
    <2>b. PICK b : b = Filled(s)
      OBVIOUS
    <2>1. /\ k \in 1 .. RecSize
          /\ s.off + k <= End
          /\ b \in [0 .. RecSize - 1 -> -128 .. 127]
          /\ b[0] = SChar(content[s.off + 1])
      <3>1. /\ FReadCount(s) \in 0 .. RecSize
            /\ s.off + FReadCount(s) <= End
            /\ Filled(s) \in [0 .. RecSize - 1 -> -128 .. 127]
            /\ \A i \in 0 .. FReadCount(s) - 1 :
                 Filled(s)[i] = SChar(content[s.off + i + 1])
        BY <1>0, FillType
      <3>2. k \in 1 .. RecSize
        BY <1>0, <1>4, <2>n, <3>1
      <3>3. 0 \in 0 .. k - 1
        BY <1>0, <3>2
      <3>4. s.off + 0 + 1 = s.off + 1
        BY <1>0
      <3>5. b[0] = SChar(content[s.off + 1])
        BY <2>n, <2>b, <3>1, <3>3, <3>4
      <3>6. QED  BY <2>n, <2>b, <3>1, <3>2, <3>5
    <2>o. PICK o \in Nat : o = s.off + k
      BY <1>0, <2>1
    <2>t. PICK t : t = [s EXCEPT !.off = o, !.buffer = b, !.bufferSize = k,
                                 !.readAhead = 1, !.readPos = 1]
      OBVIOUS
    <2>c. PICK c : c = b[0]
      OBVIOUS
    <2>2. ReadChunkText(s).ch = c /\ ReadChunkText(s).st = t
      BY <1>4, <2>n, <2>b, <2>c, <2>o, <2>t DEF ReadChunkText
    <2>3. t \in FileState
      <3>1. k \in Nat
        BY <1>0, <2>1
      <3>2. QED  BY <1>0, <2>t, <2>1, <3>1 DEF FileState
    <2>4. t.off = o /\ t.bufferSize = k /\ t.readPos = 1 /\ t.readAhead = 1
      BY <1>0, <2>t DEF FileState
    <2>5. c \in -128 .. 255 /\ c # EOF
      <3>1. s.off + 1 \in 1 .. End
        BY <1>0, <2>1
      <3>2. c \in 0 .. 127 /\ c # EOF
        BY <1>b, <2>1, <2>c, <3>1
      <3>3. QED  BY <3>2
    <2>6. r.off = o /\ r.bufferSize = k /\ r.readPos = 1 /\ r.readAhead = 1
      BY <1>r, <2>2, <2>3, <2>4, <2>5, GetTextFields
    <2>7. n = s.off - (s.bufferSize - s.readPos)
      BY <1>4 DEF Waiting
    <2>8. Position(r) = o - (k - 1) - 1
      BY <1>4, <2>6 DEF Position, Waiting
    <2>9. Position(r) = n /\ n < End
      BY <1>0, <1>4, <2>1, <2>o, <2>7, <2>8
    <2>10. QED  BY <1>y, <2>2, <2>5, <2>6, <2>9 DEF GetTextOk
  <1>5. CASE ~Tty /\ s.readPos = s.bufferSize /\ ~(FReadCount(s) > 0)
    <2>1. ReadChunkText(s).st = s /\ ReadChunkText(s).ch = EOF
      BY <1>5 DEF ReadChunkText
    <2>2. /\ r.off = s.off /\ r.bufferSize = s.bufferSize /\ r.readPos = s.readPos
          /\ r.readAhead = 0 /\ r.buffer[0] = EOF
      BY <1>0, <1>e, <1>r, <2>1, GetTextFields
    <2>3. s.off = End
      BY <1>0, <1>5 DEF FReadCount
    <2>4. n = s.off - (s.bufferSize - s.readPos)
      BY <1>5 DEF Waiting
    <2>5. Position(r) = s.off - (s.bufferSize - s.readPos) - 0
      BY <1>5, <2>2 DEF Position, Waiting
    <2>6. Position(r) = n /\ n = End
      BY <1>0, <1>5, <2>3, <2>4, <2>5
    <2>7. QED  BY <1>z, <2>1, <2>2, <2>6
  <1>6. QED  BY <1>1, <1>2, <1>3, <1>4, <1>5

(* file_preread moves nothing, and leaves the character at the position.   *)
LEMMA PrereadLooks ==
  ASSUME Context, Ascii, ~mixed, NEW s, Good(s), Position(s) \in 0 .. End
  PROVE  /\ Looking(Preread(s))
         /\ Position(Preread(s)) = Position(s)
         /\ PrereadOk(s) <=> Position(s) < End
  <1>1. CASE s.readAhead = 1
    <2>1. Preread(s) = s /\ PrereadOk(s)
      BY <1>1 DEF Preread, PrereadOk
    <2>2. Position(s) >= 0
      BY EndNat
    <2>3. QED  BY <1>1, <2>1, <2>2, ReadAheadLooks
  <1>2. CASE s.readAhead # 1
    <2>1. s.readAhead = 0 /\ Position(s) = s.off - Waiting(s)
      BY <1>2, WaitingIs
    <2>2. Preread(s) = GetText(s) /\ (PrereadOk(s) <=> GetTextOk(s))
      BY <2>1 DEF Preread, PrereadOk
    <2>3. QED  BY <2>1, <2>2, GetTextLooks
  <1>3. QED  BY <1>1, <1>2

(* __get_text when the current character is there consumes it.             *)
LEMMA NextLooks ==
  ASSUME Context, Ascii, ~mixed, NEW s, Looking(s)
  PROVE  /\ Looking(GetText(s))
         /\ Position(GetText(s)) = IF Position(s) < End THEN Position(s) + 1 ELSE End
         /\ GetTextOk(s) <=> Position(s) + 1 < End
  <1>1. /\ Good(s) /\ Position(s) \in 0 .. End /\ End \in Nat
        /\ s.readAhead = IF Position(s) < End THEN 1 ELSE 0
    BY EndNat DEF Looking
  <1>2. PICK n : n = IF Position(s) < End THEN Position(s) + 1 ELSE End
    OBVIOUS
  <1>3. n \in 0 .. End /\ (n < End <=> Position(s) + 1 < End)
    BY <1>1, <1>2
  <1>4. n = s.off - Waiting(s)
    BY <1>1, <1>2, WaitingIs
  <1>5. QED  BY <1>1, <1>2, <1>3, <1>4, GetTextLooks

-----------------------------------------------------------------------------
(* Where the loops have got to.                                            *)

BlankFrom(p, q)  == \A i \in p .. q - 1 : P!IsBlank(P!At(i))
DigitsFrom(p, q) == \A i \in p .. q - 1 : P!IsDigit(P!At(i))
LineFrom(p, q)   == \A i \in p .. q - 1 : P!At(i) # P!NL

(* n is the decimal value of the digits at positions p .. q - 1.           *)
Value(n, p, q) == \E v : IsValue(v, p, q) /\ v[q] = n

(* A number starts at b, behind the blanks, and its digits at d.           *)
Starts(b, d) ==
  /\ BlankFrom(base, b)
  /\ ~P!IsBlank(P!At(b))
  /\ d = IF P!At(b) \in {P!Minus, P!Plus} THEN b + 1 ELSE b
SignAt(b) == IF P!At(b) = P!Minus THEN -1 ELSE 1

(* The loop l is at position p with the locals a.                          *)
InLoop(l, p, a) ==
  /\ p \in 0 .. End
  /\ base \in 0 .. p
  /\ l \in {"spaces", "sign"} => a = <<1, 0>> /\ BlankFrom(base, p)
  /\ l = "sign" => ~P!IsBlank(P!At(p))
  /\ l = "digits" =>
       \E b, d \in base .. p, n \in Int :
         Starts(b, d) /\ DigitsFrom(d, p) /\ Value(n, d, p) /\ a = <<SignAt(b), n>>
  /\ l \in {"string", "chars", "skipline"} => LineFrom(base, p)
  /\ l \in {"string", "chars"} => a = P!Bytes(base, p)
  /\ l = "string" => p - base <= StrSize
  /\ l = "chars" => p < End \/ p = base
  /\ l = "skipline" => p < End

(* Between calls base is the position; in a loop it stays where the        *)
(* operation started, and every byte since has been seen.                  *)
View ==
  /\ Ascii
  /\ ~mixed
  /\ IF pc = "idle" THEN base = Position(f) /\ base \in 0 .. End
                    ELSE Looking(f) /\ InLoop(pc, Position(f), acc)

LEMMA InLoopFrame ==
  ASSUME content' = content, base' = base, NEW l, NEW p, NEW a
  PROVE  InLoop(l, p, a)' <=> InLoop(l, p, a)
  <1>1. End' = End
    BY DEF End
  <1>2. \A i : P!At(i)' = P!At(i)
    BY DEF P!At, P!End
  <1>3. \A i : P!IsBlank(P!At(i))' <=> P!IsBlank(P!At(i))
    BY <1>2 DEF P!IsBlank, P!NL, P!SPACE
  <1>4. \A i : P!IsDigit(P!At(i))' <=> P!IsDigit(P!At(i))
    BY <1>2 DEF P!IsDigit, P!Zero
  <1>5. P!Bytes(base, p)' = P!Bytes(base, p)
    BY DEF P!Bytes
  <1>6. \A q, r : BlankFrom(q, r)' <=> BlankFrom(q, r)
    BY <1>3 DEF BlankFrom
  <1>7. \A q, r : DigitsFrom(q, r)' <=> DigitsFrom(q, r)
    BY <1>4 DEF DigitsFrom
  <1>8. LineFrom(base, p)' <=> LineFrom(base, p)
    BY <1>2 DEF LineFrom, P!NL
  <1>9. \A n, q, r : Value(n, q, r)' <=> Value(n, q, r)
    BY <1>2 DEF Value, IsValue, P!Zero
  <1>10. \A b, d : Starts(b, d)' <=> Starts(b, d)
    BY <1>2, <1>3, <1>6 DEF Starts, P!Minus, P!Plus
  <1>11. \A b : SignAt(b)' = SignAt(b)
    BY <1>2 DEF SignAt, P!Minus
  <1>12. QED
    BY <1>1, <1>3, <1>5, <1>6, <1>7, <1>8, <1>9, <1>10, <1>11 DEF InLoop

LEMMA LookingFrame ==
  ASSUME content' = content, source' = source, mixed' = mixed, NEW s
  PROVE  /\ Ascii' <=> Ascii
         /\ End' = End
         /\ Position(s)' = Position(s)
         /\ Looking(s)' <=> Looking(s)
  <1>1. End' = End /\ (Ascii' <=> Ascii)
    BY DEF End, Ascii
  <1>2. Tty' <=> Tty
    BY DEF Tty
  <1>3. Position(s)' = Position(s) /\ Waiting(s)' = Waiting(s)
    BY <1>2 DEF Position, Waiting
  <1>4. Good(s)' <=> Good(s)
    BY <1>1, <1>2, <1>3 DEF Good, ChunkOk, LookaheadOk, Current
  <1>5. \A i : P!At(i)' = P!At(i)
    BY DEF P!At, P!End
  <1>6. QED  BY <1>1, <1>3, <1>4, <1>5 DEF Looking, Current

(* A step that goes on in a loop is not seen by PascalText.                *)
LEMMA ToLoop ==
  ASSUME View, NEW s, Looking(s), NEW l \in Loops, NEW a, InLoop(l, Position(s), a),
         Enter(l, s, a) \/ Continue(l, s, a)
  PROVE  View' /\ UNCHANGED P!vars
  <1>1. /\ f' = s /\ pc' = l /\ acc' = a /\ base' = base /\ result' = result
        /\ content' = content /\ source' = source /\ mixed' = mixed
    BY DEF Enter, Continue, Env
  <1>2. InLoop(l, Position(s), a)'
    <2>1. PICK p : p = Position(s)
      OBVIOUS
    <2>2. InLoop(l, p, a)'
      BY <1>1, <2>1, InLoopFrame
    <2>3. Position(s)' = p
      BY <1>1, <2>1, LookingFrame
    <2>4. QED  BY <2>2, <2>3
  <1>3. Looking(s)' /\ Ascii'
    BY <1>1, LookingFrame DEF View
  <1>4. View'
    BY <1>1, <1>2, <1>3 DEF View, Loops
  <1>5. QED  BY <1>1, <1>4 DEF P!vars

(* A call that returns answers and moves the position.                     *)
LEMMA ToIdle ==
  ASSUME View, NEW s, Position(s) \in 0 .. End, NEW op, NEW values,
         Call(op, s, values) \/ Return(op, s, values)
  PROVE  /\ View'
         /\ P!Answer(op, values)
         /\ base' = Position(s)
         /\ content' = content
  <1>1. /\ f' = s /\ pc' = "idle" /\ base' = Position(s)
        /\ content' = content /\ source' = source /\ mixed' = mixed
        /\ P!Answer(op, values)
    BY DEF Call, Return, Env, Answer, P!Answer
  <1>2. Position(s)' = Position(s) /\ End' = End /\ Ascii'
    BY <1>1, LookingFrame DEF View
  <1>3. View'
    BY <1>1, <1>2 DEF View
  <1>4. QED  BY <1>1, <1>3

(* In a loop: what the current character is.                               *)
LEMMA Here ==
  ASSUME Context, View, pc # "idle", NEW p, p = Position(f)
  PROVE  /\ Good(f) /\ Looking(f) /\ ~mixed /\ Ascii
         /\ End \in Nat /\ P!End = End
         /\ p \in 0 .. End /\ base \in 0 .. p
         /\ Current(f) = P!At(p)
         /\ P!At(p) \in -1 .. 127
         /\ P!At(p) = EOF <=> p = End
         /\ InLoop(pc, p, acc)
         /\ Looking(GetText(f))
         /\ Position(GetText(f)) = IF p < End THEN p + 1 ELSE End
         /\ GetTextOk(f) <=> p + 1 < End
         /\ Looking(Preread(f))
         /\ Position(Preread(f)) = p
         /\ PrereadOk(f) <=> p < End
         /\ Current(Preread(f)) = P!At(p)
         /\ \A i \in base .. P!End - 1 : P!At(i) # P!EOF
  <1>1. Ascii /\ ~mixed /\ Looking(f) /\ InLoop(pc, p, acc)
    BY DEF View
  <1>2. Good(f) /\ p \in 0 .. End /\ Current(f) = P!At(p) /\ base \in 0 .. p /\ End \in Nat
    BY <1>1, EndNat DEF Looking, InLoop
  <1>3. /\ Looking(GetText(f))
        /\ Position(GetText(f)) = IF p < End THEN p + 1 ELSE End
        /\ GetTextOk(f) <=> p + 1 < End
    BY <1>1, <1>2, NextLooks
  <1>4. /\ Looking(Preread(f))
        /\ Position(Preread(f)) = p
        /\ PrereadOk(f) <=> p < End
    BY <1>1, <1>2, PrereadLooks
  <1>5. Current(Preread(f)) = P!At(p)
    BY <1>4 DEF Looking
  <1>6. P!End = End /\ P!At(p) \in -1 .. 127 /\ (P!At(p) = EOF <=> p = End)
    BY <1>1, <1>2, AtIs
  <1>7. ASSUME NEW i \in base .. P!End - 1
        PROVE  P!At(i) # P!EOF
    <2>1. i \in 0 .. End /\ i # End
      BY <1>2, <1>6
    <2>2. QED  BY <1>1, <2>1, AtIs DEF EOF, P!EOF
  <1>8. QED  BY <1>1, <1>2, <1>3, <1>4, <1>5, <1>6, <1>7

-----------------------------------------------------------------------------
(* The calls.                                                              *)

LEMMA Called ==
  ASSUME Context, Good(f), View, pc = "idle"
  PROVE  /\ base = Position(f) /\ base \in 0 .. End /\ End \in Nat /\ P!End = End
         /\ ~mixed /\ Ascii
         /\ Looking(Preread(f)) /\ Position(Preread(f)) = base
         /\ PrereadOk(f) <=> base < End
         /\ Current(Preread(f)) = P!At(base)
         /\ Looking(GetText(Preread(f)))
         /\ Position(GetText(Preread(f))) = IF base < End THEN base + 1 ELSE End
         /\ P!At(base) = EOF <=> base = End
         /\ P!AtEnd <=> base = End
  <1>1. Ascii /\ ~mixed /\ base = Position(f) /\ base \in 0 .. End /\ End \in Nat
    BY EndNat DEF View
  <1>2. /\ Looking(Preread(f)) /\ Position(Preread(f)) = base
        /\ PrereadOk(f) <=> base < End
    BY <1>1, PrereadLooks
  <1>3. Current(Preread(f)) = P!At(base)
    BY <1>2 DEF Looking
  <1>4. /\ Looking(GetText(Preread(f)))
        /\ Position(GetText(Preread(f))) = IF base < End THEN base + 1 ELSE End
    BY <1>1, <1>2, NextLooks
  <1>5. P!End = End /\ (P!At(base) = EOF <=> base = End)
    BY <1>1, AtIs
  <1>6. P!AtEnd <=> base = End
    BY <1>5 DEF P!AtEnd
  <1>7. QED  BY <1>1, <1>2, <1>3, <1>4, <1>5, <1>6

LEMMA AsksAndReads ==
  ASSUME Context, Good(f), View, Eof \/ Eoln \/ ReadChar
  PROVE  View' /\ (P!Eof \/ P!Eoln \/ P!ReadChar)
  <1>1. pc = "idle"
    BY DEF Eof, Eoln, ReadChar, Call
  <1>2. /\ base \in 0 .. End /\ End \in Nat
        /\ Position(Preread(f)) = base
        /\ PrereadOk(f) <=> base < End
        /\ Current(Preread(f)) = P!At(base)
        /\ Position(GetText(Preread(f))) = IF base < End THEN base + 1 ELSE End
        /\ P!At(base) = EOF <=> base = End
        /\ P!AtEnd <=> base = End
    BY <1>1, Called
  <1>3. CASE Eof
    <2>1. Truth(EofOf(f)) = P!Truth(P!AtEnd)
      BY <1>2 DEF EofOf, Truth, P!Truth
    <2>2. Call("eof", Preread(f), P!Truth(P!AtEnd))
      BY <1>3, <2>1 DEF Eof
    <2>3. View' /\ P!Answer("eof", P!Truth(P!AtEnd)) /\ base' = base /\ content' = content
      BY <1>2, <2>2, ToIdle
    <2>4. QED  BY <2>3 DEF P!Eof
  <1>4. CASE Eoln
    <2>1. Truth(EolnOf(f)) = P!Truth(P!At(base) \in {P!NL, P!EOF})
      BY <1>2 DEF EolnOf, Truth, P!Truth, NL, EOF, P!NL, P!EOF
    <2>2. Call("eoln", Preread(f), P!Truth(P!At(base) \in {P!NL, P!EOF}))
      BY <1>4, <2>1 DEF Eoln
    <2>3. /\ View' /\ base' = base /\ content' = content
          /\ P!Answer("eoln", P!Truth(P!At(base) \in {P!NL, P!EOF}))
      BY <1>2, <2>2, ToIdle
    <2>4. QED  BY <2>3 DEF P!Eoln
  <1>5. CASE ReadChar
    <2>1. Call("char", GetText(Preread(f)), <<P!At(base)>>)
      BY <1>2, <1>5 DEF ReadChar
    <2>2. Position(GetText(Preread(f))) \in 0 .. End
      BY <1>2
    <2>3. /\ View' /\ base' = Position(GetText(Preread(f))) /\ content' = content
          /\ P!Answer("char", <<P!At(base)>>)
      BY <2>1, <2>2, ToIdle
    <2>4. base' = IF P!AtEnd THEN base ELSE base + 1
      BY <1>2, <2>3
    <2>5. QED  BY <2>3, <2>4 DEF P!ReadChar
  <1>6. QED  BY <1>3, <1>4, <1>5

(* The calls that start a loop.                                            *)
LEMMA Entered ==
  ASSUME Context, Good(f), View, ReadInt \/ ReadString \/ ReadChars
  PROVE  View' /\ UNCHANGED P!vars
  <1>1. pc = "idle"
    BY DEF ReadInt, ReadString, ReadChars, Enter
  <1>2. PICK s : s = Preread(f)
    OBVIOUS
  <1>3. Looking(s) /\ Position(s) = base /\ base \in 0 .. End /\ End \in Nat
    BY <1>1, <1>2, Called
  <1>4. BlankFrom(base, base) /\ LineFrom(base, base)
    BY <1>3 DEF BlankFrom, LineFrom
  <1>5. P!Bytes(base, base) = <<>>
    BY <1>3, SubSeqEmpty DEF P!Bytes
  <1>6. base - base <= StrSize
    BY <1>3, TextReaderAssumption
  <1>7. CASE ReadInt
    <2>1. InLoop("spaces", Position(s), <<1, 0>>)
      BY <1>3, <1>4 DEF InLoop
    <2>2. Enter("spaces", s, <<1, 0>>)
      BY <1>2, <1>7 DEF ReadInt
    <2>3. QED  BY <1>3, <2>1, <2>2, ToLoop DEF Loops
  <1>8. CASE ReadString
    <2>1. InLoop("string", Position(s), <<>>)
      BY <1>3, <1>4, <1>5, <1>6 DEF InLoop
    <2>2. Enter("string", s, <<>>)
      BY <1>2, <1>8 DEF ReadString
    <2>3. QED  BY <1>3, <2>1, <2>2, ToLoop DEF Loops
  <1>9. CASE ReadChars
    <2>1. InLoop("chars", Position(s), <<>>)
      BY <1>3, <1>4, <1>5 DEF InLoop
    <2>2. Enter("chars", s, <<>>)
      BY <1>2, <1>9 DEF ReadChars
    <2>3. QED  BY <1>3, <2>1, <2>2, ToLoop DEF Loops
  <1>10. QED  BY <1>7, <1>8, <1>9

(* readln has nothing to skip at the end of the file.                      *)
LEMMA ReadLnEntered ==
  ASSUME Context, Good(f), View, ReadLn
  PROVE  View' /\ (P!ReadLn \/ UNCHANGED P!vars)
  <1>1. pc = "idle"
    BY DEF ReadLn, Enter, Call
  <1>2. PICK s : s = Preread(f)
    OBVIOUS
  <1>3. /\ Looking(s) /\ Position(s) = base /\ base \in 0 .. End /\ End \in Nat
        /\ P!End = End
        /\ PrereadOk(f) <=> base < End
        /\ P!At(base) = EOF <=> base = End
    BY <1>1, <1>2, Called
  <1>4. CASE base < End
    <2>1. LineFrom(base, base)
      BY <1>3 DEF LineFrom
    <2>2. InLoop("skipline", Position(s), <<>>)
      BY <1>3, <1>4, <2>1 DEF InLoop
    <2>3. Enter("skipline", s, <<>>)
      BY <1>2, <1>3, <1>4 DEF ReadLn
    <2>4. QED  BY <1>3, <2>2, <2>3, ToLoop DEF Loops
  <1>5. CASE ~(base < End)
    <2>1. base = End /\ P!At(base) = P!EOF
      BY <1>3, <1>5 DEF EOF, P!EOF
    <2>2. P!LineEnd(base) = base
      BY <1>3, <2>1, LineEndIs
    <2>3. Call("nl", s, <<>>)
      BY <1>2, <1>3, <1>5 DEF ReadLn
    <2>4. View' /\ P!Answer("nl", <<>>) /\ base' = base /\ content' = content
      BY <1>3, <2>3, ToIdle
    <2>5. QED  BY <1>3, <2>1, <2>2, <2>4 DEF P!ReadLn
  <1>6. QED  BY <1>4, <1>5

(* A get that does not stray consumes the current character: there is one, *)
(* and nothing waits in the chunk.                                         *)
LEMMA GetImplements ==
  ASSUME Context, Good(f), View, MixGet = FALSE, Get
  PROVE  View' /\ P!Get
  <1>1. /\ pc = "idle" /\ ~Strays(f)
        /\ f' = GetOf(f) /\ pc' = pc
        /\ base' = Position(GetOf(f))
        /\ mixed' = (mixed \/ Strays(f))
        /\ P!Answer("get", Truth(FGetC(f) # EOF))
        /\ content' = content /\ source' = source
    BY DEF Get, Env, Answer, P!Answer
  <1>2. /\ base = Position(f) /\ base \in 0 .. End /\ End \in Nat /\ P!End = End
        /\ ~mixed /\ Ascii
    BY <1>1, Called
  <1>3. f.readAhead = 1 /\ Waiting(f) = 0
    BY <1>1, WaitingIs DEF Strays
  <1>4. f.off = base + 1 /\ f \in FileState /\ f.off <= End
    BY <1>2, <1>3, WaitingIs DEF Good
  <1>5. ~P!AtEnd
    BY <1>2, <1>4 DEF P!AtEnd
  <1>6. FGetC(f) # EOF <=> base + 1 < End
    BY <1>2, <1>4, GetCType
  <1>7. PICK r : r = GetOf(f)
    OBVIOUS
  <1>8. /\ r.readPos = f.readPos /\ r.bufferSize = f.bufferSize
        /\ f.off < End => r.off = f.off + 1 /\ r.readAhead = 1
        /\ f.off = End => r.off = f.off /\ r.readAhead = 0
    BY <1>4, <1>7, GetFields
  <1>9. Waiting(r) = 0
    BY <1>3, <1>8 DEF Waiting
  <1>10. Position(r) = base + 1
    BY <1>2, <1>4, <1>8, <1>9 DEF Position
  <1>11. base' = base + 1
    BY <1>1, <1>7, <1>10
  <1>12. ~mixed'
    BY <1>1, <1>2
  <1>13. View'
    <2>1. Position(r)' = Position(r) /\ End' = End /\ Ascii'
      <3>1. mixed = FALSE /\ (mixed \/ Strays(f)) = FALSE
        BY <1>1, <1>2, Zenon DEF Context
      <3>2. QED  BY <1>1, <1>2, <3>1, LookingFrame
    <2>2. Position(f)' = base'
      BY <1>1, <1>7, <2>1
    <2>3. base' \in 0 .. End'
      BY <1>2, <1>4, <1>11, <2>1
    <2>4. QED  BY <1>1, <1>12, <2>1, <2>2, <2>3 DEF View
  <1>14. Truth(FGetC(f) # EOF) = P!Truth(base + 1 < P!End)
    BY <1>2, <1>6 DEF Truth, P!Truth
  <1>15. QED  BY <1>1, <1>5, <1>11, <1>13, <1>14 DEF P!Get

LEMMA AtStart ==
  ASSUME Context
  PROVE  /\ Position(Opened) = 0
         /\ Position(GetOf(Opened)) = 0
         /\ 0 \in 0 .. End
  <1>1. End \in Nat
    BY EndNat
  <1>2. PICK r : r = GetOf(Opened)
    OBVIOUS
  <1>3. /\ Opened.off = 0 /\ Opened.readPos = 0 /\ Opened.bufferSize = 0 /\ Opened.readAhead = 0
        /\ r.readPos = 0 /\ r.bufferSize = 0
        /\ 0 < End => r.off = 1 /\ r.readAhead = 1
        /\ 0 = End => r.off = 0 /\ r.readAhead = 0
    BY <1>2, OpenedFields
  <1>4. Waiting(Opened) = 0 /\ Waiting(r) = 0
    BY <1>3 DEF Waiting
  <1>5. QED  BY <1>1, <1>2, <1>3, <1>4 DEF Position

LEMMA ResetImplements ==
  ASSUME Context, View, Reset
  PROVE  View' /\ P!Reset
  <1>1. /\ pc = "idle" /\ pc' = "idle" /\ f' = GetOf(Opened) /\ base' = 0 /\ mixed' = FALSE
        /\ P!Answer("reset", <<>>)
        /\ content' = content /\ source' = source
    BY DEF Reset, Env, Answer, P!Answer
  <1>2. PICK r : r = GetOf(Opened)
    OBVIOUS
  <1>3. Position(r) = 0 /\ 0 \in 0 .. End
    BY <1>2, AtStart
  <1>4. Position(r)' = Position(r) /\ End' = End /\ Ascii'
    <2>1. mixed = FALSE
      BY Zenon DEF Context, View
    <2>2. QED  BY <1>1, <2>1, LookingFrame DEF View
  <1>5. View'
    BY <1>1, <1>2, <1>3, <1>4 DEF View
  <1>6. QED  BY <1>1, <1>5 DEF P!Reset

-----------------------------------------------------------------------------
(* The iterations of the loops.                                            *)

LEMMA OneMore ==
  ASSUME NEW p \in Nat, NEW q \in Nat, p <= q
  PROVE  /\ BlankFrom(p, q) /\ P!IsBlank(P!At(q)) => BlankFrom(p, q + 1)
         /\ DigitsFrom(p, q) /\ P!IsDigit(P!At(q)) => DigitsFrom(p, q + 1)
         /\ LineFrom(p, q) /\ P!At(q) # P!NL => LineFrom(p, q + 1)
  <1>1. \A i \in p .. (q + 1) - 1 : i = q \/ i \in p .. q - 1
    OBVIOUS
  <1>2. QED  BY <1>1 DEF BlankFrom, DigitsFrom, LineFrom

LEMMA SkipSpacesStep ==
  ASSUME Context, View, SkipSpaces
  PROVE  View' /\ UNCHANGED P!vars
  <1>1. PICK p : p = Position(f)
    OBVIOUS
  <1>2. pc = "spaces" /\ pc # "idle"
    BY DEF SkipSpaces
  <1>3. /\ Looking(f) /\ End \in Nat
        /\ p \in 0 .. End /\ base \in 0 .. p
        /\ Current(f) = P!At(p)
        /\ P!At(p) = EOF <=> p = End
        /\ InLoop(pc, p, acc)
        /\ PrereadOk(f) <=> p < End
        /\ Looking(GetText(f))
        /\ Position(GetText(f)) = IF p < End THEN p + 1 ELSE End
    BY <1>1, <1>2, Here
  <1>4. acc = <<1, 0>> /\ BlankFrom(base, p)
    BY <1>2, <1>3 DEF InLoop
  <1>5. IsSpace(Current(f)) <=> P!IsBlank(P!At(p))
    BY <1>3 DEF IsSpace, P!IsBlank, NL, SPACE, P!NL, P!SPACE
  <1>6. CASE P!IsBlank(P!At(p))
    <2>1. p < End
      <3>1. P!At(p) # EOF
        BY <1>6 DEF P!IsBlank, P!NL, P!SPACE, EOF
      <3>2. QED  BY <1>3, <3>1
    <2>2. Preread(f) = f
      BY <1>1, <1>3, <2>1 DEF Looking, Preread
    <2>3. Continue("spaces", GetText(f), <<1, 0>>)
      BY <1>3, <1>4, <1>5, <1>6, <2>1, <2>2 DEF SkipSpaces, EofOf
    <2>4. BlankFrom(base, p + 1)
      BY <1>3, <1>4, <1>6, OneMore
    <2>5. InLoop("spaces", Position(GetText(f)), <<1, 0>>)
      BY <1>3, <2>1, <2>4 DEF InLoop
    <2>6. QED  BY <1>3, <2>3, <2>5, ToLoop DEF Loops
  <1>7. CASE ~P!IsBlank(P!At(p))
    <2>1. Continue("sign", f, <<1, 0>>)
      BY <1>4, <1>5, <1>7 DEF SkipSpaces
    <2>2. InLoop("sign", Position(f), <<1, 0>>)
      BY <1>1, <1>3, <1>4, <1>7 DEF InLoop
    <2>3. QED  BY <1>3, <2>1, <2>2, ToLoop DEF Loops
  <1>8. QED  BY <1>6, <1>7

LEMMA GetSignStep ==
  ASSUME Context, View, GetSign
  PROVE  View' /\ UNCHANGED P!vars
  <1>1. PICK p : p = Position(f)
    OBVIOUS
  <1>2. pc = "sign" /\ pc # "idle"
    BY DEF GetSign
  <1>3. /\ Looking(f) /\ End \in Nat
        /\ p \in 0 .. End /\ base \in 0 .. p
        /\ Current(f) = P!At(p)
        /\ P!At(p) = EOF <=> p = End
        /\ InLoop(pc, p, acc)
        /\ Looking(GetText(f))
        /\ Position(GetText(f)) = IF p < End THEN p + 1 ELSE End
    BY <1>1, <1>2, Here
  <1>4. acc = <<1, 0>> /\ BlankFrom(base, p) /\ ~P!IsBlank(P!At(p))
    BY <1>2, <1>3 DEF InLoop
  <1>5. ASSUME NEW d \in Nat
        PROVE  Value(0, d, d) /\ DigitsFrom(d, d)
    <2>1. PICK v : IsValue(v, d, d)
      BY ValueExists
    <2>2. v[d] = 0
      BY <2>1 DEF IsValue
    <2>3. QED  BY <2>1, <2>2 DEF Value, DigitsFrom
  <1>6. CASE P!At(p) \in {P!Minus, P!Plus}
    <2>1. p < End
      <3>1. P!At(p) # EOF
        BY <1>6 DEF P!Minus, P!Plus, EOF
      <3>2. QED  BY <1>3, <3>1
    <2>2. Continue("digits", GetText(f), <<SignAt(p), 0>>)
      BY <1>3, <1>6 DEF GetSign, SignAt, Minus, Plus, P!Minus, P!Plus
    <2>3. Starts(p, p + 1)
      BY <1>4, <1>6 DEF Starts
    <2>4. p \in base .. p + 1 /\ p + 1 \in base .. p + 1 /\ p + 1 \in Nat /\ p + 1 \in 0 .. End
          /\ base \in 0 .. p + 1
      BY <1>3, <2>1
    <2>5. Value(0, p + 1, p + 1) /\ DigitsFrom(p + 1, p + 1)
      BY <1>5, <2>4
    <2>6. InLoop("digits", p + 1, <<SignAt(p), 0>>)
      BY <2>3, <2>4, <2>5 DEF InLoop
    <2>7. Position(GetText(f)) = p + 1
      BY <1>3, <2>1
    <2>8. QED  BY <1>3, <2>2, <2>6, <2>7, ToLoop DEF Loops
  <1>7. CASE P!At(p) \notin {P!Minus, P!Plus}
    <2>1. SignAt(p) = 1
      BY <1>7 DEF SignAt
    <2>2. Continue("digits", f, <<SignAt(p), 0>>)
      BY <1>3, <1>4, <1>7, <2>1 DEF GetSign, Minus, Plus, P!Minus, P!Plus
    <2>3. Starts(p, p)
      BY <1>4, <1>7 DEF Starts
    <2>4. p \in base .. p /\ p \in Nat
      BY <1>3
    <2>5. Value(0, p, p) /\ DigitsFrom(p, p)
      BY <1>5, <2>4
    <2>6. InLoop("digits", p, <<SignAt(p), 0>>)
      BY <1>3, <2>3, <2>4, <2>5 DEF InLoop
    <2>7. QED  BY <1>1, <1>3, <2>2, <2>6, ToLoop DEF Loops
  <1>8. QED  BY <1>6, <1>7

(* The digits that have been seen are the number that PascalText reads.    *)
LEMMA NumberRead ==
  ASSUME base \in Nat, P!End \in Nat, NEW b \in base .. P!End, NEW d \in base .. P!End,
         NEW e \in d .. P!End, NEW n, Starts(b, d), DigitsFrom(d, e), ~P!IsDigit(P!At(e)),
         Value(n, d, e), P!Answer("int", <<SignAt(b) * n>>), base' = e, content' = content
  PROVE  P!ReadInt
  <1>1. P!BlanksEnd(base) = b
    BY BlanksEndIs DEF Starts, BlankFrom
  <1>2. d \in Nat /\ e \in Nat
    OBVIOUS
  <1>3. P!DigitsEnd(d) = e
    BY <1>2, DigitsEndIs DEF DigitsFrom
  <1>4. P!Decimal(d, e) = n
    BY <1>2, DecimalIs DEF Value
  <1>5. d = IF P!At(b) \in {P!Minus, P!Plus} THEN b + 1 ELSE b
    BY DEF Starts
  <1>6. QED  BY <1>1, <1>3, <1>4, <1>5 DEF P!ReadInt, SignAt

LEMMA DigitsStep ==
  ASSUME Context, View, Digits
  PROVE  View' /\ (P!ReadInt \/ UNCHANGED P!vars)
  <1>1. PICK p : p = Position(f)
    OBVIOUS
  <1>2. pc = "digits" /\ pc # "idle"
    BY DEF Digits
  <1>3. /\ Looking(f) /\ End \in Nat /\ P!End = End
        /\ p \in 0 .. End /\ base \in 0 .. p
        /\ Current(f) = P!At(p) /\ P!At(p) \in -1 .. 127
        /\ P!At(p) = EOF <=> p = End
        /\ InLoop(pc, p, acc)
        /\ Looking(GetText(f))
        /\ Position(GetText(f)) = IF p < End THEN p + 1 ELSE End
        /\ GetTextOk(f) <=> p + 1 < End
    BY <1>1, <1>2, Here
  <1>4. PICK b \in base .. p, d \in base .. p, n \in Int :
          Starts(b, d) /\ DigitsFrom(d, p) /\ Value(n, d, p) /\ acc = <<SignAt(b), n>>
    BY <1>2, <1>3 DEF InLoop
  <1>5. acc[1] = SignAt(b) /\ acc[2] = n
    BY <1>4
  <1>6. IsDigit(Current(f)) <=> P!IsDigit(P!At(p))
    BY <1>3 DEF IsDigit, P!IsDigit, Zero, P!Zero
  <1>7. PICK m \in Int : m = 10 * n + (P!At(p) - P!Zero)
    BY <1>3 DEF P!Zero
  <1>8. m = 10 * acc[2] + (Current(f) - Zero)
    BY <1>3, <1>5, <1>7 DEF Zero, P!Zero
  <1>9. base \in Nat /\ d \in Nat /\ p \in Nat /\ d <= p
    BY <1>3
  <1>10. CASE ~P!IsDigit(P!At(p))
    <2>1. Return("int", f, <<SignAt(b) * n>>)
      BY <1>5, <1>6, <1>10 DEF Digits
    <2>2. Position(f) \in 0 .. End
      BY <1>1, <1>3
    <2>3. View' /\ P!Answer("int", <<SignAt(b) * n>>) /\ base' = p /\ content' = content
      BY <1>1, <2>1, <2>2, ToIdle
    <2>4. b \in base .. P!End /\ d \in base .. P!End /\ p \in d .. P!End /\ P!End \in Nat
      BY <1>3, <1>4
    <2>5. P!ReadInt
      BY <1>4, <1>9, <1>10, <2>3, <2>4, NumberRead
    <2>6. QED  BY <2>3, <2>5
  <1>11. CASE P!IsDigit(P!At(p))
    <2>1. p < End
      <3>1. P!At(p) # EOF
        BY <1>11 DEF P!IsDigit, P!Zero, EOF
      <3>2. QED  BY <1>3, <3>1
    <2>2. DigitsFrom(d, p + 1)
      BY <1>4, <1>9, <1>11, OneMore
    <2>3. Value(m, d, p + 1)
      <3>1. P!Decimal(d, p) = n
        BY <1>4, <1>9, DecimalIs DEF Value
      <3>2. P!Decimal(d, p + 1) = m
        BY <1>7, <1>9, <3>1, DecimalStep
      <3>3. PICK v : IsValue(v, d, p + 1)
        BY <1>9, ValueExists
      <3>4. v[p + 1] = m
        BY <1>9, <3>2, <3>3, DecimalIs
      <3>5. QED  BY <3>3, <3>4 DEF Value
    <2>4. b \in base .. p + 1 /\ d \in base .. p + 1 /\ p + 1 \in 0 .. End /\ base \in 0 .. p + 1
      BY <1>3, <1>4, <2>1
    <2>5. Position(GetText(f)) = p + 1
      BY <1>3, <2>1
    <2>6. CASE p + 1 < End
      <3>1. Continue("digits", GetText(f), <<SignAt(b), m>>)
        BY <1>3, <1>5, <1>6, <1>8, <1>11, <2>6 DEF Digits
      <3>2. InLoop("digits", p + 1, <<SignAt(b), m>>)
        BY <1>4, <2>2, <2>3, <2>4 DEF InLoop
      <3>3. QED  BY <1>3, <2>5, <3>1, <3>2, ToLoop DEF Loops
    <2>7. CASE ~(p + 1 < End)
      <3>1. Return("int", GetText(f), <<SignAt(b) * m>>)
        BY <1>3, <1>5, <1>6, <1>8, <1>11, <2>7 DEF Digits
      <3>2. /\ View' /\ P!Answer("int", <<SignAt(b) * m>>)
            /\ base' = p + 1 /\ content' = content
        BY <2>4, <2>5, <3>1, ToIdle
      <3>3. p + 1 = End
        BY <1>3, <2>1, <2>7
      <3>4. ~P!IsDigit(P!At(p + 1))
        <4>1. Ascii /\ End \in 0 .. End
          BY <1>3 DEF View
        <4>2. P!At(End) = -1
          BY <4>1, AtIs DEF EOF
        <4>3. QED  BY <3>3, <4>2 DEF P!IsDigit, P!Zero
      <3>5. /\ b \in base .. P!End /\ d \in base .. P!End /\ p + 1 \in d .. P!End /\ P!End \in Nat
        BY <1>3, <1>9, <2>4, <3>3
      <3>6. P!ReadInt
        BY <1>4, <1>9, <2>2, <2>3, <3>2, <3>4, <3>5, NumberRead
      <3>7. QED  BY <3>2, <3>6
    <2>8. QED  BY <2>6, <2>7
  <1>12. QED  BY <1>10, <1>11

LEMMA BytesType ==
  ASSUME Context, NEW p \in Nat, NEW q \in p .. End
  PROVE  Len(P!Bytes(p, q)) = q - p
  <1>1. End \in Nat /\ Len(content) = End
    BY EndNat DEF End
  <1>2. \A i \in p + 1 .. q : content[i] \in 0 .. 255
    BY <1>1, ByteType
  <1>3. p + 1 \in Int /\ q \in Int
    BY <1>1
  <1>4. Len(SubSeq(content, p + 1, q)) = IF p + 1 <= q THEN q - (p + 1) + 1 ELSE 0
    BY <1>2, <1>3, SubSeqProperties
  <1>5. QED  BY <1>1, <1>4 DEF P!Bytes

LEMMA BytesStep ==
  ASSUME Context, Ascii, NEW p \in Nat, NEW q \in p .. End, q < End
  PROVE  Append(P!Bytes(p, q), P!At(q)) = P!Bytes(p, q + 1)
  <1>1. End \in Nat /\ Len(content) = End /\ content \in Seq(0 .. 255)
    BY EndNat DEF End, Context
  <1>2. P!At(q) = content[q + 1]
    BY <1>1, AtIs
  <1>3. p + 1 \in 1 .. Len(content) /\ q + 1 \in p + 1 .. Len(content) /\ (q + 1) - 1 = q
    BY <1>1
  <1>4. SubSeq(content, p + 1, q + 1) = SubSeq(content, p + 1, q) \o <<content[q + 1]>>
    BY <1>1, <1>3, SubSeqRecursiveSecond
  <1>5. content[q + 1] \in 0 .. 255
    BY <1>1, <1>3, ByteType
  <1>6. SubSeq(content, p + 1, q) \in Seq(0 .. 255)
    <2>1. \A i \in p + 1 .. q : content[i] \in 0 .. 255
      BY <1>1, ByteType
    <2>2. p + 1 \in Int /\ q \in Int
      BY <1>1
    <2>3. QED  BY <2>1, <2>2, SubSeqProperties
  <1>7. Append(SubSeq(content, p + 1, q), content[q + 1])
          = SubSeq(content, p + 1, q) \o <<content[q + 1]>>
    BY <1>5, <1>6, AppendIsConcat
  <1>8. QED  BY <1>2, <1>4, <1>7 DEF P!Bytes

(* What a string has been given when its line ends or it is full.          *)
LEMMA StringRead ==
  ASSUME Context, base \in Nat, P!End = End, NEW e \in base .. End,
         \A i \in base .. P!End - 1 : P!At(i) # P!EOF,
         LineFrom(base, e), e - base <= StrSize,
         P!At(e) \in {P!NL, P!EOF} \/ e - base >= StrSize,
         P!Answer("str", SubSeq(P!Bytes(base, e), 1, Len(P!Bytes(base, e)) % StrSize)),
         base' = e, content' = content,
         \E q \in e .. End : P!LineEnd(base) = q /\ (P!At(e) \in {P!NL, P!EOF} => q = e)
  PROVE  P!ReadString
  <1>1. End \in Nat /\ StrSize \in Nat \ {0}
    BY EndNat, TextReaderAssumption
  <1>2. PICK q \in e .. End : P!LineEnd(base) = q /\ (P!At(e) \in {P!NL, P!EOF} => q = e)
    OBVIOUS
  <1>3. e = IF q - base < StrSize THEN q ELSE base + StrSize
    BY <1>1, <1>2
  <1>4. Len(P!Bytes(base, e)) = e - base
    BY BytesType
  <1>5. QED  BY <1>2, <1>3, <1>4 DEF P!ReadString

(* A line ends somewhere, behind what has been seen of it.                 *)
LEMMA LineEnds ==
  ASSUME Context, Ascii, NEW p \in Nat, NEW e \in p .. End, LineFrom(p, e)
  PROVE  \E q \in e .. End : P!LineEnd(p) = q /\ (P!At(e) \in {P!NL, P!EOF} => q = e)
  <1>1. End \in Nat /\ P!End = End
    BY EndNat, AtIs
  <1>2. \A i \in p .. P!End - 1 : P!At(i) # P!EOF
    <2>1. ASSUME NEW i \in p .. P!End - 1 PROVE P!At(i) # P!EOF
      <3>1. i \in 0 .. End /\ i # End
        BY <1>1
      <3>2. QED  BY <3>1, AtIs DEF EOF, P!EOF
    <2>2. QED  BY <2>1
  <1> DEFINE Ends == {q \in e .. End : P!At(q) \in {P!NL, P!EOF}}
  <1>3. End \in Ends
    <2>1. P!At(End) = EOF
      BY <1>1, AtIs
    <2>2. End \in e .. End
      BY <1>1
    <2>3. QED  BY <2>1, <2>2 DEF EOF, P!EOF
  <1>4. PICK q \in Ends : \A r \in Ends : <<r, q>> \notin OpToRel(<, Nat)
    <2>1. Ends \subseteq Nat /\ Ends # {}
      BY <1>1, <1>3
    <2> HIDE DEF Ends
    <2>2. QED  BY <2>1, WFMin, NatLessThanWellFounded, Zenon
  <1>5. \A r \in e .. q - 1 : P!At(r) # P!NL
    <2>1. ASSUME NEW r \in e .. q - 1, P!At(r) = P!NL PROVE FALSE
      <3>1. r \in e .. End /\ r \in Nat /\ q \in Nat /\ r < q
        BY <1>1
      <3>2. r \in Ends
        BY <2>1, <3>1
      <3>3. QED  BY <1>4, <3>1, <3>2 DEF OpToRel
    <2>2. QED  BY <2>1
  <1>6. \A i \in p .. q - 1 : P!At(i) # P!NL
    <2>1. \A i \in p .. q - 1 : i \in p .. e - 1 \/ i \in e .. q - 1
      BY <1>1
    <2>2. QED  BY <1>5, <2>1 DEF LineFrom
  <1>7. q \in p .. P!End /\ P!End \in Nat /\ P!At(q) \in {P!NL, P!EOF}
    BY <1>1
  <1>8. P!LineEnd(p) = q
    BY <1>2, <1>6, <1>7, LineEndIs
  <1>9. P!At(e) \in {P!NL, P!EOF} => q = e
    <2>1. ASSUME P!At(e) \in {P!NL, P!EOF}
          PROVE  P!LineEnd(p) = e
      <3>1. e \in p .. P!End /\ P!End \in Nat
        BY <1>1
      <3>2. QED  BY <1>2, <2>1, <3>1, LineEndIs DEF LineFrom
    <2>2. QED  BY <1>8, <2>1
  <1>10. QED  BY <1>8, <1>9

LEMMA StringStep ==
  ASSUME Context, View, StringLoop
  PROVE  View' /\ (P!ReadString \/ UNCHANGED P!vars)
  <1>1. PICK p, s : p = Position(f) /\ s = Preread(f)
    OBVIOUS
  <1>2. pc = "string" /\ pc # "idle"
    BY DEF StringLoop
  <1>3. /\ Ascii /\ ~mixed /\ End \in Nat /\ P!End = End
        /\ p \in 0 .. End /\ base \in 0 .. p
        /\ P!At(p) = EOF <=> p = End
        /\ InLoop(pc, p, acc)
        /\ Looking(s) /\ Position(s) = p
        /\ PrereadOk(f) <=> p < End
        /\ Current(s) = P!At(p)
        /\ \A i \in base .. P!End - 1 : P!At(i) # P!EOF
    BY <1>1, <1>2, Here
  <1>4. /\ Looking(GetText(s))
        /\ Position(GetText(s)) = IF p < End THEN p + 1 ELSE End
        /\ GetTextOk(s) <=> p + 1 < End
    BY <1>3, NextLooks
  <1>5. acc = P!Bytes(base, p) /\ LineFrom(base, p) /\ p - base <= StrSize
    BY <1>2, <1>3 DEF InLoop
  <1>6. base \in Nat /\ p \in Nat /\ base <= p /\ p \in base .. End /\ StrSize \in Nat \ {0}
    BY <1>3, TextReaderAssumption
  <1>7. Len(acc) = p - base
    BY <1>5, <1>6, BytesType
  <1>8. EolnOf(f) <=> P!At(p) \in {P!NL, P!EOF}
    BY <1>1, <1>3 DEF EolnOf, NL, EOF, P!NL, P!EOF
  <1>9. PICK more : more = Append(acc, P!At(p))
    OBVIOUS
  <1>10. CASE P!At(p) \in {P!NL, P!EOF} \/ Len(acc) >= StrSize
    <2>1. Return("str", s, SubSeq(acc, 1, Len(acc) % StrSize))
      <3>1. EolnOf(f) \/ Len(acc) >= StrSize
        BY <1>8, <1>10
      <3>2. ~(~EolnOf(f) /\ Len(acc) < StrSize)
        BY <1>6, <1>7, <3>1
      <3>3. QED  BY <1>1, <3>1, <3>2 DEF StringLoop
    <2>2. /\ View' /\ base' = p /\ content' = content
          /\ P!Answer("str", SubSeq(P!Bytes(base, p), 1, Len(P!Bytes(base, p)) % StrSize))
      BY <1>3, <1>5, <2>1, ToIdle
    <2>3. \E q \in p .. End : P!LineEnd(base) = q /\ (P!At(p) \in {P!NL, P!EOF} => q = p)
      BY <1>3, <1>5, <1>6, LineEnds
    <2>4. P!At(p) \in {P!NL, P!EOF} \/ p - base >= StrSize
      BY <1>7, <1>10
    <2>5. P!ReadString
      BY <1>3, <1>5, <1>6, <2>2, <2>3, <2>4, StringRead
    <2>6. QED  BY <2>2, <2>5
  <1>11. CASE P!At(p) \notin {P!NL, P!EOF} /\ ~(Len(acc) >= StrSize)
    <2>1. p < End
      BY <1>3, <1>11 DEF EOF, P!EOF
    <2>2. more = P!Bytes(base, p + 1)
      BY <1>3, <1>5, <1>6, <1>9, <2>1, BytesStep
    <2>3. LineFrom(base, p + 1)
      BY <1>5, <1>6, <1>11, OneMore
    <2>4. /\ p + 1 \in base .. End /\ p + 1 \in 0 .. End /\ base \in 0 .. p + 1
          /\ p + 1 - base <= StrSize
      BY <1>3, <1>6, <1>7, <1>11, <2>1
    <2>5. Position(GetText(s)) = p + 1
      BY <1>4, <2>1
    <2>6. Len(acc) < StrSize
      BY <1>6, <1>7, <1>11
    <2>7. CASE p + 1 < End
      <3>1. Continue("string", GetText(s), more)
        BY <1>1, <1>3, <1>4, <1>8, <1>9, <1>11, <2>6, <2>7 DEF StringLoop
      <3>2. InLoop("string", p + 1, more)
        <4>1. PICK e : e = p + 1
          OBVIOUS
        <4>2. e \in 0 .. End /\ base \in 0 .. e /\ e - base <= StrSize
          BY <1>3, <1>6, <2>4, <4>1
        <4>3. more = P!Bytes(base, e) /\ LineFrom(base, e)
          BY <2>2, <2>3, <4>1, Zenon
        <4>4. InLoop("string", e, more)
          BY <4>2, <4>3 DEF InLoop
        <4>5. QED  BY <4>1, <4>4
      <3>3. QED  BY <1>4, <2>5, <3>1, <3>2, ToLoop DEF Loops
    <2>8. CASE ~(p + 1 < End)
      <3>1. Return("str", GetText(s), SubSeq(more, 1, Len(more) % StrSize))
        BY <1>1, <1>3, <1>4, <1>8, <1>9, <1>11, <2>6, <2>8 DEF StringLoop
      <3>2. PICK e \in base .. End : e = p + 1
        BY <2>4
      <3>3. /\ View' /\ base' = e /\ content' = content
            /\ P!Answer("str", SubSeq(P!Bytes(base, e), 1, Len(P!Bytes(base, e)) % StrSize))
        BY <2>2, <2>4, <2>5, <3>1, <3>2, ToIdle
      <3>4. e = End
        BY <1>3, <2>1, <2>8, <3>2
      <3>5. P!At(e) \in {P!NL, P!EOF}
        <4>1. End \in 0 .. End
          BY <1>3
        <4>2. P!At(End) = EOF
          BY <1>3, <4>1, AtIs
        <4>3. QED  BY <3>4, <4>2 DEF EOF, P!EOF
      <3>6. \E q \in e .. End : P!LineEnd(base) = q /\ (P!At(e) \in {P!NL, P!EOF} => q = e)
        BY <1>3, <1>6, <2>3, <3>2, LineEnds
      <3>7. P!ReadString
        BY <1>3, <1>6, <2>3, <2>4, <3>2, <3>3, <3>5, <3>6, StringRead
      <3>8. QED  BY <3>3, <3>7
    <2>9. QED  BY <2>7, <2>8
  <1>12. QED  BY <1>10, <1>11

LEMMA CharsStep ==
  ASSUME Context, View, CharsLoop
  PROVE  View' /\ (P!ReadChars \/ UNCHANGED P!vars)
  <1>1. PICK p : p = Position(f)
    OBVIOUS
  <1>2. pc = "chars" /\ pc # "idle"
    BY DEF CharsLoop
  <1>3. /\ Ascii /\ Looking(f) /\ End \in Nat /\ P!End = End
        /\ p \in 0 .. End /\ base \in 0 .. p
        /\ Current(f) = P!At(p)
        /\ P!At(p) = EOF <=> p = End
        /\ InLoop(pc, p, acc)
        /\ Looking(GetText(f))
        /\ Position(GetText(f)) = IF p < End THEN p + 1 ELSE End
        /\ GetTextOk(f) <=> p + 1 < End
    BY <1>1, <1>2, Here
  <1>4. acc = P!Bytes(base, p) /\ LineFrom(base, p) /\ (p < End \/ p = base)
    BY <1>2, <1>3 DEF InLoop
  <1>5. base \in Nat /\ p \in Nat /\ base <= p /\ p \in base .. End
    BY <1>3
  <1>6. P!AtEnd <=> base = End
    BY <1>3 DEF P!AtEnd
  <1>7. PICK more : more = Append(acc, P!At(p))
    OBVIOUS
  <1>8. PICK q \in p .. End : P!LineEnd(base) = q /\ (P!At(p) \in {P!NL, P!EOF} => q = p)
    BY <1>3, <1>4, <1>5, LineEnds
  <1>9. CASE P!At(p) = P!NL
    <2>1. Return("chars", f, P!Bytes(base, p))
      BY <1>3, <1>4, <1>9 DEF CharsLoop, NL, P!NL
    <2>2. View' /\ base' = p /\ content' = content /\ P!Answer("chars", P!Bytes(base, p))
      BY <1>1, <1>3, <2>1, ToIdle
    <2>3. p # End
      BY <1>3, <1>9 DEF EOF, P!NL
    <2>4. base # End
      BY <1>3, <2>3
    <2>5. P!ReadChars
      BY <1>6, <1>8, <1>9, <2>2, <2>4 DEF P!ReadChars
    <2>6. QED  BY <2>2, <2>5
  <1>10. CASE P!At(p) # P!NL /\ p = End
    <2>1. base = End /\ p = base
      BY <1>4, <1>10
    <2>2. P!Bytes(base, p) = <<>>
      BY <1>5, <2>1, SubSeqEmpty DEF P!Bytes
    <2>3. P!At(p) = P!EOF
      BY <1>3, <1>10 DEF EOF, P!EOF
    <2>4. Append(acc, P!At(p)) = <<P!EOF>>
      BY <1>4, <2>2, <2>3
    <2>5. Return("chars", GetText(f), <<P!EOF>>)
      BY <1>3, <1>10, <2>3, <2>4 DEF CharsLoop, NL, P!NL
    <2>6. Position(GetText(f)) = End /\ End \in 0 .. End
      BY <1>3, <1>10
    <2>7. View' /\ base' = End /\ content' = content /\ P!Answer("chars", <<P!EOF>>)
      BY <2>5, <2>6, ToIdle
    <2>8. q = End
      BY <1>8, <1>10, <2>3
    <2>9. P!ReadChars
      BY <1>6, <1>8, <2>1, <2>7, <2>8 DEF P!ReadChars
    <2>10. QED  BY <2>7, <2>9
  <1>11. CASE P!At(p) # P!NL /\ p # End
    <2>1. p < End
      BY <1>3, <1>11
    <2>2. more = P!Bytes(base, p + 1)
      BY <1>3, <1>4, <1>5, <1>7, <2>1, BytesStep
    <2>3. LineFrom(base, p + 1)
      BY <1>4, <1>5, <1>11, OneMore
    <2>4. p + 1 \in base .. End /\ p + 1 \in 0 .. End /\ base \in 0 .. p + 1
      BY <1>3, <2>1
    <2>5. Position(GetText(f)) = p + 1
      BY <1>3, <2>1
    <2>6. CASE p + 1 < End
      <3>1. Continue("chars", GetText(f), more)
        BY <1>3, <1>7, <1>11, <2>6 DEF CharsLoop, NL, P!NL
      <3>2. InLoop("chars", p + 1, more)
        BY <2>2, <2>3, <2>4, <2>6 DEF InLoop
      <3>3. QED  BY <1>3, <2>5, <3>1, <3>2, ToLoop DEF Loops
    <2>7. CASE ~(p + 1 < End)
      <3>1. Return("chars", GetText(f), more)
        BY <1>3, <1>7, <1>11, <2>7 DEF CharsLoop, NL, P!NL
      <3>2. PICK e \in base .. End : e = p + 1
        BY <2>4
      <3>3. View' /\ base' = e /\ content' = content /\ P!Answer("chars", P!Bytes(base, e))
        BY <2>2, <2>4, <2>5, <3>1, <3>2, ToIdle
      <3>4. e = End
        BY <1>3, <2>1, <2>7, <3>2
      <3>5. P!At(e) \in {P!NL, P!EOF}
        <4>1. End \in 0 .. End
          BY <1>3
        <4>2. P!At(End) = EOF
          BY <1>3, <4>1, AtIs
        <4>3. QED  BY <3>4, <4>2 DEF EOF, P!EOF
      <3>6. P!LineEnd(base) = e
        BY <1>3, <1>5, <2>3, <3>2, <3>5, LineEnds
      <3>7. base # End
        BY <1>3, <2>1
      <3>8. P!ReadChars
        BY <1>6, <3>3, <3>6, <3>7 DEF P!ReadChars
      <3>9. QED  BY <3>3, <3>8
    <2>8. QED  BY <2>6, <2>7
  <1>12. QED  BY <1>9, <1>10, <1>11

(* Dropping readAhead consumes the line end that was read ahead.           *)
LEMMA ConsumeMoves ==
  ASSUME Context, Ascii, NEW s, Looking(s), NEW p, p = Position(s)
  PROVE  Position([s EXCEPT !.readAhead = 0]) = IF p < End THEN p + 1 ELSE End
  <1>1. PICK t : t = [s EXCEPT !.readAhead = 0]
    OBVIOUS
  <1>2. s \in FileState /\ Good(s) /\ p \in 0 .. End /\ End \in Nat
        /\ s.readAhead = IF p < End THEN 1 ELSE 0
    BY EndNat DEF Looking, Good
  <1>3. /\ t.off = s.off /\ t.readPos = s.readPos /\ t.bufferSize = s.bufferSize
        /\ t.readAhead = 0
    BY <1>1, <1>2 DEF FileState
  <1>4. Waiting(t) = Waiting(s)
    BY <1>3 DEF Waiting
  <1>5. Waiting(s) \in 0 .. s.off /\ s.off \in 0 .. End /\ p = s.off - Waiting(s) - s.readAhead
    BY <1>2, WaitingIs
  <1>6. Position(t) = s.off - Waiting(s) - 0
    BY <1>3, <1>4 DEF Position
  <1>7. Position(t) = p + s.readAhead
    BY <1>2, <1>5, <1>6
  <1>8. QED  BY <1>1, <1>2, <1>7

LEMMA SkipLineStep ==
  ASSUME Context, View, SkipLine
  PROVE  View' /\ (P!ReadLn \/ UNCHANGED P!vars)
  <1>1. PICK p : p = Position(f)
    OBVIOUS
  <1>2. pc = "skipline" /\ pc # "idle"
    BY DEF SkipLine
  <1>3. /\ Ascii /\ ~mixed /\ Looking(f) /\ End \in Nat /\ P!End = End
        /\ p \in 0 .. End /\ base \in 0 .. p
        /\ Current(f) = P!At(p)
        /\ InLoop(pc, p, acc)
        /\ Looking(GetText(f))
        /\ Position(GetText(f)) = IF p < End THEN p + 1 ELSE End
        /\ GetTextOk(f) <=> p + 1 < End
    BY <1>1, <1>2, Here
  <1>4. LineFrom(base, p) /\ p < End
    BY <1>2, <1>3 DEF InLoop
  <1>5. base \in Nat /\ p \in Nat /\ base <= p /\ p \in base .. End
        /\ p + 1 \in base .. End /\ p + 1 \in 0 .. End /\ base \in 0 .. p + 1
    BY <1>3, <1>4
  <1>6. CASE P!At(p) = P!NL
    <2>1. Return("nl", [f EXCEPT !.readAhead = 0], <<>>)
      BY <1>3, <1>6 DEF SkipLine, NL, P!NL
    <2>2. Position([f EXCEPT !.readAhead = 0]) = p + 1
      BY <1>1, <1>3, <1>4, ConsumeMoves
    <2>3. View' /\ P!Answer("nl", <<>>) /\ base' = p + 1 /\ content' = content
      BY <1>5, <2>1, <2>2, ToIdle
    <2>4. P!LineEnd(base) = p
      BY <1>3, <1>4, <1>5, <1>6, LineEnds
    <2>5. P!ReadLn
      BY <1>3, <1>4, <2>3, <2>4 DEF P!ReadLn
    <2>6. QED  BY <2>3, <2>5
  <1>7. CASE P!At(p) # P!NL /\ p + 1 < End
    <2>1. Continue("skipline", GetText(f), acc)
      BY <1>3, <1>7 DEF SkipLine, NL, P!NL
    <2>2. LineFrom(base, p + 1)
      BY <1>4, <1>5, <1>7, OneMore
    <2>3. Position(GetText(f)) = p + 1
      BY <1>3, <1>4
    <2>4. InLoop("skipline", p + 1, acc)
      BY <1>5, <1>7, <2>2 DEF InLoop
    <2>5. QED  BY <1>3, <2>1, <2>3, <2>4, ToLoop DEF Loops
  <1>8. CASE P!At(p) # P!NL /\ ~(p + 1 < End)
    <2>1. Return("nl", [GetText(f) EXCEPT !.readAhead = 0], <<>>)
      BY <1>3, <1>8 DEF SkipLine, NL, P!NL
    <2>2. p + 1 = End
      BY <1>3, <1>5, <1>8
    <2>3. Position(GetText(f)) = End
      BY <1>3, <1>4, <2>2
    <2>4. Position([GetText(f) EXCEPT !.readAhead = 0]) = End
      BY <1>3, <2>3, ConsumeMoves
    <2>5. View' /\ P!Answer("nl", <<>>) /\ base' = End /\ content' = content
      BY <1>5, <2>1, <2>2, <2>4, ToIdle
    <2>6. LineFrom(base, p + 1)
      BY <1>4, <1>5, <1>8, OneMore
    <2>7. PICK e \in base .. End : e = p + 1
      BY <1>5
    <2>8. PICK q \in e .. End : P!LineEnd(base) = q
      BY <1>3, <1>5, <2>6, <2>7, LineEnds
    <2>9. q = End
      BY <1>3, <2>2, <2>7, <2>8
    <2>10. P!ReadLn
      BY <1>3, <2>5, <2>8, <2>9 DEF P!ReadLn
    <2>11. QED  BY <2>5, <2>10
  <1>9. QED  BY <1>6, <1>7, <1>8

-----------------------------------------------------------------------------
(* The specification.                                                      *)

LEMMA InitImplements ==
  ASSUME Contents \subseteq Seq(0 .. 127), Init
  PROVE  View /\ P!Init
  <1>1. Context
    BY InitInvariant, InvariantGivesGood
  <1>2. content \in Seq(0 .. 127)
    BY DEF Init
  <1>3. Ascii
    <2>1. \A S : content \in Seq(S) => \A j \in 1 .. Len(content) : content[j] \in S
      OBVIOUS
    <2>2. QED  BY <1>2, <2>1 DEF Ascii, End
  <1>4. Position(f) = 0 /\ 0 \in 0 .. End
    BY <1>1, AtStart DEF Init
  <1>5. View
    BY <1>3, <1>4 DEF Init, View
  <1>6. QED  BY <1>5 DEF Init, P!Init

LEMMA StepImplements ==
  ASSUME MixGet = FALSE, IInv, View, [Next]_vars
  PROVE  View' /\ [P!Next]_(P!vars)
  <1>1. Context /\ Good(f)
    BY InvariantGivesGood
  <1>2. CASE Eof \/ Eoln \/ ReadChar
    BY <1>1, <1>2, AsksAndReads DEF P!Next
  <1>3. CASE ReadInt \/ ReadString \/ ReadChars
    BY <1>1, <1>3, Entered
  <1>4. CASE ReadLn
    BY <1>1, <1>4, ReadLnEntered DEF P!Next
  <1>5. CASE Get
    BY <1>1, <1>5, GetImplements DEF P!Next
  <1>6. CASE Reset
    BY <1>1, <1>6, ResetImplements DEF P!Next
  <1>7. CASE SkipSpaces
    BY <1>1, <1>7, SkipSpacesStep
  <1>8. CASE GetSign
    BY <1>1, <1>8, GetSignStep
  <1>9. CASE Digits
    BY <1>1, <1>9, DigitsStep DEF P!Next
  <1>10. CASE StringLoop
    BY <1>1, <1>10, StringStep DEF P!Next
  <1>11. CASE CharsLoop
    BY <1>1, <1>11, CharsStep DEF P!Next
  <1>12. CASE SkipLine
    BY <1>1, <1>12, SkipLineStep DEF P!Next
  <1>13. CASE UNCHANGED vars
    <2>1. UNCHANGED <<content, source, mixed, f, pc, acc, base, result>>
      BY <1>13 DEF vars
    <2>2. /\ Ascii' <=> Ascii
          /\ End' = End
          /\ Position(f)' = Position(f)
          /\ Looking(f)' <=> Looking(f)
      BY <2>1 DEF End, Ascii, Position, Waiting, Tty, Looking, Good, ChunkOk, LookaheadOk,
                  Current, P!At, P!End
    <2>3. InLoop(pc, Position(f), acc)' <=> InLoop(pc, Position(f), acc)
      <3>1. PICK l, p, a : l = pc /\ p = Position(f) /\ a = acc
        OBVIOUS
      <3>2. InLoop(l, p, a)' <=> InLoop(l, p, a)
        BY <2>1, InLoopFrame
      <3>3. pc' = l /\ Position(f)' = p /\ acc' = a
        BY <2>1, <2>2, <3>1
      <3>4. InLoop(pc, Position(f), acc)' <=> InLoop(l, p, a)'
        BY <3>3
      <3>5. QED  BY <3>1, <3>2, <3>4
    <2>4. View'
      BY <2>1, <2>2, <2>3 DEF View
    <2>5. QED  BY <2>1, <2>4 DEF P!vars
  <1>14. QED
    BY <1>2, <1>3, <1>4, <1>5, <1>6, <1>7, <1>8, <1>9, <1>10, <1>11, <1>12, <1>13
    DEF Next, Begin, Step

(* The reader of read.c does to every program what PascalText promises:    *)
(* whatever the chunk size, the file and its source, no buffer shows and   *)
(* every call of the runtime takes effect in one step (the files hold only *)
(* 7-bit characters, and no get is mixed into buffered reading).           *)
THEOREM ReaderImplementsPascalText ==
  ASSUME MixGet = FALSE, Contents \subseteq Seq(0 .. 127)
  PROVE  Spec => ImplementsPascalText
  <1>1. Init => View /\ P!Init
    BY InitImplements
  <1>2. IInv /\ View /\ [Next]_vars => View' /\ [P!Next]_(P!vars)
    BY StepImplements
  <1>3. QED  BY <1>1, <1>2, Invariant, PTL DEF Spec, ImplementsPascalText, P!Spec
=============================================================================
