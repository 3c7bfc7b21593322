----------------------------- MODULE TextReader -----------------------------
(***************************************************************************)
(* The text input of runtime/read.c, with __get of getput.c and the part   *)
(* of __reset that opens the file (fileio.c, assign.c).                    *)
(*                                                                         *)
(* A text file is read through two buffers.  The FILE of the C library is  *)
(* at byte offset off.  The runtime takes chunks of RecSize bytes from it  *)
(* into file->buffer and hands them out one by one; buffer[0] is at the    *)
(* same time the Pascal buffer variable, the current character.  readAhead *)
(* says whether that character has been fetched but not consumed: after    *)
(* readln it has not, so that a program that prompts on a terminal is not  *)
(* made to wait for the next line.  A terminal (isText & 2) is read byte   *)
(* by byte; __get always is.                                               *)
(*                                                                         *)
(* Each operation of the runtime that loops is a start action and the      *)
(* iterations of its loop, told apart by pc.                               *)
(***************************************************************************)
EXTENDS Integers, Sequences

CONSTANTS
  Contents,   (* the byte sequences the file may hold                      *)
  Sources,    (* a subset of {"file", "pipe", "tty"}: what is being read   *)
  RecSize,    (* file->recordSize of a text file: 1024 in SetupFile        *)
  StrSize,    (* sizeof(buffer) in readstr, also 2^8: the range of len     *)
  MixGet      (* whether the program calls get between buffered reads      *)

ASSUME TextReaderAssumption ==
  /\ Contents \subseteq Seq(0 .. 255)
  /\ Sources \subseteq {"file", "pipe", "tty"}
  /\ RecSize \in Nat \ {0}
  /\ StrSize \in Nat \ {0}
  /\ MixGet \in BOOLEAN

VARIABLES
  content,    (* the bytes of the file                                     *)
  source,     (* opened by reset, or standard input (piped or a terminal)  *)
  f,          (* the FileEntry and the File: see FileState                 *)
  pc,         (* the loop the runtime is in, "idle" between calls          *)
  acc,        (* the local variables of that loop                          *)
  result,     (* the last completed operation and what it stored           *)
  base,       (* history: the position at which the operation started      *)
  mixed       (* history: a get has skipped bytes that were in the chunk   *)

vars == <<content, source, f, pc, acc, result, base, mixed>>

NL    == 10
SPACE == 32
Minus == 45
Plus  == 43
Zero  == 48
EOF   == -1

End == Len(content)

FileState ==
  [off        : Nat,
   buffer     : [0 .. RecSize - 1 -> -128 .. 127],
   readPos    : Nat,
   bufferSize : Nat,
   readAhead  : {0, 1}]

(* Mutant: char taken as unsigned.                                        *)
UnsignedChar(b) == b

(* What a byte becomes when it is stored into a (signed) char.             *)
SChar(b) == IF b > 127 THEN b - 256 ELSE b

IsSpace(c) == c \in {9, NL, 11, 12, 13, SPACE}
IsDigit(c) == c \in Zero .. Zero + 9

Tty == source = "tty"

-----------------------------------------------------------------------------
(* The C library: fgetc and fread on a FILE of this content.               *)

FGetC(s)       == IF s.off < End THEN content[s.off + 1] ELSE EOF
FReadCount(s)  == IF End - s.off < RecSize THEN End - s.off ELSE RecSize
Filled(s) ==
  [i \in 0 .. RecSize - 1 |->
     IF i < FReadCount(s) THEN SChar(content[s.off + i + 1]) ELSE s.buffer[i]]

(* read_chunk_text: the byte it returns and the state it leaves.           *)
ReadChunkText(s) ==
  CASE Tty /\ FGetC(s) # EOF ->
         [ch |-> FGetC(s),
          st |-> [s EXCEPT !.off = @ + 1, !.readAhead = 1, !.bufferSize = 1]]
    [] Tty /\ FGetC(s) = EOF ->
         [ch |-> EOF, st |-> [s EXCEPT !.readAhead = 0, !.bufferSize = 0]]
    [] ~Tty /\ s.readPos # s.bufferSize ->
         [ch |-> s.buffer[s.readPos],
          st |-> [s EXCEPT !.readAhead = 1, !.readPos = @ + 1]]
    [] ~Tty /\ s.readPos = s.bufferSize /\ FReadCount(s) > 0 ->
         [ch |-> Filled(s)[0],
          st |-> [s EXCEPT !.off = @ + FReadCount(s), !.buffer = Filled(s),
                           !.bufferSize = FReadCount(s), !.readAhead = 1,
                           !.readPos = 1]]
    [] OTHER -> [ch |-> EOF, st |-> s]

(* __get_text: the byte becomes the buffer variable, EOF is one too.       *)
GetTextOk(s) == ReadChunkText(s).ch # EOF
GetText(s) ==
  LET r == ReadChunkText(s)
  IN  [r.st EXCEPT !.buffer = [@ EXCEPT ![0] = SChar(r.ch)],
                   !.readAhead = IF r.ch = EOF THEN 0 ELSE @]

Current(s) == s.buffer[0]

(* file_preread, and the first half of __eof, __eoln and __read_nl.        *)
Preread(s)   == IF s.readAhead = 0 THEN GetText(s) ELSE s
PrereadOk(s) == s.readAhead = 1 \/ GetTextOk(s)

(* Mutant: eof looks at what is read ahead and does not try to read.      *)
EofUnread(s) == s.readAhead = 0
(* Mutant: eoln forgets the end of the file.                              *)
EolnInFile(s) == Current(Preread(s)) = NL

EofOf(s)  == ~PrereadOk(s)
EolnOf(s) == ~PrereadOk(s) \/ Current(Preread(s)) = NL

(* Mutant: readAhead is not reset when there is no byte.                  *)
GetKeepsReadAhead(s) ==
  IF FGetC(s) # EOF
    THEN [s EXCEPT !.off = @ + 1, !.buffer = [@ EXCEPT ![0] = SChar(FGetC(s))],
                   !.readAhead = 1]
    ELSE [s EXCEPT !.buffer = [@ EXCEPT ![0] = SChar(EOF)]]

(* __get on a text file: straight from the FILE, past the chunk.           *)
GetOf(s) ==
  IF FGetC(s) # EOF
    THEN [s EXCEPT !.off = @ + 1, !.buffer = [@ EXCEPT ![0] = SChar(FGetC(s))],
                   !.readAhead = 1]
    ELSE [s EXCEPT !.buffer = [@ EXCEPT ![0] = SChar(EOF)], !.readAhead = 0]

(* SetupFile and fopen: nothing buffered, at the start of the file.        *)
Opened ==
  [off |-> 0, buffer |-> [i \in 0 .. RecSize - 1 |-> 0],
   readPos |-> 0, bufferSize |-> 0, readAhead |-> 0]

(* How many bytes the program has consumed: what has left the FILE less    *)
(* what still waits in the chunk and in the buffer variable.               *)
Waiting(s) == IF Tty THEN 0 ELSE s.bufferSize - s.readPos
Position(s) == s.off - Waiting(s) - s.readAhead

-----------------------------------------------------------------------------
Truth(b) == <<IF b THEN 1 ELSE 0>>

Answer(op, values) == result' = [op |-> op, values |-> values]

Env == UNCHANGED <<content, source>>

(* A call that returns at once.                                            *)
Call(op, s, values) ==
  /\ pc = "idle"
  /\ f' = s
  /\ Answer(op, values)
  /\ base' = Position(s)
  /\ UNCHANGED <<pc, acc, mixed>>
  /\ Env

(* A call that goes on in loop p with the locals a.                        *)
Enter(p, s, a) ==
  /\ pc = "idle"
  /\ f' = s
  /\ pc' = p
  /\ acc' = a
  /\ UNCHANGED <<result, base, mixed>>
  /\ Env

(* The loop goes on, at p, with the locals a.                              *)
Continue(p, s, a) ==
  /\ f' = s
  /\ pc' = p
  /\ acc' = a
  /\ UNCHANGED <<result, base, mixed>>
  /\ Env

(* The operation is over.                                                  *)
Return(op, s, values) ==
  /\ f' = s
  /\ pc' = "idle"
  /\ acc' = <<>>
  /\ Answer(op, values)
  /\ base' = Position(s)
  /\ UNCHANGED mixed
  /\ Env

-----------------------------------------------------------------------------
Eof  == Call("eof", Preread(f), Truth(EofOf(f)))
Eoln == Call("eoln", Preread(f), Truth(EolnOf(f)))

(* readchar takes the character that is current and fetches the next.      *)
ReadChar == Call("char", GetText(Preread(f)), <<Current(Preread(f))>>)

(* readint64: skip_spaces, get_sign, the digits; acc is <<sign, n>>.       *)
ReadInt == Enter("spaces", Preread(f), <<1, 0>>)

SkipSpaces ==
  /\ pc = "spaces"
  /\ IF IsSpace(Current(f)) /\ ~EofOf(f)
       THEN Continue("spaces", GetText(Preread(f)), acc)
       ELSE Continue("sign", IF IsSpace(Current(f)) THEN Preread(f) ELSE f, acc)

GetSign ==
  /\ pc = "sign"
  /\ IF Current(f) \in {Minus, Plus}
       THEN Continue("digits", GetText(f), <<IF Current(f) = Minus THEN -1 ELSE 1, 0>>)
       ELSE Continue("digits", f, acc)

Digits ==
  /\ pc = "digits"
  /\ LET n == 10 * acc[2] + (Current(f) - Zero)
     IN  CASE ~IsDigit(Current(f)) -> Return("int", f, <<acc[1] * acc[2]>>)
           [] IsDigit(Current(f)) /\ GetTextOk(f) ->
                Continue("digits", GetText(f), <<acc[1], n>>)
           [] OTHER -> Return("int", GetText(f), <<acc[1] * n>>)

(* readstr; acc is buffer[0 .. count - 1].                                 *)
ReadString == Enter("string", Preread(f), <<>>)

StringLoop ==
  /\ pc = "string"
  /\ LET s    == Preread(f)
         more == Append(acc, Current(s))
         Take(v) == SubSeq(v, 1, Len(v) % StrSize)
     IN  CASE EolnOf(f) \/ Len(acc) >= StrSize -> Return("str", s, Take(acc))
           [] ~EolnOf(f) /\ Len(acc) < StrSize /\ GetTextOk(s) ->
                Continue("string", GetText(s), more)
           [] OTHER -> Return("str", GetText(s), Take(more))

(* readchars; acc is what has been stored through v.                       *)
ReadChars == Enter("chars", Preread(f), <<>>)

CharsLoop ==
  /\ pc = "chars"
  /\ CASE Current(f) = NL -> Return("chars", f, acc)
       [] Current(f) # NL /\ GetTextOk(f) ->
            Continue("chars", GetText(f), Append(acc, Current(f)))
       [] OTHER -> Return("chars", GetText(f), Append(acc, Current(f)))

(* __read_nl: up to the line end, which is consumed by dropping readAhead. *)
ReadLn ==
  IF PrereadOk(f)
    THEN Enter("skipline", Preread(f), <<>>)
    ELSE Call("nl", Preread(f), <<>>)

(* Mutant: the loop of __read_nl ends at a line end only.                 *)
SkipLineToNL ==
  /\ pc = "skipline"
  /\ IF Current(f) = NL
       THEN Return("nl", [f EXCEPT !.readAhead = 0], <<>>)
       ELSE Continue("skipline", GetText(f), acc)

SkipLine ==
  /\ pc = "skipline"
  /\ LET Consume(s) == [s EXCEPT !.readAhead = 0]
     IN  CASE Current(f) = NL -> Return("nl", Consume(f), <<>>)
           [] Current(f) # NL /\ GetTextOk(f) -> Continue("skipline", GetText(f), acc)
           [] OTHER -> Return("nl", Consume(GetText(f)), <<>>)

-----------------------------------------------------------------------------
(* __get passes over bytes that are in the chunk, and does not advance     *)
(* when the current character has not been fetched.                        *)
Strays(s) == s.readAhead = 0 \/ Waiting(s) # 0

Get ==
  /\ pc = "idle"
  /\ Strays(f) => MixGet
  /\ f.readAhead = 0 => FGetC(f) # EOF
  /\ f' = GetOf(f)
  /\ Answer("get", Truth(FGetC(f) # EOF))
  /\ base' = Position(GetOf(f))
  /\ mixed' = (mixed \/ Strays(f))
  /\ UNCHANGED <<pc, acc>>
  /\ Env

(* __reset opens the file again and fetches its first byte.                *)
Reset ==
  /\ pc = "idle"
  /\ source = "file"
  /\ f' = GetOf(Opened)
  /\ Answer("reset", <<>>)
  /\ base' = 0
  /\ mixed' = FALSE
  /\ UNCHANGED <<pc, acc>>
  /\ Env

-----------------------------------------------------------------------------
Init ==
  /\ content \in Contents
  /\ source \in Sources
  /\ f = IF source = "file" THEN GetOf(Opened) ELSE Opened
  /\ pc = "idle"
  /\ acc = <<>>
  /\ result = [op |-> "none", values |-> <<>>]
  /\ base = 0
  /\ mixed = FALSE

(* The program calls an operation.                                         *)
Begin == Eof \/ Eoln \/ ReadChar \/ ReadInt \/ ReadString \/ ReadChars \/ ReadLn
         \/ Get \/ Reset

(* The runtime goes on with the one that was called.                       *)
Step == SkipSpaces \/ GetSign \/ Digits \/ StringLoop \/ CharsLoop \/ SkipLine

Next == Begin \/ Step

Spec == Init /\ [][Next]_vars

(* The runtime is sequential code that nothing suspends: a call goes on.   *)
FairSpec == Spec /\ WF_vars(Step)
-----------------------------------------------------------------------------
(* Every variable has its type (read.c works on ints and chars).           *)
TypeOK ==
  /\ content \in Contents
  /\ source \in Sources
  /\ f \in FileState
  /\ pc \in {"idle", "spaces", "sign", "digits", "string", "chars", "skipline"}
  /\ acc \in Seq(Int)
  /\ base \in Int
  /\ mixed \in BOOLEAN

(* The chunk is the run of the file's bytes that ends where the FILE is:   *)
(* what is still to be handed out of it is exactly what comes next.  Byte  *)
(* 0 is the buffer variable and is never handed out a second time.         *)
ChunkOk(s) ==
  ~Tty => /\ s.bufferSize <= RecSize
          /\ s.bufferSize <= s.off
          /\ s.readPos <= s.bufferSize
          /\ s.readPos = 0 => s.bufferSize = 0
          /\ ~mixed => \A i \in s.readPos .. s.bufferSize - 1 :
                         s.buffer[i] = SChar(content[s.off - s.bufferSize + i + 1])

(* A character that has been read ahead is the next one of the file.       *)
LookaheadOk(s) ==
  s.readAhead = 1 /\ ~mixed =>
    /\ Position(s) < End
    /\ Current(s) = SChar(content[Position(s) + 1])

(* As long as get is not mixed into buffered reading, the two buffers and  *)
(* the FILE's offset agree: no byte is lost, repeated or taken for another *)
(* across chunk ends, readln's lazy step, a failed read at the end and a   *)
(* reset (read_chunk_text, __get_text, __get, SetupFile).                  *)
BuffersCoherent ==
  /\ f.off <= End
  /\ ChunkOk(f)
  /\ LookaheadOk(f)

(* eof answers true only at the end of the file, or just past a byte 255   *)
(* of a chunk, which __get_text takes for EOF (read.c: char is signed).    *)
EofIsTrue ==
  (result = [op |-> "eof", values |-> Truth(TRUE)] /\ pc = "idle" /\ ~mixed) =>
    \/ Position(f) = End
    \/ Position(f) > 0 /\ content[Position(f)] = 255

(* Without such bytes, every operation of the runtime does to the          *)
(* program's view of the file what PascalText says, in one step, and       *)
(* stores what PascalText says: chunks, lookahead and loops do not show.   *)
P == INSTANCE PascalText WITH pos <- base
ImplementsPascalText == P!Spec

(* Every read operation returns, whatever the file holds.                  *)
ReadsReturn == (pc # "idle") ~> (pc = "idle")
=============================================================================
