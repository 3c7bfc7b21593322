------------------------------ MODULE Parsing -------------------------------
(***************************************************************************)
(* The parser reads programs that somebody has written, as they were       *)
(* meant or after a slip: a token lost, one too many, or one for another.  *)
(***************************************************************************)
EXTENDS Parser, PascalGrammar

CONSTANTS
  Programs,    (* the trees of the statements that are meant               *)
  Tokens,      (* what a token may be mistaken for                         *)
  MaxSlipped   (* the longest text with a slip                             *)

VARIABLES
  meant,       (* the tree, or Empty where the text is not what was meant  *)
  read         (* the tree that was read, when a part of it is read again  *)

vars == <<parser, meant, read>>

Start == Call("ParseStatement")
Init ==
  /\ meant \in {s \in Programs : s # Empty /\ IsStatement(s)}
  /\ text = WriteStatement(meant)
  /\ at = 1 /\ todo = Start /\ made = <<>> /\ answer = "none" /\ read = Empty

Slip(edited) ==
  /\ meant # Empty /\ Len(text) <= MaxSlipped /\ todo = Start /\ read = Empty
  /\ meant' = Empty
  /\ text' = edited
  /\ UNCHANGED <<at, todo, made, answer, read>>

Lose(i) == Slip(RemoveAt(text, i))
Add(i, token) == Slip(InsertAt(text, i, token))
Mistake(i, token) == Slip(ReplaceAt(text, i, token))

Tree == Last(made)
Accepted == answer = "tree" /\ read = Empty /\ at = Len(text) + 1
Parse == Next /\ UNCHANGED <<meant, read>>

(* What one assignment assigns is read again as a constant is: in front of *)
(* a semicolon (ParseConstDef).                                            *)
Assigned(program) == Children(Children(program)[1])[2]
IsOfConstants(program) ==
  /\ Len(Children(program)) = 1 /\ Label(Children(program)[1]) = "assign"
  /\ IsConstant(Assigned(program)) /\ IsPlain(Assigned(program))
ReadAsConstant ==
  /\ Accepted /\ SubSeq(text, 1, 3) = <<"begin", text[2], ":=">> /\ Last(text) = "end"
  /\ IsOfConstants(Tree)
  /\ read' = Tree
  /\ text' = SubSeq(text, 4, Len(text) - 1) \o <<";">>
  /\ at' = 1 /\ todo' = CallWith("ParseConstExpr", {";"}) /\ made' = <<>> /\ answer' = "none"
  /\ UNCHANGED meant

Step ==
  \/ Parse
  \/ \E i \in DOMAIN text : Lose(i) \/ \E token \in Tokens : Add(i, token) \/ Mistake(i, token)
  \/ ReadAsConstant

(* The compiler goes on with what it is doing.                             *)
Spec == Init /\ [][Step]_vars /\ WF_vars(Parse)

-----------------------------------------------------------------------------
TypeOK ==
  /\ at \in 1 .. Len(text) + 2
  /\ answer \in {"none", "tree", "error", "crash"}
  /\ answer = "tree" => todo = <<>> /\ Len(made) = 1

(* Levels and sides of operators, the else that belongs to the nearest if, *)
(* semicolons where they separate and where they do not: whatever is       *)
(* written as ISO 10206 has it, the functions of the parser, which call    *)
(* each other and look one token ahead, make the tree that was meant.      *)
WhatIsWrittenIsRead == (meant # Empty /\ read = Empty /\ answer # "none") => Accepted /\ Tree = meant

(* Nothing of a text that is accepted is lost: written again from the tree *)
(* the parser has made, it has the same tokens in the same order, but for  *)
(* parentheses, semicolons and signs that change nothing.  (A comma in     *)
(* front of a parenthesis is lost, and the labels of a case are numbers by *)
(* then, or lost in front of its end; and an index that is a range becomes *)
(* its beginning when there is something wrong with its end.)              *)
Operand == Variables \cup Pointers \cup DOMAIN Arrays \cup DOMAIN Functions
             \cup DOMAIN Constants \cup DOMAIN Literals \cup {")", "]", "^", "true", "false"}
Essential(tokens) ==
  LET IsKept(i) ==
        /\ tokens[i] \notin {"(", ")", ";"}
        /\ tokens[i] = "+" => i > 1 /\ tokens[i - 1] \in Operand
        /\ tokens[i] = "," => tokens[i + 1] # ")"
      kept == SelectSeq([i \in DOMAIN tokens |-> i], IsKept)
  IN [k \in DOMAIN kept |-> tokens[kept[k]]]
Ranges(tokens) == {i \in DOMAIN tokens : tokens[i] = ".."}
NothingIsLost ==
  (Accepted /\ meant = Empty /\ IsStatement(Tree) /\ "case" \notin Range(text)) =>
     \/ Essential(WriteStatement(Tree)) = Essential(text)
     \/ Cardinality(Ranges(WriteStatement(Tree))) < Cardinality(Ranges(text))

(* The two parsers agree: a constant expression, evaluated while it is     *)
(* read, is the number the same text is worth where it is an expression of *)
(* the program.                                                            *)
ConstantsFoldAsTheyRun ==
  (read # Empty /\ answer # "none") =>
     /\ meant # Empty => answer = "tree"
     /\ answer = "tree" => KindOf(Tree) = "integer" /\ IntOf(Tree) = Worth(Assigned(read))

(* The parser comes to an end with every text, but for a repeat in one     *)
(* with a slip: at an end, the list of its statements gets one that is     *)
(* empty, again and again (ParseRepeat).                                   *)
ParserAnswers == (at > 1 /\ (meant # Empty \/ "repeat" \notin Range(text))) ~> (answer # "none")
=============================================================================
