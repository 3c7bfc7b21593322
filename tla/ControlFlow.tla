----------------------------- MODULE ControlFlow -----------------------------
(***************************************************************************)
(* The blocks that Statements makes of a program, run one instruction a    *)
(* step.  Registers are written where an instruction yields a value,       *)
(* variables live in memory; a block's phis take their values on the way in. *)
(***************************************************************************)
EXTENDS Statements, FiniteSets

CONSTANTS
  Programs,    (* a sequence of programs: [body, labels, inputs], an input *)
               (* being memory at the start: [env, array, set]             *)
  MaxOutput,   (* what a program can write, which bounds the endless ones  *)
  Fuel,        (* turns of loops after which a program is taken as endless *)
  Junk         (* what is found behind an array                            *)

VARIABLES
  program, input, (* the number of the program, and its input              *)
  graph,          (* the blocks made of the program                        *)
  meant,          (* the state in which Pascal says the program ends       *)
  block, at,     (* the block that runs, and the instruction that is next  *)
  regs,          (* the registers that have been given a value             *)
  memory,        (* [env, array, set], array and set as the words they are *)
  output,
  status         (* "runs", "returned" or "range error"                    *)

vars == <<program, input, graph, meant, block, at, regs, memory, output, status>>

Text == FoldLeft(LAMBDA made, p : Append(made, p), <<>>, Programs)
Here == graph.blocks[block]

-----------------------------------------------------------------------------
(* Memory: an array is its elements in the order of the last index, a set  *)
(* an array of words.                                                      *)

Product(ranges) == FoldLeft(LAMBDA n, r : n * SizeOf(r), 1, ranges)
Offset(ranges, is) ==
  FoldLeftDomain(LAMBDA n, i : n * SizeOf(ranges[i]) + is[i] - ranges[i].lo, 0, is)
IndexesOf(ranges) == {is \in [DOMAIN ranges -> UNION {r.lo .. r.hi : r \in ToSet(ranges)}] :
                        \A i \in DOMAIN ranges : ranges[i].lo <= is[i] /\ is[i] <= ranges[i].hi}
IndexesAt == [a \in DOMAIN Arrays |->
  [o \in 0 .. Product(Arrays[a]) - 1 |->
     CHOOSE is \in IndexesOf(Arrays[a]) : Offset(Arrays[a], is) = o]]
AsElements(a, array) == [o \in DOMAIN IndexesAt[a] |-> Wrap(array[IndexesAt[a][o]])]
AsWords(t, set) ==
  [w \in 0 .. SetWords(Sets[t]) - 1 |->
     {b \in 0 .. SetBits - 1 : Sets[t].lo + w * SetBits + b \in set}]

MemoryOf(in) ==
  [env |-> [v \in DOMAIN in.env |-> Wrap(in.env[v])] @@ (Res :> 0),
   array |-> [a \in DOMAIN in.array |-> AsElements(a, in.array[a])],
   set |-> [t \in DOMAIN in.set |-> AsWords(t, in.set[t])]]

Pascal == INSTANCE PascalStatements WITH
            ArrayRanges <- Arrays, SetRanges <- Sets, MinInt <- -Half, MaxInt <- Half - 1
Meant == Pascal!Run(Text[program].body,
           [env |-> input.env, array |-> input.array, set |-> input.set, output |-> <<>>,
            jump |-> Pascal!GoesOn, fuel |-> Fuel])

Init ==
  /\ program \in DOMAIN Text
  /\ input \in Text[program].inputs
  /\ graph = FunctionCodeGen(Text[program].body, Text[program].labels)
  /\ meant = Meant
  /\ block = 1
  /\ at = 1
  /\ regs = <<>>
  /\ memory = MemoryOf(input)
  /\ output = <<>>
  /\ status = "runs"

-----------------------------------------------------------------------------
Defined(v) == v[1] = "const" \/ v[2] \in DOMAIN regs
ValueOf(v) == IF v[1] = "const" THEN v[2] ELSE regs[v[2]]
SetReg(n, value) == regs' = (n :> value) @@ regs

(* The instructions of the code.                                           *)
Instruction == Here.code[at]
InCode == status = "runs" /\ at <= Len(Here.code)
Follows == at' = at + 1 /\ UNCHANGED <<program, input, graph, meant, block, status>>
Reads(fields) == \A f \in fields : Defined(Instruction[f])

Compute ==
  /\ InCode /\ Instruction.do = "op" /\ Reads({"l", "r"})
  /\ SetReg(Instruction.to, Calc(Instruction.op, ValueOf(Instruction.l), ValueOf(Instruction.r)))
  /\ Follows
  /\ UNCHANGED <<memory, output>>

Load ==
  /\ InCode /\ Instruction.do = "load"
  /\ SetReg(Instruction.to, memory.env[Instruction.var])
  /\ Follows
  /\ UNCHANGED <<memory, output>>

Store ==
  /\ InCode /\ Instruction.do = "store" /\ Reads({"val"})
  /\ memory' = [memory EXCEPT !.env[Instruction.var] = ValueOf(Instruction.val)]
  /\ Follows
  /\ UNCHANGED <<regs, output>>

(* Behind an array is what happens to be there.                            *)
LoadElement ==
  /\ InCode /\ Instruction.do = "loadelem" /\ Reads({"l"})
  /\ LET words == (memory.array @@ memory.set)[Instruction.var]
         i == ValueOf(Instruction.l)
     IN SetReg(Instruction.to, IF i \in DOMAIN words THEN words[i] ELSE Junk)
  /\ Follows
  /\ UNCHANGED <<memory, output>>

StoreElement ==
  /\ InCode /\ Instruction.do = "storeelem" /\ Reads({"l", "val"})
  /\ ValueOf(Instruction.l) \in DOMAIN memory.array[Instruction.var]
  /\ memory' = [memory EXCEPT !.array[Instruction.var][ValueOf(Instruction.l)] =
                   ValueOf(Instruction.val)]
  /\ Follows
  /\ UNCHANGED <<regs, output>>

WriteOut ==
  /\ InCode /\ Instruction.do = "write" /\ Reads({"val"})
  /\ Len(output) < MaxOutput
  /\ output' = Append(output, ValueOf(Instruction.val))
  /\ Follows
  /\ UNCHANGED <<regs, memory>>

(* The terminators.                                                        *)
AtEnd == status = "runs" /\ at = Len(Here.code) + 1

(* The phis of a block take their values together, from this block.        *)
Phis(to) == ToSet(graph.blocks[to].phis)
FromHere(phi) == {j \in DOMAIN phi.in : phi.in[j][2] = block}
Comes(phi) == phi.in[CHOOSE j \in FromHere(phi) : TRUE][1]
WithoutValue(to) == {phi \in Phis(to) : FromHere(phi) = {} \/ ~Defined(Comes(phi))}
PhiValues(to) == [n \in {phi.to : phi \in Phis(to)} |->
                    ValueOf(Comes(CHOOSE phi \in Phis(to) : phi.to = n))]

Goes(to) ==
  /\ WithoutValue(to) = {}
  /\ regs' = PhiValues(to) @@ regs
  /\ block' = to
  /\ at' = 1
  /\ UNCHANGED <<program, input, graph, meant, memory, output, status>>

Ends(as) ==
  /\ status' = as
  /\ UNCHANGED <<program, input, graph, meant, block, at, regs, memory, output>>

Branch == AtEnd /\ Here.term.to = "block" /\ Goes(Here.term.next)

CondBranch ==
  /\ AtEnd /\ Here.term.to = "either" /\ Defined(Here.term.on)
  /\ Goes(IF ValueOf(Here.term.on) = 1 THEN Here.term.yes ELSE Here.term.no)

Switch ==
  /\ AtEnd /\ Here.term.to = "switch" /\ Defined(Here.term.on)
  /\ LET hits == {i \in DOMAIN Here.term.cases : Here.term.cases[i][1] = ValueOf(Here.term.on)}
     IN Goes(IF hits = {} THEN Here.term.default ELSE Here.term.cases[CHOOSE i \in hits : TRUE][2])

Return == AtEnd /\ Here.term.to = "return" /\ Ends("returned")
OutOfRange == AtEnd /\ Here.term.to = "range_error" /\ Ends("range error")

Next ==
  \/ Compute \/ Load \/ Store \/ LoadElement \/ StoreElement \/ WriteOut
  \/ Branch \/ CondBranch \/ Switch \/ Return \/ OutOfRange

Spec == Init /\ [][Next]_vars /\ WF_vars(Next)

-----------------------------------------------------------------------------
(* Properties.                                                             *)

Ended == status # "runs"

(* verifyFunction finds nothing: every block ends, and every phi names the *)
(* blocks its own is entered from (expr.cpp:2218, "Something went wrong in *)
(* code generation").                                                      *)
FunctionVerifies == Verified(graph)

(* Every register that is read has been written, on whatever way the block *)
(* is reached, so that a run stops only where the program ends.            *)
NoUndefinedValue == ~Ended /\ Len(output) < MaxOutput => ENABLED Next

(* Unless an integer overflows,                                            *)
(* the blocks write what Pascal says the program writes, end in a range    *)
(* error where it says so and nowhere else, and leave its variables as it  *)
(* says, those of loops apart.                                             *)
RunsAsMeant ==
  Ended /\ meant.jump # Pascal!Overflow =>
    /\ output = [i \in DOMAIN meant.output |-> Wrap(meant.output[i])]
    /\ (status = "range error") = (meant.jump = Pascal!RangeError)
    /\ \A v \in DOMAIN input.env :
         meant.env[v] # Pascal!Undefined => memory.env[v] = Wrap(meant.env[v])
    /\ \A a \in DOMAIN input.array : memory.array[a] = AsElements(a, meant.array[a])

(* A program that ends in Pascal ends: no loop goes on past the end of its *)
(* variable's type.                                                        *)
EndsIfMeant == (meant.jump \notin {Pascal!OutOfFuel, Pascal!Overflow}) ~> Ended
=============================================================================
