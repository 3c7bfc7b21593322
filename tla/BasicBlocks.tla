---------------------------- MODULE BasicBlocks ----------------------------
(***************************************************************************)
(* The LLVM function the code generator builds: blocks of phis, code and a *)
(* terminator, and the builder that appends to one of them.  An operand is *)
(* <<"const", value>> or <<"reg", number>>.  Integers have Width bits.     *)
(***************************************************************************)
EXTENDS Integers, Sequences, SequencesExt, TLC

CONSTANT Width   (* bits of an integer: 32 in the code                      *)

ASSUME WidthAssumption == Width \in Nat \ {0}

-----------------------------------------------------------------------------
(* Arithmetic.                                                             *)

Half == 2^(Width - 1)
Wrap(x) == ((x + Half) % (2 * Half)) - Half
Unsigned(x) == x % (2 * Half)
Magnitude(x) == IF x < 0 THEN -x ELSE x
Sign(x) == IF x < 0 THEN -1 ELSE 1
Truth(b) == IF b THEN 1 ELSE 0

(* SDiv and SRem round towards zero.                                       *)
SDiv(l, r) == Sign(l) * Sign(r) * (Magnitude(l) \div Magnitude(r))
SRem(l, r) == Sign(l) * (Magnitude(l) % Magnitude(r))

Calc(op, l, r) ==
  CASE op = "+"   -> Wrap(l + r)
    [] op = "-"   -> Wrap(l - r)
    [] op = "*"   -> Wrap(l * r)
    [] op = "div" -> Wrap(SDiv(l, r))
    [] op = "mod" -> SRem(l, r)
    [] op = "shl" -> Wrap(l * 2^Unsigned(r))
    [] op = "shr" -> Wrap(Unsigned(l) \div 2^Unsigned(r))
    [] op = "odd" -> l % 2
    [] op = "="   -> Truth(l = r)
    [] op = "<>"  -> Truth(l # r)
    [] op = "<"   -> Truth(l < r)
    [] op = "<="  -> Truth(l <= r)
    [] op = ">"   -> Truth(l > r)
    [] op = ">="  -> Truth(l >= r)
    [] op = "u<"  -> Truth(Unsigned(l) < Unsigned(r))
    [] op = "u<=" -> Truth(Unsigned(l) <= Unsigned(r))
    [] op = "u>"  -> Truth(Unsigned(l) > Unsigned(r))
    [] op = "u>=" -> Truth(Unsigned(l) >= Unsigned(r))
    (* Words of a set are sets of bits.                                     *)
    [] op = "cttz"    -> CHOOSE b \in l : \A c \in l : b <= c
    [] op = "dropbit" -> l \ {r}
    [] op = "isempty" -> Truth(l = {})

-----------------------------------------------------------------------------
(* The builder: the graph, the block it appends to and the blocks of the   *)
(* labels met so far.                                                      *)

NewBlock == [phis |-> <<>>, code |-> <<>>, term |-> [to |-> "nowhere"]]
NewGraph(labels) ==
  [blocks |-> <<NewBlock>>, at |-> 1, regs |-> 0, label |-> [l \in labels |-> 0]]

Const(n) == <<"const", n>>

(* The new blocks are numbered from the first one that is free.            *)
Free(g) == Len(g.blocks) + 1
Create(g, n) == [g EXCEPT !.blocks = @ \o [i \in 1 .. n |-> NewBlock]]
SetInsertPoint(g, b) == [g EXCEPT !.at = b]

(* Nothing comes behind a terminator: a block that is ended twice is ruined. *)
Emit(g, instruction) ==
  [g EXCEPT !.blocks[g.at].code = Append(@, instruction)]
Terminate(g, term) ==
  [g EXCEPT !.blocks[g.at].term = IF @.to = "nowhere" THEN term ELSE [to |-> "ended twice"]]
Br(b) == [to |-> "block", next |-> b]
CondBr(c, yes, no) == [to |-> "either", on |-> c, yes |-> yes, no |-> no]

(* The number of the register that is next.                                *)
Register(g) == g.regs + 1
Reg(n) == <<"reg", n>>
Yield(g, instruction) == Emit([g EXCEPT !.regs = Register(g)], instruction @@ [to |-> Register(g)])

(* incoming is a sequence of <<operand, block>>.                           *)
CreatePHI(g, incoming) ==
  [g EXCEPT !.regs = Register(g),
            !.blocks[g.at].phis = Append(@, [to |-> Register(g), in |-> incoming])]

(* Mutant: the phi is left without the value.                              *)
AddNoIncoming(g, v, x, origin) == g

(* addIncoming to the phi that gave operand v.                             *)
AddIncoming(g, v, x, origin) ==
  [g EXCEPT !.blocks = [b \in DOMAIN @ |-> [@[b] EXCEPT !.phis =
     [i \in DOMAIN @ |-> IF @[i].to = v[2]
                         THEN [@[i] EXCEPT !.in = Append(@, <<x, origin>>)] ELSE @[i]]]]]

-----------------------------------------------------------------------------
(* What verifyFunction asks of the finished function.                      *)

Successors(block) ==
  CASE block.term.to = "block"  -> {block.term.next}
    [] block.term.to = "either" -> {block.term.yes, block.term.no}
    [] block.term.to = "switch" -> {block.term.default} \cup {block.term.cases[i][2] :
                                                            i \in DOMAIN block.term.cases}
    [] OTHER -> {}
Predecessors(g, b) == {p \in DOMAIN g.blocks : b \in Successors(g.blocks[p])}

Terminated(g) == \A b \in DOMAIN g.blocks : g.blocks[b].term.to \notin {"nowhere", "ended twice"}
PhisMatch(g) ==
  \A b \in DOMAIN g.blocks : \A i \in DOMAIN g.blocks[b].phis :
    LET in == g.blocks[b].phis[i].in
    IN /\ {in[j][2] : j \in DOMAIN in} = Predecessors(g, b)
       /\ \A j, k \in DOMAIN in : in[j][2] = in[k][2] => j = k
CasesDiffer(g) ==
  \A b \in DOMAIN g.blocks : g.blocks[b].term.to = "switch" =>
    LET c == g.blocks[b].term.cases
    IN \A j, k \in DOMAIN c : c[j][1] = c[k][1] => j = k
Verified(g) == Terminated(g) /\ PhisMatch(g) /\ CasesDiffer(g)
=============================================================================
