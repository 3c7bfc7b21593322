------------------------------ MODULE Closures ------------------------------
(***************************************************************************)
(* BuildClosures of callgraph.cpp: which variables of the enclosing        *)
(* functions each nested function is handed by its callers, and what the   *)
(* code generator then finds under those names where a call is compiled.   *)
(*                                                                         *)
(* The maps are keyed by the address of the FunctionAST, so the order in   *)
(* which BuildClosures takes the functions is the heap's: any order.  For  *)
(* each one it copies the entry of useMap, lets RecursiveFindUses extend   *)
(* useMap (the entry, not the copy), and resolves the copy.  The recursion *)
(* is a stack of frames here; a frame holds the subfunctions still to do.  *)
(***************************************************************************)
EXTENDS Integers, Sequences, FiniteSets

CONSTANTS
  Functions,   (* the functions and procedures of the program              *)
  Variables,   (* names of variables                                       *)
  Programs,    (* the programs: records above, locals, names, calls        *)
  Global       (* where a name that no function declares is found          *)

(* above[f] lists the functions around f, innermost first; names[f] and    *)
(* calls[f] are those written in f's own body.                             *)
Program ==
  [above  : [Functions -> Seq(Functions)],
   locals : [Functions -> SUBSET Variables],
   names  : [Functions -> SUBSET Variables],
   calls  : [Functions -> SUBSET Functions]]

Enclosing(p, f) == {p.above[f][i] : i \in DOMAIN p.above[f]}

(* The functions around an enclosing function are the further ones.        *)
Nested(p) ==
  \A f \in Functions : \A i \in DOMAIN p.above[f] :
    /\ p.above[f][i] # f
    /\ Len(p.above[p.above[f][i]]) = Len(p.above[f]) - i
    /\ \A j \in DOMAIN p.above[p.above[f][i]] :
         p.above[p.above[f][i]][j] = p.above[f][i + j]

ASSUME ClosuresAssumption ==
  /\ Programs \subseteq Program
  /\ \A p \in Programs : Nested(p)
  /\ Global \notin Functions

VARIABLES
  prog,       (* the program being compiled                                *)
  useMap,     (* CallGraphClosureCollector.useMap                          *)
  processed,  (* processedFuncsMap                                         *)
  todo,       (* the functions the loop of BuildClosures has not reached   *)
  current,    (* the one it is at, or Global                               *)
  uses,       (* its local copy of the entry of useMap                     *)
  stack,      (* the frames of RecursiveFindUses, outermost first          *)
  used        (* SetUsedVars: the variables in each function's closure     *)

vars == <<prog, useMap, processed, todo, current, uses, stack, used>>

-----------------------------------------------------------------------------
(* The program.                                                            *)

Subs(f) == {g \in Functions : prog.above[g] # <<>> /\ prog.above[g][1] = f}

(* f and the functions nested in it, at any depth.                         *)
Within(f) == {g \in Functions : g = f \/ f \in Enclosing(prog, g)}

(* Mutant: the visitor stays in the function's own body.                  *)
OwnUses(f) == prog.names[f]

(* What CollectUses finds: the visitor also walks into the subfunctions.   *)
TextUses(f)  == UNION {prog.names[g] : g \in Within(f)}
TextCalls(f) == UNION {prog.calls[g] : g \in Within(f)}

(* The nearest function around f that declares x.                          *)
Declarers(f, x) == {i \in DOMAIN prog.above[f] : x \in prog.locals[prog.above[f][i]]}
(* Mutant: the search does not stop at the first declaration.             *)
ResolveOutermost(f, x) ==
  IF Declarers(f, x) = {} THEN Global
  ELSE prog.above[f][CHOOSE i \in Declarers(f, x) : \A j \in Declarers(f, x) : i >= j]

Resolve(f, x) ==
  IF Declarers(f, x) = {} THEN Global
  ELSE prog.above[f][CHOOSE i \in Declarers(f, x) : \A j \in Declarers(f, x) : i <= j]

-----------------------------------------------------------------------------
(* RecursiveFindUses.                                                      *)

Frame(f) == [fn |-> f, subs |-> Subs(f)]
Top == stack[Len(stack)]

(* Entering f: mark it, and add what the functions it calls use, as far as *)
(* that is known by now.                                                   *)
CalledUses(f) == UNION {useMap[g] \ prog.locals[g] : g \in TextCalls(f)}

(* Mutant: the function is not marked as processed.                       *)
PushUnmarked(f) ==
  /\ ~processed[f]
  /\ useMap' = [useMap EXCEPT ![f] = @ \cup CalledUses(f)]
  /\ UNCHANGED processed

Push(f) ==
  /\ ~processed[f]
  /\ processed' = [processed EXCEPT ![f] = TRUE]
  /\ useMap' = [useMap EXCEPT ![f] = @ \cup CalledUses(f)]

(* The loop over SubFunctions: a subfunction that has been done only adds  *)
(* its uses, another one is entered first.                                 *)
AddDoneSub ==
  /\ stack # <<>>
  /\ \E s \in Top.subs :
       /\ processed[s]
       /\ useMap' = [useMap EXCEPT ![Top.fn] = @ \cup useMap[s]]
       /\ stack' = [stack EXCEPT ![Len(stack)].subs = @ \ {s}]
  /\ UNCHANGED <<prog, processed, todo, current, uses, used>>

EnterSub ==
  /\ stack # <<>>
  /\ \E s \in Top.subs :
       /\ Push(s)
       /\ stack' = Append(stack, Frame(s))
  /\ UNCHANGED <<prog, todo, current, uses, used>>

(* The end of RecursiveFindUses: the declarations of the function go.  The *)
(* caller's frame then meets a subfunction that has been done.             *)
Leave ==
  /\ stack # <<>>
  /\ Top.subs = {}
  /\ useMap' = [useMap EXCEPT ![Top.fn] = @ \ prog.locals[Top.fn]]
  /\ stack' = SubSeq(stack, 1, Len(stack) - 1)
  /\ UNCHANGED <<prog, processed, todo, current, uses, used>>

-----------------------------------------------------------------------------
(* The loop of BuildClosures.                                              *)

Take(f) ==
  /\ current = Global
  /\ f \in todo
  /\ todo' = todo \ {f}
  /\ current' = f
  /\ uses' = useMap[f]
  /\ IF processed[f]
       THEN UNCHANGED <<useMap, processed, stack>>
       ELSE Push(f) /\ stack' = <<Frame(f)>>
  /\ UNCHANGED <<prog, used>>

(* Mutant: variables that no function declares are kept.                  *)
SetUsedAndGlobals ==
  /\ current # Global
  /\ stack = <<>>
  /\ used' = [used EXCEPT ![current] =
       {<<x, Resolve(current, x)>> : x \in uses \ prog.locals[current]}]
  /\ current' = Global
  /\ uses' = {}
  /\ UNCHANGED <<prog, useMap, processed, todo, stack>>

SetUsedVars ==
  /\ current # Global
  /\ stack = <<>>
  /\ used' = [used EXCEPT ![current] =
       {xd \in (uses \ prog.locals[current]) \X Functions : xd[2] = Resolve(current, xd[1])}]
  /\ current' = Global
  /\ uses' = {}
  /\ UNCHANGED <<prog, useMap, processed, todo, stack>>

Init ==
  /\ prog \in Programs
  /\ useMap = [f \in Functions |-> TextUses(f)]
  /\ processed = [f \in Functions |-> FALSE]
  /\ todo = Functions
  /\ current = Global
  /\ uses = {}
  /\ stack = <<>>
  /\ used = [f \in Functions |-> {}]

Next ==
  \/ \E f \in Functions : Take(f)
  \/ AddDoneSub
  \/ EnterSub
  \/ Leave
  \/ SetUsedVars

Spec == Init /\ [][Next]_vars

(* The compiler is sequential code: it goes on until it is done.           *)
FairSpec == Spec /\ WF_vars(Next)

-----------------------------------------------------------------------------
(* Code generation.  In f, a name is looked up in f's own scope, which     *)
(* holds its locals and the fields of its closure; the next scope out is   *)
(* the enclosing function's, whose values are of no use in f (the verifier *)
(* stops the compiler there).  Invalid stands for that.                    *)
Invalid == "invalid"
ValueIn(f, x) ==
  IF x \in prog.locals[f] THEN f
  ELSE IF \E d \in Functions : <<x, d>> \in used[f]
    THEN CHOOSE d \in Functions : <<x, d>> \in used[f]
    ELSE Invalid

(* AddClosureArg: at a call of g in f every variable of g's closure is     *)
(* taken by name.                                                          *)
Passed(f, g) == [xd \in used[g] |-> ValueIn(f, xd[1])]

Done == todo = {} /\ current = Global

-----------------------------------------------------------------------------
(* Every variable has its type.                                            *)
TypeOK ==
  /\ prog \in Program /\ Nested(prog)
  /\ useMap \in [Functions -> SUBSET Variables]
  /\ processed \in [Functions -> BOOLEAN]
  /\ todo \in SUBSET Functions
  /\ current \in Functions \cup {Global}
  /\ uses \in SUBSET Variables
  /\ stack \in Seq([fn : Functions, subs : SUBSET Functions])
  /\ used \in [Functions -> SUBSET (Variables \X Functions)]

(* In whatever order the functions are met, a function's closure holds     *)
(* every variable of an outer function that its text, or the text of a     *)
(* function nested in it, names, and the right one of that name.           *)
UsesAreCaptured ==
  \A f \in Functions \ (todo \cup {current}) :
    \A g \in Within(f) : \A x \in prog.names[g] \ prog.locals[g] :
      Resolve(g, x) \in Enclosing(prog, f) => <<x, Resolve(g, x)>> \in used[f]

(* Names are taken for the variable they name: what a function calls uses, *)
(* is uses of the caller, and found in the caller's scopes.  A function at *)
(* the outermost level is no danger to its callers if no function has a    *)
(* local variable of a name that it, or one nested in it, uses.            *)
NoNamesake(g) ==
  \A x \in TextUses(g) \ prog.locals[g] : \A k \in Functions : x \notin prog.locals[k]

(* A program in which functions only call themselves, the functions they   *)
(* declare, and such functions at the outermost level.                     *)
CallsInward ==
  \A f \in Functions : \A g \in prog.calls[f] :
    g = f \/ g \in Subs(f) \/ (prog.above[g] = <<>> /\ NoNamesake(g))

ClosuresPassed ==
  \A f \in Functions : \A g \in prog.calls[f] :
    \A xd \in used[g] : Passed(f, g)[xd] = xd[2]

(* In such a program, every call can pass every variable of the callee's   *)
(* closure, and passes the variable the callee means.                      *)
InwardCallsPassClosures == Done /\ CallsInward => ClosuresPassed

(* BuildClosures ends, for every nesting and every pattern of calls, in    *)
(* any order of the functions: the recursion over subfunctions that others *)
(* have processed meanwhile always returns.                                *)
Terminates == <>Done
=============================================================================
