----------------------------- MODULE PascalSets -----------------------------
(* What the statements on set variables mean in Pascal: each variable      *)
(* holds a set of values, and the operators are those of mathematics.      *)
(* Sets is shown to implement this.                                        *)
EXTENDS Integers

CONSTANTS
  Statements  (* the statements a program can have: records with an op     *)

VARIABLES
  value,      (* the set each variable holds                               *)
  last,       (* the statement done last                                   *)
  found       (* what the last condition was found to be                   *)

vars == <<value, last, found>>

Listed(items) == UNION {i.lo .. i.hi : i \in items}

Init ==
  /\ value = [v \in DOMAIN value |-> {}]
  /\ last = [op |-> "none"]
  /\ found = FALSE

Result(s) ==
  CASE s.op = "list"      -> Listed(s.items)
    [] s.op = "copy"      -> value[s.left]
    [] s.op = "Union"     -> value[s.left] \cup value[s.right]
    [] s.op = "Intersect" -> value[s.left] \cap value[s.right]
    [] s.op = "Diff"      -> value[s.left] \ value[s.right]
    [] s.op = "SymDiff"   -> (value[s.left] \cup value[s.right])
                               \ (value[s.left] \cap value[s.right])

Holds(s) ==
  CASE s.op = "="  -> value[s.left] = value[s.right]
    [] s.op = "<>" -> value[s.left] # value[s.right]
    [] s.op = "<=" -> value[s.left] \subseteq value[s.right]
    [] s.op = ">=" -> value[s.right] \subseteq value[s.left]
    [] s.op = "in" -> s.element \in value[s.left]

Assign(s) ==
  /\ "to" \in DOMAIN s
  /\ value' = [value EXCEPT ![s.to] = Result(s)]
  /\ UNCHANGED found

Decide(s) ==
  /\ "to" \notin DOMAIN s
  /\ found' = Holds(s)
  /\ UNCHANGED value

(* Any statement may come next; last tells which one came.                 *)
Next == last' \in Statements /\ (Assign(last') \/ Decide(last'))

Spec == Init /\ [][Next]_vars
=============================================================================
