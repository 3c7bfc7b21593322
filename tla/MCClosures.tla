----------------------------- MODULE MCClosures -----------------------------
(* Instances of Closures: p holds f and g, side by side or one in another, *)
(* and h is beside p.  Every way to give them local variables, used names  *)
(* and, p calling its own functions, calls upwards, inwards, sideways and  *)
(* out to h.                                                               *)
EXTENDS Closures, TLC

CONSTANTS p, f, g, h, x

Siblings == (p :> <<>>) @@ (f :> <<p>>) @@ (g :> <<p>>) @@ (h :> <<>>)
Chain    == (p :> <<>>) @@ (f :> <<p>>) @@ (g :> <<f, p>>) @@ (h :> <<>>)

MCLocals    == {l \in [Functions -> SUBSET Variables] : l[h] = {}}
MCNames     == {n \in [Functions -> SUBSET Variables] : n[p] = {}}
Calls(subs) == {(p :> subs) @@ (f :> cf) @@ (g :> cg) @@ (h :> {}) :
                  cf \in SUBSET {p, g}, cg \in SUBSET {f, h}}

MCPrograms ==
  UNION {{[above |-> shape, locals |-> l, names |-> n, calls |-> c] :
            l \in MCLocals, n \in MCNames,
            c \in Calls({k \in {f, g} : shape[k] = <<p>>})} :
         shape \in {Siblings, Chain}}
=============================================================================
