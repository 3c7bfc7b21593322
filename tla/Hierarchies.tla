---------------------------- MODULE Hierarchies ----------------------------
(* Classes as a program writes them: cs is the sequence of the classes      *)
(* declared so far, each with its base (0: none, else an earlier one), its  *)
(* fields, its methods and whether it has a variant part.                   *)
EXTENDS Integers, Sequences, FiniteSets, FiniteSetsExt, SequencesExt, TLC

NamesOf(ds) == {ds[i].name : i \in DOMAIN ds}

Named(ds, n) == n \in NamesOf(ds)

(* The declaration of the name n in ds; the last one when there are two. *)
Of(ds, n) == ds[Max({i \in DOMAIN ds : ds[i].name = n})]

(* The function f, and g where f is not defined. *)
Over(f, g) == [x \in DOMAIN f \cup DOMAIN g |-> IF x \in DOMAIN f THEN f[x] ELSE g[x]]

(* A class and the classes it derives from, the nearest first. *)
Chain(cs, k) ==
    LET up[j \in 0 .. Len(cs)] == IF j = 0 THEN <<>> ELSE <<j>> \o up[cs[j].base]
    IN  up[k]

(* Whether d is s or derives from it. *)
DerivedFrom(cs, d, s) == s \in ToSet(Chain(cs, d))

(* The first class of a chain that is in the set ks; 0: none is. *)
Nearest(chain, ks) ==
    LET at == {i \in DOMAIN chain : chain[i] \in ks}
    IN  IF at = {} THEN 0 ELSE chain[Min(at)]

FieldOwner(cs, k, f) == Nearest(Chain(cs, k), {j \in DOMAIN cs : Named(cs[j].fields, f)})

MethodOwner(cs, k, m) == Nearest(Chain(cs, k), {j \in DOMAIN cs : Named(cs[j].methods, m)})

Kind(cs, k, m) == Of(cs[k].methods, m).kind

(* The class that brought in the method that k declares under the name m:   *)
(* a virtual method of the same name above is the one that k overrides.     *)
Introducer(cs, k, m) ==
    LET from[j \in 1 .. Len(cs)] ==
            LET up == MethodOwner(cs, cs[j].base, m)
            IN  IF ~Named(cs[j].methods, m) THEN 0
                ELSE IF up = 0 \/ "plain" \in {Kind(cs, j, m), Kind(cs, up, m)} THEN j
                ELSE from[up]
    IN  from[k]

(* What can be named through the class k. *)
FieldsSeen(cs, k) ==
    (UNION {NamesOf(cs[j].fields) : j \in ToSet(Chain(cs, k))})
        \cup (IF cs[k].variant THEN {"variant"} ELSE {})

MethodsSeen(cs, k) == UNION {NamesOf(cs[j].methods) : j \in ToSet(Chain(cs, k))}
=============================================================================
