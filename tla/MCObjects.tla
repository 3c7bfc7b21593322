----------------------------- MODULE MCObjects -----------------------------
(* Small instances of Objects: what the classes of a program may declare.   *)
EXTENDS Objects

Plain(n) == [name |-> n, static |-> FALSE]
Static(n) == [name |-> n, static |-> TRUE]
Method(n, k) == [name |-> n, kind |-> k]

MCFields == {<<>>, <<Plain("x")>>, <<Plain("x"), Static("z")>>}

MCMethods == {<<>>, <<Method("m", "plain")>>, <<Method("m", "virtual")>>, <<Method("m", "override")>>,
              <<Method("n", "virtual"), Method("m", "override")>>}

MCDeclarations ==
    {[fields |-> f, methods |-> m, variant |-> FALSE] : f \in MCFields, m \in MCMethods}
        \cup {[fields |-> <<Plain("y")>>, methods |-> m, variant |-> TRUE] :
                m \in {<<>>, <<Method("m", "virtual")>>}}
=============================================================================
