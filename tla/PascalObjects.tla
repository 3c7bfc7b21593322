--------------------------- MODULE PascalObjects ---------------------------
(* What a program with classes means, whatever memory looks like: an object *)
(* has a value for every field of its class and of the classes above, a     *)
(* field is found from the class it is named through upwards, and a virtual *)
(* method is the one nearest to the object's own class.                     *)
EXTENDS Hierarchies

CONSTANTS Declarations, \* the classes a program may declare, but for their base
          Objects, Values, Zero

VARIABLES classes,  \* the classes declared
          objects,  \* the class of every object and the values of its fields
          statics   \* the values of the static fields

abstractVars == <<classes, objects, statics>>

OwnFields(c) == {d.name : d \in {f \in ToSet(c.fields) : ~f.static}}
                    \cup IF c.variant THEN {"variant"} ELSE {}

FieldsOf(k) == UNION {{j} \X OwnFields(classes[j]) : j \in ToSet(Chain(classes, k))}

Absent == [class |-> 0, values |-> <<>>]

Init == /\ classes = <<>>
        /\ objects = [o \in Objects |-> Absent]
        /\ statics = <<>>

Declare(base, d) ==
    /\ objects = [o \in Objects |-> Absent]
    /\ classes' = Append(classes, [base |-> base, fields |-> d.fields, methods |-> d.methods,
                                 variant |-> d.variant])
    /\ statics' = Over([f \in {<<Len(classes'), e.name>> : e \in {g \in ToSet(d.fields) : g.static}}
                        |-> Zero], statics)
    /\ UNCHANGED objects

Create(o, k) == /\ objects[o].class = 0
                /\ objects' = [objects EXCEPT ![o] =
                                  [class |-> k, values |-> [f \in FieldsOf(k) |-> Zero]]]
                /\ UNCHANGED <<classes, statics>>

(* The field f of the object o, named through the class s. *)
Field(o, s, f) == IF f = "variant" THEN <<s, f>> ELSE <<FieldOwner(classes, s, f), f>>

Sees(o, s) == objects[o].class # 0 /\ DerivedFrom(classes, objects[o].class, s)

Put(o, s, f, v) ==
    /\ Sees(o, s)
    /\ LET at == Field(o, s, f)
       IN  IF at \in DOMAIN statics
           THEN statics' = [statics EXCEPT ![at] = v] /\ UNCHANGED objects
           ELSE objects' = [objects EXCEPT ![o].values[at] = v] /\ UNCHANGED statics
    /\ UNCHANGED classes

(* What reading the field f of o shows. *)
Read(o, s, f) ==
    LET at == Field(o, s, f) IN IF at \in DOMAIN statics THEN statics[at] ELSE objects[o].values[at]

(* The class whose method m runs when it is called on o through the class s. *)
Runs(o, s, m) ==
    LET found == MethodOwner(classes, s, m)
        of    == Introducer(classes, found, m)
    IN  IF Kind(classes, found, m) = "plain" THEN found
        ELSE Nearest(Chain(classes, objects[o].class),
                     {j \in DOMAIN classes : Introducer(classes, j, m) = of})

(* The value of an object of the same class, or of a derived one. *)
Assign(a, b) ==
    /\ objects[a].class # 0
    /\ Sees(b, objects[a].class)
    /\ objects' = [objects EXCEPT ![a].values = [f \in DOMAIN @ |-> objects[b].values[f]]]
    /\ UNCHANGED <<classes, statics>>

Next == \/ \E base \in 0 .. Len(classes), d \in Declarations : Declare(base, d)
        \/ \E o \in Objects, k \in DOMAIN classes : Create(o, k)
        \/ \E o \in Objects, s \in DOMAIN classes :
              \E f \in FieldsSeen(classes, s), v \in Values : Put(o, s, f, v)
        \/ \E a, b \in Objects : Assign(a, b)

Spec == Init /\ [][Next]_abstractVars
=============================================================================
