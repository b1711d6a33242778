---------------------------- MODULE StateClasses ----------------------------
(***************************************************************************)
(* AgentRefStateMeta of core/state.py and the markers of core/types.py: a    *)
(* program defines state classes one after the other, and each gets its      *)
(* field metadata from its bases in their order and its attributes from      *)
(* Python along its method resolution order.  One field name is followed;    *)
(* names that start with "_" are no fields.                                  *)
(***************************************************************************)
EXTENDS Naturals, Sequences, Functions

CONSTANT MaxClasses    \* bound

ASSUME ClassesAssumption == MaxClasses \in Nat

VARIABLE classes       \* in the order of their definition

classVars == <<classes>>

Kinds == {"inline", "externalized"}

\* What a class body says of the name: Inline[...], Externalized[...], another annotation
\* or nothing ("none"), or a value, which an annotation of another kind may come with.
Declarations == Kinds \cup {"none", "value"}

\* Later classes may have earlier ones for bases; AgentRefState is understood.
\* attribute: what the class's own __dict__ has; field: the kind in __agentref_fields__.
StateClass == [bases : Seq(1..MaxClasses), mro : Seq(1..MaxClasses), resolvable : BOOLEAN,
               attribute : Declarations, field : Kinds \cup {"none"}]

ClassesTypeOK == classes \in Seq(StateClass) /\ Len(classes) <= MaxClasses

ClassesInit == classes = <<>>

\* Python's C3 takes classes off the lists it merges.  These lists have a head that no list
\* has further back.
FreeHeads(lists) ==
    {i \in DOMAIN lists : lists[i] # <<>>
        /\ \A j \in DOMAIN lists : lists[j] # <<>> => Head(lists[i]) \notin Range(Tail(lists[j]))}

TakeOff(lists, c) ==
    [i \in DOMAIN lists |->
        IF lists[i] # <<>> /\ Head(lists[i]) = c THEN Tail(lists[i]) ELSE lists[i]]

\* One step of C3: the first free head is next in the order.
LinearizeStep(acc) ==
    LET heads == FreeHeads(acc.lists)
        best == Head(acc.lists[CHOOSE i \in heads : \A j \in heads : i <= j])
    IN  IF heads = {} THEN acc
        ELSE [order |-> Append(acc.order, best), lists |-> TakeOff(acc.lists, best)]

\* The order of a class with these bases and what is left over, nothing if there is one.
Linearize(new, bases) ==
    LET merged[n \in 0..MaxClasses] ==
            IF n > 0 THEN LinearizeStep(merged[n - 1])
            ELSE [order |-> <<new>>,
                  lists |-> [i \in DOMAIN bases |-> classes[bases[i]].mro] \o <<bases>>]
    IN  merged[MaxClasses]

\* Merge in which the fields of the first base stay.
MergeFirst(bases) ==
    LET with == {i \in DOMAIN bases : classes[bases[i]].field # "none"}
    IN  IF 1 \in with THEN classes[bases[1]].field ELSE "none"

\* fields.update for every base
Merge(bases) ==
    LET with == {i \in DOMAIN bases : classes[bases[i]].field # "none"}
    IN  IF with = {} THEN "none"
        ELSE classes[bases[CHOOSE i \in with : \A j \in with : j <= i]].field

\* is_inline_annotation and is_externalized_annotation
IsMarker(said) == said \in Kinds

\* get_type_hints looks at the annotations of all ancestors and raises where one does not
\* resolve.
HintsResolve(order, resolves) ==
    resolves /\ \A i \in 2..Len(order) : classes[order[i]].resolvable

\* Recognized for every annotation that is an object.
RecognizedAnyway(said, order, resolves, evaluated) == evaluated \/ HintsResolve(order, resolves)

\* Without hints the class is left with its own annotations: markers in a module that
\* evaluates them, strings, which are no markers, in one that postpones them.
Recognized(said, order, resolves, evaluated) ==
    IsMarker(said) /\ (evaluated \/ HintsResolve(order, resolves))

\* AgentRefStateMeta.__new__, after type.__new__ has found the order; Python refuses bases
\* that have none in common.
DefineClass(bases, linear, said, resolves, evaluated) ==
    LET new == Len(classes) + 1
        own == Recognized(said, linear.order, resolves, evaluated)
    IN  /\ \A i \in DOMAIN linear.lists : linear.lists[i] = <<>>
        /\ classes' = Append(classes,
              [bases |-> bases, mro |-> linear.order, resolvable |-> resolves,
               attribute |-> IF own \/ said = "value" THEN said ELSE "none",
               field |-> IF own THEN said ELSE Merge(bases)])

Defined == 1..Len(classes)

\* Any of the classes there are, in any order; Python refuses a base that is named twice.
BaseLists == UNION {Injection(1..n, Defined) : n \in 0..Len(classes)}

ClassesNext ==
    /\ Len(classes) < MaxClasses
    /\ \E bases \in BaseLists :
          LET linear == Linearize(Len(classes) + 1, bases)
          IN  \E said \in Declarations, resolves, evaluated \in BOOLEAN :
                  DefineClass(bases, linear, said, resolves, evaluated)

ClassesSpec == ClassesInit /\ [][ClassesNext]_classVars

-----------------------------------------------------------------------------
(* Properties *)

Ancestry(c) == [i \in DOMAIN classes[c].mro |-> classes[classes[c].mro[i]]]

FirstAttribute(order) ==
    LET with == {i \in DOMAIN order : order[i].attribute # "none"}
    IN  IF with = {} THEN "none" ELSE order[CHOOSE i \in with : \A j \in with : i <= j].attribute

\* What getattr finds on a class: the attribute of the first ancestor that has one.
Lookup(c) == FirstAttribute(Ancestry(c))

Linear(c) == \A i \in DOMAIN Ancestry(c) : Len(Ancestry(c)[i].bases) <= 1
OneKind(c) ==
    \A i, j \in DOMAIN Ancestry(c) :
        {Ancestry(c)[i].attribute, Ancestry(c)[j].attribute} # Kinds

\* state.py:44-74: by whatever bases a class comes to a field, and whichever annotations
\* do not resolve, the kind that checkpoints and restores go by is that of the descriptor
\* which reads and assignments get; except where a value hides the descriptor, or a class
\* with several bases has the field from them in both kinds.
KindsAgree ==
    \A c \in Defined :
        Lookup(c) # "value" /\ (Linear(c) \/ OneKind(c)) => classes[c].field = Lookup(c)
=============================================================================
