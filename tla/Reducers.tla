------------------------------ MODULE Reducers ------------------------------
(***************************************************************************)
(* core/reducers.py: two channels of a graph, a dictionary and a list, whose *)
(* updates are joined by ref_aware_dict_merge and ref_aware_list_append, in  *)
(* whatever batches they come, repeated ones among them.                     *)
(***************************************************************************)
EXTENDS Naturals, Sequences, FiniteSets

CONSTANTS
    Keys,
    Hashes,
    Names,       \* the rest of a reference: its backend_id, type_name, and its form
    Lookalikes,  \* the rest of a mapping that is no reference but has an entry "hash"
    Plain,       \* values without a hash
    MaxItems,    \* bound: items a list has been given
    NoHash

ASSUME ReducersAssumption ==
    NoHash \notin Hashes /\ MaxItems \in Nat /\ Names \cap Lookalikes = {}

\* A ContentRef or a wrapper; a mapping that has a hash like one; or another value.
Item == [hash : Hashes, name : Names \cup Lookalikes] \cup [hash : {NoHash}, name : Plain]

VARIABLES
    dict,        \* key |-> item, on the keys present
    latest,      \* history: key |-> the item it was last given
    list,
    given        \* history: all items the list was given, in order

reducersVars == <<dict, latest, list, given>>

Dicts == UNION {[K -> Item] : K \in SUBSET Keys}

ReducersTypeOK ==
    /\ dict \in Dicts /\ latest \in Dicts
    /\ list \in Seq(Item) /\ given \in Seq(Item)

ReducersInit ==
    /\ dict = [k \in {} |-> NoHash]
    /\ latest = [k \in {} |-> NoHash]
    /\ list = <<>>
    /\ given = <<>>

\* _content_ref_hash, which asks of a mapping no more than the entry "hash"
HashOf(x) == x.hash

SameHash(x, y) == HashOf(x) # NoHash /\ HashOf(x) = HashOf(y)

\* ref_aware_dict_merge that keeps whatever reference is there.
DictMergeKeeping(left, right) ==
    [k \in DOMAIN left \cup DOMAIN right |->
        IF k \in DOMAIN left /\ (k \in DOMAIN right => HashOf(right[k]) # NoHash) THEN left[k]
        ELSE right[k]]

\* ref_aware_dict_merge: the right one, unless both carry the same hash
DictMerge(left, right) ==
    [k \in DOMAIN left \cup DOMAIN right |->
        IF k \in DOMAIN left /\ (k \in DOMAIN right => SameHash(right[k], left[k])) THEN left[k]
        ELSE right[k]]

\* _content_ref_hashes
HashesOf(items) == {HashOf(items[i]) : i \in DOMAIN items} \ {NoHash}

\* AppendItem that compares with the left list only.
AppendUnlessOld(left, items, x) ==
    IF HashOf(x) \in HashesOf(left) THEN items ELSE Append(items, x)

\* The loop body of ref_aware_list_append: items are those merged so far.
AppendItem(left, items, x) ==
    IF HashOf(x) \in HashesOf(items) THEN items ELSE Append(items, x)

\* ref_aware_list_append: merged[n] is what there is after the first n items on the right.
ListAppend(left, right) ==
    LET merged[n \in 0..Len(right)] ==
            IF n = 0 THEN left ELSE AppendItem(left, merged[n - 1], right[n])
    IN  merged[Len(right)]

MergeUpdate(right) ==
    /\ dict' = DictMerge(dict, right)
    /\ latest' = [k \in DOMAIN latest \cup DOMAIN right |->
                    IF k \in DOMAIN right THEN right[k] ELSE latest[k]]
    /\ UNCHANGED <<list, given>>

AppendUpdate(right) ==
    /\ Len(given) + Len(right) <= MaxItems
    /\ list' = ListAppend(list, right)
    /\ given' = given \o right
    /\ UNCHANGED <<dict, latest>>

ReducersNext ==
    \/ \E right \in Dicts : MergeUpdate(right)
    \/ \E n \in 1..MaxItems : \E right \in [1..n -> Item] : AppendUpdate(right)

ReducersSpec == ReducersInit /\ [][ReducersNext]_reducersVars

-----------------------------------------------------------------------------
(* Properties *)

\* Two references to one object, and no value that merely looks like one.
SameReference(x, y) == SameHash(x, y) /\ {x.name, y.name} \subseteq Names

\* reducers.py:13-15: a key has the item it was last given, or a reference to the same
\* object, whatever was merged before and however often.
DictKeepsLatest ==
    /\ DOMAIN dict = DOMAIN latest
    /\ \A k \in DOMAIN dict : dict[k] = latest[k] \/ SameReference(dict[k], latest[k])

\* The positions of a sequence whose item is not a reference to what an earlier one is.
FirstOnes(items) ==
    {i \in DOMAIN items : \A j \in 1..(i - 1) : ~SameReference(items[j], items[i])}

\* Where the item at such a position i is among them.
Place(items, i) == Cardinality({j \in FirstOnes(items) : j <= i})

\* reducers.py:30-32: in whatever batches a list is given its items, it has all of them in
\* their order, references only where their hash comes first, and every other value every
\* time.  Like DictKeepsLatest it is so where no value looks like a reference (Lookalikes).
ListIsFirstOnes ==
    /\ Len(list) = Cardinality(FirstOnes(given))
    /\ \A i \in FirstOnes(given) : list[Place(given, i)] = given[i]
=============================================================================
