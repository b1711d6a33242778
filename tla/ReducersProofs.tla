--------------------------- MODULE ReducersProofs ---------------------------
(***************************************************************************)
(* DictKeepsLatest and ListIsFirstOnes for any keys, hashes and batches, as   *)
(* long as nothing looks like a reference that is none; what the code does,  *)
(* which goes by hashes, is shown without that condition first.              *)
(* ref_aware_list_append is a loop over the items it is given; that the      *)
(* function which stands for the loop exists, and what it maintains, is      *)
(* shown by the least number for which it would be wrong (NatMin).           *)
(***************************************************************************)
EXTENDS Reducers, FiniteSetTheorems, SequenceTheorems, TLAPS

LEMMA NatMin ==
    ASSUME NEW T \in SUBSET Nat, T # {}
    PROVE  \E m \in T : \A k \in T : m <= k
<1>1. PICK m \in T : \A k \in T : ~(<<k, m>> \in OpToRel(<, Nat))
  BY NatLessThanWellFounded, WFMin
<1>2. \A k \in T : ~(k < m)
  BY <1>1 DEF OpToRel
<1> QED BY <1>2

-----------------------------------------------------------------------------
(* Dictionaries *)

\* What DictKeepsLatest says, going by hashes as the code does.
KeepsLatestHash ==
    /\ DOMAIN dict = DOMAIN latest
    /\ \A k \in DOMAIN dict : dict[k] = latest[k] \/ SameHash(dict[k], latest[k])

LEMMA DictMergeType ==
    ASSUME NEW left \in Dicts, NEW right \in Dicts
    PROVE  /\ DictMerge(left, right) \in Dicts
           /\ DOMAIN DictMerge(left, right) = DOMAIN left \cup DOMAIN right
<1>1. PICK K \in SUBSET Keys : left \in [K -> Item]
  BY DEF Dicts
<1>2. PICK L \in SUBSET Keys : right \in [L -> Item]
  BY DEF Dicts
<1>3. DictMerge(left, right) \in [K \cup L -> Item]
  BY <1>1, <1>2 DEF DictMerge
<1> QED BY <1>1, <1>2, <1>3 DEF Dicts

LEMMA DictStep ==
    ASSUME ReducersTypeOK, KeepsLatestHash, NEW right \in Dicts, MergeUpdate(right)
    PROVE  dict' \in Dicts /\ latest' \in Dicts /\ KeepsLatestHash'
<1>1. PICK K \in SUBSET Keys : dict \in [K -> Item] /\ latest \in [K -> Item]
  BY DEF ReducersTypeOK, Dicts, KeepsLatestHash
<1>2. PICK L \in SUBSET Keys : right \in [L -> Item]
  BY DEF Dicts
<1>3. latest' \in [K \cup L -> Item]
  BY <1>1, <1>2 DEF MergeUpdate
<1>4. latest' \in Dicts
  BY <1>3 DEF Dicts
<1>5. dict' \in Dicts /\ DOMAIN dict' = DOMAIN latest'
  BY <1>1, <1>2, <1>3, DictMergeType DEF MergeUpdate, ReducersTypeOK
<1>6. ASSUME NEW k \in DOMAIN dict' PROVE dict'[k] = latest'[k] \/ SameHash(dict'[k], latest'[k])
  <2>1. CASE k \in L
    BY <1>1, <1>2, <1>6, <2>1 DEF MergeUpdate, DictMerge, SameHash
  <2>2. CASE k \notin L
    <3>1. k \in K
      BY <1>3, <1>5, <2>2
    <3> QED BY <1>1, <1>2, <2>2, <3>1 DEF MergeUpdate, DictMerge, KeepsLatestHash
  <2> QED BY <2>1, <2>2
<1> QED BY <1>4, <1>5, <1>6 DEF KeepsLatestHash, SameHash

-----------------------------------------------------------------------------
(* Lists *)

\* FirstOnes and Place, going by hashes as the code does.
HashFirstOnes(items) ==
    {i \in DOMAIN items : \A j \in 1..(i - 1) : ~SameHash(items[j], items[i])}
HashPlace(items, i) == Cardinality({j \in HashFirstOnes(items) : j <= i})

\* firsts has the first ones of items in their order, and nothing else.
AreFirstOnes(items, firsts) ==
    /\ Len(firsts) = Cardinality(HashFirstOnes(items))
    /\ \A i \in HashFirstOnes(items) :
          HashPlace(items, i) \in DOMAIN firsts /\ firsts[HashPlace(items, i)] = items[i]
    /\ \A n \in DOMAIN firsts : \E i \in HashFirstOnes(items) : HashPlace(items, i) = n

LEMMA HashFirstOnesFinite ==
    ASSUME NEW items \in Seq(Item)
    PROVE  HashFirstOnes(items) \subseteq 1..Len(items) /\ IsFiniteSet(HashFirstOnes(items))
<1>1. HashFirstOnes(items) \in SUBSET (1..Len(items))
  BY DEF HashFirstOnes
<1>2. IsFiniteSet(1..Len(items))
  BY FS_Interval
<1> QED BY <1>1, <1>2, FS_Subset

\* A reference is in the merged list exactly if one to the same object has been given.
LEMMA HashKnown ==
    ASSUME NEW items \in Seq(Item), NEW firsts \in Seq(Item), AreFirstOnes(items, firsts),
           NEW x \in Item
    PROVE  HashOf(x) \in HashesOf(firsts) <=> \E j \in 1..Len(items) : SameHash(items[j], x)
<1>1. ASSUME HashOf(x) \in HashesOf(firsts) PROVE \E j \in 1..Len(items) : SameHash(items[j], x)
  <2>1. PICK n \in DOMAIN firsts : HashOf(firsts[n]) = HashOf(x) /\ HashOf(x) # NoHash
    BY <1>1 DEF HashesOf
  <2>2. PICK i \in HashFirstOnes(items) : HashPlace(items, i) = n
    BY <2>1 DEF AreFirstOnes
  <2>3. firsts[n] = items[i]
    BY <2>2 DEF AreFirstOnes
  <2> QED BY <2>1, <2>2, <2>3, HashFirstOnesFinite DEF SameHash
<1>2. ASSUME NEW j0 \in 1..Len(items), SameHash(items[j0], x) PROVE HashOf(x) \in HashesOf(firsts)
  <2> DEFINE T == {j \in 1..Len(items) : SameHash(items[j], x)}
  <2>1. T \in SUBSET Nat /\ T # {}
    BY <1>2
  <2>2. PICK m \in T : \A k \in T : m <= k
    BY <2>1, NatMin
  <2>3. \A k \in 1..(m - 1) : ~SameHash(items[k], items[m])
    BY <2>2 DEF SameHash
  <2>4. m \in HashFirstOnes(items)
    BY <2>3 DEF HashFirstOnes
  <2>5. HashPlace(items, m) \in DOMAIN firsts /\ firsts[HashPlace(items, m)] = items[m]
    BY <2>4 DEF AreFirstOnes
  <2>6. HashOf(items[m]) = HashOf(x) /\ HashOf(x) # NoHash
    BY DEF SameHash
  <2> QED BY <2>5, <2>6 DEF HashesOf
<1> QED BY <1>1, <1>2

\* One item more: it is one of the first ones unless its object has been seen.
LEMMA HashFirstOnesAppend ==
    ASSUME NEW items \in Seq(Item), NEW x \in Item
    PROVE  HashFirstOnes(Append(items, x)) =
             IF \E j \in 1..Len(items) : SameHash(items[j], x) THEN HashFirstOnes(items)
             ELSE HashFirstOnes(items) \cup {Len(items) + 1}
<1> DEFINE more == Append(items, x)
           N == Len(items)
<1>1. N \in Nat /\ DOMAIN more = 1..(N + 1) /\ more[N + 1] = x /\ \A i \in 1..N : more[i] = items[i]
  OBVIOUS
<1> HIDE DEF more
<1>2. \A i \in 1..N : i \in HashFirstOnes(more) <=> i \in HashFirstOnes(items)
  BY <1>1 DEF HashFirstOnes
<1>3. N + 1 \in HashFirstOnes(more) <=> ~\E j \in 1..N : SameHash(items[j], x)
  BY <1>1 DEF HashFirstOnes
<1>4. HashFirstOnes(more) \subseteq 1..(N + 1) /\ HashFirstOnes(items) \subseteq 1..N
  BY <1>1 DEF HashFirstOnes
<1>5. 1..(N + 1) = 1..N \cup {N + 1}
  BY <1>1
<1>6. CASE \E j \in 1..N : SameHash(items[j], x)
  <2>1. HashFirstOnes(more) = HashFirstOnes(items)
    BY <1>2, <1>3, <1>4, <1>5, <1>6
  <2> QED BY <1>6, <2>1 DEF more
<1>7. CASE ~\E j \in 1..N : SameHash(items[j], x)
  <2>1. HashFirstOnes(more) = HashFirstOnes(items) \cup {N + 1}
    BY <1>2, <1>3, <1>4, <1>5, <1>7
  <2> QED BY <1>7, <2>1 DEF more
<1> QED BY <1>6, <1>7

\* The places of the earlier ones stay, and the new one comes behind them.
LEMMA PlaceAppend ==
    ASSUME NEW items \in Seq(Item), NEW x \in Item
    PROVE  /\ \A i \in HashFirstOnes(items) : HashPlace(Append(items, x), i) = HashPlace(items, i)
           /\ ~(\E j \in 1..Len(items) : SameHash(items[j], x)) =>
                /\ HashPlace(Append(items, x), Len(items) + 1) = Cardinality(HashFirstOnes(items)) + 1
                /\ Cardinality(HashFirstOnes(Append(items, x))) = Cardinality(HashFirstOnes(items)) + 1
<1> DEFINE N == Len(items)
           F == HashFirstOnes(items)
           G == HashFirstOnes(Append(items, x))
<1>1. F \subseteq 1..N /\ IsFiniteSet(F) /\ N \in Nat
  BY HashFirstOnesFinite
<1>2. G = F \/ G = F \cup {N + 1}
  BY HashFirstOnesAppend
<1>3. ASSUME NEW i \in F PROVE HashPlace(Append(items, x), i) = HashPlace(items, i)
  <2>1. {j \in G : j <= i} = {j \in F : j <= i}
    BY <1>1, <1>2
  <2> QED BY <2>1 DEF HashPlace
<1>4. ASSUME ~\E j \in 1..Len(items) : SameHash(items[j], x)
      PROVE  /\ HashPlace(Append(items, x), N + 1) = Cardinality(F) + 1
             /\ Cardinality(G) = Cardinality(F) + 1
  <2>1. G = F \cup {N + 1}
    BY <1>4, HashFirstOnesAppend
  <2>2. N + 1 \notin F
    BY <1>1
  <2>3. Cardinality(G) = Cardinality(F) + 1
    BY <1>1, <2>1, <2>2, FS_AddElement
  <2>4. {j \in G : j <= N + 1} = G
    BY <1>1, <2>1
  <2> QED BY <2>3, <2>4 DEF HashPlace
<1> QED BY <1>3, <1>4

\* The loop body keeps up with the items given.
LEMMA AppendOne ==
    ASSUME NEW items \in Seq(Item), NEW firsts \in Seq(Item), AreFirstOnes(items, firsts),
           NEW x \in Item, NEW left
    PROVE  /\ AppendItem(left, firsts, x) \in Seq(Item)
           /\ AreFirstOnes(Append(items, x), AppendItem(left, firsts, x))
<1> DEFINE N == Len(items)
           more == Append(items, x)
<1>1. N \in Nat /\ Len(more) = N + 1 /\ more[N + 1] = x /\ \A i \in 1..N : more[i] = items[i]
  OBVIOUS
<1>2. HashFirstOnes(items) \subseteq 1..N /\ Cardinality(HashFirstOnes(items)) \in Nat
  BY HashFirstOnesFinite, FS_CardinalityType
<1> HIDE DEF more
<1>3. CASE \E j \in 1..N : SameHash(items[j], x)
  <2>1. AppendItem(left, firsts, x) = firsts
    BY <1>3, HashKnown DEF AppendItem
  <2>2. HashFirstOnes(more) = HashFirstOnes(items)
    BY <1>3, HashFirstOnesAppend DEF more
  <2>3. \A i \in HashFirstOnes(items) : HashPlace(more, i) = HashPlace(items, i)
    BY PlaceAppend DEF more
  <2>4. AreFirstOnes(more, firsts)
    BY <1>1, <1>2, <2>2, <2>3 DEF AreFirstOnes
  <2> QED BY <2>1, <2>4 DEF more
<1>4. CASE ~\E j \in 1..N : SameHash(items[j], x)
  <2> DEFINE longer == Append(firsts, x)
             F == HashFirstOnes(items)
             M == Cardinality(F)
  <2>1. AppendItem(left, firsts, x) = longer
    BY <1>4, HashKnown DEF AppendItem
  <2>2. HashFirstOnes(more) = F \cup {N + 1}
    BY <1>4, HashFirstOnesAppend DEF more
  <2>3. \A i \in F : HashPlace(more, i) = HashPlace(items, i)
    BY PlaceAppend DEF more
  <2>4. HashPlace(more, N + 1) = M + 1 /\ Cardinality(HashFirstOnes(more)) = M + 1
    BY <1>4, PlaceAppend DEF more
  <2>5. Len(firsts) = M
    BY DEF AreFirstOnes
  <2>6. /\ longer \in Seq(Item) /\ Len(longer) = M + 1 /\ longer[M + 1] = x
        /\ DOMAIN longer = 1..(M + 1) /\ DOMAIN firsts = 1..M
        /\ \A n \in 1..M : longer[n] = firsts[n]
    BY <2>5, <1>2
  <2> HIDE DEF longer, F, M
  <2>7. ASSUME NEW i \in HashFirstOnes(more)
        PROVE  HashPlace(more, i) \in DOMAIN longer /\ longer[HashPlace(more, i)] = more[i]
    <3>1. CASE i = N + 1
      BY <1>1, <1>2, <2>4, <2>6, <3>1 DEF M, F
    <3>2. CASE i \in F
      <4>1. HashPlace(items, i) \in 1..M /\ firsts[HashPlace(items, i)] = items[i]
        BY <2>6, <3>2 DEF AreFirstOnes, F
      <4>2. HashPlace(items, i) \in DOMAIN longer
        BY <2>6, <4>1, <1>2 DEF M, F
      <4> QED BY <1>1, <1>2, <2>3, <2>6, <3>2, <4>1, <4>2 DEF F
    <3> QED BY <2>2, <2>7, <3>1, <3>2
  <2>8. ASSUME NEW n \in DOMAIN longer PROVE \E i \in HashFirstOnes(more) : HashPlace(more, i) = n
    <3>1. CASE n = M + 1
      BY <2>2, <2>4, <3>1
    <3>2. CASE n \in 1..M
      <4>1. PICK i \in F : HashPlace(items, i) = n
        BY <2>6, <3>2 DEF AreFirstOnes, F
      <4> QED BY <2>2, <2>3, <4>1
    <3>3. M \in Nat
      BY <1>2 DEF M, F
    <3> QED BY <2>6, <2>8, <3>1, <3>2, <3>3
  <2> QED BY <2>1, <2>4, <2>6, <2>7, <2>8 DEF AreFirstOnes, more
<1> QED BY <1>3, <1>4

\* The loop: after each item there is a list, and it comes from the one before.
LEMMA ListAppendDef ==
    ASSUME NEW left, NEW right \in Seq(Item)
    PROVE  \E merged :
             /\ merged[0] = left
             /\ \A n \in 1..Len(right) : merged[n] = AppendItem(left, merged[n - 1], right[n])
             /\ ListAppend(left, right) = merged[Len(right)]
<1> DEFINE Loop(N, f) ==
             f = [n \in 0..N |-> IF n = 0 THEN left ELSE AppendItem(left, f[n - 1], right[n])]
           Bad == {N \in Nat : ~\E f : Loop(N, f)}
<1>1. Bad = {}
  <2> SUFFICES ASSUME Bad # {} PROVE FALSE
    OBVIOUS
  <2>1. PICK m \in Bad : \A k \in Bad : m <= k
    BY NatMin
  <2>2. m # 0
    <3>1. Loop(0, [n \in {0} |-> left])
      OBVIOUS
    <3> QED BY <3>1
  <2>3. m \in Nat /\ m - 1 \in Nat /\ \E g : Loop(m - 1, g)
    <3> HIDE DEF Loop
    <3>1. m \in Nat /\ m - 1 \in Nat
      BY <2>2
    <3> QED BY <2>1, <3>1
  <2>4. PICK g : Loop(m - 1, g)
    BY <2>3
  <2> DEFINE f == [n \in 0..m |->
                     IF n = m THEN AppendItem(left, g[m - 1], right[m]) ELSE g[n]]
  <2>5. Loop(m, f)
    BY <2>2, <2>3, <2>4
  <2> QED BY <2>1, <2>5
<1>2. PICK f : Loop(Len(right), f) /\ ListAppend(left, right) = f[Len(right)]
  <2>1. \E f : Loop(Len(right), f)
    BY <1>1
  <2> QED BY <2>1 DEF ListAppend
<1>3. \A n \in 0..Len(right) :
         f[n] = IF n = 0 THEN left ELSE AppendItem(left, f[n - 1], right[n])
  BY <1>2
<1>4. Len(right) \in Nat
  OBVIOUS
<1> HIDE DEF Loop
<1> QED BY <1>2, <1>3, <1>4

LEMMA ListAppendCorrect ==
    ASSUME NEW left \in Seq(Item), NEW items \in Seq(Item), AreFirstOnes(items, left),
           NEW right \in Seq(Item)
    PROVE  /\ ListAppend(left, right) \in Seq(Item)
           /\ AreFirstOnes(items \o right, ListAppend(left, right))
<1>1. PICK merged :
             /\ merged[0] = left
             /\ \A n \in 1..Len(right) : merged[n] = AppendItem(left, merged[n - 1], right[n])
             /\ ListAppend(left, right) = merged[Len(right)]
  BY ListAppendDef
<1> DEFINE Seen(n) == items \o SubSeq(right, 1, n)
           Good(n) == merged[n] \in Seq(Item) /\ AreFirstOnes(Seen(n), merged[n])
           Bad == {n \in 0..Len(right) : ~Good(n)}
<1>2. Len(right) \in Nat
  OBVIOUS
<1>3. Good(0)
  <2>1. Seen(0) = items
    BY SubSeqEmpty, ConcatEmptySeq
  <2>2. merged[0] = left
    BY <1>1, <1>2
  <2> QED BY <2>1, <2>2
<1>4. ASSUME NEW n \in 1..Len(right), Good(n - 1) PROVE Good(n)
  <2>1. merged[n] = AppendItem(left, merged[n - 1], right[n])
    BY <1>1, <1>2
  <2>2. right[n] \in Item
    OBVIOUS
  <2>3. Seen(n - 1) \in Seq(Item)
    OBVIOUS
  <2>4. Seen(n) = Append(Seen(n - 1), right[n])
    OBVIOUS
  <2> HIDE DEF Seen
  <2> QED BY <1>4, <2>1, <2>2, <2>3, <2>4, AppendOne
<1> HIDE DEF Good
<1>5. Bad = {}
  <2> SUFFICES ASSUME Bad # {} PROVE FALSE
    OBVIOUS
  <2>1. Bad \in SUBSET Nat
    BY <1>2
  <2>2. PICK m \in Bad : \A k \in Bad : m <= k
    BY <2>1, NatMin
  <2>3. m \in 1..Len(right) /\ m - 1 \in 0..Len(right)
    BY <1>2, <1>3
  <2>4. Good(m - 1)
    BY <2>2, <2>3
  <2> QED BY <1>4, <2>3, <2>4
<1>6. Good(Len(right))
  BY <1>2, <1>5
<1>7. Seen(Len(right)) = items \o right
  BY SubSeqFull
<1> QED BY <1>1, <1>6, <1>7 DEF Good

-----------------------------------------------------------------------------
(* Both channels *)

ReducersInv == ReducersTypeOK /\ KeepsLatestHash /\ AreFirstOnes(given, list)

LEMMA ReducersInitInv == ReducersInit => ReducersInv
<1> SUFFICES ASSUME ReducersInit PROVE ReducersInv
  OBVIOUS
<1>1. dict \in [{} -> Item] /\ latest \in [{} -> Item] /\ {} \in SUBSET Keys
  BY DEF ReducersInit
<1>5. dict \in Dicts /\ latest \in Dicts
  BY <1>1 DEF Dicts
<1>6. list \in Seq(Item) /\ given \in Seq(Item)
  BY DEF ReducersInit
<1>2. ReducersTypeOK /\ KeepsLatestHash
  BY <1>1, <1>5, <1>6 DEF ReducersTypeOK, KeepsLatestHash
<1>3. HashFirstOnes(given) = {} /\ Cardinality({}) = 0
  BY FS_EmptySet DEF ReducersInit, HashFirstOnes
<1>4. AreFirstOnes(given, list)
  BY <1>3 DEF ReducersInit, AreFirstOnes
<1> QED BY <1>2, <1>4 DEF ReducersInv

LEMMA ReducersStep == ReducersInv /\ [ReducersNext]_reducersVars => ReducersInv'
<1> SUFFICES ASSUME ReducersInv, [ReducersNext]_reducersVars PROVE ReducersInv'
  OBVIOUS
<1> USE DEF ReducersInv
<1>1. ASSUME NEW right \in Dicts, MergeUpdate(right) PROVE ReducersInv'
  <2>1. list' = list /\ given' = given
    BY <1>1 DEF MergeUpdate
  <2>2. ReducersTypeOK' /\ KeepsLatestHash'
    BY <1>1, <2>1, DictStep DEF ReducersTypeOK
  <2>3. AreFirstOnes(given, list)'
    BY <2>1
  <2> QED BY <2>2, <2>3
<1>2. ASSUME NEW n \in 1..MaxItems, NEW right \in [1..n -> Item], AppendUpdate(right)
      PROVE  ReducersInv'
  <2>1. right \in Seq(Item)
    BY ReducersAssumption
  <2>2. list' = ListAppend(list, right) /\ given' = given \o right
        /\ dict' = dict /\ latest' = latest
    BY <1>2 DEF AppendUpdate
  <2>3. list' \in Seq(Item) /\ AreFirstOnes(given', list')
    BY <2>1, <2>2, ListAppendCorrect DEF ReducersTypeOK
  <2>4. given' \in Seq(Item)
    BY <2>1, <2>2 DEF ReducersTypeOK
  <2>5. ReducersTypeOK' /\ KeepsLatestHash'
    BY <2>2, <2>3, <2>4 DEF ReducersTypeOK, KeepsLatestHash
  <2>6. AreFirstOnes(given, list)'
    BY <2>3
  <2> QED BY <2>5, <2>6
<1>3. CASE UNCHANGED reducersVars
  BY <1>3 DEF reducersVars, ReducersTypeOK, KeepsLatestHash
<1> QED BY <1>1, <1>2, <1>3 DEF ReducersNext

\* Where nothing looks like a reference, what has a hash is one.
LEMMA OnlyReferences ==
    ASSUME Lookalikes = {}, NEW x \in Item, NEW y \in Item
    PROVE  SameReference(x, y) <=> SameHash(x, y)
<1>1. HashOf(x) # NoHash => x.name \in Names
  BY DEF Item, HashOf
<1>2. HashOf(y) # NoHash => y.name \in Names
  BY DEF Item, HashOf
<1> QED BY <1>1, <1>2 DEF SameReference, SameHash

LEMMA FirstOnesByHash ==
    ASSUME Lookalikes = {}, NEW items \in Seq(Item)
    PROVE  /\ FirstOnes(items) = HashFirstOnes(items)
           /\ \A i : Place(items, i) = HashPlace(items, i)
<1>1. ASSUME NEW i \in DOMAIN items, NEW j \in 1..(i - 1)
      PROVE  SameReference(items[j], items[i]) <=> SameHash(items[j], items[i])
  <2>1. items[i] \in Item /\ items[j] \in Item
    OBVIOUS
  <2> QED BY <2>1, OnlyReferences
<1>2. FirstOnes(items) = HashFirstOnes(items)
  BY <1>1 DEF FirstOnes, HashFirstOnes
<1> QED BY <1>2 DEF Place, HashPlace

\* reducers.py:13-15: for any keys, hashes and order of merges, where no value looks like a
\* reference, a key of the merged dictionary has the item it was last given or a reference to
\* the same object.
THEOREM DictKeepsLatestAlways ==
    ASSUME Lookalikes = {}
    PROVE  ReducersSpec => []DictKeepsLatest
<1>1. ReducersInv => DictKeepsLatest
  <2> SUFFICES ASSUME ReducersInv PROVE DictKeepsLatest
    OBVIOUS
  <2>1. ASSUME NEW k \in DOMAIN dict
        PROVE  dict[k] = latest[k] \/ SameReference(dict[k], latest[k])
    <3>1. dict[k] \in Item /\ latest[k] \in Item
      BY DEF ReducersInv, ReducersTypeOK, KeepsLatestHash, Dicts
    <3> QED BY <3>1, OnlyReferences DEF ReducersInv, KeepsLatestHash
  <2> QED BY <2>1 DEF DictKeepsLatest, ReducersInv, KeepsLatestHash
<1> QED BY ReducersInitInv, ReducersStep, <1>1, PTL DEF ReducersSpec

\* reducers.py:30-32: for any batches, where no value looks like a reference, the merged list
\* has the first ones of all items it was given, in their order.
THEOREM ListIsFirstOnesAlways ==
    ASSUME Lookalikes = {}
    PROVE  ReducersSpec => []ListIsFirstOnes
<1>1. ReducersInv => ListIsFirstOnes
  <2> SUFFICES ASSUME ReducersInv PROVE ListIsFirstOnes
    OBVIOUS
  <2>1. /\ FirstOnes(given) = HashFirstOnes(given)
        /\ \A i : Place(given, i) = HashPlace(given, i)
    BY FirstOnesByHash DEF ReducersInv, ReducersTypeOK
  <2> QED BY <2>1 DEF ReducersInv, AreFirstOnes, ListIsFirstOnes
<1> QED BY ReducersInitInv, ReducersStep, <1>1, PTL DEF ReducersSpec
=============================================================================
