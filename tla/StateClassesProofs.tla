------------------------- MODULE StateClassesProofs -------------------------
(***************************************************************************)
(* KindsAgree for any classes, in any order of definition.  The order that   *)
(* Python's C3 gives a class has exactly the class, its bases and what is in *)
(* their orders (Members is what the merge never changes), and with a single *)
(* base it is the class followed by the order of that base.  From this, the  *)
(* field of a class says which kinds of descriptor its ancestors have        *)
(* (FieldOfAncestor, NoFieldNoKind), and for single inheritance it is that   *)
(* of the first one (FieldIsFirst).                                          *)
(***************************************************************************)
EXTENDS StateClasses, WellFoundedInduction, SequenceTheorems, TLAPS

LEMMA LeastNumber ==
    ASSUME NEW S \in SUBSET Nat, S # {}
    PROVE  \E m \in S : \A k \in S : m <= k
<1>1. PICK m \in S : \A k \in S : ~(<<k, m>> \in OpToRel(<, Nat))
  BY NatLessThanWellFounded, WFMin
<1>2. \A k \in S : ~(k < m)
  BY <1>1 DEF OpToRel
<1> QED BY <1>2

\* Positions of a sequence: among some of them there is a first and a last one.
LEMMA FirstAndLast ==
    ASSUME NEW n \in Nat, NEW T \in SUBSET (1..n), T # {}
    PROVE  (\E m \in T : \A k \in T : m <= k) /\ (\E m \in T : \A k \in T : k <= m)
<1>2. \E m \in T : \A k \in T : m <= k
  BY LeastNumber
<1>3. \E m \in T : \A k \in T : k <= m
  <2> DEFINE S == {k \in 0..n : n - k \in T}
  <2>1. PICK t : t \in T
    OBVIOUS
  <2>2. n - t \in S
    BY <2>1
  <2>3. S \in SUBSET Nat /\ S # {}
    BY <2>2
  <2>4. PICK m \in S : \A k \in S : m <= k
    BY LeastNumber, <2>3
  <2>5. \A k \in T : n - k \in S
    OBVIOUS
  <2> QED BY <2>4, <2>5
<1> QED BY <1>2, <1>3

LEMMA FirstAttributeDef ==
    ASSUME NEW n \in Nat, NEW s, DOMAIN s = 1..n
    PROVE  \/ FirstAttribute(s) = "none" /\ \A i \in 1..n : s[i].attribute = "none"
           \/ \E m \in 1..n : /\ s[m].attribute # "none"
                              /\ FirstAttribute(s) = s[m].attribute
                              /\ \A j \in 1..(m - 1) : s[j].attribute = "none"
<1> DEFINE with == {i \in 1..n : s[i].attribute # "none"}
<1>1. CASE with = {}
  BY <1>1 DEF FirstAttribute
<1>2. CASE with # {}
  <2>1. \E m \in with : \A k \in with : m <= k
    BY <1>2, FirstAndLast
  <2> DEFINE m == CHOOSE i \in with : \A j \in with : i <= j
  <2>2. m \in with /\ \A k \in with : m <= k
    BY <2>1
  <2>3. FirstAttribute(s) = s[m].attribute
    BY <1>2 DEF FirstAttribute
  <2> HIDE DEF m
  <2>4. \A j \in 1..(m - 1) : s[j].attribute = "none"
    BY <2>2
  <2> QED BY <2>2, <2>3, <2>4
<1> QED BY <1>1, <1>2

\* One class in front of some others.
LEMMA FirstAttributeCons ==
    ASSUME NEW n \in Nat, NEW s, DOMAIN s = 1..n,
           NEW t, DOMAIN t = 1..(n + 1), \A i \in 1..n : t[i + 1] = s[i]
    PROVE  FirstAttribute(t) =
             IF t[1].attribute # "none" THEN t[1].attribute ELSE FirstAttribute(s)
<1>1. CASE FirstAttribute(t) = "none" /\ \A i \in 1..(n + 1) : t[i].attribute = "none"
  <2>1. \A i \in 1..n : i + 1 \in 1..(n + 1) /\ s[i].attribute = "none"
    BY <1>1
  <2>2. FirstAttribute(s) = "none"
    BY <2>1, FirstAttributeDef
  <2> QED BY <1>1, <2>2
<1>2. ASSUME NEW m \in 1..(n + 1), t[m].attribute # "none", FirstAttribute(t) = t[m].attribute,
             \A j \in 1..(m - 1) : t[j].attribute = "none"
      PROVE  FirstAttribute(t) =
               IF t[1].attribute # "none" THEN t[1].attribute ELSE FirstAttribute(s)
  <2>1. CASE m = 1
    BY <1>2, <2>1
  <2>2. CASE m # 1
    <3>1. m - 1 \in 1..n /\ s[m - 1].attribute = t[m].attribute /\ t[1].attribute = "none"
      BY <1>2, <2>2
    <3>2. \A j \in 1..n : j < m - 1 => s[j].attribute = "none"
      BY <1>2, <2>2
    <3>3. PICK k \in 1..n : /\ s[k].attribute # "none"
                            /\ FirstAttribute(s) = s[k].attribute
                            /\ \A j \in 1..(k - 1) : s[j].attribute = "none"
      BY <1>2, <3>1, FirstAttributeDef
    <3>4. k = m - 1
      BY <1>2, <3>1, <3>2, <3>3
    <3> QED BY <1>2, <3>1, <3>3, <3>4
  <2> QED BY <2>1, <2>2
<1>3. n + 1 \in Nat
  OBVIOUS
<1> QED BY <1>1, <1>2, <1>3, FirstAttributeDef

LEMMA MergeDef ==
    ASSUME NEW n \in Nat, NEW bases, DOMAIN bases = 1..n
    PROVE  \/ Merge(bases) = "none" /\ \A i \in 1..n : classes[bases[i]].field = "none"
           \/ \E i \in 1..n : /\ classes[bases[i]].field # "none"
                              /\ Merge(bases) = classes[bases[i]].field
<1> DEFINE with == {i \in 1..n : classes[bases[i]].field # "none"}
<1>1. CASE with = {}
  BY <1>1 DEF Merge
<1>2. CASE with # {}
  <2>1. \E m \in with : \A k \in with : k <= m
    BY <1>2, FirstAndLast
  <2> DEFINE m == CHOOSE i \in with : \A j \in with : j <= i
  <2>2. m \in with
    BY <2>1
  <2>3. Merge(bases) = classes[bases[m]].field
    BY <1>2 DEF Merge
  <2> HIDE DEF m
  <2> QED BY <2>2, <2>3
<1> QED BY <1>1, <1>2

-----------------------------------------------------------------------------
(* C3 *)

Members(acc) == Range(acc.order) \cup UNION {Range(acc.lists[i]) : i \in DOMAIN acc.lists}

\* A merge of n lists in the order of class new.
Merging(acc, new, n) ==
    /\ acc.order \in Seq(1..new) /\ acc.order # <<>> /\ acc.order[1] = new
    /\ acc.lists \in [1..n -> Seq(1..new)]

LEMMA RangeOfParts ==
    ASSUME NEW S, NEW s \in Seq(S)
    PROVE  /\ s # <<>> => Head(s) \in S /\ Tail(s) \in Seq(S)
                          /\ Range(s) = {Head(s)} \cup Range(Tail(s))
           /\ \A x \in S : Range(Append(s, x)) = Range(s) \cup {x}
<1>1. ASSUME s # <<>> PROVE Range(s) = {Head(s)} \cup Range(Tail(s))
  <2>1. Len(s) \in Nat \ {0} /\ Head(s) = s[1] /\ DOMAIN s = 1..Len(s)
    BY <1>1
  <2>2. Tail(s) \in Seq(S) /\ Len(Tail(s)) = Len(s) - 1
        /\ \A i \in 1..(Len(s) - 1) : Tail(s)[i] = s[i + 1]
    BY <1>1
  <2>3. \A i \in DOMAIN s : i = 1 \/ (i - 1 \in DOMAIN Tail(s) /\ Tail(s)[i - 1] = s[i])
    BY <2>1, <2>2
  <2>4. \A i \in DOMAIN Tail(s) : i + 1 \in DOMAIN s /\ Tail(s)[i] = s[i + 1]
    BY <2>1, <2>2
  <2>5. Range(s) \subseteq {Head(s)} \cup Range(Tail(s))
    <3>1. SUFFICES ASSUME NEW i \in DOMAIN s PROVE s[i] = Head(s) \/ s[i] \in Range(Tail(s))
      BY DEF Range
    <3> QED BY <2>1, <2>3 DEF Range
  <2>6. Range(Tail(s)) \subseteq Range(s)
    <3>1. SUFFICES ASSUME NEW i \in DOMAIN Tail(s) PROVE Tail(s)[i] \in Range(s)
      BY DEF Range
    <3> QED BY <2>4 DEF Range
  <2>7. Head(s) \in Range(s)
    BY <2>1 DEF Range
  <2> QED BY <2>5, <2>6, <2>7
<1>2. ASSUME NEW x \in S PROVE Range(Append(s, x)) = Range(s) \cup {x}
  <2>1. Len(s) \in Nat /\ DOMAIN s = 1..Len(s) /\ DOMAIN Append(s, x) = 1..(Len(s) + 1)
        /\ Append(s, x)[Len(s) + 1] = x /\ \A i \in 1..Len(s) : Append(s, x)[i] = s[i]
    OBVIOUS
  <2> QED BY <2>1 DEF Range
<1>3. s # <<>> => Head(s) \in S /\ Tail(s) \in Seq(S)
  OBVIOUS
<1> QED BY <1>1, <1>2, <1>3

\* A step takes the head of list i off the lists.
Takes(i, acc, next) ==
    /\ acc.lists[i] # <<>>
    /\ next.order = Append(acc.order, Head(acc.lists[i]))
    /\ next.lists = TakeOff(acc.lists, Head(acc.lists[i]))

LEMMA StepTakes ==
    ASSUME NEW new, NEW n \in Nat, NEW acc, Merging(acc, new, n)
    PROVE  LinearizeStep(acc) = acc \/ \E i \in 1..n : Takes(i, acc, LinearizeStep(acc))
<1> DEFINE heads == FreeHeads(acc.lists)
           i == CHOOSE k \in heads : \A j \in heads : k <= j
<1>1. CASE heads = {}
  BY <1>1 DEF LinearizeStep
<1>2. CASE heads # {}
  <2>1. heads \in SUBSET (1..n) /\ \A k \in heads : acc.lists[k] # <<>>
    BY DEF FreeHeads, Merging
  <2>2. \E k \in heads : \A j \in heads : k <= j
    BY <1>2, <2>1, FirstAndLast
  <2>3. i \in heads
    BY <2>2
  <2>4. LinearizeStep(acc) = [order |-> Append(acc.order, Head(acc.lists[i])),
                              lists |-> TakeOff(acc.lists, Head(acc.lists[i]))]
    BY <1>2 DEF LinearizeStep
  <2> HIDE DEF i, heads
  <2>5. /\ LinearizeStep(acc).order = Append(acc.order, Head(acc.lists[i]))
        /\ LinearizeStep(acc).lists = TakeOff(acc.lists, Head(acc.lists[i]))
    BY <2>4
  <2> QED BY <2>1, <2>3, <2>5 DEF heads, Takes
<1> QED BY <1>1, <1>2

LEMMA StepMembers ==
    ASSUME NEW new \in Nat, NEW n \in Nat, NEW acc, Merging(acc, new, n)
    PROVE  Merging(LinearizeStep(acc), new, n) /\ Members(LinearizeStep(acc)) = Members(acc)
<1> DEFINE next == LinearizeStep(acc)
<1>1. CASE next = acc
  BY <1>1
<1>2. ASSUME NEW i \in 1..n, Takes(i, acc, next)
      PROVE  Merging(next, new, n) /\ Members(next) = Members(acc)
  <2> HIDE DEF next
  <2> USE DEF Takes
  <2> DEFINE best == Head(acc.lists[i])
  <2>1. acc.order \in Seq(1..new) /\ acc.lists \in [1..n -> Seq(1..new)]
        /\ acc.order # <<>> /\ acc.order[1] = new
    BY DEF Merging
  <2>2. best \in 1..new /\ best \in Range(acc.lists[i])
    BY <1>2, <2>1, RangeOfParts
  <2>3. /\ next.order \in Seq(1..new) /\ next.order # <<>> /\ next.order[1] = new
        /\ Range(next.order) = Range(acc.order) \cup {best}
    <3>1. Range(next.order) = Range(acc.order) \cup {best}
      BY <1>2, <2>1, <2>2, RangeOfParts
    <3>2. next.order = Append(acc.order, best) /\ best \in 1..new
      BY <1>2, <2>2
    <3>3. Len(acc.order) \in Nat \ {0}
      BY <2>1
    <3> HIDE DEF best
    <3>4. /\ Append(acc.order, best) \in Seq(1..new)
          /\ Len(Append(acc.order, best)) = Len(acc.order) + 1
          /\ Append(acc.order, best)[1] = acc.order[1]
      BY <2>1, <3>2, <3>3
    <3>5. Append(acc.order, best) # <<>>
      BY <3>3, <3>4
    <3> QED BY <2>1, <3>1, <3>2, <3>4, <3>5
  <2> HIDE DEF best
  <2>4. ASSUME NEW j \in 1..n
        PROVE  /\ next.lists[j] \in Seq(1..new)
               /\ Range(next.lists[j]) \subseteq Range(acc.lists[j])
               /\ Range(acc.lists[j]) \subseteq Range(next.lists[j]) \cup {best}
    <3>1. acc.lists[j] \in Seq(1..new)
      BY <2>1
    <3>2. next.lists[j] = IF acc.lists[j] # <<>> /\ Head(acc.lists[j]) = best
                          THEN Tail(acc.lists[j]) ELSE acc.lists[j]
      BY <1>2, <2>1 DEF TakeOff, best
    <3> HIDE DEF best
    <3>3. CASE acc.lists[j] # <<>> /\ Head(acc.lists[j]) = best
      <4>1. next.lists[j] = Tail(acc.lists[j])
        BY <3>2, <3>3
      <4>2. Tail(acc.lists[j]) \in Seq(1..new)
            /\ Range(acc.lists[j]) = {Head(acc.lists[j])} \cup Range(Tail(acc.lists[j]))
        BY <3>1, <3>3, RangeOfParts
      <4> QED BY <3>3, <4>1, <4>2
    <3>4. CASE ~(acc.lists[j] # <<>> /\ Head(acc.lists[j]) = best)
      BY <3>1, <3>2, <3>4
    <3> QED BY <3>3, <3>4
  <2>5. next.lists \in [1..n -> Seq(1..new)]
    BY <1>2, <2>1, <2>4 DEF TakeOff
  <2>6. DOMAIN next.lists = 1..n /\ DOMAIN acc.lists = 1..n
    BY <2>1, <2>5
  <2>7. \A x : x \in Members(next) <=> x \in Range(next.order) \/ \E j \in 1..n : x \in Range(next.lists[j])
    BY <2>6 DEF Members
  <2>8. \A x : x \in Members(acc) <=> x \in Range(acc.order) \/ \E j \in 1..n : x \in Range(acc.lists[j])
    BY <2>6 DEF Members
  <2>9. \A x : x \in Members(next) <=> x \in Members(acc)
    BY <2>2, <2>3, <2>4, <2>7, <2>8
  <2> QED BY <2>3, <2>5, <2>9 DEF Merging
<1> HIDE DEF next
<1>3. Merging(next, new, n) /\ Members(next) = Members(acc)
  BY <1>1, <1>2, StepTakes DEF next
<1> QED BY <1>3 DEF next

\* The merge of a single base with this order: what is in the order of the new class and
\* what is left of the base's is always the one after the other.
MergingOne(acc, new, base, line) ==
    /\ acc.order \o acc.lists[1] = <<new>> \o line
    /\ \/ acc.lists[2] = <<>>
       \/ acc.lists[2] = <<base>> /\ acc.lists[1] # <<>> /\ Head(acc.lists[1]) = base

LEMMA StepOne ==
    ASSUME NEW new \in Nat, NEW base, NEW line \in Seq(1..new), NEW acc,
           Merging(acc, new, 2), MergingOne(acc, new, base, line)
    PROVE  MergingOne(LinearizeStep(acc), new, base, line)
<1> DEFINE next == LinearizeStep(acc)
<1>1. ASSUME NEW i \in 1..2, Takes(i, acc, next) PROVE MergingOne(next, new, base, line)
  <2> HIDE DEF next
  <2> DEFINE o == acc.order
             l == acc.lists[1]
  <2>1. o \in Seq(1..new) /\ l \in Seq(1..new)
    BY DEF Merging
  <2>2. l # <<>> /\ Head(acc.lists[i]) = Head(l)
    <3>1. CASE acc.lists[2] = <<>>
      BY <1>1, <3>1 DEF Takes
    <3>2. CASE acc.lists[2] = <<base>> /\ l # <<>> /\ Head(l) = base
      BY <1>1, <3>2
    <3> QED BY <3>1, <3>2 DEF MergingOne
  <2>3. next.order = Append(o, Head(l))
    BY <1>1, <2>2 DEF Takes
  <2>4. /\ next.lists[1] = Tail(l)
        /\ next.lists[2] = IF acc.lists[2] # <<>> /\ Head(acc.lists[2]) = Head(l)
                           THEN Tail(acc.lists[2]) ELSE acc.lists[2]
    BY <1>1, <2>2 DEF Takes, TakeOff, Merging
  <2>5. next.lists[2] = <<>>
    <3>1. CASE acc.lists[2] = <<>>
      BY <2>4, <3>1
    <3>2. CASE acc.lists[2] = <<base>> /\ Head(l) = base
      <4>1. <<base>> # <<>> /\ Head(<<base>>) = base /\ Tail(<<base>>) = <<>>
        OBVIOUS
      <4> QED BY <2>4, <3>2, <4>1
    <3> QED BY <3>1, <3>2 DEF MergingOne
  <2> HIDE DEF o, l
  <2>6. Append(o, Head(l)) \o Tail(l) = o \o l
    <3>1. Append(o, Head(l)) = o \o <<Head(l)>> /\ l = <<Head(l)>> \o Tail(l)
          /\ <<Head(l)>> \in Seq(1..new) /\ Tail(l) \in Seq(1..new)
      BY <2>1, <2>2, HeadTailProperties
    <3> QED BY <2>1, <3>1, ConcatAssociative
  <2>7. next.order \o next.lists[1] = <<new>> \o line
    BY <2>3, <2>4, <2>6 DEF MergingOne, o, l
  <2> QED BY <2>5, <2>7 DEF MergingOne
<1> HIDE DEF next
<1>2. MergingOne(next, new, base, line)
  BY <1>1, StepTakes DEF next
<1> QED BY <1>2 DEF next

LEMMA LinearizeDef ==
    ASSUME NEW new, NEW bases
    PROVE  \E merged :
             /\ merged[0] = [order |-> <<new>>,
                             lists |-> [i \in DOMAIN bases |-> classes[bases[i]].mro] \o <<bases>>]
             /\ \A n \in 1..MaxClasses : merged[n] = LinearizeStep(merged[n - 1])
             /\ Linearize(new, bases) = merged[MaxClasses]
<1> DEFINE first == [order |-> <<new>>,
                     lists |-> [i \in DOMAIN bases |-> classes[bases[i]].mro] \o <<bases>>]
           Loop(N, f) == f = [n \in 0..N |-> IF n > 0 THEN LinearizeStep(f[n - 1]) ELSE first]
           Bad == {N \in 0..MaxClasses : ~\E f : Loop(N, f)}
<1>0. MaxClasses \in Nat
  BY ClassesAssumption
<1>1. Linearize(new, bases) = (CHOOSE f : Loop(MaxClasses, f))[MaxClasses]
  BY DEF Linearize
<1> HIDE DEF first
<1>2. Bad = {}
  <2> SUFFICES ASSUME Bad # {} PROVE FALSE
    OBVIOUS
  <2>1. \E f : Loop(0, f)
    <3>1. Loop(0, [n \in {0} |-> first])
      OBVIOUS
    <3> QED BY <3>1
  <2>2. Bad \in SUBSET Nat
    BY <1>0
  <2>3. PICK m \in Bad : \A k \in Bad : m <= k
    BY <2>2, LeastNumber
  <2>4. m # 0
    BY <2>1
  <2>5. m \in Nat /\ m - 1 \in Nat /\ \E g : Loop(m - 1, g)
    <3> HIDE DEF Loop
    <3>1. m \in Nat /\ m - 1 \in 0..MaxClasses
      BY <1>0, <2>4
    <3> QED BY <1>0, <2>3, <3>1
  <2>6. PICK g : Loop(m - 1, g)
    BY <2>5
  <2> DEFINE f == [n \in 0..m |-> IF n = m THEN LinearizeStep(g[m - 1]) ELSE g[n]]
  <2>7. Loop(m, f)
    BY <2>4, <2>5, <2>6
  <2> QED BY <2>3, <2>7
<1> DEFINE f == CHOOSE g : Loop(MaxClasses, g)
<1>3. Loop(MaxClasses, f)
  <2>1. \E g : Loop(MaxClasses, g)
    BY <1>0, <1>2
  <2> HIDE DEF Loop
  <2> QED BY <2>1
<1> HIDE DEF f
<1>4. \A n \in 0..MaxClasses : f[n] = IF n > 0 THEN LinearizeStep(f[n - 1]) ELSE first
  BY <1>3
<1> HIDE DEF Loop
<1>5. f[0] = first /\ \A n \in 1..MaxClasses : f[n] = LinearizeStep(f[n - 1])
  BY <1>0, <1>4
<1>6. Linearize(new, bases) = f[MaxClasses]
  BY <1>1 DEF f
<1> QED BY <1>5, <1>6 DEF first

\* The classes in the order of c are no later ones, and with at most one base the order is
\* that of the base after c.
OrderOK(c) ==
    /\ \A i \in DOMAIN classes[c].bases : classes[c].bases[i] \in 1..(c - 1)
    /\ classes[c].mro # <<>> /\ classes[c].mro[1] = c
    /\ \A i \in DOMAIN classes[c].mro : classes[c].mro[i] \in 1..c
    /\ Len(classes[c].bases) = 0 => classes[c].mro = <<c>>
    /\ Len(classes[c].bases) = 1 =>
         classes[c].mro = <<c>> \o classes[classes[c].bases[1]].mro

LEMMA BaseListsType ==
    ASSUME ClassesTypeOK, NEW bases \in BaseLists
    PROVE  bases \in Seq(Defined) /\ Len(bases) \in Nat /\ DOMAIN bases = 1..Len(bases)
<1>1. Len(classes) \in Nat
  BY DEF ClassesTypeOK
<1>2. PICK n \in 0..Len(classes) : bases \in [1..n -> Defined]
  BY DEF BaseLists, Injection
<1>3. n \in Nat
  BY <1>1
<1>4. bases \in Seq(Defined)
  BY <1>2, <1>3
<1> QED BY <1>4

\* The merge starts with the orders of the bases and the bases themselves.
LEMMA MergeStarts ==
    ASSUME ClassesTypeOK, \A c \in Defined : OrderOK(c), NEW bases \in BaseLists,
           NEW first, first = [order |-> <<Len(classes) + 1>>,
                               lists |-> [i \in DOMAIN bases |-> classes[bases[i]].mro] \o <<bases>>]
    PROVE  /\ Merging(first, Len(classes) + 1, Len(bases) + 1)
           /\ \A i \in DOMAIN bases : first.lists[i] = classes[bases[i]].mro
           /\ first.lists[Len(bases) + 1] = bases
<1> DEFINE new == Len(classes) + 1
           n == Len(bases)
           S == Seq(1..new)
           lines == [i \in DOMAIN bases |-> classes[bases[i]].mro]
<1>1. Len(classes) \in Nat /\ new \in Nat /\ n \in Nat /\ DOMAIN bases = 1..n
      /\ \A i \in 1..n : bases[i] \in Defined
  BY BaseListsType DEF ClassesTypeOK
<1>2. ASSUME NEW i \in 1..n PROVE classes[bases[i]].mro \in S
  <2>1. bases[i] \in Defined /\ OrderOK(bases[i])
    BY <1>1
  <2>2. classes[bases[i]] \in StateClass
    BY <2>1 DEF ClassesTypeOK, Defined
  <2> DEFINE m == classes[bases[i]].mro
  <2>3. m \in Seq(1..MaxClasses) /\ \A j \in DOMAIN m : m[j] \in 1..new
    BY <1>1, <2>1, <2>2 DEF StateClass, OrderOK, Defined
  <2> HIDE DEF m
  <2>4. m \in S
    BY <2>3
  <2> QED BY <2>4 DEF m
<1>3. bases \in S
  <2>1. Defined \subseteq 1..new
    BY <1>1 DEF Defined
  <2> QED BY <2>1, BaseListsType, SeqMonotonic
<1> HIDE DEF S
<1>4. lines \in Seq(S) /\ Len(lines) = n /\ \A i \in 1..n : lines[i] = classes[bases[i]].mro
  BY <1>1, <1>2
<1> HIDE DEF lines
<1> DEFINE last == <<bases>>
           all == lines \o last
<1>5. last \in Seq(S) /\ Len(last) = 1 /\ last[1] = bases
  BY <1>3
<1>7. first.lists = all /\ first.order = <<new>>
  BY DEF lines
<1> HIDE DEF last, n
<1>6. /\ all \in Seq(S) /\ Len(all) = n + 1
      /\ \A i \in 1..n : all[i] = classes[bases[i]].mro
      /\ all[n + 1] = bases
  <2>1. /\ all \in Seq(S) /\ Len(all) = n + 1
        /\ \A i \in 1..(n + 1) : all[i] = IF i <= n THEN lines[i] ELSE last[i - n]
    <3>1. /\ all \in Seq(S) /\ Len(all) = Len(lines) + Len(last)
          /\ \A i \in 1..(Len(lines) + Len(last)) :
               all[i] = IF i <= Len(lines) THEN lines[i] ELSE last[i - Len(lines)]
      BY <1>4, <1>5, ConcatProperties
    <3> HIDE DEF all
    <3> QED BY <1>4, <1>5, <3>1
  <2>2. n + 1 \in 1..(n + 1) /\ ~(n + 1 <= n) /\ (n + 1) - n = 1
    BY <1>1
  <2>3. all[n + 1] = bases
    BY <1>5, <2>1, <2>2
  <2>4. ASSUME NEW i \in 1..n PROVE all[i] = classes[bases[i]].mro
    BY <1>1, <1>4, <2>1
  <2> QED BY <2>1, <2>3, <2>4
<1> HIDE DEF all
<1>8. first.lists \in [1..(n + 1) -> S]
  BY <1>6, <1>7, LenProperties
<1>9. first.order \in Seq(1..new) /\ first.order # <<>> /\ first.order[1] = new
  BY <1>1, <1>7
<1> QED BY <1>1, <1>6, <1>7, <1>8, <1>9 DEF Merging, S, n

\* What Python makes the order of a new class.
LEMMA LinearizeResult ==
    ASSUME ClassesTypeOK, \A c \in Defined : OrderOK(c), NEW bases \in BaseLists,
           NEW linear, linear = Linearize(Len(classes) + 1, bases),
           \A i \in DOMAIN linear.lists : linear.lists[i] = <<>>
    PROVE  /\ linear.order \in Seq(1..(Len(classes) + 1))
           /\ linear.order # <<>> /\ linear.order[1] = Len(classes) + 1
           /\ Range(linear.order) = {Len(classes) + 1} \cup Range(bases)
                                    \cup UNION {Range(classes[bases[i]].mro) : i \in DOMAIN bases}
           /\ Len(bases) = 0 => linear.order = <<Len(classes) + 1>>
           /\ Len(bases) = 1 => linear.order = <<Len(classes) + 1>> \o classes[bases[1]].mro
<1> DEFINE new == Len(classes) + 1
           n == Len(bases)
<1>1. PICK merged :
        /\ merged[0] = [order |-> <<new>>,
                        lists |-> [i \in DOMAIN bases |-> classes[bases[i]].mro] \o <<bases>>]
        /\ \A k \in 1..MaxClasses : merged[k] = LinearizeStep(merged[k - 1])
        /\ Linearize(new, bases) = merged[MaxClasses]
  BY LinearizeDef
<1> DEFINE first == merged[0]
<1>2. MaxClasses \in Nat /\ new \in Nat /\ n \in Nat /\ DOMAIN bases = 1..n
      /\ linear = merged[MaxClasses]
  BY <1>1, ClassesAssumption, BaseListsType DEF ClassesTypeOK
<1>3. /\ Merging(first, new, n + 1)
      /\ \A i \in 1..n : first.lists[i] = classes[bases[i]].mro
      /\ first.lists[n + 1] = bases
      /\ first.order = <<new>>
  <2>1. first = [order |-> <<new>>,
                 lists |-> [i \in DOMAIN bases |-> classes[bases[i]].mro] \o <<bases>>]
    BY <1>1
  <2>2. first.order = <<new>>
    BY <2>1
  <2> HIDE DEF first
  <2>3. /\ Merging(first, new, n + 1)
        /\ \A i \in DOMAIN bases : first.lists[i] = classes[bases[i]].mro
        /\ first.lists[n + 1] = bases
    BY <2>1, MergeStarts
  <2> QED BY <1>2, <2>2, <2>3
<1>4. \A k \in 0..MaxClasses : Merging(merged[k], new, n + 1) /\ Members(merged[k]) = Members(first)
  <2> DEFINE Bad == {k \in 0..MaxClasses :
                       ~(Merging(merged[k], new, n + 1) /\ Members(merged[k]) = Members(first))}
  <2> SUFFICES ASSUME Bad # {} PROVE FALSE
    OBVIOUS
  <2>1. Bad \in SUBSET Nat
    BY <1>2
  <2>2. PICK m \in Bad : \A k \in Bad : m <= k
    BY <2>1, LeastNumber
  <2>3. m \in 1..MaxClasses /\ m - 1 \in 0..MaxClasses /\ m - 1 \notin Bad
    BY <1>2, <1>3, <2>2
  <2>4. Merging(merged[m - 1], new, n + 1) /\ Members(merged[m - 1]) = Members(first)
    BY <2>3
  <2>5. merged[m] = LinearizeStep(merged[m - 1])
    BY <1>1, <2>3
  <2> QED BY <1>2, <2>4, <2>5, StepMembers
<1>5. Merging(linear, new, n + 1) /\ Members(linear) = Members(first)
  BY <1>2, <1>4
<1>6. Range(linear.order) = Members(linear)
  <2>1. \A i \in DOMAIN linear.lists : Range(linear.lists[i]) = {}
    BY DEF Range
  <2> QED BY <2>1 DEF Members
<1>7. Members(first) = {new} \cup Range(bases)
                       \cup UNION {Range(classes[bases[i]].mro) : i \in DOMAIN bases}
  <2>1. DOMAIN first.lists = 1..(n + 1)
    BY <1>3 DEF Merging
  <2>2. Range(first.order) = {new}
    BY <1>3 DEF Range
  <2>3. \A x : x \in Members(first) <=> x = new \/ \E i \in 1..(n + 1) : x \in Range(first.lists[i])
    BY <2>1, <2>2 DEF Members
  <2>4. \A x : (\E i \in 1..(n + 1) : x \in Range(first.lists[i])) <=>
                 x \in Range(bases) \/ \E i \in 1..n : x \in Range(classes[bases[i]].mro)
    BY <1>2, <1>3
  <2>5. \A x : x \in UNION {Range(classes[bases[i]].mro) : i \in DOMAIN bases} <=>
                 \E i \in 1..n : x \in Range(classes[bases[i]].mro)
    BY <1>2
  <2> QED BY <2>3, <2>4, <2>5
<1>8. ASSUME n = 0 PROVE linear.order = <<new>>
  <2>1. Range(linear.order) = {new}
    <3>1. DOMAIN bases = {} /\ Range(bases) = {}
      BY <1>2, <1>8 DEF Range
    <3> QED BY <1>5, <1>6, <1>7, <3>1
  <2>2. first.lists \in [1..1 -> Seq(1..new)] /\ first.lists[1] = <<>>
    BY <1>3, <1>8, BaseListsType DEF Merging
  <2>3. FreeHeads(first.lists) = {}
    BY <2>2 DEF FreeHeads
  <2>4. LinearizeStep(first) = first
    BY <2>3 DEF LinearizeStep
  <2> DEFINE Bad == {k \in 0..MaxClasses : merged[k] # first}
  <2>5. Bad = {}
    <3> SUFFICES ASSUME Bad # {} PROVE FALSE
      OBVIOUS
    <3>1. Bad \in SUBSET Nat
      BY <1>2
    <3>2. PICK m \in Bad : \A k \in Bad : m <= k
      BY <3>1, LeastNumber
    <3>3. m \in 1..MaxClasses /\ m - 1 \in 0..MaxClasses /\ m - 1 \notin Bad
      BY <1>2, <3>2
    <3> QED BY <1>1, <2>4, <3>2, <3>3
  <2> QED BY <1>2, <1>3, <2>5
<1>9. ASSUME n = 1 PROVE linear.order = <<new>> \o classes[bases[1]].mro
  <2> DEFINE line == classes[bases[1]].mro
             base == bases[1]
             Bad == {k \in 0..MaxClasses : ~MergingOne(merged[k], new, base, line)}
  <2>1. bases = <<base>> /\ base \in Defined
    <3>1. bases \in Seq(Defined) /\ Len(bases) = 1 /\ 1 \in 1..Len(bases)
      BY <1>9, BaseListsType
    <3>2. base \in Defined
      BY <3>1, ElementOfSeq
    <3>3. <<base>> \in Seq(Defined) /\ Len(<<base>>) = 1 /\ <<base>>[1] = base
      BY <3>2
    <3>4. \A i \in 1..Len(bases) : bases[i] = <<base>>[i]
      BY <3>1, <3>3
    <3> HIDE DEF base
    <3> QED BY <3>1, <3>2, <3>3, <3>4, SeqEqual
  <2>0. /\ first.lists \in [1..2 -> Seq(1..new)] /\ first.order = <<new>>
        /\ first.lists[1] = line /\ first.lists[2] = <<base>>
    <3>1. Merging(first, new, 2) /\ first.lists[1] = line /\ first.lists[2] = bases
      BY <1>3, <1>9
    <3> QED BY <1>3, <2>1, <3>1 DEF Merging
  <2>6. line \in Seq(1..new)
    BY <2>0
  <2>2. line # <<>> /\ Head(line) = base
    BY <2>1, <2>6 DEF OrderOK
  <2> HIDE DEF line, base
  <2>3. MergingOne(first, new, base, line)
    BY <2>0, <2>2 DEF MergingOne
  <2>4. Bad = {}
    <3> SUFFICES ASSUME Bad # {} PROVE FALSE
      OBVIOUS
    <3>1. Bad \in SUBSET Nat
      BY <1>2
    <3>2. PICK m \in Bad : \A k \in Bad : m <= k
      BY <3>1, LeastNumber
    <3>3. m \in 1..MaxClasses /\ m - 1 \in 0..MaxClasses /\ m - 1 \notin Bad
      BY <1>2, <2>3, <3>2
    <3>4. MergingOne(merged[m - 1], new, base, line)
      BY <3>3
    <3>5. Merging(merged[m - 1], new, 2)
      <4>1. n + 1 = 2
        BY <1>9
      <4>2. Merging(merged[m - 1], new, n + 1)
        BY <1>4, <3>3
      <4> QED BY <4>1, <4>2
    <3>6. merged[m] = LinearizeStep(merged[m - 1])
      BY <1>1, <3>3
    <3> QED BY <1>2, <2>6, <3>2, <3>4, <3>5, <3>6, StepOne
  <2>5. MergingOne(linear, new, base, line)
    BY <1>2, <2>4
  <2>7. linear.order \o linear.lists[1] = <<new>> \o line
    BY <2>5 DEF MergingOne
  <2>8. linear.lists[1] = <<>> /\ linear.order \in Seq(1..new)
    BY <1>5, <1>9 DEF Merging
  <2> QED BY <2>7, <2>8, ConcatEmptySeq DEF line
<1>10. linear.order \in Seq(1..new) /\ linear.order # <<>> /\ linear.order[1] = new
  BY <1>5 DEF Merging
<1> QED BY <1>5, <1>6, <1>7, <1>8, <1>9, <1>10

-----------------------------------------------------------------------------
(* The metaclass *)

FieldOfAncestor(c) ==
    classes[c].field # "none" =>
        \E i \in DOMAIN Ancestry(c) : Ancestry(c)[i].attribute = classes[c].field

NoFieldNoKind(c) ==
    classes[c].field = "none" =>
        \A i \in DOMAIN Ancestry(c) : Ancestry(c)[i].attribute \notin Kinds

FieldIsFirst(c) == Linear(c) /\ Lookup(c) # "value" => classes[c].field = Lookup(c)

ClassOK(c) == OrderOK(c) /\ FieldOfAncestor(c) /\ NoFieldNoKind(c) /\ FieldIsFirst(c)

ClassesInv == ClassesTypeOK /\ \A c \in Defined : ClassOK(c)

\* What DefineClass makes, with the facts about its order in terms of its ancestors.
Made(new, bases, said, k) ==
    /\ new = Len(classes) + 1 /\ new <= MaxClasses
    /\ classes' = Append(classes, k) /\ k \in StateClass /\ k.bases = bases
    /\ \/ said \in Kinds /\ k.attribute = said /\ k.field = said
       \/ k.attribute \in {"none", "value"} /\ k.field = Merge(bases)
    /\ k.mro \in Seq(1..new) /\ k.mro # <<>> /\ k.mro[1] = new
    /\ Range(k.mro) = {new} \cup Range(bases)
                      \cup UNION {Range(classes[bases[i]].mro) : i \in DOMAIN bases}
    /\ Len(bases) = 0 => k.mro = <<new>>
    /\ Len(bases) = 1 => k.mro = <<new>> \o classes[bases[1]].mro

LEMMA MergeType ==
    ASSUME ClassesTypeOK, NEW bases \in BaseLists
    PROVE  Merge(bases) \in Kinds \cup {"none"}
<1>1. Len(bases) \in Nat /\ DOMAIN bases = 1..Len(bases)
  BY BaseListsType
<1>2. ASSUME NEW i \in 1..Len(bases) PROVE classes[bases[i]].field \in Kinds \cup {"none"}
  <2>1. bases[i] \in 1..Len(classes)
    BY BaseListsType DEF Defined
  <2>2. classes[bases[i]] \in StateClass
    BY <2>1 DEF ClassesTypeOK
  <2> QED BY <2>2 DEF StateClass
<1> QED BY <1>1, <1>2, MergeDef

LEMMA DefineMakes ==
    ASSUME ClassesInv, Len(classes) < MaxClasses, NEW bases \in BaseLists, NEW said \in Declarations,
           NEW resolves \in BOOLEAN, NEW evaluated \in BOOLEAN,
           DefineClass(bases, Linearize(Len(classes) + 1, bases), said, resolves, evaluated)
    PROVE  \E k : Made(Len(classes) + 1, bases, said, k)
<1> DEFINE new == Len(classes) + 1
           linear == Linearize(new, bases)
           own == Recognized(said, linear.order, resolves, evaluated)
           k == [bases |-> bases, mro |-> linear.order, resolvable |-> resolves,
                 attribute |-> IF own \/ said = "value" THEN said ELSE "none",
                 field |-> IF own THEN said ELSE Merge(bases)]
<1>1. new <= MaxClasses /\ classes' = Append(classes, k)
      /\ \A i \in DOMAIN linear.lists : linear.lists[i] = <<>>
  BY ClassesAssumption DEF DefineClass, ClassesInv, ClassesTypeOK
<1>2. Len(classes) \in Nat /\ MaxClasses \in Nat /\ \A c \in Defined : OrderOK(c)
  BY ClassesAssumption DEF ClassesInv, ClassesTypeOK, ClassOK
<1>3. /\ linear.order \in Seq(1..new) /\ linear.order # <<>> /\ linear.order[1] = new
      /\ Range(linear.order) = {new} \cup Range(bases)
                               \cup UNION {Range(classes[bases[i]].mro) : i \in DOMAIN bases}
      /\ Len(bases) = 0 => linear.order = <<new>>
      /\ Len(bases) = 1 => linear.order = <<new>> \o classes[bases[1]].mro
  BY <1>1, <1>2, LinearizeResult DEF ClassesInv
<1>4. own \in BOOLEAN /\ (own => said \in Kinds)
  BY DEF Recognized, IsMarker
<1>5. Merge(bases) \in Kinds \cup {"none"}
  BY MergeType DEF ClassesInv
<1>6. linear.order \in Seq(1..MaxClasses)
  <2>1. 1..new \subseteq 1..MaxClasses
    BY <1>1, <1>2
  <2> QED BY <1>3, <2>1, SeqMonotonic
<1>7. bases \in Seq(1..MaxClasses)
  <2>1. Defined \subseteq 1..MaxClasses /\ bases \in Seq(Defined)
    BY <1>1, <1>2, BaseListsType DEF Defined, ClassesInv
  <2> QED BY <2>1, SeqMonotonic
<1> HIDE DEF own, linear
<1>8. /\ k.bases = bases /\ k.mro = linear.order /\ k.resolvable = resolves
      /\ k.attribute = IF own \/ said = "value" THEN said ELSE "none"
      /\ k.field = IF own THEN said ELSE Merge(bases)
  OBVIOUS
<1>9. \/ said \in Kinds /\ k.attribute = said /\ k.field = said
      \/ k.attribute \in {"none", "value"} /\ k.field = Merge(bases)
  BY <1>4, <1>8
<1>10. k.attribute \in Declarations /\ k.field \in Kinds \cup {"none"}
  BY <1>5, <1>9 DEF Declarations
<1>11. k \in StateClass
  BY <1>6, <1>7, <1>8, <1>10 DEF StateClass
<1> HIDE DEF k
<1>12. Made(new, bases, said, k)
  BY <1>1, <1>3, <1>8, <1>9, <1>11 DEF Made
<1> QED BY <1>12

\* Nothing that is said of a class changes when others are defined after it.
LEMMA OldClasses ==
    ASSUME ClassesInv, NEW bases \in BaseLists, NEW said, NEW k,
           Made(Len(classes) + 1, bases, said, k), NEW c \in Defined
    PROVE  classes'[c] = classes[c] /\ Ancestry(c)' = Ancestry(c) /\ ClassOK(c)'
<1>1. Len(classes) \in Nat /\ \A d \in 1..Len(classes) : classes'[d] = classes[d]
  BY DEF Made, ClassesInv, ClassesTypeOK
<1>2. c \in 1..Len(classes) /\ classes'[c] = classes[c] /\ ClassOK(c)
  BY <1>1 DEF Defined, ClassesInv
<1>3. \A i \in DOMAIN classes[c].mro : classes[c].mro[i] \in 1..Len(classes)
  BY <1>1, <1>2 DEF ClassOK, OrderOK
<1>4. Ancestry(c)' = Ancestry(c)
  BY <1>1, <1>2, <1>3 DEF Ancestry
<1>5. OrderOK(c)'
  <2>1. ASSUME Len(classes[c].bases) = 1
        PROVE  classes'[classes[c].bases[1]] = classes[classes[c].bases[1]]
    <3>1. classes[c] \in StateClass
      BY <1>2 DEF ClassesInv, ClassesTypeOK
    <3>2. 1 \in DOMAIN classes[c].bases
      BY <2>1, <3>1 DEF StateClass
    <3>3. classes[c].bases[1] \in 1..Len(classes)
      BY <1>1, <1>2, <3>2 DEF ClassOK, OrderOK
    <3> QED BY <1>1, <3>3
  <2> QED BY <1>2, <2>1 DEF ClassOK, OrderOK
<1>6. FieldOfAncestor(c)' /\ NoFieldNoKind(c)'
  BY <1>2, <1>4 DEF ClassOK, FieldOfAncestor, NoFieldNoKind
<1>7. FieldIsFirst(c)'
  <2>1. Lookup(c)' = Lookup(c)
    BY <1>4 DEF Lookup
  <2>2. Linear(c)' <=> Linear(c)
    BY <1>4 DEF Linear
  <2> QED BY <1>2, <2>1, <2>2 DEF ClassOK, FieldIsFirst
<1> QED BY <1>2, <1>4, <1>5, <1>6, <1>7 DEF ClassOK

\* The ancestors of the new class: itself, and those of its bases.
LEMMA NewAncestry ==
    ASSUME ClassesInv, NEW new, NEW bases \in BaseLists, NEW said, NEW k, Made(new, bases, said, k)
    PROVE  /\ new \in Nat /\ classes'[new] = k
           /\ Len(k.mro) \in Nat \ {0} /\ DOMAIN (Ancestry(new)') = 1..Len(k.mro)
           /\ \A i \in 1..Len(k.mro) :
                /\ Ancestry(new)'[i] = classes'[k.mro[i]]
                /\ k.mro[i] = new \/ k.mro[i] \in Defined
           /\ Ancestry(new)'[1] = k
<1>1. Len(classes) \in Nat /\ new = Len(classes) + 1 /\ classes' = Append(classes, k)
      /\ classes \in Seq(StateClass)
  BY DEF Made, ClassesInv, ClassesTypeOK
<1>2. new \in Nat /\ classes'[new] = k
  BY <1>1
<1>3. k.mro \in Seq(1..new) /\ k.mro # <<>> /\ k.mro[1] = new
  BY DEF Made
<1>4. Len(k.mro) \in Nat \ {0} /\ DOMAIN k.mro = 1..Len(k.mro)
      /\ \A i \in 1..Len(k.mro) : k.mro[i] \in 1..new
  <2> DEFINE o == k.mro
  <2>1. o \in Seq(1..new) /\ o # <<>>
    BY <1>3
  <2> HIDE DEF o
  <2>2. Len(o) \in Nat \ {0} /\ DOMAIN o = 1..Len(o) /\ \A i \in 1..Len(o) : o[i] \in 1..new
    BY <2>1, EmptySeq, LenProperties, ElementOfSeq
  <2> QED BY <2>2 DEF o
<1>5. Ancestry(new)' = [i \in 1..Len(k.mro) |-> classes'[k.mro[i]]]
  BY <1>2, <1>4 DEF Ancestry
<1>6. \A i \in 1..Len(k.mro) : k.mro[i] = new \/ k.mro[i] \in Defined
  BY <1>1, <1>4 DEF Defined
<1> QED BY <1>2, <1>3, <1>4, <1>5, <1>6

\* An ancestor of a base is one of the new class.
LEMMA BaseAncestors ==
    ASSUME ClassesInv, NEW new, NEW bases \in BaseLists, NEW said, NEW k, Made(new, bases, said, k),
           NEW i \in DOMAIN bases, NEW j \in DOMAIN Ancestry(bases[i])
    PROVE  \E m \in DOMAIN (Ancestry(new)') : Ancestry(new)'[m] = Ancestry(bases[i])[j]
<1> DEFINE b == bases[i]
           a == classes[b].mro[j]
<1>1. Len(classes) \in Nat /\ b \in Defined /\ ClassOK(b)
  BY BaseListsType DEF ClassesInv, ClassesTypeOK
<1>2. j \in DOMAIN classes[b].mro /\ Ancestry(b)[j] = classes[a]
  BY DEF Ancestry
<1>3. a \in 1..b /\ a \in Range(classes[b].mro)
  BY <1>1, <1>2 DEF ClassOK, OrderOK, Range
<1>4. a \in Defined
  BY <1>1, <1>3 DEF Defined
<1> HIDE DEF a, b
<1>5. a \in Range(k.mro)
  BY <1>3 DEF Made, b
<1>6. PICK m \in DOMAIN k.mro : k.mro[m] = a
  BY <1>5 DEF Range
<1>7. m \in 1..Len(k.mro)
  BY <1>6 DEF Made
<1>8. classes'[a] = classes[a]
  BY <1>4, OldClasses DEF Made
<1>9. m \in DOMAIN (Ancestry(new)') /\ Ancestry(new)'[m] = classes'[a]
  BY <1>6, <1>7, NewAncestry
<1> QED BY <1>2, <1>8, <1>9 DEF b

LEMMA NewFieldOfAncestor ==
    ASSUME ClassesInv, NEW new, NEW bases \in BaseLists, NEW said, NEW k, Made(new, bases, said, k)
    PROVE  FieldOfAncestor(new)'
<1> SUFFICES ASSUME k.field # "none"
             PROVE  \E i \in DOMAIN (Ancestry(new)') : Ancestry(new)'[i].attribute = k.field
  <2>1. classes'[new] = k
    BY DEF Made, ClassesInv, ClassesTypeOK
  <2>2. FieldOfAncestor(new)' <=>
          (classes'[new].field # "none" =>
             \E i \in DOMAIN (Ancestry(new)') : Ancestry(new)'[i].attribute = classes'[new].field)
    BY DEF FieldOfAncestor
  <2> QED BY <2>1, <2>2
<1>1. CASE k.attribute = k.field
  BY <1>1, NewAncestry
<1>2. CASE k.attribute # k.field
  <2>1. k.field = Merge(bases) /\ Merge(bases) # "none"
    BY <1>2 DEF Made
  <2>2. PICK i \in DOMAIN bases : /\ classes[bases[i]].field # "none"
                                  /\ Merge(bases) = classes[bases[i]].field
    <3>1. Len(bases) \in Nat /\ DOMAIN bases = 1..Len(bases)
      BY BaseListsType DEF ClassesInv
    <3> QED BY <2>1, <3>1, MergeDef
  <2>3. bases[i] \in Defined /\ FieldOfAncestor(bases[i])
    BY BaseListsType DEF ClassesInv, ClassOK
  <2>4. PICK j \in DOMAIN Ancestry(bases[i]) : Ancestry(bases[i])[j].attribute = classes[bases[i]].field
    BY <2>2, <2>3 DEF FieldOfAncestor
  <2> QED BY <2>1, <2>2, <2>4, BaseAncestors
<1> QED BY <1>1, <1>2

LEMMA NewNoFieldNoKind ==
    ASSUME ClassesInv, NEW new, NEW bases \in BaseLists, NEW said, NEW k, Made(new, bases, said, k)
    PROVE  NoFieldNoKind(new)'
<1> SUFFICES ASSUME k.field = "none", NEW m \in 1..Len(k.mro)
             PROVE  Ancestry(new)'[m].attribute \notin Kinds
  BY NewAncestry DEF NoFieldNoKind
<1>1. k.attribute \in {"none", "value"} /\ Merge(bases) = "none"
  BY DEF Made, Kinds
<1>2. ASSUME NEW i \in DOMAIN bases PROVE bases[i] \in Defined /\ ClassOK(bases[i])
                                          /\ classes[bases[i]].field = "none"
  BY <1>1, BaseListsType, MergeDef DEF ClassesInv
<1>3. Ancestry(new)'[m] = classes'[k.mro[m]] /\ k.mro[m] \in Range(k.mro)
  <2>1. m \in DOMAIN k.mro
    BY DEF Made
  <2> QED BY <2>1, NewAncestry DEF Range
<1>4. CASE k.mro[m] = new
  BY <1>1, <1>3, <1>4, NewAncestry DEF Kinds
<1>5. ASSUME NEW i \in DOMAIN bases, k.mro[m] \in Range(classes[bases[i]].mro)
      PROVE  Ancestry(new)'[m].attribute \notin Kinds
  <2>1. PICK j \in DOMAIN classes[bases[i]].mro : classes[bases[i]].mro[j] = k.mro[m]
    BY <1>5 DEF Range
  <2>2. j \in DOMAIN Ancestry(bases[i]) /\ Ancestry(bases[i])[j] = classes[k.mro[m]]
    BY <2>1 DEF Ancestry
  <2>3. classes[k.mro[m]].attribute \notin Kinds
    BY <1>2, <2>2 DEF ClassOK, NoFieldNoKind
  <2>4. CASE k.mro[m] \in Defined
    <3>1. classes'[k.mro[m]] = classes[k.mro[m]]
      BY <2>4, OldClasses DEF Made
    <3> QED BY <1>3, <2>3, <3>1
  <2> QED BY <1>4, <2>4, NewAncestry
<1>6. ASSUME NEW i \in DOMAIN bases, k.mro[m] = bases[i]
      PROVE  Ancestry(new)'[m].attribute \notin Kinds
  <2>1. classes[bases[i]].mro # <<>> /\ classes[bases[i]].mro[1] = bases[i]
    BY <1>2 DEF ClassOK, OrderOK
  <2>2. classes[bases[i]] \in StateClass
    BY <1>2 DEF ClassesInv, ClassesTypeOK, Defined
  <2>3. classes[bases[i]].mro \in Seq(1..MaxClasses)
    BY <2>2 DEF StateClass
  <2>4. 1 \in DOMAIN classes[bases[i]].mro
    BY <2>1, <2>3
  <2>5. bases[i] \in Range(classes[bases[i]].mro)
    BY <2>1, <2>4 DEF Range
  <2> QED BY <1>5, <1>6, <2>5
<1>7. k.mro[m] = new \/ (\E i \in DOMAIN bases : k.mro[m] = bases[i])
      \/ \E i \in DOMAIN bases : k.mro[m] \in Range(classes[bases[i]].mro)
  <2>1. k.mro[m] \in {new} \cup Range(bases)
                      \cup UNION {Range(classes[bases[i]].mro) : i \in DOMAIN bases}
    BY <1>3 DEF Made
  <2>2. k.mro[m] \in Range(bases) => \E i \in DOMAIN bases : k.mro[m] = bases[i]
    BY DEF Range
  <2> QED BY <2>1, <2>2
<1> QED BY <1>4, <1>5, <1>6, <1>7

LEMMA NewFieldIsFirst ==
    ASSUME ClassesInv, NEW new, NEW bases \in BaseLists, NEW said, NEW k, Made(new, bases, said, k)
    PROVE  FieldIsFirst(new)'
<1> DEFINE n == Len(bases)
           order == Ancestry(new)'
<1>1. /\ classes'[new] = k /\ Len(k.mro) \in Nat \ {0}
      /\ DOMAIN order = 1..Len(k.mro) /\ order[1] = k
      /\ \A i \in 1..Len(k.mro) : /\ order[i] = classes'[k.mro[i]]
                                  /\ k.mro[i] = new \/ k.mro[i] \in Defined
  <2>1. classes'[new] = k
    BY DEF Made, ClassesInv, ClassesTypeOK
  <2> QED BY <2>1, NewAncestry
<1>2. n \in Nat /\ DOMAIN bases = 1..n /\ \A i \in 1..n : bases[i] \in Defined /\ ClassOK(bases[i])
  BY BaseListsType DEF ClassesInv
<1>3. FieldIsFirst(new)' <=>
        (/\ \A i \in DOMAIN order : Len(order[i].bases) <= 1
         /\ FirstAttribute(order) # "value"
         => k.field = FirstAttribute(order))
  BY <1>1 DEF FieldIsFirst, Linear, Lookup
<1> HIDE DEF order
<1> SUFFICES ASSUME \A i \in DOMAIN order : Len(order[i].bases) <= 1,
                    FirstAttribute(order) # "value"
             PROVE  k.field = FirstAttribute(order)
  BY <1>3
<1>4. n <= 1
  <2>1. k.bases = bases /\ 1 \in DOMAIN order
    BY <1>1 DEF Made
  <2> QED BY <1>1, <2>1
<1>5. \/ k.attribute \in Kinds /\ k.field = k.attribute
      \/ k.attribute \in {"none", "value"} /\ k.field = Merge(bases)
  BY DEF Made
<1>6. CASE n = 0
  <2>1. k.mro = <<new>>
    BY <1>6 DEF Made
  <2>2. Len(k.mro) = 1
    BY <2>1
  <2>3. DOMAIN order = 1..1
    BY <1>1, <2>2
  <2>4. FirstAttribute(order) = k.attribute
    BY <1>1, <2>3, FirstAttributeDef
  <2>5. Merge(bases) = "none"
    BY <1>2, <1>6, MergeDef
  <2> QED BY <1>5, <2>4, <2>5
<1>7. CASE n = 1
  <2> DEFINE b == bases[1]
             line == classes[b].mro
             older == Ancestry(b)
  <2>1. b \in Defined /\ ClassOK(b)
    BY <1>2, <1>7
  <2>2. classes[b] \in StateClass
    BY <2>1 DEF Defined, ClassesInv, ClassesTypeOK
  <2>3. line \in Seq(1..MaxClasses)
    BY <2>2 DEF StateClass
  <2>4. k.mro = <<new>> \o line
    BY <1>7 DEF Made
  <2> HIDE DEF line
  <2>5. Len(line) \in Nat /\ DOMAIN line = 1..Len(line)
    BY <2>3
  <2>6. Len(k.mro) = Len(line) + 1 /\ \A i \in 1..Len(line) : k.mro[i + 1] = line[i]
    <3>1. <<new>> \in Seq(Nat) /\ Len(<<new>>) = 1
      <4>1. new \in Nat
        BY DEF Made, ClassesInv, ClassesTypeOK
      <4> QED BY <4>1
    <3>2. line \in Seq(Nat)
      <4>1. 1..MaxClasses \subseteq Nat
        BY ClassesAssumption
      <4> QED BY <2>3, <4>1, SeqMonotonic
    <3> DEFINE m == <<new>> \o line
    <3>3. Len(m) = 1 + Len(line) /\ \A i \in 1..(1 + Len(line)) :
            m[i] = IF i <= 1 THEN <<new>>[i] ELSE line[i - 1]
      BY <3>1, <3>2, ConcatProperties
    <3> HIDE DEF m
    <3>4. \A i \in 1..Len(line) : i + 1 \in 1..(1 + Len(line)) /\ ~(i + 1 <= 1) /\ (i + 1) - 1 = i
      BY <2>5
    <3>5. \A i \in 1..Len(line) : m[i + 1] = line[i]
      BY <3>3, <3>4
    <3> QED BY <2>4, <2>5, <3>3, <3>5 DEF m
  <2>7. DOMAIN older = 1..Len(line) /\ \A i \in 1..Len(line) : older[i] = classes[line[i]]
    BY <2>5 DEF Ancestry, line
  <2>8. \A i \in 1..Len(line) : line[i] \in Defined
    <3>1. b \in Nat /\ Len(classes) \in Nat /\ b <= Len(classes)
      BY <2>1 DEF Defined, ClassesInv, ClassesTypeOK
    <3>2. \A i \in 1..Len(line) : line[i] \in 1..b
      BY <2>1, <2>5 DEF ClassOK, OrderOK, line
    <3> QED BY <3>1, <3>2 DEF Defined
  <2>9. \A i \in 1..Len(line) : i + 1 \in 1..Len(k.mro) /\ order[i + 1] = older[i]
    <3>1. ASSUME NEW i \in 1..Len(line) PROVE i + 1 \in 1..Len(k.mro) /\ order[i + 1] = older[i]
      <4>1. i + 1 \in 1..Len(k.mro) /\ k.mro[i + 1] = line[i]
        BY <2>5, <2>6
      <4>2. order[i + 1] = classes'[line[i]]
        BY <1>1, <4>1
      <4>3. classes'[line[i]] = classes[line[i]]
        BY <2>8, OldClasses DEF Made
      <4> QED BY <2>7, <4>1, <4>2, <4>3
    <3> QED BY <3>1
  <2> HIDE DEF older
  <2>10. FirstAttribute(order) =
           IF k.attribute # "none" THEN k.attribute ELSE FirstAttribute(older)
    <3>1. DOMAIN order = 1..(Len(line) + 1)
      BY <1>1, <2>6
    <3>2. \A i \in 1..Len(line) : order[i + 1] = older[i]
      BY <2>9
    <3>3. FirstAttribute(order) =
            IF order[1].attribute # "none" THEN order[1].attribute ELSE FirstAttribute(older)
      BY <2>5, <2>7, <3>1, <3>2, FirstAttributeCons
    <3> QED BY <1>1, <3>3
  <2>11. CASE k.attribute = "none"
    <3>1. FirstAttribute(order) = FirstAttribute(older) /\ k.field = Merge(bases)
      BY <1>5, <2>10, <2>11 DEF Kinds
    <3>2. \A i \in DOMAIN older : Len(older[i].bases) <= 1
      BY <1>1, <2>7, <2>9
    <3>3. classes[b].field = FirstAttribute(older)
      BY <2>1, <3>1, <3>2 DEF ClassOK, FieldIsFirst, Linear, Lookup, older
    <3>4. Merge(bases) = classes[b].field
      <4>1. DOMAIN bases = 1..1
        BY <1>2, <1>7
      <4>2. \/ Merge(bases) = "none" /\ \A i \in 1..1 : classes[bases[i]].field = "none"
            \/ \E i \in 1..1 : Merge(bases) = classes[bases[i]].field
        BY <4>1, MergeDef
      <4> QED BY <4>2
    <3> QED BY <3>1, <3>3, <3>4
  <2>12. CASE k.attribute # "none"
    BY <1>5, <2>10, <2>12
  <2> QED BY <2>11, <2>12
<1> QED BY <1>2, <1>4, <1>6, <1>7

LEMMA ClassesStep == ClassesInv /\ [ClassesNext]_classVars => ClassesInv'
<1> SUFFICES ASSUME ClassesInv, [ClassesNext]_classVars PROVE ClassesInv'
  OBVIOUS
<1>1. ASSUME Len(classes) < MaxClasses,
             NEW bases \in BaseLists, NEW said \in Declarations, NEW resolves \in BOOLEAN,
             NEW evaluated \in BOOLEAN,
             DefineClass(bases, Linearize(Len(classes) + 1, bases), said, resolves, evaluated)
      PROVE  ClassesInv'
  <2>0. PICK new : new = Len(classes) + 1
    OBVIOUS
  <2>1. PICK k : Made(new, bases, said, k)
    BY <1>1, <2>0, DefineMakes
  <2>2. classes \in Seq(StateClass) /\ k \in StateClass /\ classes' = Append(classes, k)
        /\ new <= MaxClasses /\ MaxClasses \in Nat
    BY <2>1, ClassesAssumption DEF Made, ClassesInv, ClassesTypeOK
  <2>3. ClassesTypeOK' /\ Len(classes') = new /\ classes'[new] = k
    BY <2>0, <2>2 DEF ClassesTypeOK
  <2>4. \A c \in Defined : ClassOK(c)'
    BY <2>0, <2>1, OldClasses
  <2>5. OrderOK(new)'
    <3>1. k.bases = bases /\ k.mro \in Seq(1..new) /\ k.mro # <<>> /\ k.mro[1] = new
          /\ (Len(bases) = 0 => k.mro = <<new>>)
          /\ (Len(bases) = 1 => k.mro = <<new>> \o classes[bases[1]].mro)
      BY <2>1 DEF Made
    <3>2. Len(bases) \in Nat /\ DOMAIN bases = 1..Len(bases)
          /\ \A i \in 1..Len(bases) : bases[i] \in Defined
      BY BaseListsType DEF ClassesInv
    <3>3. \A i \in DOMAIN bases : bases[i] \in 1..(new - 1) /\ classes'[bases[i]] = classes[bases[i]]
      <4>1. ASSUME NEW i \in DOMAIN bases
            PROVE  bases[i] \in 1..(new - 1) /\ classes'[bases[i]] = classes[bases[i]]
        <5>1. bases[i] \in Defined
          BY <3>2
        <5> QED BY <2>0, <2>1, <2>2, <5>1, OldClasses DEF Defined
      <4> QED BY <4>1
    <3>4. \A i \in DOMAIN k.mro : k.mro[i] \in 1..new
      <4>1. ASSUME NEW S, NEW o \in Seq(S) PROVE \A i \in DOMAIN o : o[i] \in S
        OBVIOUS
      <4> QED BY <3>1, <4>1
    <3>5. Len(bases) = 1 => k.mro = <<new>> \o classes'[bases[1]].mro
      BY <3>1, <3>2, <3>3
    <3> QED BY <2>3, <3>1, <3>3, <3>4, <3>5 DEF OrderOK
  <2>6. FieldOfAncestor(new)' /\ NoFieldNoKind(new)' /\ FieldIsFirst(new)'
    BY <2>1, NewFieldOfAncestor, NewNoFieldNoKind, NewFieldIsFirst
  <2>7. ClassOK(new)'
    BY <2>5, <2>6 DEF ClassOK
  <2>8. Defined' = Defined \cup {new}
    BY <2>0, <2>2, <2>3 DEF Defined
  <2>9. \A c \in Defined' : ClassOK(c)'
    BY <2>4, <2>7, <2>8
  <2> QED BY <2>3, <2>9 DEF ClassesInv
<1>2. CASE UNCHANGED classVars
  <2>1. classes' = classes
    BY <1>2 DEF classVars
  <2>2. ASSUME NEW c PROVE ClassOK(c)' <=> ClassOK(c)
    BY <2>1 DEF ClassOK, OrderOK, FieldOfAncestor, NoFieldNoKind, FieldIsFirst, Linear, Lookup, Ancestry
  <2> QED BY <2>1, <2>2 DEF ClassesInv, ClassesTypeOK, Defined
<1> QED BY <1>1, <1>2 DEF ClassesNext

LEMMA ClassesInitInv == ClassesInit => ClassesInv
  BY ClassesAssumption DEF ClassesInit, ClassesInv, ClassesTypeOK, Defined

LEMMA KindsOfInv == ClassesInv => KindsAgree
<1> SUFFICES ASSUME ClassesInv, NEW c \in Defined, Lookup(c) # "value", OneKind(c)
             PROVE  classes[c].field = Lookup(c)
  BY DEF KindsAgree, ClassesInv, ClassOK, FieldIsFirst
<1> DEFINE line == Ancestry(c)
<1>1. classes[c] \in StateClass /\ ClassOK(c) /\ Len(classes) \in Nat
  BY DEF ClassesInv, ClassesTypeOK, Defined
<1>2. classes[c].mro \in Seq(1..MaxClasses) /\ classes[c].field \in Kinds \cup {"none"}
  BY <1>1 DEF StateClass
<1>3. Len(classes[c].mro) \in Nat /\ DOMAIN line = 1..Len(classes[c].mro)
  BY <1>2 DEF Ancestry
<1>4. \A i \in DOMAIN line : line[i].attribute \in Declarations
  <2>1. ASSUME NEW i \in DOMAIN line PROVE line[i].attribute \in Declarations
    <3>1. i \in DOMAIN classes[c].mro /\ line[i] = classes[classes[c].mro[i]]
      BY DEF Ancestry
    <3>2. classes[c].mro[i] \in 1..Len(classes)
      BY <1>1, <3>1 DEF ClassOK, OrderOK, Defined
    <3>3. line[i] \in StateClass
      BY <3>1, <3>2 DEF ClassesInv, ClassesTypeOK
    <3> QED BY <3>3 DEF StateClass
  <2> QED BY <2>1
<1>5. /\ classes[c].field # "none" => \E i \in DOMAIN line : line[i].attribute = classes[c].field
      /\ classes[c].field = "none" => \A i \in DOMAIN line : line[i].attribute \notin Kinds
  BY <1>1 DEF ClassOK, FieldOfAncestor, NoFieldNoKind
<1>6. \A i, j \in DOMAIN line : {line[i].attribute, line[j].attribute} # Kinds
  BY DEF OneKind
<1>7. Lookup(c) = FirstAttribute(line)
  BY DEF Lookup
<1> HIDE DEF line
<1>8. CASE FirstAttribute(line) = "none" /\ \A i \in DOMAIN line : line[i].attribute = "none"
  BY <1>5, <1>7, <1>8
<1>9. ASSUME NEW m \in DOMAIN line, line[m].attribute # "none",
             FirstAttribute(line) = line[m].attribute
      PROVE  classes[c].field = Lookup(c)
  <2>1. line[m].attribute \in Kinds
    BY <1>4, <1>7, <1>9 DEF Declarations
  <2>2. PICK i \in DOMAIN line : line[i].attribute = classes[c].field
    BY <1>5, <2>1
  <2>3. classes[c].field \in Kinds
    BY <1>2, <1>5, <2>1
  <2>4. {line[m].attribute, line[i].attribute} # Kinds
    BY <1>6
  <2> QED BY <1>7, <1>9, <2>1, <2>2, <2>3, <2>4 DEF Kinds
<1> QED BY <1>3, <1>8, <1>9, FirstAttributeDef

\* state.py:44-74: for any classes, however many and whatever their bases, checkpoints and
\* restores go by the kind of the descriptor that reads and assignments get, with the
\* exceptions KindsAgree names.
THEOREM KindsAgreeAlways == ClassesSpec => []KindsAgree
<1> QED BY ClassesInitInv, ClassesStep, KindsOfInv, PTL DEF ClassesSpec
=============================================================================
