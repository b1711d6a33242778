--------------------- MODULE AgentRefStateContentProofs ---------------------
(***************************************************************************)
(* Proofs about what AgentRefState brings back.  Nothing writes to the hash  *)
(* or the type name of a ContentRef that a cell refers to (Stays): a new     *)
(* value gets a new object.  So what a cell was given when it was filled is  *)
(* what it gives for as long as it is kept, in the instance, in dicts that   *)
(* share its objects and in bytes that do not.                               *)
(***************************************************************************)
EXTENDS AgentRefStateProofs

\* What the cells of data give, going by the ContentRef objects there are ...
Gives(data, told) ==
    \A f \in Externalized : told[f] \in Faithful =>
        data[f].kind = "ref" /\ Yields(refs[data[f].id]) = told[f]

\* ... there will be ...
WillGive(data, told) ==
    \A f \in Externalized : told[f] \in Faithful =>
        data[f].kind = "ref" /\ Yields(refs'[data[f].id]) = told[f]

\* ... and in bytes, which need none.
BytesGive(data, told) ==
    \A f \in Externalized : told[f] \in Faithful =>
        data[f].kind = "ref" /\ Yields(data[f].ref) = told[f]

InstanceGives == instance # None => Gives(instance.data, instance.told)

SlotGives(k) ==
    /\ slots[k] # None /\ slots[k].form = "dict" => Gives(slots[k].data, slots[k].told)
    /\ slots[k] # None /\ slots[k].form = "bytes" => BytesGive(slots[k].data, slots[k].told)

\* A cache holds what the reference yields.
CacheTrue(x) == x.cache = None \/ x.cache = Yields(x)
CachesTrue == \A r \in RefIds : Held(r) => CacheTrue(refs[r])

CInv == IInv /\ InstanceGives /\ (\A k \in Slots : SlotGives(k)) /\ CachesTrue

\* An object that is held before and after a step refers to the same content.
Stays ==
    \A r \in RefIds : Held(r) /\ Held(r)' =>
        refs'[r].hash = refs[r].hash /\ refs'[r].type_name = refs[r].type_name

-----------------------------------------------------------------------------
(* Lemmas about the operators. *)

\* The codec brings a faithful value back under the type name the descriptor gives it.
LEMMA MintYields ==
    ASSUME NEW rt, NEW f, NEW v \in Faithful
    PROVE  Yields(Mint(rt, f, v)) = v
<1>1. v \in Value /\ v.shape \in {"bytes", "plain", "object"}
  BY ValuesAssumption DEF Faithful
<1>2. CASE v.shape = "bytes"
  BY <1>1, <1>2 DEF Yields, Mint, TypeNameFor, Serialize, Deserialize
<1>3. CASE v.shape = "plain"
  BY <1>1, <1>3 DEF Yields, Mint, TypeNameFor, Serialize, Deserialize
<1>4. CASE v.shape = "object"
  BY <1>1, <1>4 DEF Yields, Mint, TypeNameFor, Serialize, Deserialize
<1> QED BY <1>1, <1>2, <1>3, <1>4

LEMMA PickleYields ==
    \A x : Yields(Pickle(x)) = Yields(x) /\ Yields(Unpickle(x)) = Yields(x)
  BY DEF Yields, Pickle, Unpickle

\* The cells of the instance and of a dict hold their objects.
LEMMA InstanceHolds ==
    ASSUME IInv, instance # None, NEW f \in Fields, instance.data[f].kind = "ref"
    PROVE  instance.data[f].id \in RefIds /\ Held(instance.data[f].id)
<1>1. instance.data[f] \in Cell
  BY DEF IInv, TypeOK, Instance
<1> QED BY <1>1 DEF Cell, Held, InData

LEMMA DictHolds ==
    ASSUME IInv, NEW k \in Slots, slots[k] # None, slots[k].form = "dict",
           NEW f \in Fields, slots[k].data[f].kind = "ref"
    PROVE  slots[k].data[f].id \in RefIds /\ Held(slots[k].data[f].id)
<1>1. slots[k].data[f] \in Cell
  BY DEF IInv, TypeOK, DictCheckpoint, BytesCheckpoint
<1> QED BY <1>1 DEF Cell, Held, InData

\* What a slot that is left alone gives does not change.
LEMMA SlotCarries ==
    ASSUME CInv, Stays, NEW k \in Slots, slots'[k] = slots[k]
    PROVE  SlotGives(k)'
<1>1. CASE slots[k] # None /\ slots[k].form = "dict"
  <2> SUFFICES ASSUME NEW f \in Externalized, slots[k].told[f] \in Faithful
               PROVE  slots[k].data[f].kind = "ref" /\ Yields(refs'[slots[k].data[f].id]) = slots[k].told[f]
    BY <1>1 DEF SlotGives, Gives, Faithful
  <2>1. slots[k].data[f].kind = "ref" /\ Yields(refs[slots[k].data[f].id]) = slots[k].told[f]
    BY <1>1 DEF CInv, SlotGives, Gives
  <2>2. slots[k].data[f].id \in RefIds /\ Held(slots[k].data[f].id)
    BY <1>1, <2>1, DictHolds DEF CInv, Fields
  <2>3. Held(slots[k].data[f].id)'
    BY <1>1, <2>1 DEF Held, InData, Fields
  <2> QED BY <2>1, <2>2, <2>3 DEF Stays, Yields
<1>2. CASE slots[k] # None /\ slots[k].form = "bytes"
  BY <1>2 DEF CInv, SlotGives, BytesGive, Yields
<1>3. CASE ~(slots[k] # None /\ slots[k].form \in {"dict", "bytes"})
  BY <1>3 DEF SlotGives
<1> QED BY <1>1, <1>2, <1>3

\* What Keep leaves.
LEMMA KeepContent ==
    ASSUME NEW objects, Keep(objects), \A r \in RefIds : Held(r)' => CacheTrue(objects[r])
    PROVE  CachesTrue' /\ \A r \in RefIds : Held(r)' => refs'[r] = objects[r]
<1>1. \A r \in RefIds : Held(r)' => refs'[r] = objects[r]
  BY HeldIdsWillBe DEF Keep
<1> QED BY <1>1 DEF CachesTrue, CacheTrue, Yields

\* Keep of the objects there are, none of which had been dropped.
LEMMA KeepOld ==
    ASSUME CInv, Keep(refs), \A r \in RefIds : Held(r)' => Held(r)
    PROVE  /\ CachesTrue' /\ Stays
           /\ \A r \in RefIds : Held(r)' => refs'[r] = refs[r]
<1>1. CachesTrue' /\ \A r \in RefIds : Held(r)' => refs'[r] = refs[r]
  BY KeepContent DEF CInv, CachesTrue
<1> QED BY <1>1 DEF Stays

\* Keep of the objects there are and of new ones, in places that were free.
LEMMA KeepNew ==
    ASSUME CInv, NEW new, NEW F, NEW ids \in [F -> FreeIds],
           Keep(new),
           \A r \in RefIds : (\A f \in F : ids[f] # r) => new[r] = refs[r],
           \A r \in RefIds : Held(r)' => Held(r) \/ \E f \in F : ids[f] = r,
           \A f \in F : CacheTrue(new[ids[f]])
    PROVE  /\ CachesTrue' /\ Stays
           /\ \A r \in RefIds : Held(r)' => refs'[r] = new[r]
<1>1. \A r \in RefIds : Held(r)' => CacheTrue(new[r])
  BY DEF CInv, CachesTrue
<1>2. CachesTrue' /\ \A r \in RefIds : Held(r)' => refs'[r] = new[r]
  BY <1>1, KeepContent
<1>3. \A r \in RefIds : Held(r) => \A f \in F : ids[f] # r
  BY DEF CInv, IInv, HeldExist, FreeIds
<1> QED BY <1>2, <1>3 DEF Stays

-----------------------------------------------------------------------------
(* Each step keeps the invariant.  What it does to IInv is in AgentRefStateProofs. *)

LEMMA InitCInv == Init => CInv
  BY InitIInv DEF Init, CInv, InstanceGives, SlotGives, CachesTrue, Held

\* Steps that leave the objects and what holds them alone.
LEMMA SameCells ==
    ASSUME CInv, IInv', UNCHANGED <<refs, instance, slots>>
    PROVE  CInv'
<1>1. InstanceGives' /\ \A k \in Slots : SlotGives(k)'
  BY DEF CInv, InstanceGives, SlotGives, Gives, BytesGive, Faithful, Yields
<1>2. CachesTrue'
  BY DEF CInv, CachesTrue, CacheTrue, Held, InData, Yields
<1> QED BY <1>1, <1>2 DEF CInv

LEMMA ConfigContent ==
    ASSUME CInv, NEW s \in Stores \cup {None}, NEW t \in Thresholds \cup {None},
           Configure(s, t) \/ MakeAdapter(s, t)
    PROVE  CInv'
  BY ConfigStep, SameCells DEF CInv, Configure, MakeAdapter

LEMMA ConstructFailsContent ==
    ASSUME CInv, NEW own \in Owns, NEW vals \in Arguments, ConstructFails(own, vals)
    PROVE  CInv'
  BY ConstructFailsStep, SameCells DEF CInv, ConstructFails

LEMMA DeleteContentContent ==
    ASSUME CInv, NEW s \in Stores, NEW p \in stores[s], DeleteContent(s, p)
    PROVE  CInv'
  BY DeleteStep, SameCells DEF CInv, DeleteContent

LEMMA AssignInlineContent ==
    ASSUME CInv, NEW f \in Inline, NEW v \in Domain[f], AssignInline(f, v)
    PROVE  CInv'
<1> USE DEF AssignInline, content
<1>1. IInv'
  BY AssignInlineStep DEF CInv
<1>2. instance \in Instance /\ f \in Fields /\ f \notin Externalized
  BY FieldsAssumption DEF CInv, IInv, TypeOK, Fields
<1>3. /\ UNCHANGED <<refs, slots>>
      /\ instance'.data = [instance.data EXCEPT ![f] = [kind |-> "inline", value |-> v]]
      /\ instance'.told = [instance.told EXCEPT ![f] = v]
  BY <1>2 DEF Instance
<1>4. \A r \in RefIds : Held(r)' => Held(r)
  BY <1>2, <1>3 DEF Held, InData, Instance
<1>5. CachesTrue' /\ Stays
  BY <1>3, <1>4 DEF CInv, CachesTrue, CacheTrue, Stays, Yields
<1>6. \A k \in Slots : SlotGives(k)'
  BY <1>3, <1>5, SlotCarries
<1>7. InstanceGives'
  BY <1>2, <1>3 DEF CInv, InstanceGives, Gives, Faithful, Instance, Fields, Yields
<1> QED BY <1>1, <1>5, <1>6, <1>7 DEF CInv

\* The new value gets a new object; the one the field had stays as it is for whoever
\* else holds it.
LEMMA AssignExternalizedContent ==
    ASSUME CInv, NEW f \in Externalized, NEW v \in Domain[f], AssignExternalized(f, v)
    PROVE  CInv'
<1>1. IInv'
  BY AssignExternalizedStep DEF CInv
<1>2. instance \in Instance /\ f \in Fields /\ refs \in [RefIds -> Ref \cup {None}]
  BY DEF CInv, IInv, TypeOK, Fields, AssignExternalized
<1> DEFINE x == Mint(RuntimeFor(instance.runtime), f, v)
           new(r) == [refs EXCEPT ![r] = x]
<1>3. PICK r \in FreeIds :
          /\ instance' = [instance EXCEPT !.data[f] = [kind |-> "ref", id |-> r], !.told[f] = v]
          /\ Keep(new(r))
  BY DEF AssignExternalized
<1>4. /\ instance'.data = [instance.data EXCEPT ![f] = [kind |-> "ref", id |-> r]]
      /\ instance'.told = [instance.told EXCEPT ![f] = v]
      /\ slots' = slots /\ r \in RefIds
  BY <1>2, <1>3 DEF Instance, AssignExternalized, FreeIds
<1>5. new(r)[r] = x /\ (\A q \in RefIds : q # r => new(r)[q] = refs[q]) /\ x.cache = None
  BY <1>2, <1>4 DEF Mint
<1>6. \A q \in RefIds : Held(q)' => q = r \/ Held(q)
  BY <1>2, <1>4 DEF Held, InData, Instance, AssignExternalized
<1> HIDE DEF new, x
<1>7. CachesTrue' /\ Stays /\ \A q \in RefIds : Held(q)' => refs'[q] = new(r)[q]
  <2> DEFINE ids == [g \in {f} |-> r]
  <2>1. ids \in [{f} -> FreeIds] /\ \A g \in {f} : ids[g] = r
    OBVIOUS
  <2> HIDE DEF ids
  <2> QED BY <1>3, <1>5, <1>6, <2>1, KeepNew DEF CacheTrue
<1>8. \A k \in Slots : SlotGives(k)'
  BY <1>4, <1>7, SlotCarries
<1>9. InstanceGives'
  <2> SUFFICES ASSUME instance' # None, NEW g \in Externalized, instance'.told[g] \in Faithful
               PROVE  instance'.data[g].kind = "ref" /\ Yields(refs'[instance'.data[g].id]) = instance'.told[g]
    BY DEF InstanceGives, Gives, Faithful, Yields
  <2>1. CASE g = f
    <3>1. /\ instance'.data[g].kind = "ref" /\ instance'.data[g].id = r
          /\ instance'.told[g] = v
      BY <1>2, <1>4, <2>1 DEF Instance
    <3>2. Held(r)'
      BY <1>2, <3>1, <2>1 DEF Held, InData
    <3>3. refs'[r] = x
      BY <1>4, <1>5, <1>7, <3>2
    <3> QED BY <3>1, <3>3, MintYields DEF x
  <2>2. CASE g # f
    <3>1. instance'.data[g] = instance.data[g] /\ instance'.told[g] = instance.told[g] /\ g \in Fields
      BY <1>2, <1>4, <2>2 DEF Instance, Fields
    <3>2. instance.data[g].kind = "ref" /\ Yields(refs[instance.data[g].id]) = instance.told[g]
      BY <3>1 DEF CInv, InstanceGives, Gives, AssignExternalized
    <3>3. instance.data[g].id \in RefIds /\ Held(instance.data[g].id)
      BY <3>1, <3>2, InstanceHolds DEF CInv, AssignExternalized
    <3>4. Held(instance.data[g].id)'
      BY <3>1, <3>2 DEF Held, InData
    <3> QED BY <1>7, <3>1, <3>2, <3>3, <3>4 DEF Stays, Yields
  <2> QED BY <2>1, <2>2
<1> QED BY <1>1, <1>7, <1>8, <1>9 DEF CInv
LEMMA AssignRefContent ==
    ASSUME CInv, NEW f \in Externalized, NEW g \in Externalized, AssignRef(f, g)
    PROVE  CInv'
<1>1. IInv'
  BY AssignRefStep DEF CInv
<1>2. instance # None /\ instance \in Instance /\ f \in Fields /\ g \in Fields
  BY DEF CInv, IInv, TypeOK, Fields, AssignRef
<1>3. /\ instance'.data = [instance.data EXCEPT ![f] = instance.data[g]]
      /\ instance'.told = [instance.told EXCEPT ![f] = instance.told[g]]
      /\ slots' = slots /\ Keep(refs)
  BY <1>2 DEF Instance, AssignRef
<1>4. \A r \in RefIds : Held(r)' => Held(r)
  BY <1>2, <1>3 DEF Held, InData, Instance
<1>5. CachesTrue' /\ Stays
  BY <1>3, <1>4, KeepOld
<1>6. \A k \in Slots : SlotGives(k)'
  BY <1>3, <1>5, SlotCarries
<1>7. InstanceGives'
  <2> SUFFICES ASSUME instance' # None, NEW h \in Externalized, instance'.told[h] \in Faithful
               PROVE  instance'.data[h].kind = "ref" /\ Yields(refs'[instance'.data[h].id]) = instance'.told[h]
    BY DEF InstanceGives, Gives, Faithful, Yields
  <2>1. PICK e \in Externalized : /\ e \in Fields /\ h \in Fields
                                  /\ instance'.data[h] = instance.data[e]
                                  /\ instance'.told[h] = instance.told[e]
    BY <1>2, <1>3 DEF Instance, Fields
  <2>2. instance.data[e].kind = "ref" /\ Yields(refs[instance.data[e].id]) = instance.told[e]
    BY <1>2, <2>1 DEF CInv, InstanceGives, Gives
  <2>3. PICK r \in RefIds : r = instance.data[e].id /\ Held(r)
    BY <1>2, <2>1, <2>2, InstanceHolds DEF CInv
  <2>4. Held(r)'
    BY <2>1, <2>2, <2>3 DEF Held, InData
  <2> QED BY <1>5, <2>1, <2>2, <2>3, <2>4 DEF Stays, Yields
<1> QED BY <1>1, <1>5, <1>6, <1>7 DEF CInv

LEMMA ConstructContent ==
    ASSUME CInv, NEW own \in Owns, NEW vals \in Arguments, Construct(own, vals)
    PROVE  CInv'
<1> DEFINE rt == RuntimeFor(own)
           ext == Given(vals, Externalized)
           data(ids) == [f \in Fields |->
                            IF vals[f] = None THEN Unset
                            ELSE IF f \in Inline THEN [kind |-> "inline", value |-> vals[f]]
                                 ELSE [kind |-> "ref", id |-> ids[f]]]
           new(ids) == [r \in RefIds |->
                            IF \E f \in ext : ids[f] = r
                            THEN LET f == CHOOSE f \in ext : ids[f] = r IN Mint(rt, f, vals[f])
                            ELSE refs[r]]
<1>1. IInv'
  BY ConstructStep DEF CInv
<1>2. PICK ids \in Alloc(ext) :
          instance' = [runtime |-> own, told |-> vals, data |-> data(ids)] /\ Keep(new(ids))
  BY DEF Construct
<1>3. /\ instance'.data = data(ids) /\ instance'.told = vals
      /\ slots' = slots /\ ids \in [ext -> FreeIds]
      /\ \A f, g \in ext : ids[f] = ids[g] => f = g
  BY <1>2 DEF Construct, Alloc
<1>4. \A r \in RefIds : Held(r)' => Held(r) \/ \E f \in ext : ids[f] = r
  <2>1. ASSUME NEW r \in RefIds, InData(r, data(ids)) PROVE \E f \in ext : ids[f] = r
    <3>1. PICK f \in Fields : data(ids)[f].kind = "ref" /\ data(ids)[f].id = r
      BY <2>1 DEF InData
    <3> QED BY <3>1 DEF Unset, Given, Fields
  <2> QED BY <1>3, <2>1 DEF Held
<1>5. \A f \in ext : new(ids)[ids[f]] = Mint(rt, f, vals[f])
  <2> SUFFICES ASSUME NEW f \in ext PROVE new(ids)[ids[f]] = Mint(rt, f, vals[f])
    OBVIOUS
  <2>1. ids[f] \in RefIds
    BY <1>3 DEF FreeIds
  <2>2. (CHOOSE g \in ext : ids[g] = ids[f]) = f
    BY <1>3
  <2> QED BY <2>1, <2>2
<1>6. \A r \in RefIds : (\A f \in ext : ids[f] # r) => new(ids)[r] = refs[r]
  OBVIOUS
<1>7. CachesTrue' /\ Stays /\ \A r \in RefIds : Held(r)' => refs'[r] = new(ids)[r]
  <2>1. \A f \in ext : Mint(rt, f, vals[f]).cache = None
    BY DEF Mint
  <2> HIDE DEF new, ext
  <2>2. \A f \in ext : CacheTrue(new(ids)[ids[f]])
    BY <1>5, <2>1 DEF CacheTrue
  <2> QED BY <1>2, <1>3, <1>4, <1>6, <2>2, KeepNew
<1>8. \A k \in Slots : SlotGives(k)'
  BY <1>3, <1>7, SlotCarries
<1>9. InstanceGives'
  <2> SUFFICES ASSUME instance' # None, NEW f \in Externalized, vals[f] \in Faithful
               PROVE  data(ids)[f].kind = "ref" /\ Yields(refs'[data(ids)[f].id]) = vals[f]
    BY <1>3 DEF InstanceGives, Gives, Faithful, Yields
  <2>1. f \in Fields /\ f \notin Inline
    BY FieldsAssumption DEF Fields
  <2>2. vals[f] # None
    BY NoneAssumption, ValuesAssumption DEF Faithful
  <2>3. data(ids)[f] = [kind |-> "ref", id |-> ids[f]] /\ f \in ext
    BY <2>1, <2>2 DEF Given
  <2>4. ids[f] \in RefIds /\ Held(ids[f])'
    <3>1. instance'.data[f].kind = "ref" /\ instance'.data[f].id = ids[f]
      BY <1>3, <2>3
    <3>2. Held(ids[f])'
      BY <2>1, <3>1 DEF Held, InData
    <3> QED BY <1>3, <2>3, <3>2 DEF FreeIds
  <2>5. refs'[ids[f]] = Mint(rt, f, vals[f])
    BY <1>5, <1>7, <2>3, <2>4
  <2> QED BY <2>3, <2>5, MintYields
<1> QED BY <1>1, <1>7, <1>8, <1>9 DEF CInv
\* A read fills the cache with what the reference yields.
LEMMA ReadContent ==
    ASSUME CInv, NEW f \in Externalized, Hydrate(f) \/ MutateHydrated(f)
    PROVE  CInv'
<1>1. IInv'
  BY ReadStep DEF CInv
<1>2. /\ instance # None /\ instance.data[f].kind = "ref" /\ f \in Fields
      /\ instance' = instance /\ slots' = slots
  BY DEF Hydrate, MutateHydrated, Fields
<1>3. PICK r \in RefIds : r = instance.data[f].id /\ Held(r)
  BY <1>2, InstanceHolds DEF CInv
<1>4. refs \in [RefIds -> Ref \cup {None}] /\ refs[r] \in Ref /\ CacheTrue(refs[r])
  BY <1>3 DEF CInv, IInv, TypeOK, HeldExist, CachesTrue
<1>5. /\ refs'[r].hash = refs[r].hash /\ refs'[r].type_name = refs[r].type_name
      /\ CacheTrue(refs'[r]) /\ \A q \in RefIds : q # r => refs'[q] = refs[q]
  <2>1. CASE Hydrate(f)
    BY <1>3, <1>4, <2>1 DEF Hydrate, CacheTrue, Yields, Ref
  <2>2. CASE MutateHydrated(f)
    BY <1>3, <1>4, <2>2 DEF MutateHydrated, CacheTrue, Yields, Ref
  <2> QED BY <2>1, <2>2
<1>6. \A q \in RefIds : Held(q)' <=> Held(q)
  BY <1>2 DEF Held, InData
<1>7. Stays /\ CachesTrue'
  <2>1. Stays
    BY <1>5 DEF Stays
  <2>2. CachesTrue'
    BY <1>5, <1>6 DEF CInv, CachesTrue, CacheTrue, Yields
  <2> QED BY <2>1, <2>2
<1>8. \A k \in Slots : SlotGives(k)'
  BY <1>2, <1>7, SlotCarries
<1>9. InstanceGives'
  <2> SUFFICES ASSUME NEW g \in Externalized, instance.told[g] \in Faithful
               PROVE  instance.data[g].kind = "ref" /\ Yields(refs'[instance.data[g].id]) = instance.told[g]
    BY <1>2 DEF InstanceGives, Gives, Faithful, Yields
  <2>1. instance.data[g].kind = "ref" /\ Yields(refs[instance.data[g].id]) = instance.told[g]
    BY <1>2 DEF CInv, InstanceGives, Gives
  <2>2. instance.data[g].id \in RefIds
    BY <1>2, <2>1, InstanceHolds DEF CInv, Fields
  <2> QED BY <1>5, <2>1, <2>2 DEF Yields
<1> QED BY <1>1, <1>7, <1>8, <1>9 DEF CInv

\* Steps that leave the instance as it is and drop what is no longer held.
LEMMA InstanceCarries ==
    ASSUME CInv, Stays, instance' = instance
    PROVE  InstanceGives'
<1> SUFFICES ASSUME instance # None, NEW f \in Externalized, instance.told[f] \in Faithful
             PROVE  instance.data[f].kind = "ref" /\ Yields(refs'[instance.data[f].id]) = instance.told[f]
  BY DEF InstanceGives, Gives, Faithful, Yields
<1>1. instance.data[f].kind = "ref" /\ Yields(refs[instance.data[f].id]) = instance.told[f]
  BY DEF CInv, InstanceGives, Gives
<1>2. PICK r \in RefIds : r = instance.data[f].id /\ Held(r)
  BY <1>1, InstanceHolds DEF CInv, Fields
<1>3. Held(r)'
  BY <1>1, <1>2 DEF Held, InData, Fields
<1> QED BY <1>1, <1>2, <1>3 DEF Stays, Yields

\* A dict shares the objects of the instance ...
LEMMA CheckpointDictContent ==
    ASSUME CInv, NEW k \in Slots, CheckpointDict(k)
    PROVE  CInv'
<1>1. IInv'
  BY CheckpointDictStep DEF CInv
<1> DEFINE d == [form |-> "dict", data |-> instance.data, told |-> instance.told]
<1>2. /\ instance # None /\ instance' = instance /\ Keep(refs)
      /\ \A j \in Slots : slots'[j] = IF j = k THEN d ELSE slots[j]
  BY DEF CheckpointDict, CInv, IInv, TypeOK
<1>3. \A r \in RefIds : Held(r)' => Held(r)
  BY <1>2 DEF Held, InData
<1>4. CachesTrue' /\ Stays
  BY <1>2, <1>3, KeepOld
<1>5. InstanceGives'
  BY <1>2, <1>4, InstanceCarries
<1>6. SlotGives(k)'
  BY <1>2, <1>5 DEF SlotGives, InstanceGives, Gives, Faithful, Yields
<1>7. \A j \in Slots : SlotGives(j)'
  BY <1>2, <1>4, <1>6, SlotCarries
<1> QED BY <1>1, <1>4, <1>5, <1>7 DEF CInv

\* ... and bytes have what those objects refer to.
LEMMA CheckpointBytesContent ==
    ASSUME CInv, NEW k \in Slots, CheckpointBytes(k)
    PROVE  CInv'
<1>1. IInv'
  BY CheckpointBytesStep DEF CInv
<1> DEFINE data == [f \in Fields |->
                        IF instance.data[f].kind = "ref"
                        THEN [kind |-> "ref", ref |-> Pickle(refs[instance.data[f].id])]
                        ELSE instance.data[f]]
           d == [form |-> "bytes", told |-> instance.told, data |-> data]
<1>2. /\ instance # None /\ instance' = instance /\ Keep(refs)
      /\ \A j \in Slots : slots'[j] = IF j = k THEN d ELSE slots[j]
  BY DEF CheckpointBytes, CInv, IInv, TypeOK
<1>3. BytesGive(data, instance.told)
  <2> SUFFICES ASSUME NEW f \in Externalized, instance.told[f] \in Faithful
               PROVE  data[f].kind = "ref" /\ Yields(data[f].ref) = instance.told[f]
    BY DEF BytesGive
  <2>1. instance.data[f].kind = "ref" /\ Yields(refs[instance.data[f].id]) = instance.told[f]
    BY <1>2 DEF CInv, InstanceGives, Gives
  <2>2. data[f] = [kind |-> "ref", ref |-> Pickle(refs[instance.data[f].id])]
    BY <2>1 DEF Fields
  <2> QED BY <2>1, <2>2, PickleYields
<1> HIDE DEF data
<1>4. \A r \in RefIds : Held(r)' => Held(r)
  BY <1>2 DEF Held, InData
<1>5. CachesTrue' /\ Stays
  BY <1>2, <1>4, KeepOld
<1>6. InstanceGives'
  BY <1>2, <1>5, InstanceCarries
<1>7. SlotGives(k)'
  BY <1>2, <1>3 DEF SlotGives, BytesGive, Faithful, Yields
<1>8. \A j \in Slots : SlotGives(j)'
  BY <1>2, <1>5, <1>7, SlotCarries
<1> QED BY <1>1, <1>5, <1>6, <1>8 DEF CInv

LEMMA RestoreDictContent ==
    ASSUME CInv, NEW k \in Slots, NEW own \in Owns, RestoreDict(k, own)
    PROVE  CInv'
<1>1. IInv'
  BY RestoreDictStep DEF CInv
<1>2. /\ slots[k] # None /\ slots[k].form = "dict" /\ slots' = slots /\ Keep(refs)
      /\ instance'.data = slots[k].data /\ instance'.told = slots[k].told
  BY DEF RestoreDict
<1>3. \A r \in RefIds : Held(r)' => Held(r)
  BY <1>2 DEF Held, InData
<1>4. CachesTrue' /\ Stays
  BY <1>2, <1>3, KeepOld
<1>5. \A j \in Slots : SlotGives(j)'
  BY <1>2, <1>4, SlotCarries
<1>6. InstanceGives'
  BY <1>2, <1>5 DEF SlotGives, InstanceGives, Gives, Faithful, Yields
<1> QED BY <1>1, <1>4, <1>5, <1>6 DEF CInv

\* The objects made from bytes: two fields may share one only if their references are
\* equal, and then they yield the same.
LEMMA RestoreBytesContent ==
    ASSUME CInv, NEW k \in Slots, RestoreBytes(k)
    PROVE  CInv'
<1> DEFINE data == slots[k].data
           ext == {f \in Externalized : data[f].kind = "ref"}
           fresh(ids) == [f \in Fields |->
                             IF f \in ext THEN [kind |-> "ref", id |-> ids[f]] ELSE data[f]]
           new(ids) == [r \in RefIds |->
                            IF \E f \in ext : ids[f] = r
                            THEN LET f == CHOOSE f \in ext : ids[f] = r IN Unpickle(data[f].ref)
                            ELSE refs[r]]
<1>1. IInv'
  BY RestoreBytesStep DEF CInv
<1>2. PICK ids \in AllocUnpickled(data, ext) :
          instance' = [runtime |-> adapter, told |-> slots[k].told, data |-> fresh(ids)] /\ Keep(new(ids))
  BY DEF RestoreBytes
<1>3. /\ instance'.data = fresh(ids) /\ instance'.told = slots[k].told
      /\ slots' = slots /\ slots[k] # None /\ slots[k].form = "bytes"
      /\ ids \in [ext -> FreeIds] /\ \A f, g \in ext : ids[f] = ids[g] => data[f] = data[g]
  BY <1>2 DEF RestoreBytes, AllocUnpickled
<1>4. \A r \in RefIds : Held(r)' => Held(r) \/ \E f \in ext : ids[f] = r
  <2>1. ASSUME NEW r \in RefIds, InData(r, fresh(ids)) PROVE \E f \in ext : ids[f] = r
    <3>1. PICK f \in Fields : fresh(ids)[f].kind = "ref" /\ fresh(ids)[f].id = r
      BY <2>1 DEF InData
    <3>2. f \in ext
      BY <1>3, <3>1 DEF CInv, IInv, AllSorted, Sorted
    <3> QED BY <3>1, <3>2
  <2> QED BY <1>3, <2>1 DEF Held
<1>5. \A f \in ext : new(ids)[ids[f]] = Unpickle(data[f].ref)
  <2> SUFFICES ASSUME NEW f \in ext PROVE new(ids)[ids[f]] = Unpickle(data[f].ref)
    OBVIOUS
  <2>1. PICK g \in ext : ids[g] = ids[f] /\ new(ids)[ids[f]] = Unpickle(data[g].ref)
    BY <1>3 DEF FreeIds
  <2> QED BY <1>3, <2>1
<1>6. \A r \in RefIds : (\A f \in ext : ids[f] # r) => new(ids)[r] = refs[r]
  OBVIOUS
<1>7. CachesTrue' /\ Stays /\ \A r \in RefIds : Held(r)' => refs'[r] = new(ids)[r]
  <2>1. \A f \in ext : Unpickle(data[f].ref).cache = None
    BY DEF Unpickle
  <2> HIDE DEF new, ext
  <2>2. \A f \in ext : CacheTrue(new(ids)[ids[f]])
    BY <1>5, <2>1 DEF CacheTrue
  <2> QED BY <1>2, <1>3, <1>4, <1>6, <2>2, KeepNew
<1>8. \A j \in Slots : SlotGives(j)'
  BY <1>3, <1>7, SlotCarries
<1>9. InstanceGives'
  <2> SUFFICES ASSUME instance' # None, NEW f \in Externalized, slots[k].told[f] \in Faithful
               PROVE  /\ fresh(ids)[f].kind = "ref"
                      /\ Yields(refs'[fresh(ids)[f].id]) = slots[k].told[f]
    BY <1>3 DEF InstanceGives, Gives, Faithful, Yields
  <2>1. data[f].kind = "ref" /\ Yields(data[f].ref) = slots[k].told[f]
    BY <1>3 DEF CInv, SlotGives, BytesGive
  <2>2. f \in Fields /\ f \in ext /\ fresh(ids)[f] = [kind |-> "ref", id |-> ids[f]]
    BY <2>1 DEF Fields
  <2>3. ids[f] \in RefIds /\ Held(ids[f])'
    <3>1. instance'.data[f].kind = "ref" /\ instance'.data[f].id = ids[f]
      BY <1>3, <2>2
    <3>2. Held(ids[f])'
      BY <2>2, <3>1 DEF Held, InData
    <3> QED BY <1>3, <2>2, <3>2 DEF FreeIds
  <2>4. refs'[ids[f]] = Unpickle(data[f].ref)
    BY <1>5, <1>7, <2>2, <2>3
  <2> QED BY <2>1, <2>2, <2>4, PickleYields
<1> QED BY <1>1, <1>7, <1>8, <1>9 DEF CInv

LEMMA RestartContent == ASSUME CInv, Restart PROVE CInv'
<1>1. IInv'
  BY RestartStep DEF CInv
<1>2. /\ instance' = None
      /\ \A k \in Slots : slots'[k] = IF slots[k] # None /\ slots[k].form = "dict"
                                      THEN None ELSE slots[k]
  BY DEF Restart
<1>3. \A r : ~Held(r)'
  BY <1>2 DEF Held
<1>4. InstanceGives' /\ CachesTrue'
  BY <1>2, <1>3 DEF InstanceGives, CachesTrue
<1>5. \A k \in Slots : SlotGives(k)'
  BY <1>2 DEF CInv, SlotGives, BytesGive, Faithful, Yields
<1> QED BY <1>1, <1>4, <1>5 DEF CInv

LEMMA NextCInv == CInv /\ [Next]_vars => CInv'
<1> SUFFICES ASSUME CInv, [Next]_vars PROVE CInv'
  OBVIOUS
<1>1. CASE UNCHANGED vars
  BY <1>1, NextIInv, SameCells DEF vars, CInv
<1>2. CASE Next
  BY <1>2, ConfigContent, ConstructContent, ConstructFailsContent, AssignInlineContent,
     AssignExternalizedContent, AssignRefContent, ReadContent, CheckpointDictContent,
     CheckpointBytesContent, RestoreDictContent, RestoreBytesContent, DeleteContentContent,
     RestartContent DEF Next, Steps, Arguments
<1> QED BY <1>1, <1>2
-----------------------------------------------------------------------------
(* What may become an inline value. *)

\* The condition of OversizedInlineRefused, for one step.
NewInlineFits ==
    instance' # None => \A f \in Inline :
        instance'.data[f].kind = "inline" /\ (instance = None \/ instance'.data[f] # instance.data[f])
        => FitsInline(RuntimeFor(instance.runtime), instance.data[f].value)'

\* Cells that are accepted under a runtime fit it in the next state, if the configuration
\* is left alone.
LEMMA NewInline ==
    ASSUME UNCHANGED env, NEW own, NEW data, InlineRestorable(own, data), instance' # None,
           instance'.runtime = own, \A f \in Inline : instance'.data[f] = data[f]
    PROVE  NewInlineFits
  BY DEF NewInlineFits, InlineRestorable, FitsInline, RuntimeFor, env

LEMMA StepFits == ASSUME IInv, [Next]_vars PROVE NewInlineFits
<1>1. CASE instance' = instance
  BY <1>1 DEF NewInlineFits
<1>2. ASSUME NEW f \in Inline, NEW v \in Domain[f], AssignInline(f, v)
      PROVE  NewInlineFits
  <2>1. instance \in Instance /\ f \in Fields
    BY <1>2 DEF IInv, TypeOK, AssignInline, Fields
  <2>2. /\ instance'.runtime = instance.runtime
        /\ instance'.data = [instance.data EXCEPT ![f] = [kind |-> "inline", value |-> v]]
    BY <1>2, <2>1 DEF AssignInline, Instance
  <2>3. FitsInline(RuntimeFor(instance.runtime), v) /\ UNCHANGED env
    BY <1>2 DEF AssignInline
  <2> QED BY <1>2, <2>1, <2>2, <2>3
          DEF NewInlineFits, AssignInline, FitsInline, RuntimeFor, env, Instance, Fields
<1>3. ASSUME NEW f \in Externalized,
             \/ \E v \in Domain[f] : AssignExternalized(f, v)
             \/ \E g \in Externalized : AssignRef(f, g)
      PROVE  NewInlineFits
  <2>1. instance # None /\ instance \in Instance
    BY <1>3 DEF IInv, TypeOK, AssignExternalized, AssignRef
  <2>2. \A h \in Inline : instance'.data[h] = instance.data[h]
    BY <1>3, <2>1, FieldsAssumption DEF AssignExternalized, AssignRef, Instance, Fields
  <2> QED BY <2>1, <2>2 DEF NewInlineFits
<1>4. ASSUME NEW own \in Owns, NEW vals \in Arguments, Construct(own, vals)
      PROVE  NewInlineFits
  <2> DEFINE ext == Given(vals, Externalized)
  <2>1. PICK ids \in Alloc(ext) :
            instance' = [runtime |-> own, told |-> vals,
                         data |-> [f \in Fields |->
                            IF vals[f] = None THEN Unset
                            ELSE IF f \in Inline THEN [kind |-> "inline", value |-> vals[f]]
                                 ELSE [kind |-> "ref", id |-> ids[f]]]]
    BY <1>4 DEF Construct
  <2>2. \A f \in Inline : instance'.data[f] =
            IF vals[f] = None THEN Unset ELSE [kind |-> "inline", value |-> vals[f]]
    BY <2>1 DEF Fields
  <2>3. InlineRestorable(own, instance'.data)
    <3>1. \A f \in Inline : vals[f] # None => FitsInline(RuntimeFor(own), vals[f])
      BY <1>4 DEF Construct, Given
    <3>2. \A f \in Inline : instance'.data[f].kind = "inline" =>
              vals[f] # None /\ instance'.data[f].value = vals[f]
      <4> SUFFICES ASSUME NEW f \in Inline, instance'.data[f].kind = "inline"
                   PROVE  vals[f] # None /\ instance'.data[f].value = vals[f]
        OBVIOUS
      <4>1. vals[f] # None
        <5>1. Unset.kind # "inline"
          BY DEF Unset
        <5> QED BY <2>2, <5>1
      <4>2. instance'.data[f] = [kind |-> "inline", value |-> vals[f]]
        BY <2>2, <4>1
      <4> QED BY <4>1, <4>2
    <3> QED BY <3>1, <3>2 DEF InlineRestorable, FitsInline
  <2>4. CASE instance' = None
    BY <2>4 DEF NewInlineFits
  <2>5. CASE instance' # None
    <3>1. instance'.runtime = own /\ UNCHANGED env
      BY <1>4, <2>1 DEF Construct
    <3> QED BY <2>3, <2>5, <3>1 DEF NewInlineFits, InlineRestorable, FitsInline, RuntimeFor, env
  <2> QED BY <2>4, <2>5
<1>5. ASSUME NEW k \in Slots, NEW own \in Owns, RestoreDict(k, own)
      PROVE  NewInlineFits
  <2>1. instance'.runtime = own /\ instance'.data = slots[k].data
    BY <1>5 DEF RestoreDict
  <2>2. UNCHANGED env /\ InlineRestorable(own, slots[k].data)
    BY <1>5 DEF RestoreDict
  <2> QED BY <2>1, <2>2, NewInline DEF NewInlineFits
<1>6. ASSUME NEW k \in Slots, RestoreBytes(k)
      PROVE  NewInlineFits
  <2>1. instance'.runtime = adapter /\ \A f \in Inline : instance'.data[f] = slots[k].data[f]
    BY <1>6, FieldsAssumption DEF RestoreBytes, Fields
  <2>2. UNCHANGED env /\ InlineRestorable(adapter, slots[k].data)
    BY <1>6 DEF RestoreBytes
  <2> QED BY <2>1, <2>2, NewInline DEF NewInlineFits
<1>7. CASE Restart
  BY <1>7 DEF Restart, NewInlineFits
<1>8. CASE UNCHANGED vars
  BY <1>1, <1>8 DEF vars
<1> QED BY <1>1, <1>2, <1>3, <1>4, <1>5, <1>6, <1>7, <1>8
        DEF Next, Steps, Arguments, Configure, MakeAdapter, ConstructFails, Hydrate, MutateHydrated,
            CheckpointDict, CheckpointBytes, DeleteContent

-----------------------------------------------------------------------------
(* Theorems *)

\* Every reachable state satisfies the invariant.
THEOREM ContentInvariance == Spec => []CInv
  BY InitCInv, NextCInv, PTL DEF Spec

\* In-place changes aside, a held reference hands out what its content decodes to.
LEMMA HeldResolves ==
    ASSUME CInv, NEW r \in RefIds, Held(r)
    PROVE  Resolved(refs[r]) = Yields(refs[r])
  BY DEF CInv, CachesTrue, CacheTrue, Resolved

\* For any fields, values, stores and checkpoints: a bytes checkpoint yields what was
\* assigned to each field before it was taken, whatever has happened to the instance,
\* its references and the configuration since; a dict checkpoint does so, from the cache
\* it shares with the instance or from a store, as long as no caller has changed the
\* object cached there in place (core/state.py:131-139, 255-284, descriptors.py:95-110,
\* reference.py:71-72, 98).
THEOREM CheckpointsKeepValues == Spec => []CheckpointFaithful
<1>1. CInv => CheckpointFaithful
  <2> SUFFICES ASSUME CInv, NEW k \in Slots, slots[k] # None,
                      NEW f \in Externalized, slots[k].told[f] \in Faithful
               PROVE  LET x == refs[slots[k].data[f].id]
                      IN  /\ slots[k].data[f].kind = "ref"
                          /\ IF slots[k].form = "bytes"
                             THEN Yields(slots[k].data[f].ref) = slots[k].told[f]
                             ELSE Resolved(x) = slots[k].told[f]
    BY DEF CheckpointFaithful, CheckpointYields
  <2>1. slots[k].form \in {"dict", "bytes"} /\ SlotGives(k)
    BY DEF CInv, IInv, TypeOK, DictCheckpoint, BytesCheckpoint
  <2>2. CASE slots[k].form = "bytes"
    BY <2>1, <2>2 DEF SlotGives, BytesGive
  <2>3. CASE slots[k].form = "dict"
    <3>1. slots[k].data[f].kind = "ref" /\ Yields(refs[slots[k].data[f].id]) = slots[k].told[f]
      BY <2>1, <2>3 DEF SlotGives, Gives
    <3>2. slots[k].data[f].id \in RefIds /\ Held(slots[k].data[f].id)
      BY <2>3, <3>1, DictHolds DEF CInv, Fields
    <3> QED BY <2>3, <3>1, <3>2, HeldResolves
  <2> QED BY <2>1, <2>2, <2>3
<1> QED BY <1>1, ContentInvariance, PTL

\* For any fields, values, stores and checkpoints: what a read of the instance gives is
\* what was last assigned to the field, unless a caller has changed the cached object in
\* place (descriptors.py, reference.py).
THEOREM ReadsGiveBack == Spec => []ReadsBack
<1>1. CInv => ReadsBack
  <2> SUFFICES ASSUME CInv, instance # None, NEW f \in Externalized, instance.told[f] \in Faithful
               PROVE  LET x == refs[instance.data[f].id]
                      IN  instance.data[f].kind = "ref" /\ Resolved(x) = instance.told[f]
    BY DEF ReadsBack
  <2>1. instance.data[f].kind = "ref" /\ Yields(refs[instance.data[f].id]) = instance.told[f]
    BY DEF CInv, InstanceGives, Gives
  <2>2. Resolved(refs[instance.data[f].id]) = Yields(refs[instance.data[f].id])
    BY <2>1, InstanceHolds, HeldResolves DEF CInv, Fields
  <2> QED BY <2>1, <2>2
<1> QED BY <1>1, ContentInvariance, PTL

\* For any values and thresholds: no step puts an inline value into the instance that is
\* too big for the runtime in force after it (descriptors.py:57-70,
\* state.py:255-266).
THEOREM NoOversizedInline == Spec => OversizedInlineRefused
<1>1. IInv /\ [Next]_vars => [NewInlineFits]_vars
  BY StepFits
<1>2. [NewInlineFits]_vars => [instance' # None => \A f \in Inline :
            instance'.data[f].kind = "inline" /\ (instance = None \/ instance'.data[f] # instance.data[f])
            => FitsInline(RuntimeFor(instance.runtime), instance.data[f].value)']_vars
  BY DEF NewInlineFits
<1> QED BY <1>1, <1>2, Invariance, PTL DEF Spec, OversizedInlineRefused
=============================================================================
