------------------------ MODULE AgentRefStateProofs ------------------------
(***************************************************************************)
(* Proofs about AgentRefState for any fields, values, stores and number of  *)
(* checkpoints.  NoDanglingRef speaks of what can still be reached; to show *)
(* that a step keeps it one has to know it of every ContentRef there is     *)
(* (RefsSound), because an assignment or a restore makes it reachable from  *)
(* elsewhere, and that what is reachable is there at all (HeldExist).       *)
(***************************************************************************)
EXTENDS AgentRefState, TLAPS

\* r is referred to by the instance or by a dict: r \in HeldIds, spelt out.
InData(r, data) == \E f \in Fields : data[f].kind = "ref" /\ data[f].id = r

Held(r) ==
    \/ instance # None /\ InData(r, instance.data)
    \/ \E k \in Slots : slots[k] # None /\ slots[k].form = "dict" /\ InData(r, slots[k].data)

HeldExist == \A r \in RefIds : Held(r) => refs[r] # None

\* The store x was put to can resolve it, and has it unless somebody deleted it.
Recorded(s, h) == h \in stores[s] \/ <<s, h>> \in erased
Sound(x) == CanResolve(x.home, x.backend_id) /\ Recorded(x.home, x.hash)

\* x, as it is now, will be.
WillBeSound(x) ==
    /\ CanResolve(x.home, x.backend_id)
    /\ x.hash \in stores'[x.home] \/ <<x.home, x.hash>> \in erased'

RefsSound == \A r \in RefIds : refs[r] # None => Sound(refs[r])

BytesSound ==
    \A k \in Slots : slots[k] # None /\ slots[k].form = "bytes" =>
        \A f \in Fields : slots[k].data[f].kind = "ref" => Sound(slots[k].data[f].ref)

\* Only externalized fields hold references.
Sorted(data) == \A f \in Fields : data[f].kind = "ref" => f \in Externalized

AllSorted ==
    /\ instance # None => Sorted(instance.data)
    /\ \A k \in Slots : slots[k] # None => Sorted(slots[k].data)

IInv == TypeOK /\ HeldExist /\ RefsSound /\ BytesSound /\ AllSorted

-----------------------------------------------------------------------------
(* Lemmas about the operators. *)

LEMMA HeldIdsAre == \A r : r \in HeldIds <=> Held(r)
  BY DEF HeldIds, Held, IdsIn, InData

LEMMA HeldIdsWillBe == \A r : r \in HeldIds' <=> Held(r)'
  BY DEF HeldIds, Held, IdsIn, InData

LEMMA SerializeType ==
    ASSUME NEW v \in Value, Serializable(v) PROVE Serialize(v) \in Payload
<1>1. [v EXCEPT !.shape = "plain"] \in Value
  BY DEF Value, Shapes
<1> QED BY <1>1 DEF Serialize, Payload

LEMMA DeserializeType ==
    ASSUME NEW p \in Payload, NEW t, Deserialize(p, t) # Unreadable
    PROVE  Deserialize(p, t) \in Value
<1>1. p.of \in Value /\ [p.of EXCEPT !.shape = "encoded"] \in Value
  BY DEF Payload, Value, Shapes
<1> QED BY <1>1 DEF Deserialize

LEMMA RuntimeType ==
    ASSUME TypeOK, NEW own \in Runtime \cup {None} PROVE RuntimeFor(own) \in Runtime
  BY DEF TypeOK, RuntimeFor

\* A new reference is sound as soon as its payload has been put.
LEMMA MintType ==
    ASSUME NEW rt \in Runtime, NEW f \in Externalized, NEW v \in Values, Serializable(v)
    PROVE  /\ Mint(rt, f, v) \in Ref /\ Mint(rt, f, v) # None
           /\ Mint(rt, f, v).home = rt.store /\ Mint(rt, f, v).hash = Serialize(v)
           /\ CanResolve(rt.store, Mint(rt, f, v).backend_id)
<1>1. Serialize(v) \in Payload
  BY SerializeType, ValuesAssumption
<1>2. TypeNameFor(Annotation[f], v) \in TypeNames
  BY AnnotationAssumption DEF TypeNameFor, TypeNames
<1>3. rt.store \in Stores /\ BackendId[rt.store] \in BackendIds
  BY StoresAssumption DEF Runtime
<1>4. Mint(rt, f, v) \in Ref
  BY <1>1, <1>2, <1>3 DEF Mint, Ref
<1> QED BY <1>4, NoneAssumption DEF Mint, CanResolve

LEMMA PickleType ==
    /\ \A x \in Ref : Pickle(x) \in Portable
    /\ \A x \in Portable : Unpickle(x) \in Ref /\ Unpickle(x) # None
<1>1. \A x \in Portable : Unpickle(x) \in Ref
  BY DEF Unpickle, Portable, Ref
<1> QED BY <1>1, NoneAssumption DEF Pickle, Portable, Ref

\* No step makes a store forget a payload that nobody deleted.
Remembers == \A s \in Stores, h \in Payload : Recorded(s, h) => Recorded(s, h)'

LEMMA PutAllStep ==
    ASSUME TypeOK, NEW s \in Stores, NEW ps \in SUBSET Payload, PutAll(s, ps)
    PROVE  /\ stores' \in [Stores -> SUBSET Payload] /\ erased' \subseteq Stores \X Payload
           /\ Remembers /\ \A h \in ps : h \in stores'[s]
  BY DEF TypeOK, PutAll, Remembers, Recorded

LEMMA SoundStays ==
    ASSUME Remembers, NEW x, x \in Ref \/ x \in Portable, Sound(x) PROVE WillBeSound(x)
<1>1. x.home \in Stores /\ x.hash \in Payload
  BY DEF Ref, Portable
<1> QED BY <1>1 DEF Remembers, Recorded, Sound, WillBeSound

\* What Keep leaves is sound if what it is given is.
LEMMA KeepStep ==
    ASSUME NEW objects, Keep(objects),
           \A r \in RefIds : Held(r)' => objects[r] \in Ref /\ objects[r] # None /\ WillBeSound(objects[r])
    PROVE  refs' \in [RefIds -> Ref \cup {None}] /\ HeldExist' /\ RefsSound'
<1>1. \A r \in RefIds : refs'[r] = IF Held(r)' THEN objects[r] ELSE None
  BY HeldIdsWillBe DEF Keep
<1>2. refs' \in [RefIds -> Ref \cup {None}]
  BY HeldIdsWillBe DEF Keep
<1>3. HeldExist'
  BY <1>1 DEF HeldExist
<1>4. RefsSound'
  <2> SUFFICES ASSUME NEW r \in RefIds, refs'[r] # None PROVE Sound(refs[r])'
    BY DEF RefsSound
  <2>1. Held(r)' /\ refs'[r] = objects[r]
    BY <1>1
  <2> QED BY <2>1 DEF Sound, WillBeSound, CanResolve, Recorded
<1> QED BY <1>2, <1>3, <1>4

LEMMA UnpickleSound ==
    ASSUME NEW x \in Portable, WillBeSound(x)
    PROVE  Unpickle(x) \in Ref /\ Unpickle(x) # None /\ WillBeSound(Unpickle(x))
  BY PickleType DEF Unpickle, WillBeSound

\* The references there are stay sound, and so do those of bytes.
LEMMA RefsStaySound ==
    ASSUME IInv, Remembers
    PROVE  /\ \A r \in RefIds : refs[r] # None => refs[r] \in Ref /\ WillBeSound(refs[r])
           /\ UNCHANGED slots => BytesSound'
<1>1. \A r \in RefIds : refs[r] # None => refs[r] \in Ref /\ WillBeSound(refs[r])
  BY SoundStays DEF IInv, TypeOK, RefsSound
<1>2. ASSUME UNCHANGED slots, NEW k \in Slots, slots[k] # None, slots[k].form = "bytes",
             NEW f \in Fields, slots[k].data[f].kind = "ref"
      PROVE  Sound(slots[k].data[f].ref)'
  <2>1. slots[k].data[f].ref \in Portable
    BY <1>2 DEF IInv, TypeOK, DictCheckpoint, BytesCheckpoint, Record
  <2>2. WillBeSound(slots[k].data[f].ref)
    BY <1>2, <2>1, SoundStays DEF IInv, BytesSound
  <2> QED BY <1>2, <2>2 DEF Sound, WillBeSound, CanResolve, Recorded
<1> QED BY <1>1, <1>2 DEF BytesSound

-----------------------------------------------------------------------------
(* Each step keeps the invariant. *)

LEMMA InitIInv == Init => IInv
  BY StoresAssumption, ThresholdsAssumption
     DEF Init, IInv, TypeOK, Runtime, HeldExist, Held, RefsSound, BytesSound, AllSorted

LEMMA ConfigStep ==
    ASSUME IInv, NEW s \in Stores \cup {None}, NEW t \in Thresholds \cup {None},
           Configure(s, t) \/ MakeAdapter(s, t)
    PROVE  IInv'
<1> USE DEF IInv, Configure, MakeAdapter, CreateRuntime, content, Runtime
<1>1. TypeOK'
  BY DEF TypeOK
<1>2. HeldExist' /\ RefsSound' /\ BytesSound' /\ AllSorted'
  BY DEF HeldExist, Held, RefsSound, BytesSound, AllSorted, Sound, CanResolve, Recorded, InData, Sorted
<1> QED BY <1>1, <1>2

LEMMA AssignInlineStep ==
    ASSUME IInv, NEW f \in Inline, NEW v \in Domain[f], AssignInline(f, v)
    PROVE  IInv'
<1> USE DEF IInv, AssignInline, env, content
<1>1. f \in Fields /\ v \in Values /\ instance \in Instance
  BY ValuesAssumption DEF Fields, TypeOK
<1>2. /\ instance'.runtime = instance.runtime
      /\ instance'.data = [instance.data EXCEPT ![f] = [kind |-> "inline", value |-> v]]
      /\ instance'.told = [instance.told EXCEPT ![f] = v]
      /\ instance' \in Instance
  BY <1>1 DEF Instance, Cell
<1>3. TypeOK'
  BY <1>2 DEF TypeOK
<1>4. \A r \in RefIds : Held(r)' => Held(r)
  BY <1>1, <1>2 DEF Held, InData, Instance
<1>5. HeldExist' /\ RefsSound' /\ BytesSound'
  BY <1>4 DEF HeldExist, RefsSound, BytesSound, Sound, CanResolve, Recorded
<1>6. AllSorted'
  BY <1>1, <1>2 DEF AllSorted, Sorted, Instance
<1> QED BY <1>3, <1>5, <1>6

\* put first, then the reference: a new reference is sound from the start.
LEMMA AssignExternalizedStep ==
    ASSUME IInv, NEW f \in Externalized, NEW v \in Domain[f], AssignExternalized(f, v)
    PROVE  IInv'
<1> USE DEF IInv
<1> DEFINE rt == RuntimeFor(instance.runtime)
<1>1. f \in Fields /\ v \in Values /\ instance \in Instance /\ Serializable(v)
  BY ValuesAssumption DEF Fields, TypeOK, AssignExternalized
<1>2. rt \in Runtime /\ rt.store \in Stores
  BY <1>1, RuntimeType DEF Instance, Runtime
<1>3. /\ stores' \in [Stores -> SUBSET Payload] /\ erased' \subseteq Stores \X Payload
      /\ Remembers /\ Serialize(v) \in stores'[rt.store]
  <2>1. Serialize(v) \in Payload
    BY <1>1, SerializeType, ValuesAssumption
  <2> QED BY <1>2, <2>1, PutAllStep DEF AssignExternalized
<1>4. PICK r \in FreeIds :
          /\ instance' = [instance EXCEPT !.data[f] = [kind |-> "ref", id |-> r], !.told[f] = v]
          /\ Keep([refs EXCEPT ![r] = Mint(rt, f, v)])
  BY DEF AssignExternalized
<1>5. r \in RefIds
  BY DEF FreeIds
<1>6. /\ instance'.runtime = instance.runtime
      /\ instance'.data = [instance.data EXCEPT ![f] = [kind |-> "ref", id |-> r]]
      /\ instance'.told = [instance.told EXCEPT ![f] = v]
      /\ instance' \in Instance
  BY <1>1, <1>4, <1>5 DEF Instance, Cell
<1>7. \A q \in RefIds : Held(q)' => q = r \/ Held(q)
  BY <1>1, <1>6 DEF Held, InData, Instance, AssignExternalized
<1>8. refs' \in [RefIds -> Ref \cup {None}] /\ HeldExist' /\ RefsSound'
  <2> DEFINE new == [refs EXCEPT ![r] = Mint(rt, f, v)]
  <2>1. new[r] = Mint(rt, f, v) /\ \A q \in RefIds : q # r => new[q] = refs[q]
    BY <1>5 DEF TypeOK
  <2>2. Mint(rt, f, v) \in Ref /\ Mint(rt, f, v) # None /\ WillBeSound(Mint(rt, f, v))
    BY <1>1, <1>2, <1>3, MintType DEF WillBeSound
  <2>3. \A q \in RefIds : Held(q)' => new[q] \in Ref /\ new[q] # None /\ WillBeSound(new[q])
    BY <1>3, <1>7, <2>1, <2>2, RefsStaySound DEF HeldExist
  <2> HIDE DEF new
  <2> QED BY <1>4, <2>3, KeepStep DEF new
<1>9. TypeOK'
  BY <1>3, <1>6, <1>8 DEF TypeOK, AssignExternalized, env
<1>10. BytesSound' /\ AllSorted'
  BY <1>1, <1>3, <1>6, RefsStaySound DEF AllSorted, Sorted, Instance, AssignExternalized
<1> QED BY <1>8, <1>9, <1>10

\* Steps that make no reference and leave the stores alone.
LEMMA KeepOldStep ==
    ASSUME IInv, UNCHANGED content, Keep(refs),
           \A r \in RefIds : Held(r)' => Held(r)
    PROVE  refs' \in [RefIds -> Ref \cup {None}] /\ HeldExist' /\ RefsSound' /\ Remembers
<1>1. Remembers
  BY DEF Remembers, Recorded, content
<1> QED BY <1>1, RefsStaySound, KeepStep DEF IInv, HeldExist

LEMMA AssignRefStep ==
    ASSUME IInv, NEW f \in Externalized, NEW g \in Externalized, AssignRef(f, g)
    PROVE  IInv'
<1> USE DEF IInv, AssignRef, env, content
<1>1. f \in Fields /\ g \in Fields /\ instance \in Instance
  BY DEF Fields, TypeOK
<1>2. /\ instance'.runtime = instance.runtime
      /\ instance'.data = [instance.data EXCEPT ![f] = instance.data[g]]
      /\ instance'.told = [instance.told EXCEPT ![f] = instance.told[g]]
      /\ instance' \in Instance
  BY <1>1 DEF Instance
<1>3. \A r \in RefIds : Held(r)' => Held(r)
  BY <1>1, <1>2 DEF Held, InData, Instance
<1>4. refs' \in [RefIds -> Ref \cup {None}] /\ HeldExist' /\ RefsSound' /\ BytesSound'
  BY <1>3, KeepOldStep, RefsStaySound
<1>5. TypeOK'
  BY <1>2, <1>4 DEF TypeOK
<1>6. AllSorted'
  BY <1>1, <1>2 DEF AllSorted, Sorted, Instance
<1> QED BY <1>4, <1>5, <1>6

\* The payloads that a constructor puts.
LEMMA PayloadsType ==
    ASSUME NEW vals \in Arguments, NEW F \in SUBSET Given(vals, Fields),
           \A f \in F : Serializable(vals[f])
    PROVE  PayloadsOf(vals, F) \subseteq Payload /\ \A f \in F : vals[f] \in Values
<1>1. \A f \in F : vals[f] \in Values
  BY DEF Arguments, ArgumentsFrom, Given
<1> QED BY <1>1, SerializeType, ValuesAssumption DEF PayloadsOf

LEMMA ConstructStep ==
    ASSUME IInv, NEW own \in Owns, NEW vals \in Arguments, Construct(own, vals)
    PROVE  IInv'
<1> USE DEF IInv
<1> DEFINE rt == RuntimeFor(own)
           ext == Given(vals, Externalized)
           data(ids) == [f \in Fields |->
                            IF vals[f] = None THEN Unset
                            ELSE IF f \in Inline THEN [kind |-> "inline", value |-> vals[f]]
                                 ELSE [kind |-> "ref", id |-> ids[f]]]
           new(ids) == [r \in RefIds |->
                            IF \E f \in ext : ids[f] = r
                            THEN LET f == CHOOSE f \in ext : ids[f] = r IN Mint(rt, f, vals[f])
                            ELSE refs[r]]
<1>1. own \in Runtime \cup {None} /\ rt \in Runtime /\ rt.store \in Stores
  <2>1. own \in Runtime \cup {None}
    BY DEF Owns, TypeOK
  <2> QED BY <2>1, RuntimeType DEF Runtime
<1>2. /\ PayloadsOf(vals, ext) \subseteq Payload
      /\ \A f \in ext : f \in Externalized /\ vals[f] \in Values /\ Serializable(vals[f])
  BY PayloadsType DEF Construct, Given, Fields
<1>3. /\ stores' \in [Stores -> SUBSET Payload] /\ erased' \subseteq Stores \X Payload
      /\ Remembers /\ \A f \in ext : Serialize(vals[f]) \in stores'[rt.store]
  BY <1>1, <1>2, PutAllStep DEF Construct, PayloadsOf
<1>4. PICK ids \in Alloc(ext) :
          instance' = [runtime |-> own, told |-> vals, data |-> data(ids)] /\ Keep(new(ids))
  BY DEF Construct
<1>5. ids \in [ext -> RefIds]
  BY DEF Alloc, FreeIds
<1>6. instance'.data = data(ids) /\ instance' \in Instance
  <2>1. vals \in [Fields -> Values \cup {None}]
    BY DEF Arguments, ArgumentsFrom
  <2>2. ASSUME NEW f \in Fields PROVE data(ids)[f] \in Cell
    BY <1>5, <2>1, <2>2 DEF Cell, Unset, Given, Fields
  <2>3. data(ids) \in [Fields -> Cell]
    BY <2>2
  <2> QED BY <1>1, <1>4, <2>1, <2>3 DEF Instance
<1>7. \A r \in RefIds : Held(r)' => Held(r) \/ \E f \in ext : ids[f] = r
  <2>1. ASSUME NEW r \in RefIds, InData(r, data(ids)) PROVE \E f \in ext : ids[f] = r
    <3>1. PICK f \in Fields : data(ids)[f].kind = "ref" /\ data(ids)[f].id = r
      BY <2>1 DEF InData
    <3> QED BY <3>1 DEF Unset, Given, Fields
  <2> QED BY <1>6, <2>1 DEF Held, Construct
<1>8. refs' \in [RefIds -> Ref \cup {None}] /\ HeldExist' /\ RefsSound'
  <2>1. ASSUME NEW r \in RefIds, Held(r)'
        PROVE  new(ids)[r] \in Ref /\ new(ids)[r] # None /\ WillBeSound(new(ids)[r])
    <3>1. CASE \E f \in ext : ids[f] = r
      <4>1. PICK f \in ext : new(ids)[r] = Mint(rt, f, vals[f])
        BY <3>1
      <4> QED BY <1>1, <1>2, <1>3, <4>1, MintType DEF WillBeSound
    <3>2. CASE ~\E f \in ext : ids[f] = r
      <4>1. new(ids)[r] = refs[r] /\ Held(r)
        BY <1>7, <2>1, <3>2
      <4> QED BY <1>3, <4>1, RefsStaySound DEF HeldExist
    <3> QED BY <3>1, <3>2
  <2> HIDE DEF new
  <2> QED BY <1>4, <2>1, KeepStep
<1>9. TypeOK'
  BY <1>3, <1>6, <1>8 DEF TypeOK, Construct, env
<1>10. BytesSound' /\ AllSorted'
  <2>1. Sorted(data(ids))
    BY DEF Sorted, Unset, Fields
  <2> QED BY <1>3, <1>6, <2>1, RefsStaySound DEF AllSorted, Construct
<1> QED BY <1>8, <1>9, <1>10

\* A constructor that raises leaves payloads nobody refers to.
LEMMA ConstructFailsStep ==
    ASSUME IInv, NEW own \in Owns, NEW vals \in Arguments, ConstructFails(own, vals)
    PROVE  IInv'
<1> USE DEF IInv
<1>1. RuntimeFor(own).store \in Stores
  BY RuntimeType DEF Owns, TypeOK, Runtime
<1>2. PICK done \in SUBSET Given(vals, Externalized) :
          PutAll(RuntimeFor(own).store, PayloadsOf(vals, done)) /\ \A f \in done : Serializable(vals[f])
  BY DEF ConstructFails
<1>3. PayloadsOf(vals, done) \subseteq Payload
  BY <1>2, PayloadsType DEF Given, Fields
<1>4. stores' \in [Stores -> SUBSET Payload] /\ erased' \subseteq Stores \X Payload /\ Remembers
  BY <1>1, <1>2, <1>3, PutAllStep
<1>5. TypeOK'
  BY <1>4 DEF TypeOK, ConstructFails, env
<1>6. HeldExist' /\ AllSorted'
  BY DEF ConstructFails, HeldExist, Held, InData, AllSorted, Sorted
<1>7. RefsSound' /\ BytesSound'
  BY <1>4, RefsStaySound DEF ConstructFails, RefsSound, Sound, WillBeSound, CanResolve, Recorded
<1> QED BY <1>5, <1>6, <1>7

\* Reading fills a cache, mutating marks one: a reference stays what it refers to.
LEMMA ReadStep ==
    ASSUME IInv, NEW f \in Externalized, Hydrate(f) \/ MutateHydrated(f)
    PROVE  IInv'
<1> USE DEF IInv
<1> DEFINE r == instance.data[f].id
<1>1. /\ instance \in Instance /\ instance.data[f].kind = "ref" /\ f \in Fields
      /\ UNCHANGED <<config, adapter, stores, erased, instance, slots>>
  BY DEF Hydrate, MutateHydrated, TypeOK, Fields, env, content
<1>2. r \in RefIds /\ Held(r)
  <2>1. instance.data[f] \in Cell
    BY <1>1 DEF Instance
  <2> QED BY <1>1, <2>1 DEF Cell, Held, InData, Hydrate, MutateHydrated
<1>3. refs[r] \in Ref
  BY <1>2 DEF TypeOK, HeldExist
<1>4. PICK x \in Ref : /\ refs' = [refs EXCEPT ![r] = x]
                       /\ x.hash = refs[r].hash /\ x.backend_id = refs[r].backend_id
                       /\ x.home = refs[r].home
  <2>1. CASE Hydrate(f)
    <3> DEFINE v == Deserialize(refs[r].hash, refs[r].type_name)
    <3>1. v \in Value
      BY <1>3, <2>1, DeserializeType DEF Hydrate, Ref
    <3>2. [refs[r] EXCEPT !.cache = v] \in Ref
      BY <1>3, <3>1 DEF Ref
    <3>3. refs' = [refs EXCEPT ![r] = [refs[r] EXCEPT !.cache = v]]
      BY <1>2, <2>1 DEF Hydrate, TypeOK
    <3> QED BY <1>3, <3>2, <3>3 DEF Ref
  <2>2. CASE MutateHydrated(f)
    <3>1. [refs[r] EXCEPT !.touched = TRUE] \in Ref
      BY <1>3 DEF Ref
    <3>2. refs' = [refs EXCEPT ![r] = [refs[r] EXCEPT !.touched = TRUE]]
      BY <1>2, <2>2 DEF MutateHydrated, TypeOK
    <3> QED BY <1>3, <3>1, <3>2 DEF Ref
  <2> QED BY <2>1, <2>2
<1>5. \A q \in RefIds : Held(q)' <=> Held(q)
  BY <1>1 DEF Held, InData
<1>6. \A q \in RefIds : refs'[q] = IF q = r THEN x ELSE refs[q]
  BY <1>2, <1>4 DEF TypeOK
<1>7. TypeOK'
  BY <1>1, <1>2, <1>4 DEF TypeOK
<1>8. HeldExist'
  BY <1>5, <1>6, NoneAssumption DEF HeldExist
<1>9. RefsSound'
  BY <1>1, <1>2, <1>3, <1>4, <1>6, NoneAssumption DEF RefsSound, Sound, CanResolve, Recorded
<1>10. BytesSound' /\ AllSorted'
  BY <1>1 DEF BytesSound, AllSorted, Sound, CanResolve, Recorded, Sorted
<1> QED BY <1>7, <1>8, <1>9, <1>10

LEMMA CheckpointDictStep ==
    ASSUME IInv, NEW k \in Slots, CheckpointDict(k)
    PROVE  IInv'
<1> USE DEF IInv, CheckpointDict, env, content
<1> DEFINE d == [form |-> "dict", data |-> instance.data, told |-> instance.told]
<1>1. instance \in Instance /\ d \in DictCheckpoint
  BY DEF TypeOK, Instance, DictCheckpoint
<1>2. \A j \in Slots : slots'[j] = IF j = k THEN d ELSE slots[j]
  BY DEF TypeOK
<1>3. \A r \in RefIds : Held(r)' => Held(r)
  BY <1>2 DEF Held, InData
<1>4. refs' \in [RefIds -> Ref \cup {None}] /\ HeldExist' /\ RefsSound'
  BY <1>3, KeepOldStep
<1>5. TypeOK'
  BY <1>1, <1>4 DEF TypeOK
<1>6. BytesSound' /\ AllSorted'
  BY <1>2 DEF BytesSound, AllSorted, Sorted, Sound, CanResolve, Recorded
<1> QED BY <1>4, <1>5, <1>6

\* Pickling a sound reference gives a sound one.
LEMMA CheckpointBytesStep ==
    ASSUME IInv, NEW k \in Slots, CheckpointBytes(k)
    PROVE  IInv'
<1> USE DEF IInv
<1> DEFINE data == [f \in Fields |->
                        IF instance.data[f].kind = "ref"
                        THEN [kind |-> "ref", ref |-> Pickle(refs[instance.data[f].id])]
                        ELSE instance.data[f]]
           d == [form |-> "bytes", told |-> instance.told, data |-> data]
<1>1. instance \in Instance
  BY DEF TypeOK, CheckpointBytes
<1>2. ASSUME NEW f \in Fields, instance.data[f].kind = "ref"
      PROVE  refs[instance.data[f].id] \in Ref /\ Sound(refs[instance.data[f].id])
  <2>1. instance.data[f].id \in RefIds
    BY <1>1, <1>2 DEF Instance, Cell
  <2>2. Held(instance.data[f].id)
    BY <1>2 DEF Held, InData, CheckpointBytes
  <2> QED BY <2>1, <2>2 DEF HeldExist, TypeOK, RefsSound
<1>3. d \in BytesCheckpoint
  <2>1. ASSUME NEW f \in Fields PROVE data[f] \in Record
    <3>1. CASE instance.data[f].kind = "ref"
      BY <1>2, <3>1, PickleType DEF Record
    <3>2. CASE instance.data[f].kind # "ref"
      BY <1>1, <3>2 DEF Record, Instance, Cell
    <3> QED BY <3>1, <3>2
  <2>2. data \in [Fields -> Record]
    BY <2>1
  <2> QED BY <1>1, <2>2 DEF Instance, BytesCheckpoint
<1>4. \A f \in Fields : data[f].kind = "ref" => instance.data[f].kind = "ref" /\ Sound(data[f].ref)
  BY <1>2 DEF Pickle, Sound
<1>5. /\ slots' = [slots EXCEPT ![k] = d] /\ Keep(refs)
      /\ UNCHANGED <<config, adapter, content, stores, erased, instance>>
  BY DEF CheckpointBytes, env, content
<1> HIDE DEF data
<1>6. \A j \in Slots : slots'[j] = IF j = k THEN d ELSE slots[j]
  BY <1>5 DEF TypeOK
<1>7. \A r \in RefIds : Held(r)' => Held(r)
  BY <1>5, <1>6 DEF Held, InData
<1>8. refs' \in [RefIds -> Ref \cup {None}] /\ HeldExist' /\ RefsSound'
  BY <1>5, <1>7, KeepOldStep
<1>9. TypeOK'
  BY <1>3, <1>5, <1>8 DEF TypeOK
<1>10. BytesSound'
  BY <1>4, <1>5, <1>6 DEF BytesSound, Sound, CanResolve, Recorded
<1>11. AllSorted'
  BY <1>4, <1>5, <1>6 DEF AllSorted, Sorted, CheckpointBytes
<1> QED BY <1>8, <1>9, <1>10, <1>11

LEMMA RestoreDictStep ==
    ASSUME IInv, NEW k \in Slots, NEW own \in Owns, RestoreDict(k, own)
    PROVE  IInv'
<1> USE DEF IInv, RestoreDict, env, content
<1>1. slots[k] \in DictCheckpoint
  BY DEF TypeOK, BytesCheckpoint
<1>2. instance' \in Instance /\ instance'.data = slots[k].data
  BY <1>1 DEF TypeOK, Owns, DictCheckpoint, Instance
<1>3. \A r \in RefIds : Held(r)' => Held(r)
  <2> SUFFICES ASSUME NEW r \in RefIds, Held(r)' PROVE Held(r)
    OBVIOUS
  <2>1. InData(r, slots[k].data) => Held(r)
    BY DEF Held
  <2>2. CASE InData(r, instance.data)'
    BY <1>2, <2>1, <2>2 DEF InData
  <2>3. CASE ~InData(r, instance.data)'
    BY <2>3 DEF Held, InData
  <2> QED BY <2>2, <2>3
<1>4. refs' \in [RefIds -> Ref \cup {None}] /\ HeldExist' /\ RefsSound' /\ BytesSound'
  BY <1>3, KeepOldStep, RefsStaySound
<1>5. TypeOK'
  BY <1>2, <1>4 DEF TypeOK
<1>6. AllSorted'
  BY <1>2 DEF AllSorted, Sorted
<1> QED BY <1>4, <1>5, <1>6

\* The references made from bytes are as sound as those in them.
LEMMA RestoreBytesStep ==
    ASSUME IInv, NEW k \in Slots, RestoreBytes(k)
    PROVE  IInv'
<1> USE DEF IInv
<1> DEFINE data == slots[k].data
           ext == {f \in Externalized : data[f].kind = "ref"}
           fresh(ids) == [f \in Fields |->
                             IF f \in ext THEN [kind |-> "ref", id |-> ids[f]] ELSE data[f]]
           new(ids) == [r \in RefIds |->
                            IF \E f \in ext : ids[f] = r
                            THEN LET f == CHOOSE f \in ext : ids[f] = r IN Unpickle(data[f].ref)
                            ELSE refs[r]]
<1>1. slots[k] \in BytesCheckpoint /\ UNCHANGED <<config, adapter, stores, erased, slots>>
  BY DEF RestoreBytes, TypeOK, DictCheckpoint, env, content
<1>2. PICK ids \in AllocUnpickled(data, ext) :
          instance' = [runtime |-> adapter, told |-> slots[k].told, data |-> fresh(ids)] /\ Keep(new(ids))
  BY DEF RestoreBytes
<1>3. ids \in [ext -> RefIds] /\ ext \subseteq Fields
  BY DEF AllocUnpickled, FreeIds, Fields
<1>4. \A f \in Fields : data[f] \in Record /\ (data[f].kind = "ref" => f \in ext)
  BY <1>1 DEF BytesCheckpoint, AllSorted, Sorted, RestoreBytes
<1>5. instance'.data = fresh(ids) /\ instance' \in Instance
  <2>1. ASSUME NEW f \in Fields PROVE fresh(ids)[f] \in Cell
    BY <1>3, <1>4 DEF Cell, Record
  <2>2. fresh(ids) \in [Fields -> Cell]
    BY <2>1
  <2> QED BY <1>1, <1>2, <2>2 DEF Instance, BytesCheckpoint, TypeOK
<1>6. \A r \in RefIds : Held(r)' => Held(r) \/ \E f \in ext : ids[f] = r
  <2>1. ASSUME NEW r \in RefIds, InData(r, fresh(ids)) PROVE \E f \in ext : ids[f] = r
    <3>1. PICK f \in Fields : fresh(ids)[f].kind = "ref" /\ fresh(ids)[f].id = r
      BY <2>1 DEF InData
    <3>2. f \in ext
      BY <1>4, <3>1
    <3> QED BY <3>1, <3>2
  <2> QED BY <1>1, <1>5, <2>1 DEF Held
<1>7. Remembers
  BY <1>1 DEF Remembers, Recorded
<1>8. refs' \in [RefIds -> Ref \cup {None}] /\ HeldExist' /\ RefsSound'
  <2>1. ASSUME NEW r \in RefIds, Held(r)'
        PROVE  new(ids)[r] \in Ref /\ new(ids)[r] # None /\ WillBeSound(new(ids)[r])
    <3>1. CASE \E f \in ext : ids[f] = r
      <4>1. PICK f \in ext : new(ids)[r] = Unpickle(data[f].ref)
        BY <3>1
      <4>2. data[f].ref \in Portable
        BY <1>3, <1>4 DEF Record
      <4>3. WillBeSound(data[f].ref)
        BY <1>3, <1>7, <4>2, SoundStays DEF BytesSound, RestoreBytes
      <4> QED BY <4>1, <4>2, <4>3, UnpickleSound
    <3>2. CASE ~\E f \in ext : ids[f] = r
      <4>1. new(ids)[r] = refs[r] /\ Held(r)
        BY <1>6, <2>1, <3>2
      <4> QED BY <1>7, <4>1, RefsStaySound DEF HeldExist
    <3> QED BY <3>1, <3>2
  <2> HIDE DEF new
  <2> QED BY <1>2, <2>1, KeepStep
<1>9. TypeOK'
  BY <1>1, <1>5, <1>8 DEF TypeOK
<1>10. BytesSound' /\ AllSorted'
  <2>1. Sorted(fresh(ids))
    BY <1>4 DEF Sorted
  <2> QED BY <1>1, <1>5, <1>7, <2>1, RefsStaySound DEF AllSorted
<1> QED BY <1>8, <1>9, <1>10

\* A deletion and the end of a process are recorded.
LEMMA DeleteStep ==
    ASSUME IInv, NEW s \in Stores, NEW p \in stores[s], DeleteContent(s, p)
    PROVE  IInv'
<1> USE DEF IInv, DeleteContent, env
<1>1. Remembers
  BY DEF TypeOK, Remembers, Recorded
<1>2. TypeOK'
  BY DEF TypeOK
<1>3. HeldExist' /\ AllSorted'
  BY DEF HeldExist, Held, InData, AllSorted, Sorted
<1>4. RefsSound' /\ BytesSound'
  BY <1>1, RefsStaySound DEF RefsSound, Sound, WillBeSound, CanResolve, Recorded
<1> QED BY <1>2, <1>3, <1>4

LEMMA RestartStep == ASSUME IInv, Restart PROVE IInv'
<1> USE DEF IInv, Restart
<1>1. stores' \in [Stores -> SUBSET Payload] /\ erased' \subseteq Stores \X Payload
  BY StoresAssumption DEF TypeOK
<1>2. Remembers
  BY DEF Remembers, Recorded
<1>3. slots' \in [Slots -> BytesCheckpoint \cup {None}]
  BY DEF TypeOK, DictCheckpoint
<1>4. \A k \in Slots : slots'[k] = slots[k] \/ slots'[k] = None
  OBVIOUS
<1>5. TypeOK'
  BY <1>1, <1>3, StoresAssumption, ThresholdsAssumption DEF TypeOK, Runtime
<1>6. HeldExist' /\ RefsSound' /\ AllSorted'
  BY <1>3, <1>4 DEF HeldExist, Held, RefsSound, AllSorted, BytesCheckpoint, Sorted
<1>7. BytesSound'
  <2> SUFFICES ASSUME NEW k \in Slots, slots'[k] # None, slots'[k].form = "bytes",
                      NEW f \in Fields, slots'[k].data[f].kind = "ref"
               PROVE  Sound(slots[k].data[f].ref)'
    BY DEF BytesSound
  <2>1. slots'[k] = slots[k] /\ slots[k].data[f].ref \in Portable
    BY <1>3, <1>4 DEF BytesCheckpoint, Record
  <2>2. WillBeSound(slots[k].data[f].ref)
    BY <1>2, <2>1, SoundStays DEF BytesSound
  <2> QED BY <2>1, <2>2 DEF Sound, WillBeSound, CanResolve, Recorded
<1> QED BY <1>5, <1>6, <1>7

LEMMA NextIInv == IInv /\ [Next]_vars => IInv'
<1> SUFFICES ASSUME IInv, [Next]_vars PROVE IInv'
  OBVIOUS
<1>1. CASE UNCHANGED vars
  BY <1>1 DEF vars, IInv, TypeOK, HeldExist, Held, RefsSound, BytesSound, AllSorted, Sound,
     CanResolve, Recorded, InData, Sorted
<1>2. CASE Next
  BY <1>2, ConfigStep, ConstructStep, ConstructFailsStep, AssignInlineStep,
     AssignExternalizedStep, AssignRefStep, ReadStep, CheckpointDictStep, CheckpointBytesStep,
     RestoreDictStep, RestoreBytesStep, DeleteStep, RestartStep DEF Next, Steps, Arguments
<1> QED BY <1>1, <1>2

-----------------------------------------------------------------------------
(* Theorems *)

\* Every reachable state satisfies the invariant.
THEOREM Invariance == Spec => []IInv
  BY InitIInv, NextIInv, PTL DEF Spec

\* Every state of the process, its stores and its checkpoints is well typed.
THEOREM TypeCorrect == Spec => []TypeOK
  BY Invariance, PTL DEF IInv

\* For any fields, values, stores and checkpoints: whatever is assigned, checkpointed,
\* restored, reconfigured or restarted, a reference that can be reached names content
\* that was put before it and that only a deletion can have removed
\* (descriptors.py:104-110, reference.py).
THEOREM NoReferenceDangles == Spec => []NoDanglingRef
<1>1. IInv => NoDanglingRef
  <2> SUFFICES ASSUME IInv, NEW x \in Reachable PROVE Sound(x)
    BY DEF NoDanglingRef, Sound, Recorded
  <2>1. CASE \E r \in HeldIds : x = Pickle(refs[r])
    <3>1. PICK r \in HeldIds : x = Pickle(refs[r])
      BY <2>1
    <3>2. Held(r) /\ r \in RefIds
      <4>1. Held(r)
        BY HeldIdsAre
      <4>2. \A f \in Fields : instance \in Instance /\ instance.data[f].kind = "ref"
                => instance.data[f].id \in RefIds
        BY DEF Instance, Cell
      <4>3. \A k \in Slots, f \in Fields :
                slots[k] # None /\ slots[k].form = "dict" /\ slots[k].data[f].kind = "ref"
                => slots[k].data[f].id \in RefIds
        BY DEF IInv, TypeOK, DictCheckpoint, BytesCheckpoint, Cell
      <4> QED BY <4>1, <4>2, <4>3 DEF Held, InData, IInv, TypeOK
    <3> QED BY <3>1, <3>2 DEF IInv, HeldExist, RefsSound, Sound, Pickle
  <2>2. CASE \E k \in Slots, f \in Fields :
                /\ slots[k] # None /\ slots[k].form = "bytes" /\ slots[k].data[f].kind = "ref"
                /\ x = slots[k].data[f].ref
    BY <2>2 DEF IInv, BytesSound
  <2> QED BY <2>1, <2>2 DEF Reachable
<1> QED BY <1>1, Invariance, PTL
============================================================================
