--------------------------- MODULE AgentRefState ---------------------------
(***************************************************************************)
(* One worker process that keeps an AgentRefState, the runtimes it resolves  *)
(* its store from (config.py), the stores, and the checkpoints taken of it:  *)
(* core/state.py, core/descriptors.py, core/reference.py,                   *)
(* core/invariants.py, config.py and the checkpoint half of                 *)
(* adapters/base.py.  Stores are the atomic ones of CASContract.  The       *)
(* library runs one call at a time, so a call is one action; a call that     *)
(* raises before it changes anything is no action.                          *)
(***************************************************************************)
EXTENDS Serialization, Naturals

CONSTANTS
    Inline,        \* names of the fields declared Inline[T]
    Externalized,  \* names of the fields declared Externalized[T]
    Annotation,    \* externalized field |-> name of its inner type
    Values,        \* values callers assign
    Domain,        \* field |-> those they assign to it
    Size,          \* value |-> len(serialize(value))
    Stores,        \* CAS backends callers have made
    Default,       \* the InMemoryCAS of a fresh process
    Volatile,      \* the stores whose content ends with the process
    BackendIds,
    BackendId,     \* store |-> its backend_id
    Aliases,       \* store |-> its backend_aliases
    Thresholds,    \* inline_threshold_bytes in use
    DefaultThreshold,
    Slots,         \* checkpoints kept
    RefIds,        \* identities of ContentRef objects
    None

Fields == Inline \cup Externalized

ASSUME FieldsAssumption == Inline \cap Externalized = {}
ASSUME ValuesAssumption ==
    /\ Values \subseteq Value /\ Size \in [Values -> Nat]
    /\ Domain \in [Fields -> SUBSET Values]
ASSUME AnnotationAssumption == Annotation \in [Externalized -> TypeNames]
ASSUME StoresAssumption ==
    /\ Default \in Stores /\ Volatile \subseteq Stores
    /\ BackendId \in [Stores -> BackendIds]
    /\ Aliases \in [Stores -> SUBSET BackendIds]
ASSUME ThresholdsAssumption ==
    Thresholds \subseteq Nat \ {0} /\ DefaultThreshold \in Thresholds

\* AgentRefRuntime: a store and a threshold.
Runtime == [store : Stores, threshold : Thresholds]

\* ContentRef; cache is _resolved, touched says that a caller has changed the
\* object cached there in place, home (history) is the store its payload was put to.
Ref == [hash : Payload, backend_id : BackendIds, type_name : TypeNames,
        cache : Value \cup {None}, touched : BOOLEAN, home : Stores]

ASSUME NoneAssumption == None \notin Ref /\ None \notin Value

\* An entry of _data, in an instance or in a checkpoint dict.
Cell == [kind : {"unset"}]
        \cup [kind : {"inline"}, value : Values]
        \cup [kind : {"ref"}, id : RefIds]

\* An entry of pickled checkpoint bytes: a ref goes as ContentRef.__getstate__.
Portable == [hash : Payload, backend_id : BackendIds, type_name : TypeNames, home : Stores]
Record == [kind : {"unset"}]
          \cup [kind : {"inline"}, value : Values]
          \cup [kind : {"ref"}, ref : Portable]

Unset == [kind |-> "unset"]

VARIABLES
    config,      \* the global runtime, config._CONFIG
    adapter,     \* the adapter's own runtime, or None: it follows config
    stores,      \* store |-> payloads it holds
    erased,      \* history: <<store, payload>> deleted and not put since
    refs,        \* ContentRef objects, None where there is none
    instance,    \* the AgentRefState in use, or None
    slots        \* checkpoints

vars == <<config, adapter, stores, erased, refs, instance, slots>>
env == <<config, adapter>>
content == <<stores, erased>>

\* told (history): the value last assigned to each field.
Instance == [runtime : Runtime \cup {None}, data : [Fields -> Cell],
             told : [Fields -> Values \cup {None}]]
DictCheckpoint == [form : {"dict"}, data : [Fields -> Cell],
                   told : [Fields -> Values \cup {None}]]
BytesCheckpoint == [form : {"bytes"}, data : [Fields -> Record],
                    told : [Fields -> Values \cup {None}]]

TypeOK ==
    /\ config \in Runtime
    /\ adapter \in Runtime \cup {None}
    /\ stores \in [Stores -> SUBSET Payload]
    /\ erased \subseteq Stores \X Payload
    /\ refs \in [RefIds -> Ref \cup {None}]
    /\ instance \in Instance \cup {None}
    /\ slots \in [Slots -> DictCheckpoint \cup BytesCheckpoint \cup {None}]

Init ==
    /\ config = [store |-> Default, threshold |-> DefaultThreshold]
    /\ adapter = None
    /\ stores = [s \in Stores |-> {}]
    /\ erased = {}
    /\ refs = [r \in RefIds |-> None]
    /\ instance = None
    /\ slots = [k \in Slots |-> None]

-----------------------------------------------------------------------------
(* Helpers. *)

\* CreateRuntime that forgets base.
CreateRuntimeAfresh(base, s, t) == [store |-> s, threshold |-> t]

\* create_runtime: what is given over what base has.
CreateRuntime(base, s, t) ==
    [store |-> IF s = None THEN base.store ELSE s,
     threshold |-> IF t = None THEN base.threshold ELSE t]

\* runtime_for, and BaseFrameworkAdapter.runtime: an own runtime or the global one.
RuntimeFor(own) == IF own = None THEN config ELSE own

CanResolve(s, id) == id = BackendId[s] \/ id \in Aliases[s]

\* InlineDescriptor.__set__ accepts v under runtime rt.
FitsInline(rt, v) == Serializable(v) /\ Size[v] <= rt.threshold

\* The ContentRef objects that data, the instance and the dicts kept refer to.
IdsIn(data) == {data[f].id : f \in {g \in Fields : data[g].kind = "ref"}}

HeldIds ==
    (IF instance = None THEN {} ELSE IdsIn(instance.data))
    \cup UNION {IdsIn(slots[k].data) : k \in {j \in Slots : slots[j] # None /\ slots[j].form = "dict"}}

FreeIds == {r \in RefIds : refs[r] = None}

\* Objects nothing refers to any more are garbage.
Keep(objects) == refs' = [r \in RefIds |-> IF r \in HeldIds' THEN objects[r] ELSE None]

\* Distinct objects for the fields in F.
Alloc(F) == {ids \in [F -> FreeIds] : \A f, g \in F : ids[f] = ids[g] => f = g}

\* Objects for the references that unpickling data makes for F.  References that were
\* one object when they were pickled are one again; which were is not kept, so equal
\* ones may be.
AllocUnpickled(data, F) ==
    {ids \in [F -> FreeIds] : \A f, g \in F : ids[f] = ids[g] => data[f] = data[g]}

\* backend.put of each payload in ps, into store s.
PutAll(s, ps) ==
    /\ stores' = [stores EXCEPT ![s] = @ \cup ps]
    /\ erased' = erased \ ({s} \X ps)

\* The ContentRef that assigning v to field f makes under runtime rt.
Mint(rt, f, v) ==
    [hash |-> Serialize(v), backend_id |-> BackendId[rt.store],
     type_name |-> TypeNameFor(Annotation[f], v),
     cache |-> None, touched |-> FALSE, home |-> rt.store]

\* A ContentRef without its cache, and back.
Pickle(x) == [hash |-> x.hash, backend_id |-> x.backend_id,
              type_name |-> x.type_name, home |-> x.home]

Unpickle(x) == [hash |-> x.hash, backend_id |-> x.backend_id, type_name |-> x.type_name,
                cache |-> None, touched |-> FALSE, home |-> x.home]

-----------------------------------------------------------------------------
(* Configuration *)

\* configure(backend=s, inline_threshold_bytes=t)
Configure(s, t) ==
    /\ config' = CreateRuntime(config, s, t)
    /\ UNCHANGED <<adapter, content, refs, instance, slots>>

\* An adapter that is given nothing follows the global runtime for good; one that is
\* given anything takes a snapshot of the rest of it.  Bound: a process makes one
\* adapter with a runtime of its own.
MakeAdapter(s, t) ==
    /\ adapter = None
    /\ adapter' = IF s = None /\ t = None THEN None ELSE CreateRuntime(config, s, t)
    /\ UNCHANGED <<config, content, refs, instance, slots>>

-----------------------------------------------------------------------------
(* Assignment *)

AssignInline(f, v) ==
    /\ instance # None
    /\ FitsInline(RuntimeFor(instance.runtime), v)
    /\ instance' = [instance EXCEPT !.data[f] = [kind |-> "inline", value |-> v],
                                    !.told[f] = v]
    /\ UNCHANGED <<env, content, refs, slots>>

\* AssignExternalized putting to the global store.
AssignToGlobalStore(f, v) ==
    /\ instance # None
    /\ Serializable(v)
    /\ PutAll(config.store, {Serialize(v)})
    /\ UNCHANGED <<env, slots>>
    /\ \E r \in FreeIds :
          /\ instance' = [instance EXCEPT !.data[f] = [kind |-> "ref", id |-> r],
                                          !.told[f] = v]
          /\ Keep([refs EXCEPT ![r] = Mint(RuntimeFor(instance.runtime), f, v)])

\* AssignExternalized that updates the ContentRef the field has.
AssignInPlace(f, v) ==
    /\ instance # None
    /\ Serializable(v)
    /\ PutAll(RuntimeFor(instance.runtime).store, {Serialize(v)})
    /\ UNCHANGED <<env, slots>>
    /\ \E r \in IF instance.data[f].kind = "ref" THEN {instance.data[f].id} ELSE FreeIds :
          /\ instance' = [instance EXCEPT !.data[f] = [kind |-> "ref", id |-> r],
                                          !.told[f] = v]
          /\ Keep([refs EXCEPT ![r] = Mint(RuntimeFor(instance.runtime), f, v)])

\* AssignExternalized that keeps the reference a field has.
AssignOnce(f, v) ==
    /\ instance # None
    /\ Serializable(v)
    /\ PutAll(RuntimeFor(instance.runtime).store, {Serialize(v)})
    /\ UNCHANGED <<env, slots>>
    /\ \E r \in IF instance.data[f].kind = "ref" THEN {instance.data[f].id} ELSE FreeIds :
          /\ instance' = [instance EXCEPT !.data[f] = [kind |-> "ref", id |-> r],
                                          !.told[f] = v]
          /\ Keep(IF r \in FreeIds
                  THEN [refs EXCEPT ![r] = Mint(RuntimeFor(instance.runtime), f, v)] ELSE refs)

\* ExternalizedDescriptor.__set__: put first, then the reference.
AssignExternalized(f, v) ==
    /\ instance # None
    /\ Serializable(v)
    /\ PutAll(RuntimeFor(instance.runtime).store, {Serialize(v)})
    /\ UNCHANGED <<env, slots>>
    /\ \E r \in FreeIds :
          /\ instance' = [instance EXCEPT !.data[f] = [kind |-> "ref", id |-> r],
                                          !.told[f] = v]
          /\ Keep([refs EXCEPT ![r] = Mint(RuntimeFor(instance.runtime), f, v)])

\* A ContentRef taken from field g (get_ref) is stored as it is.
AssignRef(f, g) ==
    /\ instance # None
    /\ instance.data[g].kind = "ref"
    /\ instance' = [instance EXCEPT !.data[f] = instance.data[g],
                                    !.told[f] = instance.told[g]]
    /\ UNCHANGED <<env, content, slots>>
    /\ Keep(refs)

Given(vals, F) == {f \in F : vals[f] # None}
PayloadsOf(vals, F) == {Serialize(vals[f]) : f \in F}

\* cls(_runtime=own, **vals)
Construct(own, vals) ==
    LET rt == RuntimeFor(own)
        ext == Given(vals, Externalized)
    IN  /\ \A f \in Given(vals, Inline) : FitsInline(rt, vals[f])
        /\ \A f \in ext : Serializable(vals[f])
        /\ PutAll(rt.store, PayloadsOf(vals, ext))
        /\ UNCHANGED <<env, slots>>
        /\ \E ids \in Alloc(ext) :
              /\ instance' =
                    [runtime |-> own, told |-> vals,
                     data |-> [f \in Fields |->
                        IF vals[f] = None THEN Unset
                        ELSE IF f \in Inline THEN [kind |-> "inline", value |-> vals[f]]
                             ELSE [kind |-> "ref", id |-> ids[f]]]]
              /\ Keep([r \in RefIds |->
                    IF \E f \in ext : ids[f] = r
                    THEN LET f == CHOOSE f \in ext : ids[f] = r IN Mint(rt, f, vals[f])
                    ELSE refs[r]])

\* The same when a field is refused (too big, not serializable) or the store raises:
\* the constructor raises, and the fields done before it have put their payloads.
ConstructFails(own, vals) ==
    /\ \E bad \in Given(vals, Fields) :
          /\ bad \in Inline => ~FitsInline(RuntimeFor(own), vals[bad])
          /\ \E done \in SUBSET (Given(vals, Externalized) \ {bad}) :
                /\ \A f \in done : Serializable(vals[f])
                /\ PutAll(RuntimeFor(own).store, PayloadsOf(vals, done))
    /\ UNCHANGED <<env, refs, instance, slots>>

-----------------------------------------------------------------------------
(* Reading *)

\* ContentRef.resolve, when it does not find its value cached and finds it in the store.
\* A None is handed out but not kept: _resolved is None then.
Hydrate(f) ==
    /\ instance # None
    /\ instance.data[f].kind = "ref"
    /\ LET r == instance.data[f].id
           s == RuntimeFor(instance.runtime).store
           v == Deserialize(refs[r].hash, refs[r].type_name)
       IN  /\ refs[r].cache = None
           /\ CanResolve(s, refs[r].backend_id)
           /\ refs[r].hash \in stores[s]
           /\ v # Unreadable /\ v.shape # "none"
           /\ refs' = [refs EXCEPT ![r].cache = v]
    /\ UNCHANGED <<env, content, instance, slots>>

\* The caller changes the object a read has handed out, which is the cached one; bytes
\* cannot be.
MutateHydrated(f) ==
    /\ instance # None
    /\ instance.data[f].kind = "ref"
    /\ refs[instance.data[f].id].cache # None
    /\ refs[instance.data[f].id].cache.shape \notin {"bytes", "encoded"}
    /\ refs' = [refs EXCEPT ![instance.data[f].id].touched = TRUE]
    /\ UNCHANGED <<env, content, instance, slots>>

-----------------------------------------------------------------------------
(* Checkpoints *)

\* to_checkpoint_dict: a shallow copy of _data, sharing its ContentRef objects
CheckpointDict(k) ==
    /\ instance # None
    /\ slots' = [slots EXCEPT ![k] = [form |-> "dict", data |-> instance.data,
                                      told |-> instance.told]]
    /\ UNCHANGED <<env, content, instance>>
    /\ Keep(refs)

\* validate_checkpoint_state(..., backend=adapter.backend): the backend is the
\* adapter's, the inline threshold the global one.
InlineValidates(data) ==
    \A f \in Inline : data[f].kind = "inline" => FitsInline(config, data[f].value)

Validates(data) ==
    /\ InlineValidates(data)
    /\ \A f \in Externalized : data[f].kind = "ref" =>
            CanResolve(RuntimeFor(adapter).store, refs[data[f].id].backend_id)

\* _serialize_state_for_class: validate, then pickle
CheckpointBytes(k) ==
    /\ instance # None
    /\ Validates(instance.data)
    /\ slots' = [slots EXCEPT ![k] =
          [form |-> "bytes", told |-> instance.told,
           data |-> [f \in Fields |->
                IF instance.data[f].kind = "ref"
                THEN [kind |-> "ref", ref |-> Pickle(refs[instance.data[f].id])]
                ELSE instance.data[f]]]]
    /\ UNCHANGED <<env, content, instance>>
    /\ Keep(refs)

\* InlineRestorable without a check.
InlineTrusted(own, data) == TRUE

\* from_checkpoint_dict assigns every field anew: inline values are checked again,
\* references are stored as they are.
InlineRestorable(own, data) ==
    \A f \in Inline : data[f].kind = "inline" => FitsInline(RuntimeFor(own), data[f].value)

\* from_checkpoint_dict(d, runtime=own) of a dict
RestoreDict(k, own) ==
    /\ slots[k] # None /\ slots[k].form = "dict"
    /\ InlineRestorable(own, slots[k].data)
    /\ instance' = [runtime |-> own, data |-> slots[k].data, told |-> slots[k].told]
    /\ UNCHANGED <<env, content, slots>>
    /\ Keep(refs)

\* _deserialize_state_for_class: new ContentRef objects, the adapter's own runtime
RestoreBytes(k) ==
    /\ slots[k] # None /\ slots[k].form = "bytes"
    /\ InlineRestorable(adapter, slots[k].data)
    /\ UNCHANGED <<env, content, slots>>
    /\ LET data == slots[k].data
           ext == {f \in Externalized : data[f].kind = "ref"}
       IN  \E ids \in AllocUnpickled(data, ext) :
              /\ instance' =
                    [runtime |-> adapter, told |-> slots[k].told,
                     data |-> [f \in Fields |->
                        IF f \in ext THEN [kind |-> "ref", id |-> ids[f]] ELSE data[f]]]
              /\ Keep([r \in RefIds |->
                    IF \E f \in ext : ids[f] = r
                    THEN LET f == CHOOSE f \in ext : ids[f] = r IN Unpickle(data[f].ref)
                    ELSE refs[r]])

-----------------------------------------------------------------------------
(* The rest of the world *)

\* Somebody calls backend.delete
DeleteContent(s, p) ==
    /\ p \in stores[s]
    /\ stores' = [stores EXCEPT ![s] = @ \ {p}]
    /\ erased' = erased \cup {<<s, p>>}
    /\ UNCHANGED <<env, refs, instance, slots>>

\* The process ends and another begins: only bytes and durable stores are left.
Restart ==
    /\ config' = [store |-> Default, threshold |-> DefaultThreshold]
    /\ adapter' = None
    /\ stores' = [s \in Stores |-> IF s \in Volatile THEN {} ELSE stores[s]]
    /\ erased' = erased \cup UNION {{s} \X stores[s] : s \in Volatile}
    /\ instance' = None
    /\ slots' = [k \in Slots |-> IF slots[k] # None /\ slots[k].form = "dict"
                                 THEN None ELSE slots[k]]
    /\ refs' = [r \in RefIds |-> None]

-----------------------------------------------------------------------------
Owns == {None, adapter}

\* Keyword arguments of a constructor call, with values from domain.
ArgumentsFrom(domain) ==
    {vals \in [Fields -> Values \cup {None}] : \A f \in Fields : vals[f] \in domain[f] \cup {None}}

Arguments == ArgumentsFrom(Domain)

\* The steps of a process whose callers configure stores S and thresholds T, assign to the
\* externalized fields F, and take the values from domain.
Steps(S, T, F, domain) ==
    \/ \E s \in S \cup {None}, t \in T \cup {None} : Configure(s, t) \/ MakeAdapter(s, t)
    \/ \E own \in Owns, vals \in ArgumentsFrom(domain) :
            Construct(own, vals) \/ ConstructFails(own, vals)
    \/ \E f \in Inline : \E v \in domain[f] : AssignInline(f, v)
    \/ \E f \in F : \E v \in domain[f] : AssignExternalized(f, v)
    \/ \E f, g \in F : AssignRef(f, g)
    \/ \E f \in Externalized : Hydrate(f) \/ MutateHydrated(f)
    \/ \E k \in Slots : CheckpointDict(k) \/ CheckpointBytes(k) \/ RestoreBytes(k)
    \/ \E k \in Slots, own \in Owns : RestoreDict(k, own)
    \/ \E s \in Stores : \E p \in stores[s] : DeleteContent(s, p)
    \/ Restart

Next == Steps(Stores, Thresholds, Externalized, Domain)

Spec == Init /\ [][Next]_vars

-----------------------------------------------------------------------------
(* Properties *)

\* The references in the instance, in dicts and in bytes, without their caches.
Reachable ==
    {Pickle(refs[r]) : r \in HeldIds}
    \cup UNION {{slots[k].data[f].ref : f \in {g \in Fields : slots[k].data[g].kind = "ref"}} :
                    k \in {j \in Slots : slots[j] # None /\ slots[j].form = "bytes"}}

\* No reference dangles: wherever it has travelled, and whatever configure has done
\* since, the store it was put to can resolve it and holds its content unless
\* somebody deleted that (put before the reference is made, descriptors.py:104-110).
NoDanglingRef ==
    \A x \in Reachable :
        /\ CanResolve(x.home, x.backend_id)
        /\ x.hash \in stores[x.home] \/ <<x.home, x.hash>> \in erased

\* Bytes, what msgpack brings back, and objects left to pickle: the values that the
\* library can be expected to bring back as they were assigned.
Faithful == {v \in Values : v.shape \in {"bytes", "plain", "object"}}

\* What the content of a reference decodes to, and what resolve hands out: the cached
\* object, which the checkpoints that share the reference hand out too, or else that.
Yields(x) == Deserialize(x.hash, x.type_name)
Resolved(x) == IF x.cache = None THEN Yields(x) ELSE x.cache

\* README.md:242,244: a checkpoint yields what was assigned to each field, however
\* old it is, whatever was assigned, cached or reconfigured since, from whichever store
\* still holds the content.  Bytes do so whatever callers change in place as well.  A
\* dict hands out the object that is cached in the reference it shares with the
\* instance: an in-place change of that object shows in the dict, and nothing is said
\* of it.
CheckpointYields(vals) ==
    \A k \in Slots : slots[k] # None =>
        \A f \in Externalized : slots[k].told[f] \in vals =>
            /\ slots[k].data[f].kind = "ref"
            /\ IF slots[k].form = "bytes" THEN Yields(slots[k].data[f].ref) = slots[k].told[f]
               ELSE LET x == refs[slots[k].data[f].id]
                    IN  x.touched \/ Resolved(x) = slots[k].told[f]

CheckpointFaithful == CheckpointYields(Faithful)
CheckpointPreservesAll == CheckpointYields(Values)

\* A read of the instance yields what was last assigned to the field, from the cache
\* or from the store, unless a caller has changed the cached object in place.
ReadsBack ==
    instance # None =>
        \A f \in Externalized : instance.told[f] \in Faithful =>
            /\ instance.data[f].kind = "ref"
            /\ LET x == refs[instance.data[f].id]
               IN  x.touched \/ Resolved(x) = instance.told[f]

\* README.md:241: an inline value too big for the runtime in force never gets into an
\* instance, be it assigned, given to the constructor or restored.
OversizedInlineRefused ==
    [][instance' # None => \A f \in Inline :
            instance'.data[f].kind = "inline" /\ (instance = None \/ instance'.data[f] # instance.data[f])
            => FitsInline(RuntimeFor(instance.runtime), instance.data[f].value)']_vars

\* config.py:38: a runtime's explicit values go over the global ones.  So an adapter
\* with a threshold of its own checkpoints the inline values which that threshold let
\* into its state.
OwnThresholdCounts ==
    instance # None /\ adapter # None /\ instance.runtime = adapter =>
        InlineValidates(instance.data)
============================================================================
