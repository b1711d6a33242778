------------------------- MODULE FrameworkAdapters -------------------------
(***************************************************************************)
(* A framework's own state, which an adapter stands before: LangGraph's      *)
(* channels (adapters/langgraph.py), a plain mapping or an asynchronous      *)
(* Context.store (adapters/llamaindex.py), through the conversions and the   *)
(* proxies of adapters/base.py.  Tasks are the threads and coroutines that   *)
(* nodes and steps run in.  A step is what runs between two points where     *)
(* another task or thread may get in: an await, or a call of the store.      *)
(* Left out, being in AgentRefState: the cache of a ContentRef object, with  *)
(* callers that change the value it holds in place.  So a read here fetches  *)
(* always.                                                                   *)
(***************************************************************************)
EXTENDS Serialization, Naturals

CONSTANTS
    Tasks,
    Inline, Externalized,  \* names of the fields of the state class
    Domain,        \* field |-> values user code gives it
    Fits,          \* values within the inline threshold
    Handed,        \* bound: what the wrappers that user code hands back are of
    Stores, Default,
    BackendIds, BackendId, Aliases,
    None

Fields == Inline \cup Externalized
Values == UNION {Domain[f] : f \in Fields}

ASSUME FieldsAssumption == Inline \cap Externalized = {}
\* Values that the codec brings back as they were; AgentRefState has the others as well.
Faithful == {v \in Value : v.shape \in {"bytes", "plain", "object"}}
ASSUME DomainAssumption == Domain \in [Fields -> SUBSET Faithful]
ASSUME HandedAssumption ==
    Handed \subseteq [hash : Payload, backend_id : BackendIds, type_name : TypeNames]
ASSUME StoresAssumption ==
    /\ Default \in Stores
    /\ BackendId \in [Stores -> BackendIds]
    /\ Aliases \in [Stores -> SUBSET BackendIds]

\* A wrapper {"agentref_ref": {...}} as the value that it is: a dict with str keys.  By the
\* bound what it refers to is not a wrapper again.
WrapperValues == [shape : {"plain"}, atom : Handed]
Given == Values \cup WrapperValues
Content == Payload \cup [format : {"msgpack"}, of : WrapperValues]

\* What a key of the framework's state holds.  A reference is a ContentRef object or a
\* wrapper.  History: home is the store its payload was put to; crossed, that configure
\* came between that put and the making of the reference; and a bare value is a raw one
\* that a node returned to the framework past the adapter.
Missing == [form |-> "missing"]
Raw(v) == [form |-> "raw", value |-> v]
Bare(v) == [form |-> "bare", value |-> v]
Forms == {"ref", "wrapper"}
Reference == [form : Forms, hash : Content, backend_id : BackendIds,
              type_name : TypeNames, home : Stores, crossed : BOOLEAN]
Cell ==
    {Missing} \cup {Raw(v) : v \in Given} \cup {Bare(v) : v \in Values} \cup Reference

ASSUME NoneAssumption ==
    None \notin Cell /\ None \notin Stores /\ None \notin Value \cup WrapperValues

VARIABLES
    style,       \* the framework: "graph", "mapping" or "async"
    own,         \* store of the adapter's own runtime, or None: it follows config
    config,      \* store of the global runtime
    cas,         \* store |-> payloads it holds
    context,     \* the framework's state
    told,        \* history: the value last written to each field
    task         \* what each task is doing

vars == <<style, own, config, cas, context, told, task>>
frame == <<style, own, config>>

Styles == {"graph", "mapping", "async"}
Told == [Fields -> Given \cup {None}]
Checkpoint == [cells : [Fields -> Cell], told : Told]

Idle == [at |-> "idle"]

\* given (history): what had been written to the fields when raw was taken of them.
Reading == [at : {"reading"}, raw : [Fields -> Cell], given : Told,
            view : [Fields -> Given \cup {None}]]

\* A _to_content_ref between its put and its ContentRef.
Minting == [field : Externalized, hash : Content, type_name : TypeNames,
            home : Stores, crossed : BOOLEAN]
Writing == [at : {"writing"}, cells : [Fields -> Cell], want : Told,
            put : Minting \cup {None}]

Snapping == [at : {"snapping"}, left : SUBSET Fields, got : Checkpoint]

TypeOK ==
    /\ style \in Styles
    /\ own \in Stores \cup {None}
    /\ config \in Stores
    /\ cas \in [Stores -> SUBSET Content]
    /\ context \in [Fields -> Cell]
    /\ told \in Told
    /\ task \in [Tasks -> {Idle} \cup Reading \cup Writing \cup Snapping]

Empty == [f \in Fields |-> Missing]
Nothing == [f \in Fields |-> None]

Init ==
    /\ style \in Styles
    /\ own \in {None, Default}
    /\ config = Default
    /\ cas = [s \in Stores |-> {}]
    /\ context = Empty
    /\ told = Nothing
    /\ task = [t \in Tasks |-> Idle]

-----------------------------------------------------------------------------
(* The adapter *)

\* BaseFrameworkAdapter.backend
Backend == IF own = None THEN config ELSE own

CanResolve(s, id) == id = BackendId[s] \/ id \in Aliases[s]

\* type(value).__name__, with nothing of the annotation
TypeName(v) == IF v.shape \in {"bytes", "encoded"} THEN "bytes" ELSE "other"

\* A reference, whichever form it has.
IsReference(c) == c.form \in Forms
AsRef(c) == [c EXCEPT !.form = "ref"]

\* Stored that takes a reference for a value.
StoredAsValue(c) == IF IsReference(c) THEN Raw(c) ELSE c

\* What is written for a converted cell: graphs and asynchronous stores get wrappers.
Stored(c) ==
    IF IsReference(c) THEN [c EXCEPT !.form = IF style = "mapping" THEN "ref" ELSE "wrapper"]
    ELSE c

\* The keys of an update or a read: one for a proxy, any for a node.
Keys == IF style = "graph" THEN (SUBSET Fields) \ {{}} ELSE {{f} : f \in Fields}

At(t, at) == task[t].at = at
Finish(t) == task' = [task EXCEPT ![t] = Idle]

-----------------------------------------------------------------------------
(* Reading: __getitem__ and get of the proxies, hydrate_state_for_node and the first
   half of a wrapped node. *)

\* The framework hands over what it has for F, or its store answers.
Read(t, F) ==
    /\ task[t] = Idle
    /\ style = "graph" => F = Fields
    /\ task' = [task EXCEPT ![t] =
          [at |-> "reading", view |-> Nothing,
           raw |-> [f \in Fields |-> IF f \in F THEN context[f] ELSE Missing],
           given |-> [f \in Fields |-> IF f \in F THEN told[f] ELSE None]]]
    /\ UNCHANGED <<frame, cas, context, told>>

ToHydrate(t) ==
    {f \in Externalized : IsReference(task[t].raw[f]) /\ task[t].view[f] = None}

\* ref.resolve(self.backend) would find x; a reference made of a wrapper has no cache.
Resolves(x) == CanResolve(Backend, x.backend_id) /\ x.hash \in cas[Backend]

\* Hydrate that looks at the framework's state again.
HydrateAgain(t, f) ==
    /\ At(t, "reading") /\ f \in ToHydrate(t)
    /\ IsReference(context[f])
    /\ Resolves(context[f])
    /\ task' = [task EXCEPT ![t].view[f] = Deserialize(context[f].hash, context[f].type_name)]
    /\ UNCHANGED <<frame, cas, context, told>>

Hydrate(t, f) ==
    LET x == task[t].raw[f]
    IN  /\ At(t, "reading") /\ f \in ToHydrate(t)
        /\ Resolves(x)
        /\ task' = [task EXCEPT ![t].view[f] = Deserialize(x.hash, x.type_name)]
        /\ UNCHANGED <<frame, cas, context, told>>

\* UnresolvedReferenceError
ReadFails(t) ==
    /\ At(t, "reading")
    /\ \E f \in ToHydrate(t) : ~Resolves(task[t].raw[f])
    /\ Finish(t)
    /\ UNCHANGED <<frame, cas, context, told>>

ReadEnds(t) ==
    /\ At(t, "reading")
    /\ ToHydrate(t) = {}
    /\ Finish(t)
    /\ UNCHANGED <<frame, cas, context, told>>

-----------------------------------------------------------------------------
(* Writing: __setitem__ and set of the proxies, externalize_node_update and the second
   half of a wrapped node. *)

\* User code gives the values vals, a function from the keys it writes.
Write(t, vals) ==
    /\ task[t] = Idle
    /\ task' = [task EXCEPT ![t] =
          [at |-> "writing", put |-> None,
           cells |-> [f \in Fields |-> IF f \in DOMAIN vals THEN Raw(vals[f]) ELSE Missing],
           want |-> [f \in Fields |-> IF f \in DOMAIN vals THEN vals[f] ELSE None]]]
    /\ UNCHANGED <<frame, cas, context, told>>

\* User code hands back a ContentRef that it has from the framework's own mapping.
Forward(t, f, g) ==
    /\ task[t] = Idle
    /\ context[g].form = "ref"
    /\ task' = [task EXCEPT ![t] =
          [at |-> "writing", put |-> None,
           cells |-> [Empty EXCEPT ![f] = context[g]],
           want |-> [Nothing EXCEPT ![f] = told[g]]]]
    /\ UNCHANGED <<frame, cas, context, told>>

\* The mapping it has is of wrappers: _to_content_ref takes one for a value like any other.
WrapperValue(c) ==
    [shape |-> "plain",
     atom |-> [hash |-> c.hash, backend_id |-> c.backend_id, type_name |-> c.type_name]]

ForwardWrapper(t, f, g) ==
    LET c == context[g]
    IN  /\ task[t] = Idle
        /\ c.form = "wrapper"
        /\ WrapperValue(c).atom \in Handed
        /\ task' = [task EXCEPT ![t] =
              [at |-> "writing", put |-> None,
               cells |-> [Empty EXCEPT ![f] = Raw(WrapperValue(c))],
               want |-> [Nothing EXCEPT ![f] = WrapperValue(c)]]]
        /\ UNCHANGED <<frame, cas, context, told>>

ToExternalize(t) == {f \in Externalized : task[t].cells[f].form = "raw"}

\* _to_content_ref: self.backend.put ...
Put(t, f) ==
    LET v == task[t].cells[f].value
    IN  /\ At(t, "writing") /\ f \in ToExternalize(t)
        /\ task[t].put = None
        /\ cas' = [cas EXCEPT ![Backend] = @ \cup {Serialize(v)}]
        /\ task' = [task EXCEPT ![t].put =
              [field |-> f, hash |-> Serialize(v), type_name |-> TypeName(v),
               home |-> Backend, crossed |-> FALSE]]
        /\ UNCHANGED <<frame, context, told>>

\* Mint naming the store of the global runtime.
MintGlobal(t) ==
    LET p == task[t].put
    IN  /\ At(t, "writing")
        /\ p # None
        /\ task' = [task EXCEPT ![t].put = None,
              ![t].cells[p.field] =
                 [form |-> "ref", hash |-> p.hash, backend_id |-> BackendId[config],
                  type_name |-> p.type_name, home |-> p.home, crossed |-> p.crossed]]
        /\ UNCHANGED <<frame, cas, context, told>>

\* ... and then self.backend.backend_id, which is asked for again.
Mint(t) ==
    LET p == task[t].put
    IN  /\ At(t, "writing")
        /\ p # None
        /\ task' = [task EXCEPT ![t].put = None,
              ![t].cells[p.field] =
                 [form |-> "ref", hash |-> p.hash, backend_id |-> BackendId[Backend],
                  type_name |-> p.type_name, home |-> p.home, crossed |-> p.crossed]]
        /\ UNCHANGED <<frame, cas, context, told>>

\* A store raises: what has been put stays, the framework's state is as it was.
WriteFails(t) ==
    /\ At(t, "writing")
    /\ ToExternalize(t) # {} /\ task[t].put = None
    /\ Finish(t)
    /\ UNCHANGED <<frame, cas, context, told>>

\* Replace that keeps what the channel has.
KeepLeft(left, right) == IF left = Missing THEN right ELSE left

\* ref_aware_replace, the reducer of every channel
Replace(left, right) == right

\* The framework takes the converted update: store.set, __setitem__, or the end of the
\* superstep, which applies the updates of its nodes one after the other.
Apply(t) ==
    LET new == task[t].cells
        given == {f \in Fields : new[f] # Missing}
    IN  /\ At(t, "writing")
        /\ ToExternalize(t) = {}
        /\ context' = [f \in Fields |->
              IF f \in given THEN Replace(context[f], Stored(new[f])) ELSE context[f]]
        /\ told' = [f \in Fields |-> IF f \in given THEN task[t].want[f] ELSE told[f]]
        /\ Finish(t)
        /\ UNCHANGED <<frame, cas>>

\* A node returns an object of the framework's that is no mapping, with the values vals
\* in it: wrap_node leaves it alone, and the framework applies it.
ReturnObject(t, vals) ==
    LET cell(f) == IF f \in Externalized THEN Bare(vals[f]) ELSE Raw(vals[f])
    IN  /\ style = "graph"
        /\ task[t] = Idle
        /\ context' = [f \in Fields |->
              IF f \in DOMAIN vals THEN Replace(context[f], cell(f)) ELSE context[f]]
        /\ told' = [f \in Fields |-> IF f \in DOMAIN vals THEN vals[f] ELSE told[f]]
        /\ UNCHANGED <<frame, cas, task>>

\* del proxy[f]: the framework's mapping loses the key, the store keeps the content.
DeleteKey(t, f) ==
    /\ style = "mapping"
    /\ task[t] = Idle
    /\ context[f] # Missing
    /\ context' = [context EXCEPT ![f] = Missing]
    /\ told' = [told EXCEPT ![f] = None]
    /\ UNCHANGED <<frame, cas, task>>

-----------------------------------------------------------------------------
(* Checkpoints *)

\* AsyncContextStoreProxy.to_checkpoint_dict: one await for each field
Snap(t) ==
    /\ style = "async"
    /\ task[t] = Idle
    /\ task' = [task EXCEPT ![t] =
          [at |-> "snapping", left |-> Fields, got |-> [cells |-> Empty, told |-> Nothing]]]
    /\ UNCHANGED <<frame, cas, context, told>>

SnapField(t, f) ==
    /\ At(t, "snapping")
    /\ f \in task[t].left
    /\ task' = [task EXCEPT ![t].left = @ \ {f},
          ![t].got = [cells |-> [@.cells EXCEPT ![f] = context[f]],
                      told |-> [@.told EXCEPT ![f] = told[f]]]]
    /\ UNCHANGED <<frame, cas, context, told>>

SnapEnds(t) ==
    /\ At(t, "snapping")
    /\ task[t].left = {}
    /\ Finish(t)
    /\ UNCHANGED <<frame, cas, context, told>>

\* The checkpoints that are ready at this instant: a plain mapping or the channels are
\* copied at once, and serialize_for_checkpoint pickles a mapping as it is.
Checkpoints ==
    IF style = "async" THEN {task[t].got : t \in {r \in Tasks : At(r, "snapping") /\ task[r].left = {}}}
    ELSE {[cells |-> context, told |-> told]}

\* _normalize_reference_wrappers, for the cell of an externalized field
Normalized(c) == IF IsReference(c) THEN AsRef(c) ELSE c

\* deserialize_from_checkpoint accepts cells: an AgentRefState takes references and
\* inline values within the threshold.
Restorable(cells) ==
    /\ \A f \in Externalized : cells[f].form \notin {"raw", "bare"}
    /\ \A f \in Inline : cells[f].form = "raw" => cells[f].value \in Fits

\* What from_checkpoint_dict makes of the cells
Instance(cells) ==
    [f \in Fields |-> IF f \in Externalized THEN Normalized(cells[f]) ELSE cells[f]]

\* The cells a process can go on from: the checkpoint's as they are, or those of an
\* AgentRefState restored from it.
Restored(cells) ==
    {cells} \cup (IF Restorable(cells) THEN {Instance(cells)} ELSE {})

\* The process ends; the next one goes on from a checkpoint, with an adapter that has the
\* runtime o.  Resuming at once stands for resuming later: a checkpoint is a value, and
\* nothing that it needs is taken away meanwhile.
Resume(o, checkpoint, cells) ==
    /\ own' = o
    /\ config' = Default
    /\ context' = cells
    /\ told' = checkpoint.told
    /\ task' = [t \in Tasks |-> Idle]
    /\ UNCHANGED <<style, cas>>

-----------------------------------------------------------------------------
\* configure(backend=s), by anybody, in any thread
Configure(s) ==
    /\ s # config
    /\ config' = s
    /\ task' = [t \in Tasks |->
          IF own = None /\ At(t, "writing") /\ task[t].put # None
          THEN [task[t] EXCEPT !.put.crossed = TRUE] ELSE task[t]]
    /\ UNCHANGED <<style, own, cas, context, told>>

Step(t) ==
    \/ \E F \in Keys : Read(t, F)
    \/ \E f \in Externalized : Hydrate(t, f) \/ Put(t, f)
    \/ ReadFails(t) \/ ReadEnds(t)
    \/ \E F \in Keys : \E vals \in [F -> Values] :
            (\A f \in F : vals[f] \in Domain[f]) /\ (Write(t, vals) \/ ReturnObject(t, vals))
    \/ \E f, g \in Externalized : Forward(t, f, g) \/ ForwardWrapper(t, f, g)
    \/ \E f \in Fields : DeleteKey(t, f)
    \/ Mint(t) \/ WriteFails(t) \/ Apply(t)
    \/ Snap(t) \/ SnapEnds(t)
    \/ \E f \in Fields : SnapField(t, f)

Next ==
    \/ \E t \in Tasks : Step(t)
    \/ \E o \in {None, Default}, checkpoint \in Checkpoints :
            \E cells \in Restored(checkpoint.cells) : Resume(o, checkpoint, cells)
    \/ \E s \in Stores : Configure(s)

Spec == Init /\ [][Next]_vars

-----------------------------------------------------------------------------
(* Properties *)

\* The cells of the framework's state, of reads and writes under way and of checkpoints.
ReadCells(t) == IF At(t, "reading") THEN {task[t].raw[f] : f \in Fields} ELSE {}
WriteCells(t) == IF At(t, "writing") THEN {task[t].cells[f] : f \in Fields} ELSE {}
SnapCells(t) == IF At(t, "snapping") THEN {task[t].got.cells[f] : f \in Fields} ELSE {}
LiveCells ==
    {context[f] : f \in Fields}
    \cup UNION {ReadCells(t) \cup WriteCells(t) \cup SnapCells(t) : t \in Tasks}

\* base.py:222-229, langgraph.py:117-119: whatever tasks write, forward, fail to write or
\* checkpoint at once, and however configure and a resumption change the runtime between
\* two of their steps, a reference has its content in the store it was put to, and that
\* store resolves it; unless configure came between the put and the reference of an
\* adapter without a runtime of its own, which names the second store then.
RefsSound ==
    \A c \in LiveCells : IsReference(c) =>
        /\ c.hash \in cas[c.home]
        /\ c.crossed \/ CanResolve(c.home, c.backend_id)

\* What cell c of field f yields is v; an externalized payload is in the cell only when it
\* came in an object of the framework's.
Holds(f, c, v) ==
    IF v = None THEN c = Missing
    ELSE IF f \in Externalized
         THEN \/ IsReference(c) /\ Deserialize(c.hash, c.type_name) = v
              \/ c = Bare(v)
         ELSE c = Raw(v)

\* base.py:143-181: the framework's state, and a checkpoint at any moment of its loop,
\* hold for each field what some task wrote to it last, of the type it had, and nothing of
\* another task's or field's: by reference when the adapter converted it, and the payload
\* itself when a node returned it in an object that wrap_node leaves alone (langgraph.py:171).
\* A wrapper that user code hands back counts as the value written (base.py:222-226): a
\* read gives the wrapper then, not what it refers to.
ChannelsFaithful ==
    /\ \A f \in Fields : Holds(f, context[f], told[f])
    /\ \A t \in Tasks : At(t, "snapping") =>
          \A f \in Fields : Holds(f, task[t].got.cells[f], task[t].got.told[f])

\* langgraph.py:117, base.py:354-359: a node is given the values its state had at one
\* moment, when the framework handed it over, though they are fetched from the store one
\* by one later; and a proxy's get the value its key had when the framework answered.
HydratesAsWritten ==
    \A t \in Tasks : At(t, "reading") =>
        \A f \in Externalized : task[t].view[f] \in {None, task[t].given[f]}
=============================================================================
