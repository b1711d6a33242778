# AgentRef in TLA+

A verification development for `agentref`, a Python library that keeps the large
values of an agent's state out of its checkpoints: a field declared
`Externalized[T]` is written to a content-addressed store (CAS) and the state keeps
a `ContentRef` to it; a field declared `Inline[T]` stays in the state if it is small
enough. The modules are translated from the source under `agentref/`; paths below
are relative to it. `PROJECT.json` maps definitions to source lines.

## 1. The system

| Component | State it keeps | Operations | Interacts with |
| --- | --- | --- | --- |
| CAS contract, in-memory store (`storage/base.py`, `memory.py`) | hash -> bytes | put, get, exists, delete, iter_hashes | called by descriptors, references, adapters, migration |
| Filesystem store (`storage/filesystem.py`) | a directory of objects, temporary files | the same | shared by threads and processes without a lock |
| PostgreSQL store (`storage/postgres.py`) | a table; one connection and its transaction per worker | the same, prune_expired, close | shared by workers through the database |
| Serialization (`storage/base.py`, `type_name_for`) | none | serialize, deserialize | every put and every resolve |
| State, descriptors, references (`core/state.py`, `descriptors.py`, `reference.py`) | `_data` of an instance, the value cached in each reference | assignment, construction, hydration, to/from checkpoint | store and threshold of the instance's runtime, or the global one |
| Invariants (`core/invariants.py`) | none | validate_* | called before an adapter pickles a checkpoint |
| Configuration (`config.py`) | the global runtime `_CONFIG` | configure | read by every state and adapter without a runtime of its own |
| Adapter base (`adapters/base.py`) | its runtime; a framework's store behind the proxies | externalize, hydrate, serialize, deserialize; get/set of the proxies | stores, states, framework stores |
| LangGraph, LlamaIndex, AutoGen adapters | none of their own | wrap_node; context_store; externalize/hydrate_message_history | adapter base |
| Reducers (`core/reducers.py`) | none | merge of dictionaries, append to lists, replace | a graph framework, with the updates of its nodes |
| Type markers (`core/types.py`), state classes (`core/state.py`) | the fields of each class | a class is defined | Python's method resolution order |
| Detection, registry (`detection/framework.py`, `adapters/__init__.py`) | none; read `sys.modules` and the configuration | detect_active_framework, get_adapter, auto_adapt, dispatch_to | whatever has been imported |
| Migration (`storage/migrate.py`) | the loop of `migrate_cas` | migrate_cas | two stores, which others go on using |

What is hard here, and what makes each part correct:

* **Stores** are shared by processes that do not coordinate. A put is seven system
  calls; any of them may fail and the process may die between them. Correct means:
  the store is atomic (what `CASContract` says), no object is ever partly written,
  no temporary file outlives a call, an iteration misses nothing that was there
  throughout. For PostgreSQL: what put answered for stays until it expires, a prune
  takes only the expired, nobody is left waiting for a row.
* **References** travel: into dict checkpoints that share the `ContentRef` object,
  into bytes that do not, into another process. Meanwhile `configure` changes the
  store and the threshold under every state that has no runtime of its own, values
  are reassigned, cached values are changed in place, content is deleted. Correct
  means: no reference dangles, and a checkpoint yields what was assigned however
  old it is; but for a dict, which shares the object a caller changes in place.
* **Thresholds** are checked in three places against up to three runtimes.
* **Adapters** run user code across an `await` between hydration and
  externalization, and the async store proxy takes one await per field. Correct means:
  what a framework keeps, checkpoints and hands to a task is what tasks wrote, and the
  references in it resolve.
* **Histories** may be externalized again before they are hydrated; nothing may be lost
  inside the wrappers.
* **Migration** copies object by object while others put and delete.
* **Classes** are put together from bases twice, by the metaclass and by Python; the two
  have to agree. **Detection** depends on what has been imported so far; a program must
  not change frameworks by importing one more.

`hazards` in `PROJECT.json` lists these one by one at their lines, with the
properties that watch them.

## 2. Modules

| Module | Models | Built on |
| --- | --- | --- |
| `CASContract` | the abstract specification of a store: each call takes effect at one instant between its beginning and its return | |
| `FilesystemCAS` | `storage/filesystem.py`, one action per system call | implements `CASContract` |
| `FilesystemDurability` | the same under power losses, with the disk behind the kernel's cache | extends `FilesystemCAS` |
| `FilesystemProofs` | theorems about `FilesystemCAS` and `FilesystemDurability` | |
| `PostgresCAS` | `storage/postgres.py`, one action per statement or half statement | |
| `PostgresCASProofs` | theorems about `PostgresCAS` | |
| `Serialization` | the codec and the type names, as operators | |
| `AgentRefState` | states, descriptors, references, checkpoints, configuration, adapter runtime | extends `Serialization` |
| `AgentRefStateProofs` | theorems about `AgentRefState`: its references | |
| `AgentRefStateContentProofs` | theorems about `AgentRefState`: what comes back | extends `AgentRefStateProofs` |
| `FrameworkAdapters` | mapping conversions and proxies of `adapters/base.py`, the LangGraph and LlamaIndex adapters, over a framework's own state | extends `Serialization` |
| `FrameworkAdaptersProofs` | theorems about `FrameworkAdapters` | |
| `Migration` | `storage/migrate.py` and the users of both stores | |
| `MessageHistory` | the message histories of `adapters/autogen.py` | |
| `Reducers` | `core/reducers.py` | |
| `ReducersProofs` | theorems about `Reducers` | |
| `StateClasses` | `AgentRefStateMeta` of `core/state.py`, the markers of `core/types.py` | |
| `StateClassesProofs` | theorems about `StateClasses` | |
| `Detection` | `detection/framework.py`, `get_adapter`, `auto_adapt`, `dispatch_to` | |
| `MC*` | the instances TLC checks; `MCLibrary` puts the last five together | |
| `LibraryProofs` | theorems about `Migration`, `MessageHistory`, `Detection` and `MCLibrary` | extends `ReducersProofs`, `StateClassesProofs` |

Definitions whose comment says that they are another definition with something left
out or done otherwise (`PutCreateInPlace`, `AssignOnce`, ...) are no part of any
specification: put in the place of the definition they stand before, each shows that
a property fails once the code has that fault.

### CASContract

`store` is the set of contents held. A content stands for the bytes and their
SHA-256 at once: hashing is taken to be injective. `call` is the call each client is
in: idle, pending, or done with a result. `InMemoryCAS` is this specification as it
stands: its operations are single dictionary operations, atomic under the
interpreter's lock. `AgentRefState` uses stores of this kind.

### FilesystemCAS

`objects[c]` is the file at the object's path, `temp[p]` the temporary file the put
of client `p` holds, `orphans` the temporary files of dead clients, `shards` the
directories made. A file is told by what it is meant for, whether it is wholly
written and whether fsync has returned for it. `pc[p]` is the client's next system
call. `put` is `PutCheck`, `PutMkdir`, `PutCreate`, `PutWrite`, `PutSync`,
`PutReplace`, `PutCleanup`; `PutFailsEarly` and `PutFailsLate` are an `OSError`
before and inside the `try`. `get` is `GetOpen` and `GetRead`: once open, a file is
read whatever becomes of its name. `iter_hashes` is a generator: `IterRoot`,
`IterShard` and `IterName` are separate steps. `Crash` may happen anywhere in a call;
no `finally` runs.

Left out: that names are sorted (any order is allowed), foreign files in the
directory, a failing `unlink` in the cleanup (the put raises and the file stays),
read errors other than a missing file, and a hash shorter than three characters.

### FilesystemDurability

`disk` is what a power loss would leave of the object names. `WriteBack` lets the
kernel bring any one name up to date at any time; `PowerLoss` ends every client and
makes `disk` the directory. A file fsync has returned for is whole after it, another
may not be. This part is external: it is modelled from what `put` relies on fsync
for.

### PostgresCAS

The database is external and is modelled from the statements the code sends: a
transaction opens with the first statement, at READ COMMITTED, `NOW()` is its start,
and it ends at `commit`, at a disconnection, or in a failed state that only a
rollback would leave (no method calls one). `rows` is the committed `expires_at` of
each object, `work[p]` what the transaction of `p` has made of each row, and holding
a version there is holding the row's lock. A statement that wants a locked row waits
(`Free`). `PruneExecute` and `PruneReap` are the two halves of a prune: what its
snapshot shows expired, and the deletion after the rows are locked and looked at
again. `get`, `exists` and `iter_hashes` leave their transaction open, as the code
does. A fault of a statement is `StatementFails`; later statements are `Refused`. A
deadlock of two prunes, which the database resolves by failing one, is such a fault.

`expires_at` is computed when the call begins, before the statement, so the last of two
overlapping puts to write may leave the older expiry, and so may any later put of a worker
with a shorter lifetime. What a put that returns can promise is therefore the earliest
expiry among its own, those that pending puts have computed and the one that a put begun
at this moment would compute (`Promise`); `KeepsPromise` holds it to that. A pending
delete voids the promise.

Left out: `commit=False`, connections in autocommit mode, payloads and their sizes,
`last_accessed_at` itself (the lock that writing it takes is there), other values of
`backend_id` on the table.

### Serialization

Values are told apart by what the codec does with them (`Shapes`). `Serialize` and
`Deserialize` follow msgpack first, pickle when msgpack raises; `TypeNameFor` names a
value's own type, and the annotation only for `None`.

### AgentRefState

One process, one state instance and the checkpoints taken from it. `config` is
`_CONFIG`, `adapter` an adapter's own runtime (None: it follows `config`), `refs` the
`ContentRef` objects, each with its cached value, `instance` the state, `slots` the
checkpoints kept: dicts, whose references are the same objects as the instance's, or
bytes. Assigning is `AssignInline`, `AssignExternalized` (put, then the reference) and
`AssignRef`; `Construct` and `ConstructFails` are the constructor, which may raise
after some fields have been put. `Hydrate` is a read that fills the cache,
`MutateHydrated` a caller changing the object it was handed. `CheckpointBytes`
validates against the adapter's store and the global threshold, as the code does.
`RestoreDict` and `RestoreBytes` assign every field anew. `DeleteContent` is anybody's
delete; `Restart` ends the process: volatile stores, dicts, instance and configuration
are gone.

The library runs one call at a time and calls are single actions; a call that raises
before it has changed anything is no action. Objects nothing refers to are garbage
(`Keep`). `Steps` is the next-state relation over a choice of stores, thresholds, fields
and values; `Next` is `Steps` over all of them. Left out: changing an inline value in
place (nothing checks it again), references built by hand, and JSON and msgpack forms of a
reference (they carry the same four fields as pickle). The metaclass is in `StateClasses`.

`told`, `home`, `touched` and `erased` are history: what was last assigned, where a
payload was put, whether a caller changed the cached object, what somebody deleted.

What a cell gives is `Resolved`: the object cached in its reference, and only without one
what the store has (`Yields`). A dict has the references of the instance, so an object that
a caller has changed in place shows in it, and `CheckpointFaithful` says nothing of such a
field (`touched`). Bytes have references of their own, which no change reaches.

### FrameworkAdapters

`context` is the framework's own state: LangGraph's channels, a plain mapping, or an
asynchronous `Context.store` (`style`). Its cells are what the code leaves there, raw
values, `ContentRef` objects or wrappers. `task[t]` is what a task, a thread or coroutine
in a node or a step, is doing. A task reads in steps: `Read` takes the cells (all of them
for a node, one for a proxy), `Hydrate` fetches one of them, `ReadEnds` or `ReadFails`
ends. It writes in steps: `Write`, `Forward` (a `ContentRef` it already has) or
`ForwardWrapper`, then for each externalized field `Put` and `Mint`, then `Apply`, the
framework taking the converted update; `WriteFails` is an exception in between. `Put` and
`Mint` are apart because `_to_content_ref` asks for the adapter's store once for `put` and
again for its id: each time it may be another. `Snap`, `SnapField` and `SnapEnds` are
`AsyncContextStoreProxy.to_checkpoint_dict`, an await per field. `Resume` is the end of
the process and its continuation from a checkpoint, taken as it is or through an
`AgentRefState`. `Configure` may come between any two steps. `DeleteKey` is `__delitem__`
of the proxy.

What a graph or an asynchronous store holds is wrappers, and `_to_content_ref` does not
recognize one: user code that hands one back has it put like any other dict and wrapped
again (`ForwardWrapper`), and a read gives the inner wrapper. The properties count it as
the value that was written. `Handed` bounds what such wrappers refer to, so that a wrapper
of a wrapper is the deepest there is. A node may return an object that is no mapping,
which `wrap_node` leaves alone: `ReturnObject` puts its payloads into the channels as they
are (`Bare`), past the adapter, and the properties say which cells these are.

What a wrapped node of LangGraph does is a read, user code, and a write: the update
it returns may be anything, so the write does not depend on the read. `told`, `given`,
`want`, `home` and `crossed` are history.

### Migration, MessageHistory, Reducers, StateClasses, Detection

`Migration` has the loop of `migrate_cas` (`job`), one action per store call: `NextHash`,
`GetPayload`, `PutPayload`, `MigrateReturns`. Others put to and delete from both stores
between the calls, and the bytes of an object may change under its name (`Rot`): no `get`
looks at the hash. The listing is any that `IterationExact` of `FilesystemCAS` allows.
`counted` is the set of objects counted so far; the two counts of `MigrationResult` are its
size and the sum of its lengths. Hashes that a caller gives are taken to be different: one
given twice is counted twice.

`MessageHistory` follows the entries of messages through `Externalize`, `ExternalizeFails`
and `Hydrate`, on any of the messages, with any threshold, any number of times. A wrapper
is a value like others and is externalized in its turn if it is bigger than the
threshold, so an entry has a depth.

`Reducers` has a dictionary and a list that are given updates in any batches. An item is a
reference, in either form, a value without a hash, or one of the `Lookalikes`: a mapping
that is no reference and has an entry "hash", which `_content_ref_hash` takes for one. The
properties are those of the docstrings and speak of references only (`SameReference`).

`StateClasses` defines one class after another with any of the others as bases,
annotations that are evaluated or postponed and may not resolve, and values that hide an
inherited descriptor. A postponed annotation is recognized only if every annotation in the
resolution order resolves; one that is evaluated keeps its marker whatever else fails.
`Linearize` is Python's C3 order (external). `Detection` imports modules and calls
`configure`, with the answers as operators of both.

## 3. Runs

| Run | Checks | Shows |
| --- | --- | --- |
| `fs` | `TypeOK`, `NoTornObject`, `TempOnlyInFlight`, `IterationExact`, `ImplementsContract`, `CallsReturn` | the directory is an atomic store |
| `fs_power` | `DTypeOK`, `NoTornObjectEver` | objects are whole across power losses |
| `fs_durable` | `PutIsDurable` fails | an object can be lost after put returned: no directory is synced |
| `refs` | `TypeOK`, `NoDanglingRef`, `CheckpointFaithful`, `ReadsBack`, `OversizedInlineRefused` | references never dangle, checkpoints keep what was assigned, fields keep apart, no oversized inline value gets in |
| `own_threshold` | `OwnThresholdCounts` fails | an adapter refuses to checkpoint what its own threshold let in |
| `lossy` | `CheckpointPreservesAll` fails | a dict with integer keys is stored and never comes back |
| `pg` | `TypeOK`, `KeepsPromise`, `IdleHoldsNoLock`, `PruneOnlyExpired`, `CallsReturn` | put's answer holds until the expiry, no lock outlives its call |
| `pg_prune_limit` | `PruneOnlyExpired` fails | a limited prune deletes a renewed object |
| `pg_expired_read` | `ExpiredIsMissing` fails | a connection that only reads goes on seeing expired objects |
| `adapters` | `TypeOK`, `RefsSound`, `ChannelsFaithful`, `HydratesAsWritten` | frameworks keep, checkpoint and hand out what tasks wrote |
| `library` | `LibraryTypeOK`, `MigrationComplete`, `MigrationEnds`, `DictKeepsLatest`, `ListIsFirstOnes`, `EntriesRecoverable`, `OneHydrationEnough`, `KindsAgree`, `NeverSwitches` | migration, histories, reducers, classes and detection, each by itself |
| `reducers_lookalike` | `ListIsFirstOnes` fails | of two plain mappings with one "hash" entry, append drops the second |

The runs that fail each contradict a sentence of the repository, quoted under
`findings`.

### Bounds

* `fs`: two clients, two contents in two shards. Races on an object are between two
  clients, on one content; the second content and shard are for `iter_hashes`, whose
  hazard is a listing of one shard while the other changes. About 160,000 states.
* `fs_power`: one content is enough, contents do not interact on the disk.
* `refs`: two parts, of which a behaviour is one (`MCRefs`; each is a restriction of
  `Spec`). In "stores": one field, two stores with one id of which one ends with the
  process, two values of different types. In "fields": one inline and two externalized
  fields with one value each, one store, two thresholds of which one refuses the inline
  value. Both: three reference objects (one in the instance, one in a dict checkpoint, one
  being made) and one checkpoint slot. When all reference objects are in use an
  assignment waits for one to become garbage: a bound of the model. About 246,000 states.
* A process makes at most one adapter with a runtime of its own (`MakeAdapter`).
* `pg`: one content, lifetimes 1 and 2, clock up to 3: of two overlapping puts either may
  write last, a put at 0 expires at 1 or 2 and is renewed at 1. One worker records its
  reads and one does not. `Limits` is empty in `pg`, since a prune with a limit breaks both
  properties (`pg_prune_limit`). Both workers give a lifetime: if one gives none,
  `KeepsPromise` does not hold, since a put with a TTL puts an expiry on an object another
  worker stored for good, and a put without one returns the hash of a row that has expired
  already. About 267,000 states.
* `adapters`: two tasks, one inline and one externalized field, a value and the wrapper of
  its own reference, two stores of which the new one has the old one's id for an alias.
  Races are between two tasks, or a task and `configure`; with one externalized field a
  node's update and a proxy's have the same number of puts, and more fields are covered by
  the theorems. Tasks are symmetric: no property and no action tells them apart. About
  1,420,000 states, one minute.
* `library`: the five parts share no variable and no action, so they are checked in one
  run, as a choice of the part at the start: the states are the sum of the parts'. Two
  objects for a migration (one lost while the other is copied); two entries nested up to
  three wrappers deep, thresholds below and at the size of a wrapper; four items in a
  list, two hashes, two references for each; four classes, which is what a diamond takes;
  five modules that can be imported, two of them with names that only look like a
  framework's. `CHECK_DEADLOCK FALSE`: definitions of classes stop at `MaxClasses`, and
  imports when everything is imported. No item is a lookalike; `reducers_lookalike` has one
  for each of two items. About 490,000 states, two minutes.

### Fairness

* `FilesystemCAS`: weak fairness of each client's next step while it is in a call. A
  thread that is runnable is eventually run and a system call returns. Nothing obliges
  a client to begin a call, or to die.
* `PostgresCAS`: the same, and strong fairness for statements that need a row's lock:
  the database grants locks in the order they are asked for. Time need not pass.
* `Migration`: weak fairness of the loop as a whole, one thread that goes on running and
  whose store calls return. Nobody else is obliged to anything. A call ends although others
  may put for ever, because a listing ends; here because contents are finitely many.
* `AgentRefState` has no liveness property: its calls are single actions. The tasks of
  `FrameworkAdapters` wait for nothing but their stores, and user code may never return.

## 4. Proofs

The theorems hold for all values of the constants that the modules' assumptions allow:
any number of clients, contents, fields, stores and checkpoints. The assumptions say no
more than what the constants are (a function from contents to shards, lifetimes that are
positive numbers or absent, one default store, ...) and that the markers `None`, `Never`,
`Untouched` and `Gone` are nothing else; TLC evaluates them on every run. `tlapm` checks
every leaf.

Each proof module has the same plan: an invariant `IInv` that contains the properties and
what they need to survive a step, one lemma for each action (or for a group of actions
that disturb the same conjuncts), `NextIInv`, and the theorems.

### FilesystemProofs

Of `FilesystemCAS`:

`TypeCorrect`, `NoTornObjects`, `NoTempLeft`, `Linearizable`. `NoTornObject` is not
inductive: `os.replace` moves the client's temporary file to the object's path, so the
invariant says what that file holds at each step of a put (`WriterReady`: its own content,
whole after write, synced after fsync). `ReaderReady` says that an opened file is whole
and `WellPlaced` which method each step belongs to and that a call is settled from its
deciding step on. `OneClientStep` reduces a step of a client to that client.

`Linearizable` is the safety half of `ImplementsContract`: initial states map to initial
states and every step to a step of the atomic store or to a stutter. A put takes effect at
the existence check (`PutCheck`, object there) or at `PutReplace`, a get at `GetOpen`,
exists and delete at their system call; iterations are invisible to the contract, which
does not have them.

`IterationsExact` has an invariant of its own, `XInv`, on top of `IInv`. An object that has
been there since an iteration began is yielded, or in the listing of the shard under way,
or in a shard still to list (`Due`). That nothing is missed at the beginning needs
`ShardsMade`: the directory of every object is there, because a put makes it first and
nobody removes one.

Of `FilesystemDurability`:

`NeverTorn`, `DTypeCorrect`. After a power loss a file is whole only if fsync had returned
for it, so `DInv` adds to `IInv` that every object in the directory (`ObjectsSynced`) and
on the disk (`DiskWhole`) has been synced. It follows that a power loss leaves the
directory exactly what the disk had: the fsync before the rename is what the proof turns
on.

### PostgresCASProofs

`TypeCorrect`, `NoLockHeldIdle`, `PrunesOnlyExpired`, `PromisesKept`. A commit makes
visible what was decided when the statement ran, at an earlier time. So `IInv` says what
each open transaction is about to do to each row (`Pending`: a put writes its stamp or the
row's expiry, a touch what the row has, a prune removes what has expired), that no two
transactions have versions of a row (`RowLocks`), that no transaction has begun in the
future (`Begun`: what had expired at its `NOW()` has expired), and that work exists only
between a statement and its commit (`Placed`).

`PrunesOnlyExpired` assumes `Limits = {}`; with a limit the property is false
(`pg_prune_limit`). `PromisesKept` assumes also `Alike`: all workers give lifetimes, of
whatever lengths, or none does. Then a put always leaves its own stamp (`Stamped`: the
`COALESCE` keeps an old expiry only where that is no expiry at all, `Lifetimes`), a delete
has called the promise off before its statement (`CalledOff`), and no promise is later than
what a pending put has computed or a new one would (`PutsKeep`). So the row has at least
what is promised until that ends (`Covered`).

### AgentRefStateProofs

`TypeCorrect`, `NoReferenceDangles`. `NoDanglingRef` speaks of the references that can be
reached; an assignment or a restore makes others reachable. `IInv` says it of every
`ContentRef` there is (`RefsSound`) and of those in bytes (`BytesSound`), that what is
reachable exists (`HeldExist`), and that only externalized fields hold references
(`AllSorted`, needed where bytes are restored field by field). `Remembers` is the step
property behind it: no step makes a store forget a payload that nobody deleted.

### AgentRefStateContentProofs

`CheckpointsKeepValues`, `ReadsGiveBack`, `NoOversizedInline`. The invariant `CInv` says
that every cell, of the instance, of a dict and of bytes, yields what `told` has for it
(`InstanceGives`, `SlotGives`) and that a cache has what its reference yields
(`CachesTrue`: a change in place is told by `touched` and leaves `cache` as it is). With
both, what is handed out (`Resolved`), from the cache or from the store, is what `told`
has. It survives because of a property of steps, `Stays`: a `ContentRef` that is held
before and after a step keeps its hash and its type name. New values get new objects
(`KeepNew`), which is what lets a dict share the objects of the instance. `MintYields` is
the fact about the codec: under the type name the descriptor gives it, a payload of a
faithful value deserializes to that value. `NoOversizedInline` is an action property,
shown step by step (`StepFits`).

### FrameworkAdaptersProofs

`TypeCorrect`, `ReferencesSound`, `ChannelsAreFaithful`, `ReadsAreOfOneMoment`. A property
of the framework's state is only inductive together with the same property of what tasks
have in their hands: the cells a read has taken, the converted and unconverted cells of a
write, a half-made reference, the cells of a snapshot. Wrappers handed back are contents
like others (`Storable`). `RefsSound` leaves out references that `configure` came into the
middle of (`crossed`); the theorem says that there are no others.

### ReducersProofs

`DictKeepsLatestAlways`, `ListIsFirstOnesAlways`, both under the assumption `Lookalikes =
{}`: with a lookalike they are false (`reducers_lookalike`). What the code does goes by
hashes, so the invariant does (`KeepsLatestHash`, `HashFirstOnes`), for any items; without
lookalikes equal hashes are references to one content. The append is a loop, so what it
returns is shown by induction on the items taken: `ListAppendDef` gives the equations of
the recursive function `ListAppend`, and `ListAppendCorrect` says that if the list has the
first ones of what was given (`AreFirstOnes`), it still has after the batch. `AppendOne`
is the step: an item with the hash of an earlier one is no first one and changes nothing,
any other comes last (`PlaceAppend`). That an item's hash is in the list exactly if an
earlier item had it is `HashKnown`. A merge into the dictionary is one step for each key
(`DictStep`): where an older item stays, it has the hash of the new one.

### StateClassesProofs

`KindsAgreeAlways`. The metaclass takes the fields from the bases, the last one winning;
Python takes the descriptor from the first class of the resolution order that has one. The
two are compared through the resolution order, for which `LinearizeResult` says all that
is needed of C3: the order of a class starts with the class, the rest has the classes of
its bases' orders and no other, and with one base it is that base's order. It rests on
`StepOne` and `StepMembers`, what one step of the merge takes off. `ClassOK` is the
invariant of a class: its order starts with it and names only classes defined by then
(`OrderOK`); the kind of its field is an ancestor's (`FieldOfAncestor`); without a field
no ancestor has a kind (`NoFieldNoKind`); and if all its ancestors have at most one base
each, the field is what the first attribute gives (`FieldIsFirst`). For classes with
several bases of one kind `KindsAgree` follows from the second and third, since the first
attribute can only be of that kind. Nothing limits the number of bases. Definitions only
append, so the old classes keep what holds of them (`OldClasses`), and the new one's parts
are shown one by one (`NewFieldOfAncestor`, `NewNoFieldNoKind`, `NewFieldIsFirst`).

### LibraryProofs

`MigrationIsComplete`: what the loop has taken it has counted, but for the one under way;
and what it has counted is in the target or was deleted from it (`Copied`).
`HistoryRecoverable` is inductive by itself once entries are typed: a wrapper is only made
of what has just been put, and nothing is removed. `OneHydrationSuffices` likewise: while
all thresholds have been at least a wrapper's size, a wrapper is never wrapped. The
default threshold 0 is smaller and is not covered.

`NeverSwitchesAlways` is an action property. Imports only add modules, so the active
frameworks only grow (`ActiveGrows`); where one was detected it was the only one, and
either it still is or there are more than one and the answer is "ambiguous"
(`OnlyOneStays`). A name, given by the caller or by `configure`, is looked up in a table
that nothing changes.

`PartsImplemented`: a behaviour of `MCLibrary` is one of each of its parts, the fairness
of the migration included. So the theorems about the parts hold in the composition that
the run `library` checks; `LibraryTypeCorrect` is drawn from it.

### Loops without induction theorems

The induction theorems of the library take a predicate for a parameter, which no prover
here can instantiate. Where a loop has to be followed, it is written as a recursive
function of the number of its steps (`ListAppend`, `Linearize`) and not as a fold, and the
proofs go by the least counterexample: a set of numbers that is not empty has a least
element (`NatMin`, `LeastNumber`, from the well-foundedness of `<` on the numbers, a
theorem whose parameters are sets), and that one is led to a contradiction by the step.
That the function exists and satisfies its equations is shown in the same way.

### Only model-checked

* Liveness: `CallsReturn` of both stores, `MigrationEnds`, and the fairness half of
  `ImplementsContract`. `tlapm` does no liveness under fairness and no `ENABLED`. All
  other properties of the passing runs are theorems.
* What fails (`fs_durable`, `own_threshold`, `lossy`, `pg_prune_limit`,
  `pg_expired_read`, `reducers_lookalike`): a counterexample is all there is to show.

## 5. Not modelled

* The PostgreSQL server, the kernel, msgpack and pickle are modelled from what the code
  relies on; their own correctness is not in question here.
* Exceptions and package exports have no state and decide nothing. Of the type markers,
  the wrapped type is not followed: nothing at run time looks at it.
* `configure` is one step everywhere. It reads the runtime and writes a changed copy, so of
  two threads configuring at once one may be lost; nothing in the library depends on that.
* `commit=False` of the PostgreSQL store, and connections in autocommit mode.
* A field that several bases bring in both kinds: `KindsAgree` leaves it out. There the
  metadata go by the last base and the descriptor by the resolution order, and they do
  disagree; no document says which is meant.
* A snapshot of an asynchronous store at one moment, and updates of two tasks to one key
  that both count: the code promises neither and neither holds (`hazards`).
* In `FrameworkAdapters`: the deletion of content from a store, caches of references and
  values the codec does not bring back, all of which are in `AgentRefState`; wrappers nested
  three deep; plain dicts with the four keys of a reference, which
  `_to_content_ref_if_reference_like` takes for one; and `ContentRef` objects or wrappers
  inside an object that a node returns.
* PostgreSQL workers of which some give a lifetime and some none, on one table (section 3).

## 6. Plan

Stores came first, because everything else trusts them; then references, which are what
the library is for; then proofs of both; then what uses them: framework state, migration,
histories, and the operators of classes, reducers and detection, and proofs of these. What
could follow:

1. A contract of `iter_hashes` as a specification of its own, which `FilesystemCAS` and
   `PostgresCAS` implement and `Migration` uses in place of its own account of a listing.
2. `FrameworkAdapters` with deletions of content and the caches of `AgentRefState`.
3. PostgreSQL workers with different lifetimes, once it is decided what a put without one
   promises of a row that has expired.
