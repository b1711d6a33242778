---------------------- MODULE FrameworkAdaptersProofs ----------------------
(***************************************************************************)
(* RefsSound, ChannelsFaithful and HydratesAsWritten for any tasks, fields,  *)
(* values and stores.  Cells move between the framework's state, the tasks   *)
(* and checkpoints, so the invariant says of every one of them, wherever it  *)
(* is, that it is sound and what it stands for; and of a payload between its *)
(* put and its reference that it is where the reference will say, or crossed. *)
(***************************************************************************)
EXTENDS FrameworkAdapters, TLAPS

SoundCell(c, store) ==
    IsReference(c) => c.hash \in store[c.home] /\ (c.crossed \/ CanResolve(c.home, c.backend_id))

\* Cells that are sound and hold the values given.
Good(cells, values, store) ==
    \A f \in Fields : Holds(f, cells[f], values[f]) /\ SoundCell(cells[f], store)

\* What may be put.
Storable == Faithful \cup WrapperValues

\* The cell of a write under way, converted or not.
Wants(f, c, v) ==
    IF v = None THEN c = Missing
    ELSE \/ c = Raw(v) /\ v \in Domain[f] \cup WrapperValues
         \/ f \in Externalized /\ c \in Reference /\ Deserialize(c.hash, c.type_name) = v

MintingOK(p, want, store, backend) ==
    /\ p \in Minting
    /\ p.hash \in store[p.home]
    /\ p.crossed \/ p.home = backend
    /\ want[p.field] # None
    /\ Deserialize(p.hash, p.type_name) = want[p.field]

ReadingOK(x, store) ==
    /\ x \in Reading
    /\ Good(x.raw, x.given, store)
    /\ \A f \in Externalized : x.view[f] \in {None, x.given[f]}

WritingOK(x, store, backend) ==
    /\ x \in Writing
    /\ \A f \in Fields : Wants(f, x.cells[f], x.want[f]) /\ SoundCell(x.cells[f], store)
    /\ x.put # None => MintingOK(x.put, x.want, store, backend)

SnappingOK(x, store) == x \in Snapping /\ Good(x.got.cells, x.got.told, store)

TaskOK(x, store, backend) ==
    x = Idle \/ ReadingOK(x, store) \/ WritingOK(x, store, backend) \/ SnappingOK(x, store)

IInv ==
    /\ style \in Styles /\ own \in Stores \cup {None} /\ config \in Stores
    /\ cas \in [Stores -> SUBSET Content]
    /\ context \in [Fields -> Cell] /\ told \in Told
    /\ Good(context, told, cas)
    /\ task = [t \in Tasks |-> task[t]]
    /\ \A t \in Tasks : TaskOK(task[t], cas, Backend)

-----------------------------------------------------------------------------
(* Lemmas about cells and the codec. *)

LEMMA CellForms ==
    ASSUME NEW c \in Cell
    PROVE  /\ IsReference(c) <=> c \in Reference
           /\ c.form = "raw" <=> \E v \in Given : c = Raw(v)
           /\ c.form = "missing" <=> c = Missing
           /\ IsReference(c) \/ c.form \in {"raw", "bare"} \/ c = Missing
  BY DEF Cell, IsReference, Reference, Missing, Raw, Bare, Forms

LEMMA ValuesAre ==
    /\ Values \subseteq Faithful /\ None \notin Given
    /\ \A f \in Fields : Domain[f] \subseteq Values
  BY DomainAssumption, NoneAssumption DEF Values, Given, Faithful

LEMMA RoundTrip ==
    ASSUME NEW v \in Storable
    PROVE  /\ Serialize(v) \in Content /\ TypeName(v) \in TypeNames
           /\ Deserialize(Serialize(v), TypeName(v)) = v
<1>1. CASE v \in WrapperValues
  <2>1. v.shape = "plain"
    BY <1>1 DEF WrapperValues
  <2>2. Serialize(v) = [format |-> "msgpack", of |-> v] /\ TypeName(v) = "other"
    BY <2>1 DEF Serialize, TypeName
  <2> QED BY <1>1, <2>1, <2>2 DEF Content, Deserialize, TypeNames
<1>2. CASE v \in Faithful
  <2>1. CASE v.shape = "bytes"
    BY <1>2, <2>1 DEF Faithful, Serialize, Content, Payload, TypeName, TypeNames, Deserialize,
                      Value, Shapes
  <2>2. CASE v.shape = "plain"
    BY <1>2, <2>2 DEF Faithful, Serialize, Content, Payload, TypeName, TypeNames, Deserialize,
                      Value, Shapes
  <2>3. CASE v.shape = "object"
    BY <1>2, <2>3 DEF Faithful, Serialize, Content, Payload, TypeName, TypeNames, Deserialize,
                      Value, Shapes
  <2> QED BY <1>2, <2>1, <2>2, <2>3 DEF Faithful
<1> QED BY <1>1, <1>2 DEF Storable

\* A cell that has another form of the same reference is as good.
LEMMA FormIsNothing ==
    ASSUME NEW c \in Cell, NEW n \in Forms, IsReference(c), NEW store
    PROVE  /\ [c EXCEPT !.form = n] \in Cell
           /\ SoundCell(c, store) => SoundCell([c EXCEPT !.form = n], store)
           /\ \A f \in Externalized : \A v : Holds(f, c, v) => Holds(f, [c EXCEPT !.form = n], v)
<1> DEFINE d == [c EXCEPT !.form = n]
<1>1. c \in Reference
  BY CellForms
<1>2. /\ d \in Reference /\ d.form = n /\ d.hash = c.hash /\ d.type_name = c.type_name
      /\ d.home = c.home /\ d.crossed = c.crossed /\ d.backend_id = c.backend_id
  BY <1>1 DEF Reference
<1>3. d \in Cell /\ IsReference(d)
  BY <1>2 DEF Cell, IsReference
<1>4. SoundCell(c, store) => SoundCell(d, store)
  BY <1>2, <1>3 DEF SoundCell
<1>5. ASSUME NEW f \in Externalized, NEW v, Holds(f, c, v) PROVE Holds(f, d, v)
  <2>1. v # None
    BY <1>5, CellForms DEF Holds, IsReference, Missing, Forms
  <2>2. c # Bare(v)
    BY DEF IsReference, Bare, Forms
  <2> QED BY <1>2, <1>3, <1>5, <2>1, <2>2 DEF Holds
<1> QED BY <1>3, <1>4, <1>5

LEMMA MissingIsGood ==
    ASSUME NEW store, NEW f PROVE Holds(f, Missing, None) /\ SoundCell(Missing, store) /\ Missing \in Cell
  BY DEF Holds, SoundCell, IsReference, Missing, Forms, Cell

\* What is stored stays stored.
Grown(store, store1) == \A s \in Stores : store[s] \subseteq store1[s]

LEMMA SoundGrows ==
    ASSUME NEW c \in Cell, NEW store, NEW store1, Grown(store, store1), SoundCell(c, store)
    PROVE  SoundCell(c, store1)
<1>1. IsReference(c) => c.home \in Stores
  BY CellForms DEF Reference
<1> QED BY <1>1 DEF SoundCell, Grown

LEMMA GoodGrows ==
    ASSUME NEW cells \in [Fields -> Cell], NEW values, NEW store, NEW store1,
           Grown(store, store1), Good(cells, values, store)
    PROVE  Good(cells, values, store1)
<1>1. ASSUME NEW f \in Fields PROVE SoundCell(cells[f], store1)
  BY SoundGrows DEF Good
<1> QED BY <1>1 DEF Good

LEMMA TaskGrows ==
    ASSUME NEW x, NEW store, NEW store1, NEW b, Grown(store, store1), TaskOK(x, store, b)
    PROVE  TaskOK(x, store1, b)
<1>1. CASE ReadingOK(x, store)
  <2>1. x.raw \in [Fields -> Cell]
    BY <1>1 DEF ReadingOK, Reading
  <2> QED BY <1>1, <2>1, GoodGrows DEF ReadingOK, TaskOK
<1>2. CASE WritingOK(x, store, b)
  <2>1. x.cells \in [Fields -> Cell]
    BY <1>2 DEF WritingOK, Writing
  <2>2. \A f \in Fields : SoundCell(x.cells[f], store1)
    BY <1>2, <2>1, SoundGrows DEF WritingOK
  <2>3. x.put # None => MintingOK(x.put, x.want, store1, b)
    BY <1>2 DEF WritingOK, MintingOK, Minting, Grown
  <2> QED BY <1>2, <2>2, <2>3 DEF WritingOK, TaskOK
<1>3. CASE SnappingOK(x, store)
  <2>1. x.got.cells \in [Fields -> Cell]
    BY <1>3 DEF SnappingOK, Snapping, Checkpoint
  <2> QED BY <1>3, <2>1, GoodGrows DEF SnappingOK, TaskOK
<1> QED BY <1>1, <1>2, <1>3 DEF TaskOK

LEMMA AtReading ==
    ASSUME NEW t, TaskOK(task[t], cas, Backend), At(t, "reading") PROVE ReadingOK(task[t], cas)
  BY DEF TaskOK, At, Idle, WritingOK, Writing, SnappingOK, Snapping

LEMMA AtWriting ==
    ASSUME NEW t, TaskOK(task[t], cas, Backend), At(t, "writing")
    PROVE  WritingOK(task[t], cas, Backend)
  BY DEF TaskOK, At, Idle, ReadingOK, Reading, SnappingOK, Snapping

LEMMA AtSnapping ==
    ASSUME NEW t, TaskOK(task[t], cas, Backend), At(t, "snapping") PROVE SnappingOK(task[t], cas)
  BY DEF TaskOK, At, Idle, ReadingOK, Reading, WritingOK, Writing

LEMMA BackendType == IInv => Backend \in Stores
  BY DEF IInv, Backend

-----------------------------------------------------------------------------
(* Init and the steps. *)

LEMMA InitInv == Init => IInv
<1> SUFFICES ASSUME Init PROVE IInv
  OBVIOUS
<1>1. context \in [Fields -> Cell] /\ told \in Told /\ Good(context, told, cas)
  BY MissingIsGood DEF Init, Empty, Nothing, Told, Good
<1>2. \A t \in Tasks : TaskOK(task[t], cas, Backend)
  BY DEF Init, TaskOK
<1>3. style \in Styles /\ own \in Stores \cup {None} /\ config \in Stores
  BY StoresAssumption DEF Init
<1>4. cas \in [Stores -> SUBSET Content] /\ task = [t \in Tasks |-> task[t]]
  BY DEF Init
<1> QED BY <1>1, <1>2, <1>3, <1>4 DEF IInv

\* A step of one task that leaves the framework's state alone.
LEMMA OneTask ==
    ASSUME IInv, NEW t \in Tasks, NEW x,
           task' = [task EXCEPT ![t] = x], TaskOK(x, cas', Backend),
           cas' \in [Stores -> SUBSET Content], Grown(cas, cas'),
           UNCHANGED <<frame, context, told>>
    PROVE  IInv'
<1>1. Backend' = Backend /\ style' = style /\ own' = own /\ config' = config
      /\ context' = context /\ told' = told
  BY DEF frame, Backend
<1>2. Good(context, told, cas')
  BY GoodGrows DEF IInv
<1>3. ASSUME NEW r \in Tasks PROVE TaskOK(task'[r], cas', Backend)
  <2>1. TaskOK(task[r], cas', Backend)
    BY TaskGrows DEF IInv
  <2> QED BY <2>1 DEF IInv
<1>4. task' = [r \in Tasks |-> task'[r]]
  BY DEF IInv
<1> QED BY <1>1, <1>2, <1>3, <1>4 DEF IInv

LEMMA OneTaskAlone ==
    ASSUME IInv, NEW t \in Tasks, NEW x,
           task' = [task EXCEPT ![t] = x], TaskOK(x, cas, Backend),
           UNCHANGED <<frame, cas, context, told>>
    PROVE  IInv'
<1>1. cas' = cas /\ Grown(cas, cas') /\ cas' \in [Stores -> SUBSET Content]
  BY DEF Grown, IInv
<1> QED BY <1>1, OneTask

LEMMA FinishStep ==
    ASSUME IInv, NEW t \in Tasks, Finish(t), UNCHANGED <<frame, cas, context, told>>
    PROVE  IInv'
<1>1. TaskOK(Idle, cas, Backend)
  BY DEF TaskOK
<1> QED BY <1>1, OneTaskAlone DEF Finish

LEMMA ReadStep ==
    ASSUME IInv, NEW t \in Tasks, NEW F \in Keys, Read(t, F) PROVE IInv'
<1> DEFINE raw == [f \in Fields |-> IF f \in F THEN context[f] ELSE Missing]
           given == [f \in Fields |-> IF f \in F THEN told[f] ELSE None]
           x == [at |-> "reading", view |-> Nothing, raw |-> raw, given |-> given]
<1>1. raw \in [Fields -> Cell] /\ given \in Told
  BY MissingIsGood DEF IInv, Told
<1>2. Good(raw, given, cas)
  BY MissingIsGood DEF IInv, Good
<1>3. Nothing \in [Fields -> Given \cup {None}] /\ \A f \in Externalized : Nothing[f] = None
  BY DEF Nothing, Fields
<1> HIDE DEF raw, given
<1>4. x \in Reading
  BY <1>1, <1>3 DEF Reading
<1>5. ReadingOK(x, cas)
  BY <1>2, <1>3, <1>4 DEF ReadingOK
<1>6. task' = [task EXCEPT ![t] = x]
  BY DEF Read, raw, given
<1> QED BY <1>5, <1>6, OneTaskAlone DEF TaskOK, Read

LEMMA HydrateStep ==
    ASSUME IInv, NEW t \in Tasks, NEW f \in Externalized, Hydrate(t, f) PROVE IInv'
<1> DEFINE c == task[t].raw[f]
           v == Deserialize(c.hash, c.type_name)
           x == [task[t] EXCEPT !.view = [@ EXCEPT ![f] = v]]
<1>1. ReadingOK(task[t], cas)
  BY AtReading DEF Hydrate, IInv
<1>2. f \in Fields /\ c \in Cell /\ IsReference(c) /\ Holds(f, c, task[t].given[f])
  BY <1>1 DEF ReadingOK, Reading, Good, Fields, Hydrate, ToHydrate
<1>3. task[t].given[f] # None
  BY <1>2, CellForms DEF Holds, IsReference, Missing, Forms
<1>4. v = task[t].given[f]
  BY <1>2, <1>3 DEF Holds, IsReference, Bare, Forms
<1>5. v \in Given
  BY <1>1, <1>2, <1>3, <1>4 DEF ReadingOK, Reading, Told
<1>6. task' = [task EXCEPT ![t] = x]
  BY DEF Hydrate
<1> HIDE DEF v, c
<1>7. /\ x \in Reading /\ x.raw = task[t].raw /\ x.given = task[t].given
      /\ x.view = [task[t].view EXCEPT ![f] = v]
  BY <1>1, <1>5 DEF ReadingOK, Reading
<1>8. \A g \in Externalized : x.view[g] \in {None, x.given[g]}
  BY <1>1, <1>4, <1>7 DEF ReadingOK, Reading, Fields
<1>9. ReadingOK(x, cas)
  BY <1>1, <1>7, <1>8 DEF ReadingOK
<1> QED BY <1>6, <1>9, OneTaskAlone DEF TaskOK, Hydrate

LEMMA WriteStep ==
    ASSUME IInv, NEW t \in Tasks, NEW F \in Keys, NEW vals \in [F -> Values],
           \A f \in F : vals[f] \in Domain[f], Write(t, vals)
    PROVE  IInv'
<1> DEFINE cells == [f \in Fields |-> IF f \in DOMAIN vals THEN Raw(vals[f]) ELSE Missing]
           want == [f \in Fields |-> IF f \in DOMAIN vals THEN vals[f] ELSE None]
           x == [at |-> "writing", put |-> None, cells |-> cells, want |-> want]
<1>1. DOMAIN vals = F
  OBVIOUS
<1>2. cells \in [Fields -> Cell] /\ want \in Told
  BY <1>1 DEF Cell, Told, Given
<1>3. ASSUME NEW f \in Fields PROVE Wants(f, cells[f], want[f]) /\ SoundCell(cells[f], cas)
  <2>1. CASE f \in F
    <3>1. cells[f] = Raw(vals[f]) /\ want[f] = vals[f] /\ vals[f] \in Values
      BY <1>1, <2>1
    <3>2. Wants(f, cells[f], want[f])
      BY <2>1, <3>1, ValuesAre DEF Wants, Given
    <3>3. ~IsReference(cells[f])
      BY <3>1 DEF IsReference, Raw, Forms
    <3> QED BY <3>2, <3>3 DEF SoundCell
  <2>2. CASE f \notin F
    <3>1. cells[f] = Missing /\ want[f] = None
      BY <1>1, <2>2
    <3> QED BY <3>1, MissingIsGood DEF Wants
  <2> QED BY <2>1, <2>2
<1>6. task' = [task EXCEPT ![t] = x]
  BY DEF Write
<1> HIDE DEF cells, want
<1>4. x \in Writing
  BY <1>2 DEF Writing
<1>5. WritingOK(x, cas, Backend)
  BY <1>3, <1>4 DEF WritingOK
<1> QED BY <1>5, <1>6, OneTaskAlone DEF TaskOK, Write

LEMMA ForwardStep ==
    ASSUME IInv, NEW t \in Tasks, NEW f \in Externalized, NEW g \in Externalized, Forward(t, f, g)
    PROVE  IInv'
<1> DEFINE c == context[g]
           v == told[g]
           cells == [Empty EXCEPT ![f] = c]
           want == [Nothing EXCEPT ![f] = v]
           x == [at |-> "writing", put |-> None, cells |-> cells, want |-> want]
<1>1. /\ f \in Fields /\ g \in Fields /\ c \in Cell /\ v \in Given \cup {None}
      /\ Holds(g, c, v) /\ SoundCell(c, cas)
  BY DEF IInv, Good, Fields, Told
<1>2. c \in Reference /\ IsReference(c)
  BY <1>1, CellForms DEF Forward, IsReference, Forms
<1>3. v # None /\ Deserialize(c.hash, c.type_name) = v
  BY <1>1, <1>2 DEF Holds, IsReference, Missing, Bare, Forms
<1>4. task' = [task EXCEPT ![t] = x]
  BY DEF Forward
<1> HIDE DEF c, v
<1>5. cells \in [Fields -> Cell] /\ want \in Told
  BY <1>1, MissingIsGood DEF Empty, Nothing, Told
<1>6. ASSUME NEW h \in Fields PROVE Wants(h, cells[h], want[h]) /\ SoundCell(cells[h], cas)
  <2>1. CASE h = f
    <3>1. cells[h] = c /\ want[h] = v
      BY <1>1, <2>1 DEF Empty, Nothing
    <3> QED BY <1>1, <1>2, <1>3, <2>1, <3>1 DEF Wants
  <2>2. CASE h # f
    <3>1. cells[h] = Missing /\ want[h] = None
      BY <1>1, <2>2 DEF Empty, Nothing
    <3> QED BY <3>1, MissingIsGood DEF Wants
  <2> QED BY <2>1, <2>2
<1> HIDE DEF cells, want
<1>7. x \in Writing
  BY <1>5 DEF Writing
<1>8. WritingOK(x, cas, Backend)
  BY <1>6, <1>7 DEF WritingOK
<1> QED BY <1>4, <1>8, OneTaskAlone DEF TaskOK, Forward

LEMMA ForwardWrapperStep ==
    ASSUME IInv, NEW t \in Tasks, NEW f \in Externalized, NEW g \in Externalized,
           ForwardWrapper(t, f, g)
    PROVE  IInv'
<1> DEFINE v == WrapperValue(context[g])
           cells == [Empty EXCEPT ![f] = Raw(v)]
           want == [Nothing EXCEPT ![f] = v]
           x == [at |-> "writing", put |-> None, cells |-> cells, want |-> want]
<1>1. v \in WrapperValues
  BY DEF ForwardWrapper, WrapperValue, WrapperValues
<1>2. task' = [task EXCEPT ![t] = x]
  BY DEF ForwardWrapper
<1> HIDE DEF v
<1>3. f \in Fields /\ v \in Given /\ v # None /\ Raw(v) \in Cell
  BY <1>1, ValuesAre DEF Fields, Given, Cell
<1>4. cells \in [Fields -> Cell] /\ want \in Told
  BY <1>3, MissingIsGood DEF Empty, Nothing, Told
<1>5. ASSUME NEW h \in Fields PROVE Wants(h, cells[h], want[h]) /\ SoundCell(cells[h], cas)
  <2>1. CASE h = f
    <3>1. cells[h] = Raw(v) /\ want[h] = v
      BY <1>3, <2>1 DEF Empty, Nothing
    <3>2. Wants(h, cells[h], want[h])
      BY <1>1, <1>3, <3>1 DEF Wants
    <3>3. ~IsReference(cells[h])
      BY <3>1 DEF IsReference, Raw, Forms
    <3> QED BY <3>2, <3>3 DEF SoundCell
  <2>2. CASE h # f
    <3>1. cells[h] = Missing /\ want[h] = None
      BY <1>3, <2>2 DEF Empty, Nothing
    <3> QED BY <3>1, MissingIsGood DEF Wants
  <2> QED BY <2>1, <2>2
<1> HIDE DEF cells, want
<1>6. x \in Writing
  BY <1>4 DEF Writing
<1>7. WritingOK(x, cas, Backend)
  BY <1>5, <1>6 DEF WritingOK
<1> QED BY <1>2, <1>7, OneTaskAlone DEF TaskOK, ForwardWrapper

\* What a task that writes is about to put is one of the field's own values, or a wrapper.
LEMMA ToPut ==
    ASSUME NEW x, NEW store, NEW b, WritingOK(x, store, b),
           NEW f \in Externalized, x.cells[f].form = "raw"
    PROVE  /\ f \in Fields /\ x.cells[f].value = x.want[f] /\ x.want[f] # None
           /\ x.want[f] \in Storable
<1>1. f \in Fields /\ x.cells[f] \in Cell /\ Wants(f, x.cells[f], x.want[f])
  BY DEF WritingOK, Writing, Fields
<1>2. x.cells[f] # Missing /\ x.cells[f] \notin Reference
  BY CellForms DEF Missing, Reference, Forms
<1>3. x.cells[f] = Raw(x.want[f]) /\ x.want[f] \in Domain[f] \cup WrapperValues /\ x.want[f] # None
  BY <1>1, <1>2 DEF Wants
<1> QED BY <1>1, <1>3, ValuesAre DEF Raw, Storable

LEMMA PutStep ==
    ASSUME IInv, NEW t \in Tasks, NEW f \in Externalized, Put(t, f) PROVE IInv'
<1> DEFINE v == task[t].cells[f].value
           p == [field |-> f, hash |-> Serialize(v), type_name |-> TypeName(v),
                 home |-> Backend, crossed |-> FALSE]
           x == [task[t] EXCEPT !.put = p]
<1>1. WritingOK(task[t], cas, Backend)
  BY AtWriting DEF Put, IInv
<1>2. f \in Fields /\ v = task[t].want[f] /\ v # None /\ v \in Storable
  BY <1>1, ToPut DEF Put, ToExternalize
<1>3. /\ cas' = [cas EXCEPT ![Backend] = @ \cup {Serialize(v)}]
      /\ task' = [task EXCEPT ![t] = x]
  BY DEF Put
<1>0. Backend \in Stores /\ cas \in [Stores -> SUBSET Content]
  BY BackendType DEF IInv
<1> HIDE DEF v
<1>4. Serialize(v) \in Content /\ TypeName(v) \in TypeNames /\ Deserialize(Serialize(v), TypeName(v)) = v
  BY <1>2, RoundTrip
<1>5. /\ cas' \in [Stores -> SUBSET Content] /\ Grown(cas, cas')
      /\ Serialize(v) \in cas'[Backend]
  BY <1>0, <1>3, <1>4 DEF Grown
<1>6. p \in Minting
  BY <1>0, <1>4 DEF Minting
<1>7. MintingOK(p, task[t].want, cas', Backend)
  BY <1>2, <1>4, <1>5, <1>6 DEF MintingOK
<1>8. WritingOK(task[t], cas', Backend)
  <2>1. task[t].cells \in [Fields -> Cell]
    BY <1>1 DEF WritingOK, Writing
  <2>2. \A g \in Fields : SoundCell(task[t].cells[g], cas')
    BY <1>1, <1>5, <2>1, SoundGrows DEF WritingOK
  <2>3. task[t].put = None
    BY DEF Put
  <2> QED BY <1>1, <2>2, <2>3 DEF WritingOK
<1> HIDE DEF p
<1>9. /\ x \in Writing /\ x.cells = task[t].cells /\ x.want = task[t].want /\ x.put = p
  BY <1>1, <1>6 DEF WritingOK, Writing
<1>10. WritingOK(x, cas', Backend)
  BY <1>7, <1>8, <1>9 DEF WritingOK
<1> QED BY <1>3, <1>5, <1>10, OneTask DEF TaskOK, Put

LEMMA MintStep ==
    ASSUME IInv, NEW t \in Tasks, Mint(t) PROVE IInv'
<1> DEFINE p == task[t].put
           c == [form |-> "ref", hash |-> p.hash, backend_id |-> BackendId[Backend],
                 type_name |-> p.type_name, home |-> p.home, crossed |-> p.crossed]
           x == [task[t] EXCEPT !.put = None, !.cells = [@ EXCEPT ![p.field] = c]]
<1>1. WritingOK(task[t], cas, Backend)
  BY AtWriting DEF Mint, IInv
<1>2. MintingOK(p, task[t].want, cas, Backend)
  BY <1>1 DEF Mint, WritingOK
<1>3. task' = [task EXCEPT ![t] = x]
  BY DEF Mint
<1>4. Backend \in Stores /\ BackendId[Backend] \in BackendIds
  BY BackendType, StoresAssumption
<1>5. c \in Reference /\ c \in Cell /\ p.field \in Externalized /\ p.field \in Fields
  BY <1>2, <1>4 DEF MintingOK, Minting, Reference, Forms, Cell, Fields
<1>6. SoundCell(c, cas)
  BY <1>2 DEF MintingOK, SoundCell, CanResolve
<1>7. Wants(p.field, c, task[t].want[p.field])
  BY <1>2, <1>5 DEF MintingOK, Wants
<1> HIDE DEF c, p
<1>8. /\ x \in Writing /\ x.want = task[t].want /\ x.put = None
      /\ x.cells = [task[t].cells EXCEPT ![p.field] = c]
  BY <1>1, <1>5 DEF WritingOK, Writing
<1>9. ASSUME NEW f \in Fields PROVE Wants(f, x.cells[f], x.want[f]) /\ SoundCell(x.cells[f], cas)
  <2>1. CASE f = p.field
    <3>1. x.cells[f] = c
      BY <1>1, <1>8, <2>1 DEF WritingOK, Writing
    <3> QED BY <1>6, <1>7, <1>8, <2>1, <3>1
  <2>2. CASE f # p.field
    <3>1. x.cells[f] = task[t].cells[f]
      BY <1>1, <1>8, <2>2 DEF WritingOK, Writing
    <3> QED BY <1>1, <1>8, <3>1 DEF WritingOK
  <2> QED BY <2>1, <2>2
<1>10. WritingOK(x, cas, Backend)
  BY <1>8, <1>9 DEF WritingOK
<1> QED BY <1>3, <1>10, OneTaskAlone DEF TaskOK, Mint

\* A converted cell is written as what it stands for.
LEMMA StoredHolds ==
    ASSUME NEW f \in Fields, NEW c \in Cell, NEW v, NEW store, c # Missing,
           Wants(f, c, v), SoundCell(c, store), f \in Externalized => c.form # "raw"
    PROVE  Stored(c) \in Cell /\ Holds(f, Stored(c), v) /\ SoundCell(Stored(c), store)
<1>1. v # None
  BY DEF Wants
<1>2. CASE c = Raw(v)
  <2>1. f \notin Externalized /\ ~IsReference(c)
    BY <1>2 DEF Raw, IsReference, Forms
  <2>2. Stored(c) = c
    BY <2>1 DEF Stored
  <2> QED BY <1>1, <1>2, <2>1, <2>2 DEF Holds
<1>3. CASE c # Raw(v)
  <2>1. f \in Externalized /\ c \in Reference /\ Deserialize(c.hash, c.type_name) = v
    BY <1>1, <1>3 DEF Wants
  <2>2. IsReference(c) /\ Holds(f, c, v)
    BY <1>1, <2>1, CellForms DEF Holds
  <2>3. PICK n \in Forms : Stored(c) = [c EXCEPT !.form = n]
    BY <2>2 DEF Stored, Forms
  <2> QED BY <2>1, <2>2, <2>3, FormIsNothing
<1> QED BY <1>2, <1>3

LEMMA ApplyStep ==
    ASSUME IInv, NEW t \in Tasks, Apply(t) PROVE IInv'
<1> DEFINE cells == task[t].cells
           given == {f \in Fields : cells[f] # Missing}
<1>1. WritingOK(task[t], cas, Backend)
  BY AtWriting DEF Apply, IInv
<1>2. cells \in [Fields -> Cell] /\ task[t].want \in Told
  BY <1>1 DEF WritingOK, Writing
<1>3. /\ context' = [f \in Fields |-> IF f \in given THEN Stored(cells[f]) ELSE context[f]]
      /\ told' = [f \in Fields |-> IF f \in given THEN task[t].want[f] ELSE told[f]]
      /\ \A f \in Externalized : cells[f].form # "raw"
      /\ task' = [task EXCEPT ![t] = Idle]
      /\ style' = style /\ own' = own /\ config' = config /\ cas' = cas
  BY DEF Apply, Replace, ToExternalize, Finish, frame
<1>4. ASSUME NEW f \in Fields
      PROVE  context'[f] \in Cell /\ Holds(f, context'[f], told'[f]) /\ SoundCell(context'[f], cas)
  <2>1. CASE f \in given
    <3>1. context'[f] = Stored(cells[f]) /\ told'[f] = task[t].want[f]
      BY <1>3, <2>1
    <3>2. Wants(f, cells[f], task[t].want[f]) /\ SoundCell(cells[f], cas)
      BY <1>1 DEF WritingOK
    <3> HIDE DEF cells
    <3>3. cells[f] \in Cell /\ cells[f] # Missing
      BY <1>2, <2>1
    <3> QED BY <1>3, <3>1, <3>2, <3>3, StoredHolds
  <2>2. CASE f \notin given
    <3>1. context'[f] = context[f] /\ told'[f] = told[f]
      BY <1>3, <2>2
    <3> QED BY <3>1 DEF IInv, Good
  <2> QED BY <2>1, <2>2
<1>5. context' \in [Fields -> Cell]
  BY <1>3, <1>4
<1>6. told' \in Told
  BY <1>2, <1>3 DEF Told, IInv
<1>7. Good(context', told', cas)
  BY <1>4 DEF Good
<1>8. Backend' = Backend
  BY <1>3 DEF Backend
<1>9. \A r \in Tasks : TaskOK(task'[r], cas, Backend)
  BY <1>3 DEF IInv, TaskOK
<1>10. task' = [r \in Tasks |-> task'[r]]
  BY <1>3 DEF IInv
<1> QED BY <1>3, <1>5, <1>6, <1>7, <1>8, <1>9, <1>10 DEF IInv

\* A step that changes the framework's state alone.
LEMMA ContextAlone ==
    ASSUME IInv, UNCHANGED <<frame, cas, task>>,
           context' \in [Fields -> Cell], told' \in Told, Good(context', told', cas)
    PROVE  IInv'
<1>1. Backend' = Backend /\ style' = style /\ own' = own /\ config' = config
      /\ cas' = cas /\ task' = task
  BY DEF frame, Backend
<1> QED BY <1>1 DEF IInv

LEMMA ReturnObjectStep ==
    ASSUME IInv, NEW t \in Tasks, NEW F \in Keys, NEW vals \in [F -> Values],
           ReturnObject(t, vals)
    PROVE  IInv'
<1> DEFINE Given1(f) == IF f \in Externalized THEN Bare(vals[f]) ELSE Raw(vals[f])
<1>1. /\ context' = [f \in Fields |-> IF f \in F THEN Given1(f) ELSE context[f]]
      /\ told' = [f \in Fields |-> IF f \in F THEN vals[f] ELSE told[f]]
  BY DEF ReturnObject, Replace
<1>2. ASSUME NEW f \in Fields
      PROVE  /\ context'[f] \in Cell /\ told'[f] \in Given \cup {None}
             /\ Holds(f, context'[f], told'[f]) /\ SoundCell(context'[f], cas)
  <2>1. CASE f \in F
    <3>1. context'[f] = Given1(f) /\ told'[f] = vals[f] /\ vals[f] \in Values
      BY <1>1, <2>1
    <3>2. vals[f] \in Given /\ vals[f] # None
      BY <3>1, ValuesAre DEF Given
    <3>3. Given1(f) \in Cell /\ ~IsReference(Given1(f))
      BY <3>1, <3>2 DEF Cell, IsReference, Raw, Bare, Forms
    <3>4. Holds(f, context'[f], told'[f])
      BY <3>1, <3>2 DEF Holds
    <3> QED BY <3>1, <3>2, <3>3, <3>4 DEF SoundCell
  <2>2. CASE f \notin F
    <3>1. context'[f] = context[f] /\ told'[f] = told[f]
      BY <1>1, <2>2
    <3> QED BY <3>1 DEF IInv, Good, Told
  <2> QED BY <2>1, <2>2
<1> HIDE DEF Given1
<1>3. context' \in [Fields -> Cell] /\ told' \in Told
  BY <1>1, <1>2 DEF Told
<1>4. Good(context', told', cas)
  BY <1>2 DEF Good
<1> QED BY <1>3, <1>4, ContextAlone DEF ReturnObject

LEMMA DeleteKeyStep ==
    ASSUME IInv, NEW t \in Tasks, NEW f \in Fields, DeleteKey(t, f) PROVE IInv'
<1>1. context' = [context EXCEPT ![f] = Missing] /\ told' = [told EXCEPT ![f] = None]
  BY DEF DeleteKey
<1>2. context' \in [Fields -> Cell] /\ told' \in Told
  BY <1>1, MissingIsGood DEF IInv, Told
<1>3. Good(context', told', cas)
  BY <1>1, MissingIsGood DEF IInv, Good, Told
<1> QED BY <1>2, <1>3, ContextAlone DEF DeleteKey

LEMMA SnapStep ==
    ASSUME IInv, NEW t \in Tasks, Snap(t) PROVE IInv'
<1> DEFINE x == [at |-> "snapping", left |-> Fields, got |-> [cells |-> Empty, told |-> Nothing]]
<1>1. Empty \in [Fields -> Cell] /\ Nothing \in Told /\ Good(Empty, Nothing, cas)
  BY MissingIsGood DEF Empty, Nothing, Told, Good
<1>2. SnappingOK(x, cas)
  BY <1>1 DEF SnappingOK, Snapping, Checkpoint, Told
<1>3. task' = [task EXCEPT ![t] = x]
  BY DEF Snap
<1> QED BY <1>2, <1>3, OneTaskAlone DEF TaskOK, Snap

LEMMA SnapFieldStep ==
    ASSUME IInv, NEW t \in Tasks, NEW f \in Fields, SnapField(t, f) PROVE IInv'
<1> DEFINE got == task[t].got
           cells == [got.cells EXCEPT ![f] = context[f]]
           values == [got.told EXCEPT ![f] = told[f]]
           x == [task[t] EXCEPT !.left = @ \ {f}, !.got = [cells |-> cells, told |-> values]]
<1>1. SnappingOK(task[t], cas)
  BY AtSnapping DEF SnapField, IInv
<1>2. got.cells \in [Fields -> Cell] /\ got.told \in Told /\ Good(got.cells, got.told, cas)
  BY <1>1 DEF SnappingOK, Snapping, Checkpoint
<1>3. context \in [Fields -> Cell] /\ told \in Told /\ Good(context, told, cas)
  BY DEF IInv
<1>4. task' = [task EXCEPT ![t] = x]
  BY DEF SnapField
<1> HIDE DEF got
<1>5. cells \in [Fields -> Cell] /\ values \in Told
  BY <1>2, <1>3 DEF Told
<1>6. Good(cells, values, cas)
  BY <1>2, <1>3 DEF Good, Told
<1> HIDE DEF cells, values
<1>7. x \in Snapping /\ x.got.cells = cells /\ x.got.told = values
  BY <1>1, <1>5 DEF SnappingOK, Snapping, Checkpoint
<1>8. SnappingOK(x, cas)
  BY <1>6, <1>7 DEF SnappingOK
<1> QED BY <1>4, <1>8, OneTaskAlone DEF TaskOK, SnapField

LEMMA CheckpointsGood ==
    ASSUME IInv, NEW checkpoint \in Checkpoints
    PROVE  /\ checkpoint.cells \in [Fields -> Cell] /\ checkpoint.told \in Told
           /\ Good(checkpoint.cells, checkpoint.told, cas)
<1>1. CASE style = "async"
  <2>1. PICK t \in Tasks : At(t, "snapping") /\ checkpoint = task[t].got
    BY <1>1 DEF Checkpoints
  <2>2. SnappingOK(task[t], cas)
    BY <2>1, AtSnapping DEF IInv
  <2> QED BY <2>1, <2>2 DEF SnappingOK, Snapping, Checkpoint
<1>2. CASE style # "async"
  <2>1. checkpoint = [cells |-> context, told |-> told]
    BY <1>2 DEF Checkpoints
  <2> QED BY <2>1 DEF IInv
<1> QED BY <1>1, <1>2

LEMMA RestoredGood ==
    ASSUME NEW cells \in [Fields -> Cell], NEW values, NEW store, Good(cells, values, store),
           NEW restored \in Restored(cells)
    PROVE  restored \in [Fields -> Cell] /\ Good(restored, values, store)
<1>1. CASE restored = cells
  BY <1>1
<1>2. CASE restored = Instance(cells)
  <2>1. ASSUME NEW f \in Fields
        PROVE  /\ restored[f] \in Cell
               /\ Holds(f, restored[f], values[f]) /\ SoundCell(restored[f], store)
    <3>1. CASE f \in Externalized /\ IsReference(cells[f])
      <4>1. restored[f] = [cells[f] EXCEPT !.form = "ref"]
        BY <1>2, <3>1 DEF Instance, Normalized, AsRef
      <4>2. "ref" \in Forms
        BY DEF Forms
      <4> QED BY <3>1, <4>1, <4>2, FormIsNothing DEF Good
    <3>2. CASE ~(f \in Externalized /\ IsReference(cells[f]))
      <4>1. restored[f] = cells[f]
        BY <1>2, <3>2 DEF Instance, Normalized
      <4> QED BY <4>1 DEF Good
    <3> QED BY <3>1, <3>2
  <2>2. restored \in [Fields -> Cell]
    BY <1>2, <2>1 DEF Instance
  <2> QED BY <2>1, <2>2 DEF Good
<1> QED BY <1>1, <1>2 DEF Restored

LEMMA ResumeStep ==
    ASSUME IInv, NEW o \in {None, Default}, NEW checkpoint \in Checkpoints,
           NEW cells \in Restored(checkpoint.cells), Resume(o, checkpoint, cells)
    PROVE  IInv'
<1>1. cells \in [Fields -> Cell] /\ checkpoint.told \in Told /\ Good(cells, checkpoint.told, cas)
  BY CheckpointsGood, RestoredGood
<1>2. /\ own' = o /\ config' = Default /\ context' = cells /\ told' = checkpoint.told
      /\ task' = [t \in Tasks |-> Idle] /\ style' = style /\ cas' = cas
  BY DEF Resume
<1>3. \A t \in Tasks : TaskOK(task'[t], cas', Backend')
  BY <1>2 DEF TaskOK
<1>4. task' = [t \in Tasks |-> task'[t]]
  BY <1>2
<1> QED BY <1>1, <1>2, <1>3, <1>4, StoresAssumption DEF IInv

\* A payload whose reference is not made yet is crossed, unless the runtime is the adapter's own.
LEMMA ConfigureStep ==
    ASSUME IInv, NEW s \in Stores, Configure(s) PROVE IInv'
<1> DEFINE Crossing(t) == own = None /\ At(t, "writing") /\ task[t].put # None
           Crossed(t) == [task[t] EXCEPT !.put = [@ EXCEPT !.crossed = TRUE]]
<1>1. /\ config' = s /\ style' = style /\ own' = own /\ cas' = cas
      /\ context' = context /\ told' = told
      /\ task' = [t \in Tasks |-> IF Crossing(t) THEN Crossed(t) ELSE task[t]]
  BY DEF Configure
<1>2. own # None => Backend' = Backend
  BY <1>1 DEF Backend
<1>3. ASSUME NEW t \in Tasks PROVE TaskOK(task'[t], cas, Backend')
  <2>1. TaskOK(task[t], cas, Backend)
    BY DEF IInv
  <2>2. CASE Crossing(t)
    <3>1. WritingOK(task[t], cas, Backend)
      BY <2>1, <2>2, AtWriting
    <3>2. MintingOK(task[t].put, task[t].want, cas, Backend)
      BY <2>2, <3>1 DEF WritingOK
    <3> DEFINE p == [task[t].put EXCEPT !.crossed = TRUE]
    <3>3. MintingOK(p, task[t].want, cas, Backend')
      BY <3>2 DEF MintingOK, Minting
    <3>4. /\ Crossed(t) \in Writing /\ Crossed(t).put = p
          /\ Crossed(t).cells = task[t].cells /\ Crossed(t).want = task[t].want
      BY <3>1, <3>3 DEF WritingOK, Writing, MintingOK
    <3> HIDE DEF Crossed, p
    <3>5. WritingOK(Crossed(t), cas, Backend')
      BY <3>1, <3>3, <3>4 DEF WritingOK
    <3> QED BY <1>1, <2>2, <3>5 DEF TaskOK
  <2>3. CASE ~Crossing(t)
    <3>1. task'[t] = task[t]
      BY <1>1, <2>3
    <3>2. CASE own # None
      BY <1>2, <2>1, <3>1, <3>2
    <3>3. CASE At(t, "writing") /\ own = None
      <4>1. WritingOK(task[t], cas, Backend) /\ task[t].put = None
        BY <2>1, <2>3, <3>3, AtWriting
      <4>2. WritingOK(task[t], cas, Backend')
        BY <4>1 DEF WritingOK
      <4> QED BY <3>1, <4>2 DEF TaskOK
    <3>4. CASE ~At(t, "writing")
      <4>1. task[t] = Idle \/ ReadingOK(task[t], cas) \/ SnappingOK(task[t], cas)
        BY <2>1, <3>4 DEF TaskOK, WritingOK, Writing, At
      <4> QED BY <3>1, <4>1 DEF TaskOK
    <3> QED BY <3>2, <3>3, <3>4
  <2> QED BY <2>2, <2>3
<1>4. task' = [t \in Tasks |-> task'[t]]
  BY <1>1
<1> HIDE DEF Crossing, Crossed
<1> QED BY <1>1, <1>3, <1>4 DEF IInv

LEMMA StepInv ==
    ASSUME IInv, NEW t \in Tasks, Step(t) PROVE IInv'
<1>1. CASE \E F \in Keys : Read(t, F)
  BY <1>1, ReadStep
<1>2. CASE \E f \in Externalized : Hydrate(t, f) \/ Put(t, f)
  BY <1>2, HydrateStep, PutStep
<1>3. CASE ReadFails(t) \/ ReadEnds(t) \/ WriteFails(t) \/ SnapEnds(t)
  BY <1>3, FinishStep DEF ReadFails, ReadEnds, WriteFails, SnapEnds
<1>4. CASE \E F \in Keys : \E vals \in [F -> Values] :
              (\A f \in F : vals[f] \in Domain[f]) /\ (Write(t, vals) \/ ReturnObject(t, vals))
  BY <1>4, WriteStep, ReturnObjectStep
<1>5. CASE \E f, g \in Externalized : Forward(t, f, g) \/ ForwardWrapper(t, f, g)
  BY <1>5, ForwardStep, ForwardWrapperStep
<1>6. CASE Mint(t) \/ Apply(t) \/ Snap(t)
  BY <1>6, MintStep, ApplyStep, SnapStep
<1>7. CASE \E f \in Fields : SnapField(t, f) \/ DeleteKey(t, f)
  BY <1>7, SnapFieldStep, DeleteKeyStep
<1> QED BY <1>1, <1>2, <1>3, <1>4, <1>5, <1>6, <1>7 DEF Step

LEMMA NextIInv == IInv /\ [Next]_vars => IInv'
<1>1. ASSUME IInv, Next PROVE IInv'
  BY <1>1, StepInv, ResumeStep, ConfigureStep DEF Next
<1>2. ASSUME IInv, UNCHANGED vars PROVE IInv'
  <2>1. Backend' = Backend /\ \A t \in Tasks : task'[t] = task[t]
    BY <1>2 DEF vars, Backend
  <2> QED BY <1>2, <2>1 DEF IInv, vars
<1> QED BY <1>1, <1>2

-----------------------------------------------------------------------------
(* Theorems *)

LEMMA IInvTypeOK == IInv => TypeOK
<1> SUFFICES ASSUME IInv PROVE TypeOK
  OBVIOUS
<1>1. ASSUME NEW t \in Tasks PROVE task[t] \in {Idle} \cup Reading \cup Writing \cup Snapping
  BY DEF IInv, TaskOK, ReadingOK, WritingOK, SnappingOK
<1>2. task \in [Tasks -> {Idle} \cup Reading \cup Writing \cup Snapping]
  BY <1>1 DEF IInv
<1> QED BY <1>2 DEF IInv, TypeOK

LEMMA LiveCellsSound == IInv => \A c \in LiveCells : SoundCell(c, cas)
<1> SUFFICES ASSUME IInv, NEW c \in LiveCells PROVE SoundCell(c, cas)
  OBVIOUS
<1>1. CASE c \in {context[f] : f \in Fields}
  BY <1>1 DEF IInv, Good
<1>2. ASSUME NEW t \in Tasks, c \in ReadCells(t) PROVE SoundCell(c, cas)
  BY <1>2, AtReading DEF ReadCells, IInv, ReadingOK, Good
<1>3. ASSUME NEW t \in Tasks, c \in WriteCells(t) PROVE SoundCell(c, cas)
  BY <1>3, AtWriting DEF WriteCells, IInv, WritingOK
<1>4. ASSUME NEW t \in Tasks, c \in SnapCells(t) PROVE SoundCell(c, cas)
  BY <1>4, AtSnapping DEF SnapCells, IInv, SnappingOK, Good
<1> QED BY <1>1, <1>2, <1>3, <1>4 DEF LiveCells

\* Every reachable state of the framework, its tasks and the stores is well typed.
THEOREM TypeCorrect == Spec => []TypeOK
<1> QED BY InitInv, NextIInv, IInvTypeOK, PTL DEF Spec

\* Every reference, in the framework's state, in a task or in a checkpoint under way, has
\* its content in the store it was put to, and names that store unless it was crossed.
THEOREM ReferencesSound == Spec => []RefsSound
<1>1. IInv => RefsSound
  BY LiveCellsSound DEF RefsSound, SoundCell
<1> QED BY <1>1, InitInv, NextIInv, PTL DEF Spec

\* The framework's state and checkpoints hold what was written last, field by field: by
\* reference, or as it is where it came in an object that wrap_node leaves alone.
THEOREM ChannelsAreFaithful == Spec => []ChannelsFaithful
<1>1. IInv => ChannelsFaithful
  <2> SUFFICES ASSUME IInv PROVE ChannelsFaithful
    OBVIOUS
  <2>1. \A t \in Tasks : At(t, "snapping") => SnappingOK(task[t], cas)
    BY AtSnapping DEF IInv
  <2>2. Good(context, told, cas)
    BY DEF IInv
  <2> QED BY <2>1, <2>2 DEF ChannelsFaithful, SnappingOK, Good
<1> QED BY <1>1, InitInv, NextIInv, PTL DEF Spec

\* A read yields, for each field, what had been written when the framework answered.
THEOREM ReadsAreOfOneMoment == Spec => []HydratesAsWritten
<1>1. IInv => HydratesAsWritten
  <2> SUFFICES ASSUME IInv PROVE HydratesAsWritten
    OBVIOUS
  <2>1. \A t \in Tasks : At(t, "reading") => ReadingOK(task[t], cas)
    BY AtReading DEF IInv
  <2> QED BY <2>1 DEF HydratesAsWritten, ReadingOK
<1> QED BY <1>1, InitInv, NextIInv, PTL DEF Spec
=============================================================================
