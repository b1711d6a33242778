--------------------------- MODULE LibraryProofs ---------------------------
(***************************************************************************)
(* Proofs about Migration, MessageHistory and Detection, for any of their    *)
(* constants, and about the parts of MCLibrary together.                     *)
(* MigrationComplete: the loop moves a hash to job.taken before it copies    *)
(* the object, so what is counted and in the target already (Copied) is all  *)
(* that has been taken but the one in hand.                                  *)
(* EntriesRecoverable and OneHydrationEnough are inductive once the entries  *)
(* are known to be typed; the first because a wrapper is only made of what   *)
(* has just been put, and blobs only grow.                                   *)
(* NeverSwitches: imports only add modules, so that the active frameworks    *)
(* only grow, and a framework that was the only one stays or has company.    *)
(***************************************************************************)
EXTENDS MCLibrary, ReducersProofs, StateClassesProofs, FiniteSetTheorems, TLAPS

-----------------------------------------------------------------------------
(* Migration *)

There == target \cup job.withdrawn
Copied ==
    Running => /\ job.taken \ {job.hash} \subseteq job.counted
               /\ job.counted \subseteq There /\ job.counted \subseteq job.taken
               /\ job.taken \subseteq Eligible
               /\ job.hash # None => job.hash \in job.taken

MigrationInv == MigrationTypeOK /\ Copied /\ MigrationComplete

LEMMA MigrationInitInv == MigrationInit => MigrationInv
<1> SUFFICES ASSUME MigrationInit PROVE MigrationInv
  OBVIOUS
<1>1. job \in Job
  BY DEF MigrationInit, Job
<1> QED
  BY <1>1 DEF MigrationInit, MigrationInv, MigrationTypeOK, Copied, Running, MigrationComplete

\* Steps of the call, which alone write its taken, hash and payload.
LEMMA CallTypeOK ==
    ASSUME MigrationTypeOK, (\E H \in (SUBSET Contents) \cup {None} : Migrate(H)) \/ MigrationStep
    PROVE  MigrationTypeOK'
<1> USE DEF MigrationTypeOK
<1>1. ASSUME NEW H \in (SUBSET Contents) \cup {None}, Migrate(H) PROVE MigrationTypeOK'
  <2>1. job' \in Job
    BY <1>1 DEF Migrate, Job
  <2> QED BY <1>1, <2>1 DEF Migrate
<1>2. ASSUME NEW c \in Contents, NextHash(c) PROVE MigrationTypeOK'
  <2>1. job' \in Job
    BY <1>2 DEF NextHash, Job
  <2> QED BY <1>2, <2>1 DEF NextHash
<1>3. CASE GetPayload
  <2>1. job' \in Job
    BY <1>3 DEF GetPayload, Job
  <2> QED BY <1>3, <2>1 DEF GetPayload
<1>4. CASE PutPayload
  <2>1. job' \in Job
    <3>1. CASE job' = [job EXCEPT !.phase = "failed"]
      BY <3>1 DEF Job
    <3>2. CASE job' # [job EXCEPT !.phase = "failed"]
      <4>1. /\ job.payload # None /\ job.payload = job.hash
            /\ job' = [job EXCEPT !.hash = None, !.payload = None, !.counted = @ \cup {job.hash}]
        BY <1>4, <3>2 DEF PutPayload
      <4>2. job.hash \in Contents
        BY <4>1 DEF Job
      <4> QED BY <4>1, <4>2 DEF Job
    <3> QED BY <3>1, <3>2
  <2>2. job.payload \in Contents \cup {Junk, None}
    BY DEF Job
  <2>3. target' \subseteq Contents \cup {Junk}
    BY <1>4, <2>2 DEF PutPayload
  <2> QED BY <1>4, <2>1, <2>3 DEF PutPayload
<1>5. CASE MigrateReturns
  <2>1. job' \in Job
    BY <1>5 DEF MigrateReturns, Job
  <2> QED BY <1>5, <2>1 DEF MigrateReturns
<1> QED BY <1>1, <1>2, <1>3, <1>4, <1>5 DEF MigrationStep

LEMMA CallStep ==
    ASSUME MigrationInv, (\E H \in (SUBSET Contents) \cup {None} : Migrate(H)) \/ MigrationStep
    PROVE  MigrationInv'
<1> USE DEF MigrationInv, Copied, MigrationComplete, Running, There, Selected, Eligible
<1>1. MigrationTypeOK'
  BY CallTypeOK
<1>0. job \in Job /\ job.taken \subseteq Contents /\ job.hash \in Contents \cup {None}
  BY DEF MigrationTypeOK, Job
<1>2. ASSUME NEW H \in (SUBSET Contents) \cup {None}, Migrate(H) PROVE MigrationInv'
  BY <1>1, <1>2 DEF Migrate
<1>3. ASSUME NEW c \in Contents, NextHash(c) PROVE MigrationInv'
  BY <1>0, <1>1, <1>3, MigrationAssumption DEF NextHash, Job
<1>4. CASE GetPayload
  BY <1>0, <1>1, <1>4 DEF GetPayload, Job
<1>5. CASE PutPayload
  <2>1. CASE job' = [job EXCEPT !.phase = "failed"]
    BY <1>1, <2>1 DEF Job
  <2>2. CASE job' # [job EXCEPT !.phase = "failed"]
    <3>1. /\ job.payload # None /\ job.payload = job.hash /\ job.phase = "running"
          /\ job' = [job EXCEPT !.hash = None, !.payload = None, !.counted = @ \cup {job.hash}]
          /\ target' = target \cup {job.hash}
      BY <1>5, <2>2 DEF PutPayload
    <3>2. /\ job'.phase = "running" /\ job'.taken = job.taken /\ job'.hash = None
          /\ job'.counted = job.counted \cup {job.hash} /\ job'.withdrawn = job.withdrawn
          /\ job'.hashes = job.hashes /\ job'.seen = job.seen
      BY <3>1 DEF Job
    <3>3. job.hash \in job.taken
      BY <3>1
    <3> QED BY <1>1, <3>1, <3>2, <3>3
  <2> QED BY <2>1, <2>2
<1>6. CASE MigrateReturns
  <2>1. job.phase = "running" /\ job.hash = None /\ Selected \subseteq job.taken
    BY <1>6 DEF MigrateReturns
  <2>2. job.taken = job.counted /\ job.counted \subseteq There /\ job.counted \subseteq Eligible
    BY <1>0, <2>1, MigrationAssumption
  <2>3. /\ job'.phase = "done" /\ job'.counted = job.counted /\ job'.withdrawn = job.withdrawn
        /\ job'.hashes = job.hashes /\ job'.seen = job.seen /\ job'.throughout = job.throughout
        /\ target' = target
    BY <1>6 DEF MigrateReturns, Job
  <2> QED BY <1>1, <2>1, <2>2, <2>3
<1> QED BY <1>2, <1>3, <1>4, <1>5, <1>6 DEF MigrationStep

\* Steps of others.
LEMMA OthersStep ==
    ASSUME MigrationInv,
           \/ \E c \in Contents : SourcePut(c) \/ SourceDelete(c) \/ Rot(c) \/ TargetPut(c)
           \/ \E c \in target : TargetDelete(c)
    PROVE  MigrationInv'
<1> USE DEF MigrationInv, Copied, MigrationComplete, Running, There, Selected, Eligible, MigrationTypeOK
<1>0. job \in Job /\ job.taken \subseteq Contents /\ job.throughout \subseteq Contents
  BY DEF Job
<1>1. ASSUME NEW c \in Contents, SourcePut(c) PROVE MigrationInv'
  <2>1. job' \in Job
    BY <1>1 DEF SourcePut, Job
  <2> QED BY <1>0, <1>1, <2>1 DEF SourcePut, Job
<1>2. ASSUME NEW c \in Contents, SourceDelete(c) PROVE MigrationInv'
  <2>1. job' \in Job
    BY <1>2 DEF SourceDelete, Job
  <2> QED BY <1>0, <1>2, <2>1 DEF SourceDelete, Job
<1>3. ASSUME NEW c \in Contents, Rot(c) PROVE MigrationInv'
  BY <1>3 DEF Rot
<1>4. ASSUME NEW c \in Contents, TargetPut(c) PROVE MigrationInv'
  BY <1>4 DEF TargetPut
<1>5. ASSUME NEW c \in target, TargetDelete(c) PROVE MigrationInv'
  <2>1. job' \in Job
    BY <1>5 DEF TargetDelete, Job
  <2>3. CASE job.phase = "idle"
    BY <1>0, <1>5, <2>1, <2>3 DEF TargetDelete
  <2>4. CASE c = Junk
    <3>1. job' = job /\ target' = target \ {Junk}
      BY <1>5, <2>4 DEF TargetDelete
    <3>2. job.counted \subseteq Contents
      BY DEF Job
    <3>3. job.counted \subseteq There => job.counted \subseteq There'
      BY <3>1, <3>2, MigrationAssumption
    <3>4. source' = source /\ rotten' = rotten
      BY <1>5 DEF TargetDelete
    <3> QED BY <2>1, <3>1, <3>3, <3>4
  <2>5. CASE job.phase # "idle" /\ c # Junk
    <3>1. /\ job' = [job EXCEPT !.withdrawn = @ \cup {c}]
          /\ target' = target \ {c}
      BY <1>5, <2>5 DEF TargetDelete
    <3>2. There' = There \cup {c}
      BY <1>0, <1>5, <3>1 DEF Job
    <3>3. /\ job'.phase = job.phase /\ job'.counted = job.counted /\ job'.hash = job.hash
          /\ job'.taken = job.taken /\ job'.hashes = job.hashes /\ job'.seen = job.seen
          /\ job'.throughout = job.throughout
      BY <3>1 DEF Job
    <3>4. source' = source /\ rotten' = rotten
      BY <1>5 DEF TargetDelete
    <3>5. MigrationTypeOK'
      BY <2>1, <3>1, <3>4
    <3>6. Copied' /\ MigrationComplete'
      BY <3>2, <3>3
    <3> QED BY <3>5, <3>6
  <2> QED BY <2>3, <2>4, <2>5
<1> QED BY <1>1, <1>2, <1>3, <1>4, <1>5

LEMMA MigrationNextInv == MigrationInv /\ [MigrationNext]_migrationVars => MigrationInv'
<1>1. ASSUME MigrationInv, MigrationNext PROVE MigrationInv'
  BY <1>1, CallStep, OthersStep DEF MigrationNext
<1>2. ASSUME MigrationInv, UNCHANGED migrationVars PROVE MigrationInv'
  BY <1>2 DEF MigrationInv, MigrationTypeOK, Copied, MigrationComplete, Running, There, Selected, Eligible,
     migrationVars
<1> QED BY <1>1, <1>2

\* A call of migrate_cas that has returned has counted every object it was asked for, or
\* that was in the source throughout, and none that it was not to copy; and what it counted
\* is in the target unless somebody deleted it there since (migrate.py:33-46).
THEOREM MigrationIsComplete == MigrationSpec => []MigrationComplete
<1>1. MigrationInv => MigrationComplete
  BY DEF MigrationInv
<1> QED BY <1>1, MigrationInitInv, MigrationNextInv, PTL DEF MigrationSpec

\* Stores and the call stay well typed.
THEOREM MigrationTypeCorrect == MigrationSpec => []MigrationTypeOK
<1>1. MigrationInv => MigrationTypeOK
  BY DEF MigrationInv
<1> QED BY <1>1, MigrationInitInv, MigrationNextInv, PTL DEF MigrationSpec

-----------------------------------------------------------------------------
(* Message histories *)

At(e, d) == [e EXCEPT !.depth = d]

\* Entry e is text t inside wrappers whose contents are all in store.
Recoverable(e, t, store) ==
    e.content = t /\ \A d \in 0..(e.depth - 1) : At(e, d) \in store

HistoryInv == HistoryTypeOK /\ EntriesRecoverable /\ OneHydrationEnough

-----------------------------------------------------------------------------
(* Lemmas about entries. *)

LEMMA WrapEntry ==
    ASSUME NEW e \in Entry, e.depth < MaxDepth
    PROVE  Wrap(e) \in Entry /\ Wrap(e).depth = e.depth + 1
  BY HistoryAssumption DEF Wrap, Entry

LEMMA UnwrapEntry ==
    ASSUME NEW e \in Entry, IsRefWrapper(e)
    PROVE  Unwrap(e) \in Entry /\ Unwrap(e).depth = e.depth - 1
  BY HistoryAssumption DEF Unwrap, IsRefWrapper, Entry

LEMMA WrapKeeps ==
    ASSUME NEW e \in Entry, NEW t, NEW store, NEW store1,
           Recoverable(e, t, store), store \cup {e} \subseteq store1
    PROVE  Recoverable(Wrap(e), t, store1)
<1>1. Wrap(e).content = e.content /\ Wrap(e).depth = e.depth + 1 /\ e.depth \in Nat
  BY DEF Wrap, Entry
<1>2. ASSUME NEW d \in 0..e.depth PROVE At(Wrap(e), d) \in store1
  <2>1. At(Wrap(e), d) = At(e, d)
    BY DEF At, Wrap, Entry
  <2>2. CASE d = e.depth
    <3>1. At(e, d) = e
      BY <2>2 DEF At, Entry
    <3> QED BY <2>1, <3>1
  <2>3. CASE d # e.depth
    <3>1. d \in 0..(e.depth - 1)
      BY <1>1, <2>3
    <3> QED BY <2>1, <3>1 DEF Recoverable
  <2> QED BY <2>2, <2>3
<1> QED BY <1>1, <1>2 DEF Recoverable

LEMMA UnwrapKeeps ==
    ASSUME NEW e \in Entry, NEW t, NEW store, Recoverable(e, t, store), IsRefWrapper(e)
    PROVE  Recoverable(Unwrap(e), t, store)
<1>1. Unwrap(e).content = e.content /\ Unwrap(e).depth = e.depth - 1 /\ e.depth \in Nat
  BY DEF Unwrap, Entry
<1>2. ASSUME NEW d \in 0..(e.depth - 1 - 1) PROVE At(Unwrap(e), d) \in store
  <2>1. At(Unwrap(e), d) = At(e, d)
    BY DEF At, Unwrap, Entry
  <2>2. e.depth \in Nat
    BY DEF Entry
  <2>3. d \in 0..(e.depth - 1)
    BY <2>2
  <2> QED BY <2>1, <2>3 DEF Recoverable
<1> QED BY <1>1, <1>2 DEF Recoverable

LEMMA RecoverableGrows ==
    ASSUME NEW e, NEW t, NEW store, NEW store1, Recoverable(e, t, store), store \subseteq store1
    PROVE  Recoverable(e, t, store1)
  BY DEF Recoverable

LEMMA EntriesAre ==
    EntriesRecoverable <=> \A s \in Slots : Recoverable(history[s], meant[s], blobs)
  BY DEF EntriesRecoverable, Recoverable, At

LEMMA EntriesWillBe ==
    EntriesRecoverable' <=> \A s \in Slots : Recoverable(history'[s], meant'[s], blobs')
  BY DEF EntriesRecoverable, Recoverable, At

-----------------------------------------------------------------------------
(* Init and the steps. *)

LEMMA HistoryInitInv == HistoryInit => HistoryInv
<1> SUFFICES ASSUME HistoryInit PROVE HistoryInv
  OBVIOUS
<1>1. \A s \in Slots : history[s] = Written(meant[s]) /\ meant[s] \in Texts
  BY DEF HistoryInit
<1>2. \A t \in Texts : Written(t) \in Entry /\ Written(t).depth = 0 /\ Written(t).content = t
  BY HistoryAssumption DEF Written, Entry
<1>3. HistoryTypeOK
  BY <1>2 DEF HistoryInit, HistoryTypeOK
<1>4. EntriesRecoverable /\ OneHydrationEnough
  BY <1>1, <1>2 DEF EntriesRecoverable, OneHydrationEnough
<1> QED BY <1>3, <1>4 DEF HistoryInv

LEMMA ExternalizeStep ==
    ASSUME HistoryInv, NEW S \in SUBSET Slots, NEW limit \in Limits, Externalize(S, limit)
    PROVE  HistoryInv'
<1> DEFINE big == {s \in S : Big(history[s], limit)}
<1> USE DEF HistoryInv
<1>1. /\ \A s \in big : history[s].depth < MaxDepth
      /\ blobs' = blobs \cup {history[s] : s \in big}
      /\ history' = [s \in Slots |-> IF s \in big THEN Wrap(history[s]) ELSE history[s]]
      /\ steady' = (steady /\ WrapperSize <= limit)
      /\ meant' = meant
  BY DEF Externalize
<1>2. \A s \in Slots : history[s] \in Entry
  BY DEF HistoryTypeOK
<1>3. HistoryTypeOK'
  <2>1. \A s \in Slots : history'[s] \in Entry
    BY <1>1, <1>2, WrapEntry
  <2>2. history' \in [Slots -> Entry]
    BY <1>1, <2>1
  <2>3. blobs' \subseteq Entry /\ steady' \in BOOLEAN
    BY <1>1, <1>2 DEF HistoryTypeOK
  <2> QED BY <1>1, <2>2, <2>3 DEF HistoryTypeOK
<1>4. ASSUME NEW s \in Slots PROVE Recoverable(history'[s], meant'[s], blobs')
  <2>1. Recoverable(history[s], meant[s], blobs)
    BY EntriesAre
  <2>2. CASE s \in big
    <3>1. history'[s] = Wrap(history[s]) /\ blobs \cup {history[s]} \subseteq blobs'
      BY <1>1, <2>2
    <3> QED BY <1>1, <1>2, <2>1, <3>1, WrapKeeps
  <2>3. CASE s \notin big
    <3>1. history'[s] = history[s] /\ blobs \subseteq blobs'
      BY <1>1, <2>3
    <3> QED BY <1>1, <2>1, <3>1, RecoverableGrows
  <2> QED BY <2>2, <2>3
<1>5. ASSUME steady', NEW s \in Slots PROVE history'[s].depth <= 1
  <2>1. steady /\ WrapperSize <= limit /\ history[s].depth <= 1
    BY <1>1, <1>5 DEF OneHydrationEnough
  <2>2. CASE s \in big
    <3>1. ~IsRefWrapper(history[s])
      BY <2>1, <2>2, HistoryAssumption DEF Big, SizeOf
    <3>2. history[s].depth = 0
      BY <1>2, <3>1, HistoryAssumption DEF IsRefWrapper, Entry
    <3> QED BY <1>1, <1>2, <2>2, <3>2, WrapEntry
  <2>3. CASE s \notin big
    BY <1>1, <2>1, <2>3
  <2> QED BY <2>2, <2>3
<1> QED BY <1>3, <1>4, <1>5, EntriesWillBe DEF OneHydrationEnough

LEMMA ExternalizeFailsStep ==
    ASSUME HistoryInv, NEW S \in SUBSET Slots, NEW limit \in Limits, ExternalizeFails(S, limit)
    PROVE  HistoryInv'
<1> USE DEF HistoryInv
<1>1. history' = history /\ meant' = meant /\ steady' = steady /\ blobs \subseteq blobs'
  BY DEF ExternalizeFails
<1>2. blobs' \subseteq Entry
  BY DEF ExternalizeFails, HistoryTypeOK
<1>3. HistoryTypeOK'
  BY <1>1, <1>2 DEF HistoryTypeOK
<1>4. EntriesRecoverable'
  BY <1>1, EntriesAre, EntriesWillBe, RecoverableGrows
<1> QED BY <1>1, <1>3, <1>4 DEF OneHydrationEnough

LEMMA HydrateStep ==
    ASSUME HistoryInv, NEW S \in SUBSET Slots, Hydrate(S)
    PROVE  HistoryInv'
<1> DEFINE wrapped == {s \in S : IsRefWrapper(history[s])}
<1> USE DEF HistoryInv
<1>1. /\ history' = [s \in Slots |-> IF s \in wrapped THEN Unwrap(history[s]) ELSE history[s]]
      /\ blobs' = blobs /\ meant' = meant /\ steady' = steady
  BY DEF Hydrate
<1>2. \A s \in Slots : history[s] \in Entry
  BY DEF HistoryTypeOK
<1>3. HistoryTypeOK'
  <2>1. \A s \in Slots : history'[s] \in Entry
    BY <1>1, <1>2, UnwrapEntry
  <2> QED BY <1>1, <2>1 DEF HistoryTypeOK
<1>4. ASSUME NEW s \in Slots PROVE Recoverable(history'[s], meant'[s], blobs')
  <2>1. Recoverable(history[s], meant[s], blobs)
    BY EntriesAre
  <2>2. CASE s \in wrapped
    BY <1>1, <1>2, <2>1, <2>2, UnwrapKeeps
  <2>3. CASE s \notin wrapped
    BY <1>1, <2>1, <2>3
  <2> QED BY <2>2, <2>3
<1>5. ASSUME steady', NEW s \in Slots PROVE history'[s].depth <= 1
  <2>1. history[s].depth <= 1 /\ history[s].depth \in Nat
    BY <1>1, <1>2, <1>5 DEF OneHydrationEnough, Entry
  <2>2. CASE s \in wrapped
    <3>1. history'[s].depth = history[s].depth - 1
      BY <1>1, <1>2, <2>2, UnwrapEntry
    <3> QED BY <2>1, <3>1
  <2>3. CASE s \notin wrapped
    BY <1>1, <2>1, <2>3
  <2> QED BY <2>2, <2>3
<1> QED BY <1>3, <1>4, <1>5, EntriesWillBe DEF OneHydrationEnough

LEMMA SayStep ==
    ASSUME HistoryInv, NEW s \in Slots, NEW t \in Texts, Say(s, t)
    PROVE  HistoryInv'
<1> USE DEF HistoryInv
<1>1. Written(t) \in Entry /\ Written(t).depth = 0 /\ Written(t).content = t
  BY HistoryAssumption DEF Written, Entry
<1>2. HistoryTypeOK'
  BY <1>1 DEF Say, HistoryTypeOK
<1>3. Recoverable(Written(t), t, blobs)
  BY <1>1 DEF Recoverable
<1>4. ASSUME NEW r \in Slots PROVE Recoverable(history'[r], meant'[r], blobs')
  BY <1>3, EntriesAre DEF Say, HistoryTypeOK
<1>5. ASSUME steady', NEW r \in Slots PROVE history'[r].depth <= 1
  BY <1>1, <1>5 DEF Say, HistoryTypeOK, OneHydrationEnough
<1> QED BY <1>2, <1>4, <1>5, EntriesWillBe DEF OneHydrationEnough

LEMMA ForwardEntryStep ==
    ASSUME HistoryInv, NEW s \in Slots, NEW r \in Slots, ForwardEntry(s, r)
    PROVE  HistoryInv'
<1> USE DEF HistoryInv
<1>1. HistoryTypeOK'
  BY DEF ForwardEntry, HistoryTypeOK
<1>2. ASSUME NEW q \in Slots PROVE Recoverable(history'[q], meant'[q], blobs')
  BY EntriesAre DEF ForwardEntry, HistoryTypeOK
<1>3. ASSUME steady', NEW q \in Slots PROVE history'[q].depth <= 1
  BY <1>3 DEF ForwardEntry, HistoryTypeOK, OneHydrationEnough
<1> QED BY <1>1, <1>2, <1>3, EntriesWillBe DEF OneHydrationEnough

LEMMA HistoryNextInv == HistoryInv /\ [HistoryNext]_historyVars => HistoryInv'
<1>1. ASSUME HistoryInv, HistoryNext PROVE HistoryInv'
  BY <1>1, ExternalizeStep, ExternalizeFailsStep, HydrateStep, SayStep, ForwardEntryStep
     DEF HistoryNext
<1>2. ASSUME HistoryInv, UNCHANGED historyVars PROVE HistoryInv'
  BY <1>2 DEF HistoryInv, HistoryTypeOK, EntriesRecoverable, OneHydrationEnough, historyVars
<1> QED BY <1>1, <1>2

\* Histories, however often externalized, hydrated and forwarded, stay well typed.
THEOREM HistoryTypeCorrect == HistorySpec => []HistoryTypeOK
<1>1. HistoryInv => HistoryTypeOK
  BY DEF HistoryInv
<1> QED BY <1>1, HistoryInitInv, HistoryNextInv, PTL DEF HistorySpec

\* What was written to an entry can be got back out of its wrappers, one after the other.
THEOREM HistoryRecoverable == HistorySpec => []EntriesRecoverable
<1>1. HistoryInv => EntriesRecoverable
  BY DEF HistoryInv
<1> QED BY <1>1, HistoryInitInv, HistoryNextInv, PTL DEF HistorySpec

\* As long as every threshold so far leaves a wrapper alone, none is made inside another, so
\* one hydration is enough.  The default threshold 0 is smaller than a wrapper and is not
\* covered (autogen.py:97-99).
THEOREM OneHydrationSuffices == HistorySpec => []OneHydrationEnough
<1>1. HistoryInv => OneHydrationEnough
  BY DEF HistoryInv
<1> QED BY <1>1, HistoryInitInv, HistoryNextInv, PTL DEF HistorySpec

-----------------------------------------------------------------------------
(* Detection *)

\* Imports leave names of the modules that can be imported and of the packages they are in.
THEOREM DetectionTypeCorrect == DetectionSpec => []DetectionTypeOK
<1>1. DetectionInit => DetectionTypeOK
  BY DEF DetectionInit, DetectionTypeOK, Namings
<1>2. DetectionTypeOK /\ [DetectionNext]_detectionVars => DetectionTypeOK'
  <2> SUFFICES ASSUME DetectionTypeOK, [DetectionNext]_detectionVars PROVE DetectionTypeOK'
    OBVIOUS
  <2>1. ASSUME NEW m \in Importable, Import(m) PROVE DetectionTypeOK'
    BY <2>1 DEF Import, DetectionTypeOK
  <2>2. ASSUME NEW name \in Namings, NameFramework(name) PROVE DetectionTypeOK'
    BY <2>2 DEF NameFramework, DetectionTypeOK
  <2>3. CASE UNCHANGED detectionVars
    BY <2>3 DEF DetectionTypeOK, detectionVars
  <2> QED BY <2>1, <2>2, <2>3 DEF DetectionNext
<1> QED BY <1>1, <1>2, PTL DEF DetectionSpec

\* sys.modules only grows.
LEMMA ModulesGrow ==
    ASSUME DetectionNext
    PROVE  modules \subseteq modules'
BY DEF DetectionNext, Import, NameFramework

LEMMA ActiveGrows ==
    ASSUME modules \subseteq modules'
    PROVE  Active \subseteq Active'
BY DEF Active, ModuleLoaded

LEMMA ActiveFinite == IsFiniteSet(Active) /\ IsFiniteSet(Active')
<1>1. IsFiniteSet(Framework)
  <2>1. IsFiniteSet({"langgraph"})
    BY FS_Singleton
  <2>2. IsFiniteSet({"langgraph"} \cup {"llamaindex"})
    BY <2>1, FS_AddElement
  <2>3. IsFiniteSet(({"langgraph"} \cup {"llamaindex"}) \cup {"autogen"})
    BY <2>2, FS_AddElement
  <2>4. Framework = ({"langgraph"} \cup {"llamaindex"}) \cup {"autogen"}
    BY DEF Framework
  <2> QED BY <2>3, <2>4
<1>2. Active \in SUBSET Framework /\ Active' \in SUBSET Framework
  BY DEF Active
<1> QED BY <1>1, <1>2, FS_Subset

\* A name is looked up in a table that no step changes.
LEMMA NamedStays ==
    ASSUME NEW name, Detected(name)' = Detected(name)
    PROVE  Answers(name)' = Answers(name)
BY DEF Answers, AutoAdapt, DispatchTo

\* A framework that was the only one has company or is still the only one.
LEMMA OnlyOneStays ==
    ASSUME modules \subseteq modules', FromImports \in Framework
    PROVE  FromImports' \in {FromImports, "ambiguous"}
<1>1. Active \subseteq Active' /\ IsFiniteSet(Active) /\ IsFiniteSet(Active')
  BY ActiveGrows, ActiveFinite
<1>2. Active # {} /\ ~(Cardinality(Active) > 1)
  BY DEF FromImports, Framework
<1>3. CASE Active' = Active
  BY <1>3 DEF FromImports
<1>4. CASE Active' # Active
  <2> DEFINE A == Active
             B == Active'
  <2>1. A \in SUBSET B /\ A # {} /\ A # B /\ IsFiniteSet(A) /\ IsFiniteSet(B)
    BY <1>1, <1>2, <1>4
  <2> HIDE DEF A, B
  <2>2. Cardinality(A) # 0 /\ Cardinality(A) <= Cardinality(B) /\ Cardinality(A) # Cardinality(B)
    BY <2>1, FS_EmptySet, FS_Subset
  <2>3. Cardinality(A) \in Nat /\ Cardinality(B) \in Nat
    BY <2>1, FS_CardinalityType
  <2>4. Cardinality(B) > 1
    BY <2>2, <2>3
  <2>5. B # {}
    BY <2>1
  <2> QED BY <2>4, <2>5 DEF B, FromImports
<1> QED BY <1>3, <1>4

\* What a program that named nothing got, it gets again or it is told that there are several.
LEMMA AnswerStays ==
    ASSUME NEW name, modules \subseteq modules', configured' = configured,
           Detected(name) \in Framework
    PROVE  \/ Answers(name)' = Answers(name)
           \/ /\ name = Unnamed
              /\ Answers(name)' = <<<<"raised", "ambiguous">>, <<"raised", "ambiguous">>>>
<1>1. CASE name # Unnamed \/ configured # Unnamed
  <2>1. Detected(name)' = Detected(name)
    BY <1>1 DEF Detected, Coerce
  <2> QED BY <2>1, NamedStays
<1>2. CASE name = Unnamed /\ configured = Unnamed
  <2>1. Detected(name) = FromImports /\ Detected(name)' = FromImports'
    BY <1>2 DEF Detected
  <2>2. Detected(name)' = Detected(name) \/ Detected(name)' = "ambiguous"
    BY <2>1, OnlyOneStays
  <2>3. ASSUME Detected(name)' = "ambiguous"
        PROVE  Answers(name)' = <<<<"raised", "ambiguous">>, <<"raised", "ambiguous">>>>
    BY <2>3 DEF Answers, AutoAdapt, DispatchTo, Framework
  <2> QED BY <1>2, <2>2, <2>3, NamedStays
<1> QED BY <1>1, <1>2

\* framework.py:46-68: whatever is imported and configured in whatever order, no import takes
\* a program silently from one framework to another.
THEOREM NeverSwitchesAlways == DetectionSpec => NeverSwitches
<1> DEFINE Stays(name) ==
             /\ name # Unnamed => Answers(name)' = Answers(name)
             /\ configured' = configured /\ Detected(name) \in Framework =>
                   \/ Answers(name)' = Answers(name)
                   \/ name = Unnamed /\ Answers(name)' = <<<<"raised", "ambiguous">>, <<"raised", "ambiguous">>>>
<1>1. ASSUME DetectionNext, NEW name \in Namings PROVE Stays(name)
  <2>1. ASSUME name # Unnamed PROVE Answers(name)' = Answers(name)
    <3>1. Detected(name)' = Detected(name)
      BY <2>1 DEF Detected, Coerce
    <3> QED BY <3>1, NamedStays
  <2> QED BY <1>1, <2>1, ModulesGrow, AnswerStays
<1>2. [DetectionNext]_detectionVars => [\A name \in Namings : Stays(name)]_detectionVars
  BY <1>1
<1> QED BY <1>2, PTL DEF DetectionSpec, NeverSwitches

-----------------------------------------------------------------------------
(* The parts together *)

\* A behaviour of the library is one of each of its parts, of which all but one stand still:
\* what is proved of a part holds wherever the parts are checked together.
THEOREM PartsImplemented ==
    LibrarySpec => MigrationSpec /\ HistorySpec /\ ReducersSpec /\ ClassesSpec /\ DetectionSpec
<1>1. LibraryInit => MigrationInit /\ HistoryInit /\ ReducersInit /\ ClassesInit /\ DetectionInit
  BY DEF LibraryInit, StillMigration, StillHistory
<1>2. ASSUME [LibraryNext]_libraryVars
      PROVE  /\ [MigrationNext]_migrationVars
             /\ [HistoryNext]_historyVars
             /\ [ReducersNext]_reducersVars
             /\ [ClassesNext]_classVars
             /\ [DetectionNext]_detectionVars
  BY <1>2 DEF LibraryNext, libraryVars
<1> QED
  BY <1>1, <1>2, PTL
  DEF LibrarySpec, MigrationSpec, HistorySpec, ReducersSpec, ClassesSpec, DetectionSpec

\* What the loops, reducers, histories, classes and detection build is well formed, for any
\* contents, texts, keys, hashes, classes and modules.
THEOREM LibraryTypeCorrect == LibrarySpec => []LibraryTypeOK
<1>1. ReducersInv => ReducersTypeOK
  BY DEF ReducersInv
<1>2. ReducersSpec => []ReducersTypeOK
  BY <1>1, ReducersInitInv, ReducersStep, PTL DEF ReducersSpec
<1>3. ClassesInv => ClassesTypeOK
  BY DEF ClassesInv
<1>4. ClassesSpec => []ClassesTypeOK
  BY <1>3, ClassesInitInv, ClassesStep, PTL DEF ClassesSpec
<1>5. MigrationTypeOK /\ HistoryTypeOK /\ ReducersTypeOK /\ ClassesTypeOK /\ DetectionTypeOK
      => LibraryTypeOK
  BY DEF LibraryTypeOK
<1> QED
  BY <1>2, <1>4, <1>5, PartsImplemented, MigrationTypeCorrect, HistoryTypeCorrect,
     DetectionTypeCorrect, PTL
=============================================================================
