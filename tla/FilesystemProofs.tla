-------------------------- MODULE FilesystemProofs --------------------------
(***************************************************************************)
(* Proofs about FilesystemCAS and FilesystemDurability for any set of       *)
(* clients, contents and shards.                                            *)
(* NoTornObject does not survive a step by itself: os.replace moves the     *)
(* client's temporary file into place, so the invariant has to say what     *)
(* that file holds at every step of put (WriterReady), and the contract     *)
(* needs to know which method a client is in at each step (WellPlaced).     *)
(* What the disk has of an object after a power loss depends on whether     *)
(* fsync had returned for its file, so for NoTornObjectEver the invariant   *)
(* is joined by the fact that every file at an object's path, in the cache  *)
(* or on the disk, has been synced.                                         *)
(***************************************************************************)
EXTENDS FilesystemDurability, TLAPS

\* The temporary file of a put that has got that far is the one it made, holds
\* all of the content once write has returned, and is on the disk once fsync has.
WriterReady(p) ==
    /\ pc[p] \in {"write", "sync", "replace"} => temp[p] # None /\ temp[p].of = arg[p]
    /\ pc[p] \in {"sync", "replace"} => temp[p].whole
    /\ pc[p] = "replace" => temp[p].synced

\* A get reads a whole file.
ReaderReady(p) == pc[p] = "read" => handle[p] # None /\ handle[p].whole

TempHeld(p) == temp[p] # None => pc[p] \in {"write", "sync", "replace", "cleanup"}

\* Each step belongs to one method, and a call is settled from its deciding step on.
WellPlaced(p) ==
    /\ op[p] \in {"put", "get", "exists", "delete"} => arg[p] \in Contents
    /\ pc[p] = "idle" => result[p] = "none"
    /\ pc[p] \in {"check", "mkdir", "create", "write", "sync", "replace"} =>
            op[p] = "put" /\ result[p] = "none"
    /\ pc[p] = "cleanup" => op[p] = "put" /\ result[p] \in {"hash", "error"}
    /\ pc[p] \in {"open", "read"} => op[p] = "get" /\ result[p] = "none"
    /\ pc[p] = "stat" => op[p] = "exists" /\ result[p] = "none"
    /\ pc[p] = "unlink" => op[p] = "delete" /\ result[p] = "none"
    /\ pc[p] \in {"list", "next"} => op[p] = "iter"
    /\ pc[p] = "return" => op[p] # "none" /\ result[p] \notin {"none", "torn"}

Ready(p) == WriterReady(p) /\ ReaderReady(p) /\ TempHeld(p) /\ WellPlaced(p)

IInv == TypeOK /\ NoTornObject /\ \A p \in Clients : Ready(p)

-----------------------------------------------------------------------------
(* Each step keeps the invariant. *)

LEMMA InitIInv == Init => IInv
  BY NoneAssumption DEF Init, IInv, TypeOK, Ops, PCs, Results, NoTornObject, Present, Ready,
     TempHeld, WriterReady, ReaderReady, WellPlaced

\* A step of p changes the variables of no other client, except for the history.
LEMMA OthersStay ==
    ASSUME TypeOK, NEW p \in Clients, Call(p) \/ Step(p) \/ Crash(p), NEW q \in Clients \ {p}
    PROVE  /\ pc'[q] = pc[q] /\ op'[q] = op[q] /\ arg'[q] = arg[q]
           /\ result'[q] = result[q] /\ temp'[q] = temp[q] /\ handle'[q] = handle[q]
<1> USE DEF TypeOK, Goto, Settle, frame, files
<1>1. CASE Call(p)
  BY <1>1 DEF Call, Begin
<1>2. CASE PutStep(p)
  BY <1>2 DEF PutStep, PutCheck, PutMkdir, PutCreate, PutWrite, PutSync, PutReplace,
     PutFailsEarly, PutFailsLate, PutCleanup
<1>3. CASE GetOpen(p) \/ GetRead(p) \/ Exists(p) \/ Delete(p)
  BY <1>3 DEF GetOpen, GetRead, Exists, Delete
<1>4. CASE IterStep(p)
  BY <1>4 DEF IterStep, IterRoot, IterShard, IterName, IterEnd
<1>5. CASE Return(p) \/ Crash(p)
  BY <1>5 DEF Return, Crash, Forget
<1> QED BY <1>1, <1>2, <1>3, <1>4, <1>5 DEF Step

\* So what is left to show of a step of p is the type, the objects and p itself.
LEMMA OneClientStep ==
    ASSUME IInv, NEW p \in Clients, Call(p) \/ Step(p) \/ Crash(p),
           TypeOK', NoTornObject', Ready(p)'
    PROVE  IInv'
<1>1. ASSUME NEW q \in Clients, q # p PROVE Ready(q)'
  <2>1. /\ pc'[q] = pc[q] /\ op'[q] = op[q] /\ arg'[q] = arg[q]
        /\ result'[q] = result[q] /\ temp'[q] = temp[q] /\ handle'[q] = handle[q]
    BY <1>1, OthersStay DEF IInv
  <2> QED BY <1>1, <2>1 DEF IInv, Ready, WriterReady, ReaderReady, TempHeld, WellPlaced
<1> QED BY <1>1 DEF IInv

\* The steps that leave every file as it is.
LEMMA FilesKept == ASSUME NoTornObject, UNCHANGED objects PROVE NoTornObject'
  BY DEF NoTornObject, Present

LEMMA CallStep == ASSUME IInv, NEW p \in Clients, Call(p) PROVE IInv'
<1> USE DEF IInv
<1> SUFFICES ASSUME NEW o \in {"put", "get", "exists", "delete", "iter"},
                    NEW c \in Contents \cup {None},
                    o # "iter" => c \in Contents,
                    Begin(p, o, c)
             PROVE  IInv'
  BY DEF Call
<1> USE DEF Begin
<1>1. FirstStep[o] \in {"check", "open", "stat", "unlink", "list"}
  BY DEF FirstStep
<1>2. TypeOK'
  BY <1>1 DEF TypeOK, Goto, PCs, Ops, files, iteration, history
<1>3. NoTornObject'
  BY FilesKept DEF files
<1>4. /\ pc'[p] = FirstStep[o] /\ op'[p] = o /\ arg'[p] = c
      /\ result'[p] = "none" /\ temp'[p] = None
  BY DEF TypeOK, Goto, files, Ready, WellPlaced, TempHeld
<1>5. Ready(p)'
  BY <1>1, <1>4 DEF Ready, WriterReady, ReaderReady, TempHeld, WellPlaced, FirstStep
<1> QED BY <1>2, <1>3, <1>5, OneClientStep

\* Steps of put that touch no file: the check, mkdir and the exceptions.
LEMMA PutPlainStep ==
    ASSUME IInv, NEW p \in Clients,
           PutCheck(p) \/ PutMkdir(p) \/ PutFailsEarly(p) \/ PutFailsLate(p)
    PROVE  IInv'
<1> USE DEF IInv, PutCheck, PutMkdir, PutFailsEarly, PutFailsLate, Goto, Settle, files, frame
<1>1. TypeOK'
  <2>1. pc[p] = "mkdir" => ShardOf[arg[p]] \in Shards
    BY ShardOfAssumption DEF Ready, WellPlaced
  <2> QED BY <2>1 DEF TypeOK, PCs, Results, iteration, history
<1>2. NoTornObject'
  BY FilesKept
<1>3. Ready(p)'
  BY DEF TypeOK, Ready, WriterReady, ReaderReady, TempHeld, WellPlaced
<1> QED BY <1>1, <1>2, <1>3, OneClientStep DEF Step, PutStep

LEMMA PutCreateStep == ASSUME IInv, NEW p \in Clients, PutCreate(p) PROVE IInv'
<1> USE DEF IInv, PutCreate, frame
<1>1. temp'[p] = [of |-> arg[p], whole |-> FALSE, synced |-> FALSE] /\ temp'[p] \in File
  BY DEF TypeOK, Ready, WellPlaced, File
<1>2. TypeOK'
  BY <1>1 DEF TypeOK, Goto, PCs, iteration, history
<1>3. NoTornObject'
  BY FilesKept
<1>4. Ready(p)'
  <2>1. pc'[p] = "write" /\ temp'[p] # None
    BY <1>1, NoneAssumption DEF TypeOK, Goto
  <2> QED BY <1>1, <2>1 DEF Ready, WriterReady, ReaderReady, TempHeld, WellPlaced
<1> QED BY <1>2, <1>3, <1>4, OneClientStep DEF Step, PutStep

\* write and fsync make the temporary file whole and synced.
LEMMA PutFillStep == ASSUME IInv, NEW p \in Clients, PutWrite(p) \/ PutSync(p) PROVE IInv'
<1> USE DEF IInv, frame
<1>1. temp[p] \in File /\ temp[p].of = arg[p]
  BY DEF TypeOK, Ready, WriterReady, PutWrite, PutSync
<1>2. /\ temp'[p] \in File /\ temp'[p].of = arg[p] /\ temp'[p].whole
      /\ PutSync(p) => temp'[p].synced
  <2>1. CASE PutWrite(p)
    <3>1. temp'[p] = [temp[p] EXCEPT !.whole = TRUE] /\ ~PutSync(p)
      BY <2>1 DEF TypeOK, PutWrite, PutSync
    <3> QED BY <1>1, <3>1 DEF File
  <2>2. CASE PutSync(p)
    <3>1. temp'[p] = [temp[p] EXCEPT !.synced = TRUE] /\ temp[p].whole
      BY <2>2 DEF TypeOK, Ready, WriterReady, PutSync
    <3> QED BY <1>1, <3>1 DEF File
  <2> QED BY <2>1, <2>2
<1>3. TypeOK'
  <2>1. temp' = [temp EXCEPT ![p] = temp'[p]]
    BY DEF TypeOK, PutWrite, PutSync
  <2> QED BY <1>2, <2>1 DEF TypeOK, Goto, PCs, PutWrite, PutSync, iteration, history
<1>4. NoTornObject'
  BY FilesKept DEF PutWrite, PutSync
<1>5. Ready(p)'
  <2>1. temp'[p] # None
    BY <1>2, NoneAssumption
  <2>2. pc'[p] = IF PutSync(p) THEN "replace" ELSE "sync"
    BY DEF TypeOK, Goto, PutWrite, PutSync
  <2> QED
    BY <1>2, <2>1, <2>2 DEF Ready, WriterReady, ReaderReady, TempHeld, WellPlaced, PutWrite, PutSync
<1> QED BY <1>3, <1>4, <1>5, OneClientStep DEF Step, PutStep

\* What os.replace moves to the object's path is whole.
LEMMA PutReplaceStep == ASSUME IInv, NEW p \in Clients, PutReplace(p) PROVE IInv'
<1> USE DEF IInv, PutReplace, Goto, Settle, frame
<1>1. arg[p] \in Contents /\ temp[p] \in File /\ temp[p].of = arg[p] /\ temp[p].whole
  BY DEF TypeOK, Ready, WriterReady, WellPlaced
<1>2. TypeOK'
  BY <1>1 DEF TypeOK, PCs, Results, Track, Present, iteration
<1>3. NoTornObject'
  BY <1>1 DEF TypeOK, NoTornObject, Present
<1>4. Ready(p)'
  BY DEF TypeOK, Ready, WriterReady, ReaderReady, TempHeld, WellPlaced
<1> QED BY <1>2, <1>3, <1>4, OneClientStep DEF Step, PutStep

LEMMA PutCleanupStep == ASSUME IInv, NEW p \in Clients, PutCleanup(p) PROVE IInv'
<1> USE DEF IInv, PutCleanup, Goto, frame
<1>1. TypeOK'
  BY DEF TypeOK, PCs, iteration, history
<1>2. NoTornObject'
  BY FilesKept
<1>3. Ready(p)'
  BY DEF TypeOK, Ready, WriterReady, ReaderReady, TempHeld, WellPlaced
<1> QED BY <1>1, <1>2, <1>3, OneClientStep DEF Step, PutStep

\* The file a get opens is whole, because every object is.
LEMMA GetOpenStep == ASSUME IInv, NEW p \in Clients, GetOpen(p) PROVE IInv'
<1> USE DEF IInv, GetOpen, Goto, Settle, files, frame
<1>1. arg[p] \in Present => objects[arg[p]] \in File \ {None} /\ objects[arg[p]].whole
  BY DEF TypeOK, NoTornObject, Present
<1>2. TypeOK'
  BY <1>1 DEF TypeOK, PCs, Results, iteration, history
<1>3. NoTornObject'
  BY FilesKept
<1>4. Ready(p)'
  BY <1>1 DEF TypeOK, Ready, WriterReady, ReaderReady, TempHeld, WellPlaced
<1> QED BY <1>2, <1>3, <1>4, OneClientStep DEF Step

LEMMA AnswerStep == ASSUME IInv, NEW p \in Clients, GetRead(p) \/ Exists(p) PROVE IInv'
<1> USE DEF IInv, GetRead, Exists, Goto, Settle, files, frame
<1>1. TypeOK'
  BY DEF TypeOK, PCs, Results, iteration, history
<1>2. NoTornObject'
  BY FilesKept
<1>3. Ready(p)'
  BY DEF TypeOK, Ready, WriterReady, ReaderReady, TempHeld, WellPlaced
<1> QED BY <1>1, <1>2, <1>3, OneClientStep DEF Step

LEMMA DeleteStep == ASSUME IInv, NEW p \in Clients, Delete(p) PROVE IInv'
<1> USE DEF IInv, Delete, Goto, Settle, frame
<1>1. TypeOK'
  BY DEF TypeOK, PCs, Results, Track, Present, iteration
<1>2. NoTornObject'
  BY DEF TypeOK, NoTornObject, Present
<1>3. Ready(p)'
  BY DEF TypeOK, Ready, WriterReady, ReaderReady, TempHeld, WellPlaced
<1> QED BY <1>1, <1>2, <1>3, OneClientStep DEF Step

LEMMA IterationStep == ASSUME IInv, NEW p \in Clients, IterStep(p) PROVE IInv'
<1> USE DEF IInv, IterStep, IterRoot, IterShard, IterName, IterEnd, Goto, Settle, files, frame
<1>1. TypeOK'
  <2>1. \A s \in Shards : NamesIn(s) \subseteq Name
    BY DEF NamesIn
  <2>2. pc' \in [Clients -> PCs] /\ result' \in [Clients -> Results] /\ UNCHANGED <<files, frame, handle>>
    BY DEF TypeOK, PCs, Results
  <2>3. /\ todo' \in [Clients -> SUBSET Shards]
        /\ steady' \in [Clients -> SUBSET Contents] /\ seen' \in [Clients -> SUBSET Contents]
    BY DEF TypeOK, Present, iteration, history
  <2>4. listing' \in [Clients -> SUBSET Name]
    BY <2>1 DEF TypeOK, iteration
  <2>5. yielded' \in [Clients -> SUBSET Name]
    BY DEF TypeOK, iteration
  <2> QED BY <2>2, <2>3, <2>4, <2>5 DEF TypeOK
<1>2. NoTornObject'
  BY FilesKept
<1>3. Ready(p)'
  BY DEF TypeOK, Ready, WriterReady, ReaderReady, TempHeld, WellPlaced
<1> QED BY <1>1, <1>2, <1>3, OneClientStep DEF Step

LEMMA LeaveStep == ASSUME IInv, NEW p \in Clients, Return(p) \/ Crash(p) PROVE IInv'
<1> USE DEF IInv, Return, Crash, Forget, Goto, Settle, files
<1>1. TypeOK'
  <2>1. temp[p] # None => temp[p].of \in Contents
    BY DEF TypeOK, File
  <2> QED BY <2>1 DEF TypeOK, PCs, Ops, Results
<1>2. NoTornObject'
  BY FilesKept
<1>3. Ready(p)'
  BY DEF TypeOK, Ready, WriterReady, ReaderReady, TempHeld, WellPlaced
<1> QED BY <1>1, <1>2, <1>3, OneClientStep DEF Step

\* The invariant is inductive.
LEMMA NextIInv == IInv /\ [Next]_vars => IInv'
<1> SUFFICES ASSUME IInv, [Next]_vars PROVE IInv'
  OBVIOUS
<1>1. ASSUME NEW p \in Clients, Call(p) PROVE IInv'
  BY <1>1, CallStep
<1>2. ASSUME NEW p \in Clients, PutStep(p) PROVE IInv'
  BY <1>2, PutPlainStep, PutCreateStep, PutFillStep, PutReplaceStep, PutCleanupStep DEF PutStep
<1>3. ASSUME NEW p \in Clients, GetOpen(p) \/ GetRead(p) \/ Exists(p) \/ Delete(p) PROVE IInv'
  BY <1>3, GetOpenStep, AnswerStep, DeleteStep
<1>4. ASSUME NEW p \in Clients, IterStep(p) PROVE IInv'
  BY <1>4, IterationStep
<1>5. ASSUME NEW p \in Clients, Return(p) \/ Crash(p) PROVE IInv'
  BY <1>5, LeaveStep
<1>6. CASE UNCHANGED vars
  BY <1>6 DEF IInv, TypeOK, NoTornObject, Present, Ready, WriterReady, ReaderReady,
     TempHeld, WellPlaced, vars, files, frame, iteration, history
<1> QED BY <1>1, <1>2, <1>3, <1>4, <1>5, <1>6 DEF Next, Step

\* Every reachable state satisfies the invariant.
THEOREM Invariance == Spec => []IInv
  BY InitIInv, NextIInv, PTL DEF Spec

-----------------------------------------------------------------------------
(* What the invariant gives. *)

\* Type correctness of the directory and of every client's frame.
THEOREM TypeCorrect == Spec => []TypeOK
<1>1. IInv => TypeOK
  BY DEF IInv
<1> QED BY <1>1, Invariance, PTL

\* For any number of clients and contents, no reader can find a torn object.
THEOREM NoTornObjects == Spec => []NoTornObject
<1>1. IInv => NoTornObject
  BY DEF IInv
<1> QED BY <1>1, Invariance, PTL

\* For any number of clients, a put that is over has left no temporary file.
THEOREM NoTempLeft == Spec => []TempOnlyInFlight
<1>1. IInv => TempOnlyInFlight
  BY DEF IInv, Ready, TempHeld, TempOnlyInFlight
<1> QED BY <1>1, Invariance, PTL

-----------------------------------------------------------------------------
(* The directory implements the atomic store of CASContract. *)

\* A step of p that leaves its call as it was, and the set of objects, is a
\* stutter of the contract.
LEMMA Stutter ==
    ASSUME NEW p \in Clients, Present' = Present, CallOf(p)' = CallOf(p),
           \A q \in Clients \ {p} : CallOf(q)' = CallOf(q)
    PROVE  UNCHANGED Contract!vars
  BY DEF Contract!vars, AbsCall

\* A step of p leaves the calls of the others as they were.
LEMMA OthersKeep ==
    ASSUME TypeOK, NEW p \in Clients, Call(p) \/ Step(p) \/ Crash(p)
    PROVE  \A q \in Clients \ {p} : CallOf(q)' = CallOf(q)
<1> TAKE q \in Clients \ {p}
<1>1. pc'[q] = pc[q] /\ op'[q] = op[q] /\ arg'[q] = arg[q] /\ result'[q] = result[q]
  BY OthersStay
<1> QED BY <1>1 DEF CallOf

\* The steps of an iteration, and those of a put or a get on either side of its
\* deciding step, are stutters.
LEMMA SilentSteps ==
    ASSUME IInv, NEW p \in Clients,
           \/ PutMkdir(p) \/ PutCreate(p) \/ PutWrite(p) \/ PutSync(p) \/ PutCleanup(p)
           \/ GetRead(p) \/ IterStep(p)
           \/ PutCheck(p) /\ arg[p] \notin Present
    PROVE  UNCHANGED Contract!vars
<1>1. \A q \in Clients \ {p} : CallOf(q)' = CallOf(q)
  BY OthersKeep DEF IInv, Step, PutStep
<1>2. Present' = Present
  BY DEF Present, PutMkdir, PutCreate, PutWrite, PutSync, PutCleanup, PutCheck, GetRead,
     IterStep, IterRoot, IterShard, IterName, IterEnd, files
<1>3. CallOf(p)' = CallOf(p)
  <2>1. CASE PutMkdir(p) \/ PutCreate(p) \/ PutWrite(p) \/ PutSync(p) \/ PutCleanup(p)
             \/ (PutCheck(p) /\ arg[p] \notin Present)
    BY <2>1 DEF IInv, TypeOK, Ready, WellPlaced, CallOf, PutMkdir, PutCreate, PutWrite, PutSync,
       PutCleanup, PutCheck, Goto, frame
  <2>2. CASE GetRead(p)
    BY <2>2 DEF IInv, TypeOK, Ready, WellPlaced, ReaderReady, CallOf, GetRead, Settle, Goto, frame
  <2>3. CASE IterStep(p)
    BY <2>3 DEF IInv, TypeOK, Ready, WellPlaced, CallOf, IterStep, IterRoot, IterShard, IterName,
       IterEnd, Settle, Goto, frame
  <2> QED BY <2>1, <2>2, <2>3
<1> QED BY <1>1, <1>2, <1>3, Stutter

\* A step of p that moves its call from c to d, the other calls staying as they are.
LEMMA CallMoves ==
    ASSUME IInv, NEW p \in Clients, Call(p) \/ Step(p) \/ Crash(p)
    PROVE  AbsCall[p] = CallOf(p) /\ AbsCall' = [AbsCall EXCEPT ![p] = CallOf(p)']
  BY OthersKeep DEF IInv, AbsCall

\* put takes effect at the existence check if the object is there, otherwise at
\* os.replace, and not at all if it raises.
LEMMA PutRefines ==
    ASSUME IInv, NEW p \in Clients,
           \/ PutCheck(p) /\ arg[p] \in Present
           \/ PutReplace(p) \/ PutFailsEarly(p) \/ PutFailsLate(p)
    PROVE  Contract!Put(p) \/ Contract!PutFails(p)
<1> USE DEF IInv
<1>1. AbsCall[p] = CallOf(p) /\ AbsCall' = [AbsCall EXCEPT ![p] = CallOf(p)']
  BY CallMoves DEF Step, PutStep
<1>2. CallOf(p) = [phase |-> "pending", op |-> "put", arg |-> arg[p]]
  BY DEF TypeOK, Ready, WellPlaced, CallOf, PutCheck, PutReplace, PutFailsEarly, PutFailsLate
<1>3. CASE (PutCheck(p) /\ arg[p] \in Present) \/ PutReplace(p)
  <2>1. CallOf(p)' = [phase |-> "done", op |-> "put", arg |-> arg[p], result |-> "hash"]
    BY <1>3 DEF TypeOK, Ready, WellPlaced, CallOf, PutCheck, PutReplace, Settle, Goto, frame
  <2>2. Present' = Present \cup {arg[p]}
    BY <1>3 DEF TypeOK, Ready, WellPlaced, WriterReady, Present, PutCheck, PutReplace, files
  <2> QED BY <1>1, <1>2, <2>1, <2>2 DEF Contract!Put, Contract!InCall, Contract!Settle
<1>4. CASE PutFailsEarly(p) \/ PutFailsLate(p)
  <2>1. CallOf(p)' = [phase |-> "done", op |-> "put", arg |-> arg[p], result |-> "error"]
    BY <1>4 DEF TypeOK, Ready, WellPlaced, CallOf, PutFailsEarly, PutFailsLate, Settle, Goto, frame
  <2>2. Present' = Present
    BY <1>4 DEF Present, PutFailsEarly, PutFailsLate, files
  <2> QED BY <1>1, <1>2, <2>1, <2>2 DEF Contract!PutFails, Contract!InCall, Contract!Settle
<1> QED BY <1>3, <1>4

\* get takes effect when it opens the file.
LEMMA GetRefines == ASSUME IInv, NEW p \in Clients, GetOpen(p) PROVE Contract!Get(p)
<1> USE DEF IInv, GetOpen
<1>1. AbsCall[p] = CallOf(p) /\ AbsCall' = [AbsCall EXCEPT ![p] = CallOf(p)']
  BY CallMoves DEF Step
<1>2. CallOf(p) = [phase |-> "pending", op |-> "get", arg |-> arg[p]]
  BY DEF TypeOK, Ready, WellPlaced, CallOf
<1>3. CallOf(p)' = [phase |-> "done", op |-> "get", arg |-> arg[p],
                    result |-> IF arg[p] \in Present THEN "bytes" ELSE "missing"]
  BY DEF TypeOK, Ready, WellPlaced, CallOf, Settle, Goto, frame
<1>4. Present' = Present
  BY DEF Present, files
<1> QED BY <1>1, <1>2, <1>3, <1>4 DEF Contract!Get, Contract!InCall, Contract!Settle

LEMMA ExistsRefines == ASSUME IInv, NEW p \in Clients, Exists(p) PROVE Contract!Exists(p)
<1> USE DEF IInv, Exists
<1>1. AbsCall[p] = CallOf(p) /\ AbsCall' = [AbsCall EXCEPT ![p] = CallOf(p)']
  BY CallMoves DEF Step
<1>2. CallOf(p) = [phase |-> "pending", op |-> "exists", arg |-> arg[p]]
  BY DEF TypeOK, Ready, WellPlaced, CallOf
<1>3. CallOf(p)' = [phase |-> "done", op |-> "exists", arg |-> arg[p],
                    result |-> IF arg[p] \in Present THEN "yes" ELSE "no"]
  BY DEF TypeOK, Ready, WellPlaced, CallOf, Settle, Goto, frame
<1>4. Present' = Present
  BY DEF Present, files
<1> QED BY <1>1, <1>2, <1>3, <1>4 DEF Contract!Exists, Contract!InCall, Contract!Settle

LEMMA DeleteRefines == ASSUME IInv, NEW p \in Clients, Delete(p) PROVE Contract!Delete(p)
<1> USE DEF IInv, Delete
<1>1. AbsCall[p] = CallOf(p) /\ AbsCall' = [AbsCall EXCEPT ![p] = CallOf(p)']
  BY CallMoves DEF Step
<1>2. CallOf(p) = [phase |-> "pending", op |-> "delete", arg |-> arg[p]]
  BY DEF TypeOK, Ready, WellPlaced, CallOf
<1>3. CallOf(p)' = [phase |-> "done", op |-> "delete", arg |-> arg[p], result |-> "ok"]
  BY DEF TypeOK, Ready, WellPlaced, CallOf, Settle, Goto, frame
<1>4. Present' = Present \ {arg[p]}
  BY DEF TypeOK, Ready, WellPlaced, Present
<1> QED BY <1>1, <1>2, <1>3, <1>4 DEF Contract!Delete, Contract!InCall, Contract!Settle

\* A call begins, returns or dies with its client; an iteration is none of the
\* contract's business.
LEMMA FrameRefines ==
    ASSUME IInv, NEW p \in Clients, Call(p) \/ Return(p) \/ Crash(p)
    PROVE  [Contract!Next]_(Contract!vars)
<1> USE DEF IInv
<1>1. AbsCall[p] = CallOf(p) /\ AbsCall' = [AbsCall EXCEPT ![p] = CallOf(p)']
  BY CallMoves DEF Step
<1>2. Present' = Present
  BY DEF Present, Call, Begin, Return, Crash, files
<1>3. CASE Call(p)
  <2>1. ASSUME NEW o \in {"put", "get", "exists", "delete"}, NEW c \in Contents, Begin(p, o, c)
        PROVE  Contract!Invoke(p, o, c) /\ o \in Contract!Ops
    <3>1. CallOf(p) = [phase |-> "idle"]
      BY <2>1 DEF CallOf, Begin
    <3>2. /\ pc'[p] = FirstStep[o] /\ op'[p] = o /\ arg'[p] = c /\ result'[p] = "none"
      BY <2>1 DEF TypeOK, Ready, WellPlaced, Begin, Goto
    <3>3. CallOf(p)' = [phase |-> "pending", op |-> o, arg |-> c]
      BY <3>2 DEF CallOf, FirstStep
    <3> QED BY <1>1, <1>2, <3>1, <3>3 DEF Contract!Invoke, Contract!Idle, Contract!Ops
  <2>2. ASSUME Begin(p, "iter", None) PROVE UNCHANGED Contract!vars
    <3>1. CallOf(p)' = CallOf(p)
      BY <2>2 DEF TypeOK, CallOf, Begin
    <3> QED BY <1>2, <3>1, OthersKeep, <1>3, Stutter
  <2> QED BY <1>3, <2>1, <2>2 DEF Call, Contract!Next
<1>4. CASE Return(p) \/ Crash(p)
  <2>1. CallOf(p)' = [phase |-> "idle"]
    BY <1>4 DEF TypeOK, CallOf, Return, Crash, Forget, Settle, Goto
  <2>2. CASE op[p] = "iter" \/ pc[p] = "idle"
    <3>1. CallOf(p)' = CallOf(p)
      BY <2>1, <2>2 DEF CallOf
    <3> QED BY <1>2, <1>4, <3>1, OthersKeep, Stutter DEF Step
  <2>3. CASE Return(p) /\ op[p] # "iter"
    <3>1. CallOf(p).phase = "done"
      BY <2>3 DEF Return, Ready, WellPlaced, CallOf
    <3> QED BY <1>1, <1>2, <2>1, <3>1 DEF Contract!Return, Contract!Idle, Contract!Next
  <2>4. CASE Crash(p) /\ op[p] # "iter" /\ pc[p] # "idle"
    <3>1. CallOf(p) # [phase |-> "idle"]
      <4>1. CallOf(p).phase \in {"pending", "done"}
        BY <2>4 DEF CallOf
      <4> QED BY <4>1
    <3> QED BY <1>1, <1>2, <2>1, <3>1 DEF Contract!Abandon, Contract!Idle, Contract!Next
  <2> QED BY <1>4, <2>2, <2>3, <2>4
<1> QED BY <1>3, <1>4

\* Every step of the directory is a step of the atomic store, or none.
LEMMA NextRefines == IInv /\ [Next]_vars => [Contract!Next]_(Contract!vars)
<1> SUFFICES ASSUME IInv, [Next]_vars PROVE [Contract!Next]_(Contract!vars)
  OBVIOUS
<1>1. ASSUME NEW p \in Clients, Call(p) \/ Return(p) \/ Crash(p)
      PROVE  [Contract!Next]_(Contract!vars)
  BY <1>1, FrameRefines
<1>2. ASSUME NEW p \in Clients, PutStep(p) PROVE [Contract!Next]_(Contract!vars)
  BY <1>2, SilentSteps, PutRefines DEF PutStep, Contract!Next, Contract!TakeEffect
<1>3. ASSUME NEW p \in Clients, GetOpen(p) \/ GetRead(p) \/ Exists(p) \/ Delete(p) \/ IterStep(p)
      PROVE  [Contract!Next]_(Contract!vars)
  BY <1>3, SilentSteps, GetRefines, ExistsRefines, DeleteRefines
     DEF Contract!Next, Contract!TakeEffect
<1>4. CASE UNCHANGED vars
  BY <1>4 DEF vars, files, frame, Contract!vars, Present, AbsCall, CallOf
<1> QED BY <1>1, <1>2, <1>3, <1>4 DEF Next, Step

LEMMA InitRefines == Init => Contract!Init
  BY DEF Init, Contract!Init, Contract!Idle, Present, AbsCall, CallOf

\* The safety part of ImplementsContract: with any number of clients and contents
\* every behaviour of the directory is one of the atomic store.
THEOREM Linearizable == Spec => Contract!Init /\ [][Contract!Next]_(Contract!vars)
  BY InitRefines, NextRefines, Invariance, PTL DEF Spec
-----------------------------------------------------------------------------
(* Iterations.  An object that has been there since an iteration began is, at any       *)
(* moment, yielded already, in the listing of the shard under way or in a shard still   *)
(* to list; none is missed because no put makes an object before its shard directory.   *)

ObjectName(c) == [of |-> c, hidden |-> FALSE]

\* Shard directories are made before the objects in them and stay.
ShardMade(p) == pc[p] \in {"create", "write", "sync", "replace"} => ShardOf[arg[p]] \in shards
ShardsMade == \A c \in Present : ShardOf[c] \in shards

OnlySeen(p) == \A n \in yielded[p] : ~n.hidden /\ n.of \in seen[p]
Due(p, c) == ObjectName(c) \in yielded[p] \cup listing[p] \/ ShardOf[c] \in todo[p]

Underway(p) ==
    pc[p] = "next" =>
        /\ steady[p] \subseteq Present /\ Present \subseteq seen[p]
        /\ OnlySeen(p)
        /\ \A c \in steady[p] : Due(p, c)

Ended(p) ==
    pc[p] = "return" /\ op[p] = "iter" =>
        OnlySeen(p) /\ \A c \in steady[p] : ObjectName(c) \in yielded[p]

\* Nothing is left over from an earlier iteration.
Unbegun(p) == pc[p] \notin {"next", "return"} => listing[p] = {} /\ yielded[p] = {}

IterReady(p) == ShardMade(p) /\ Underway(p) /\ Ended(p) /\ Unbegun(p)

XInv == IInv /\ ShardsMade /\ \A p \in Clients : IterReady(p)

LEMMA InitXInv == Init => XInv
  BY InitIInv DEF Init, XInv, ShardsMade, Present, IterReady, ShardMade, Underway, Ended, Unbegun

\* What a step of p means for the iteration of another client q.
LEMMA IterationsStay ==
    ASSUME TypeOK, NEW p \in Clients, Call(p) \/ Step(p) \/ Crash(p), NEW q \in Clients \ {p}
    PROVE  /\ todo'[q] = todo[q] /\ listing'[q] = listing[q] /\ yielded'[q] = yielded[q]
           /\ \/ Present' = Present /\ steady'[q] = steady[q] /\ seen'[q] = seen[q]
              \/ /\ steady'[q] = steady[q] \cap Present'
                 /\ seen'[q] = IF pc[q] = "next" THEN seen[q] \cup Present' ELSE seen[q]
<1> USE DEF TypeOK, files, iteration, history, Present
<1>1. CASE Call(p)
  BY <1>1 DEF Call, Begin
<1>2. CASE PutStep(p)
  BY <1>2 DEF PutStep, PutCheck, PutMkdir, PutCreate, PutWrite, PutSync, PutReplace,
     PutFailsEarly, PutFailsLate, PutCleanup, Track
<1>3. CASE GetOpen(p) \/ GetRead(p) \/ Exists(p) \/ Delete(p)
  BY <1>3 DEF GetOpen, GetRead, Exists, Delete, Track
<1>4. CASE IterStep(p)
  BY <1>4 DEF IterStep, IterRoot, IterShard, IterName, IterEnd
<1>5. CASE Return(p) \/ Crash(p)
  BY <1>5 DEF Return, Crash, Forget
<1> QED BY <1>1, <1>2, <1>3, <1>4, <1>5 DEF Step

\* Directories are never taken away.
LEMMA ShardsStay ==
    ASSUME NEW p \in Clients, Call(p) \/ Step(p) \/ Crash(p)
    PROVE  shards \subseteq shards'
<1> USE DEF files
<1>1. CASE Call(p)
  BY <1>1 DEF Call, Begin
<1>2. CASE PutStep(p)
  BY <1>2 DEF PutStep, PutCheck, PutMkdir, PutCreate, PutWrite, PutSync, PutReplace,
     PutFailsEarly, PutFailsLate, PutCleanup
<1>3. CASE GetOpen(p) \/ GetRead(p) \/ Exists(p) \/ Delete(p)
  BY <1>3 DEF GetOpen, GetRead, Exists, Delete
<1>4. CASE IterStep(p)
  BY <1>4 DEF IterStep, IterRoot, IterShard, IterName, IterEnd
<1>5. CASE Return(p) \/ Crash(p)
  BY <1>5 DEF Return, Crash, Forget
<1> QED BY <1>1, <1>2, <1>3, <1>4, <1>5 DEF Step

\* So, again, what is left to show of a step of p is p itself and the directories.
LEMMA OneIterationStep ==
    ASSUME XInv, NEW p \in Clients, Call(p) \/ Step(p) \/ Crash(p), ShardsMade', IterReady(p)'
    PROVE  XInv'
<1>1. IInv'
  BY NextIInv DEF XInv, Next
<1>2. ASSUME NEW q \in Clients, q # p PROVE IterReady(q)'
  <2>1. pc'[q] = pc[q] /\ op'[q] = op[q] /\ arg'[q] = arg[q] /\ shards \subseteq shards'
    BY <1>2, OthersStay, ShardsStay DEF XInv, IInv
  <2>2. /\ todo'[q] = todo[q] /\ listing'[q] = listing[q] /\ yielded'[q] = yielded[q]
        /\ \/ Present' = Present /\ steady'[q] = steady[q] /\ seen'[q] = seen[q]
           \/ /\ steady'[q] = steady[q] \cap Present'
              /\ seen'[q] = IF pc[q] = "next" THEN seen[q] \cup Present' ELSE seen[q]
    BY <1>2, IterationsStay DEF XInv, IInv
  <2>3. IterReady(q)
    BY DEF XInv
  <2>4. ShardMade(q)' /\ Unbegun(q)'
    BY <2>1, <2>2, <2>3 DEF IterReady, ShardMade, Unbegun
  <2>5. Underway(q)'
    BY <2>1, <2>2, <2>3 DEF IterReady, Underway, OnlySeen, Due, ObjectName
  <2>6. Ended(q)'
    BY <2>1, <2>2, <2>3 DEF IterReady, Ended, OnlySeen, ObjectName
  <2> QED BY <2>4, <2>5, <2>6 DEF IterReady
<1> QED BY <1>1, <1>2 DEF XInv

LEMMA CallIterates == ASSUME XInv, NEW p \in Clients, Call(p) PROVE XInv'
<1> USE DEF XInv
<1> SUFFICES ASSUME NEW o \in {"put", "get", "exists", "delete", "iter"}, NEW c, Begin(p, o, c)
             PROVE  XInv'
  BY DEF Call
<1>1. pc[p] = "idle" /\ pc'[p] \in {"check", "open", "stat", "unlink", "list"}
  BY DEF Begin, Goto, FirstStep, IInv, TypeOK
<1>2. UNCHANGED <<shards, objects, listing, yielded>>
  BY DEF Begin, files, iteration
<1>3. ShardsMade'
  BY <1>2 DEF ShardsMade, Present
<1>4. IterReady(p)'
  BY <1>1, <1>2 DEF IterReady, ShardMade, Underway, Ended, Unbegun
<1> QED BY <1>3, <1>4, OneIterationStep

\* put makes the directory, and keeps to it until the object is there.
LEMMA PutIterates == ASSUME XInv, NEW p \in Clients, PutStep(p) PROVE XInv'
<1> USE DEF XInv, Goto, Settle
<1>1. /\ op[p] = "put" /\ op'[p] = "put" /\ arg'[p] = arg[p] /\ listing'[p] = listing[p]
      /\ yielded'[p] = yielded[p] /\ arg[p] \in Contents
      /\ pc[p] \in {"check", "mkdir", "create", "write", "sync", "replace", "cleanup"}
      /\ pc'[p] \in {"mkdir", "create", "write", "sync", "replace", "cleanup", "return"}
  BY DEF PutStep, PutCheck, PutMkdir, PutCreate, PutWrite, PutSync, PutReplace, PutFailsEarly,
     PutFailsLate, PutCleanup, files, frame, iteration, IInv, TypeOK, Ready, WellPlaced
<1>2. ShardMade(p)'
  BY <1>1 DEF PutStep, PutCheck, PutMkdir, PutCreate, PutWrite, PutSync, PutReplace, PutFailsEarly,
     PutFailsLate, PutCleanup, files, IInv, TypeOK, IterReady, ShardMade
<1>3. IterReady(p)'
  BY <1>1, <1>2 DEF IterReady, Underway, Ended, Unbegun
<1>4. ShardsMade'
  <2>1. CASE PutReplace(p)
    <3>1. Present' \subseteq Present \cup {arg[p]} /\ shards' = shards
      BY <2>1 DEF PutReplace, Present, IInv, TypeOK
    <3>2. ShardOf[arg[p]] \in shards
      BY <2>1 DEF PutReplace, IterReady, ShardMade
    <3> QED BY <3>1, <3>2 DEF ShardsMade
  <2>2. CASE ~PutReplace(p)
    <3>1. Present' = Present
      BY <2>2 DEF PutStep, PutCheck, PutMkdir, PutCreate, PutWrite, PutSync, PutFailsEarly,
         PutFailsLate, PutCleanup, files, Present
    <3> QED BY <3>1, ShardsStay DEF ShardsMade, Step
  <2> QED BY <2>1, <2>2
<1> QED BY <1>3, <1>4, OneIterationStep DEF Step

LEMMA OthersIterate ==
    ASSUME XInv, NEW p \in Clients, GetOpen(p) \/ GetRead(p) \/ Exists(p) \/ Delete(p)
    PROVE  XInv'
<1> USE DEF XInv, Goto, Settle
<1>1. /\ op'[p] \in {"get", "exists", "delete"} /\ pc'[p] \in {"read", "return"}
      /\ listing'[p] = listing[p] /\ yielded'[p] = yielded[p] /\ shards' = shards
      /\ pc[p] \in {"open", "read", "stat", "unlink"} /\ Present' \subseteq Present
  BY DEF GetOpen, GetRead, Exists, Delete, files, frame, iteration, IInv, TypeOK, Ready, WellPlaced, Present
<1>2. ShardsMade' /\ IterReady(p)'
  BY <1>1 DEF ShardsMade, IterReady, ShardMade, Underway, Ended, Unbegun
<1> QED BY <1>2, OneIterationStep DEF Step

LEMMA LeaveIterates ==
    ASSUME XInv, NEW p \in Clients, Return(p) \/ Crash(p)
    PROVE  XInv'
<1>1. pc'[p] = "idle" /\ listing'[p] = {} /\ yielded'[p] = {} /\ UNCHANGED <<objects, shards>>
  BY DEF XInv, IInv, TypeOK, Return, Crash, Forget, Settle, Goto, files
<1>2. ShardsMade' /\ IterReady(p)'
  BY <1>1 DEF XInv, ShardsMade, Present, IterReady, ShardMade, Underway, Ended, Unbegun
<1> QED BY <1>2, OneIterationStep DEF Step

\* The steps of the iteration itself.
LEMMA IterIterates == ASSUME XInv, NEW p \in Clients, IterStep(p) PROVE XInv'
<1> USE DEF XInv, Goto, Settle
<1>1. /\ UNCHANGED <<objects, temp, orphans, shards>> /\ op'[p] = "iter"
      /\ Present' = Present /\ pc[p] \in {"list", "next"}
  BY DEF IterStep, IterRoot, IterShard, IterName, IterEnd, files, frame, Present, IInv, TypeOK,
     Ready, WellPlaced
<1>2. ShardsMade'
  BY <1>1 DEF ShardsMade
<1>3. CASE IterRoot(p)
  <2>1. /\ pc'[p] = "next" /\ todo'[p] = shards /\ steady'[p] = Present /\ seen'[p] = Present
        /\ listing'[p] = {} /\ yielded'[p] = {}
    BY <1>3 DEF IterRoot, IInv, TypeOK, IterReady, Unbegun
  <2>2. IterReady(p)'
    BY <1>1, <2>1 DEF IterReady, ShardMade, Underway, Ended, Unbegun, OnlySeen, Due, ShardsMade
  <2> QED BY <1>2, <2>2, OneIterationStep DEF Step
<1>4. CASE IterShard(p)
  <2>1. PICK s \in todo[p] : /\ todo'[p] = todo[p] \ {s} /\ listing'[p] = NamesIn(s)
    BY <1>4 DEF IterShard, IInv, TypeOK
  <2>2. /\ pc[p] = "next" /\ pc'[p] = "next" /\ listing[p] = {} /\ yielded'[p] = yielded[p]
        /\ steady'[p] = steady[p] /\ seen'[p] = seen[p]
    BY <1>4 DEF IterShard, history
  <2>3. Underway(p)
    BY DEF IterReady
  <2>4. ASSUME NEW c \in steady[p] PROVE Due(p, c)'
    <3>1. c \in Present /\ c \in Contents /\ Due(p, c)
      BY <2>2, <2>3, <2>4 DEF Underway, Present
    <3>2. ObjectName(c) \in NamesIn(ShardOf[c])
      BY <3>1 DEF NamesIn, ObjectName, Name
    <3> QED BY <2>1, <2>2, <3>1, <3>2 DEF Due, ObjectName
  <2>5. Underway(p)'
    BY <1>1, <2>2, <2>3, <2>4 DEF Underway, OnlySeen
  <2>6. IterReady(p)'
    BY <2>2, <2>5 DEF IterReady, ShardMade, Ended, Unbegun
  <2> QED BY <1>2, <2>6, OneIterationStep DEF Step
<1>5. CASE IterName(p)
  <2>1. PICK n \in listing[p] :
            /\ listing'[p] = listing[p] \ {n}
            /\ yielded'[p] = IF IsFile(n) /\ ~n.hidden THEN yielded[p] \cup {n} ELSE yielded[p]
    BY <1>5 DEF IterName, IInv, TypeOK
  <2>2. /\ pc[p] = "next" /\ pc'[p] = "next" /\ todo'[p] = todo[p]
        /\ steady'[p] = steady[p] /\ seen'[p] = seen[p]
    BY <1>5 DEF IterName, history
  <2>3. Underway(p)
    BY DEF IterReady
  <2>4. ASSUME NEW c \in steady[p] PROVE Due(p, c)'
    <3>1. c \in Present /\ c \in Contents /\ Due(p, c)
      BY <2>2, <2>3, <2>4 DEF Underway, Present
    <3>2. n = ObjectName(c) => IsFile(n) /\ ~n.hidden
      BY <3>1 DEF IsFile, NamesIn, ObjectName, Name
    <3> QED BY <2>1, <2>2, <3>1, <3>2 DEF Due, ObjectName
  <2>5. OnlySeen(p)'
    <3>1. IsFile(n) /\ ~n.hidden => n.of \in seen[p]
      BY <2>2, <2>3 DEF IsFile, NamesIn, Underway
    <3> QED BY <2>1, <2>2, <2>3, <3>1 DEF Underway, OnlySeen
  <2>6. Underway(p)'
    BY <1>1, <2>2, <2>3, <2>4, <2>5 DEF Underway
  <2>7. IterReady(p)'
    BY <2>2, <2>6 DEF IterReady, ShardMade, Ended, Unbegun
  <2> QED BY <1>2, <2>7, OneIterationStep DEF Step
<1>6. CASE IterEnd(p)
  <2>1. /\ pc[p] = "next" /\ pc'[p] = "return" /\ listing[p] = {} /\ todo[p] = {}
        /\ UNCHANGED <<yielded, steady, seen>>
    BY <1>6 DEF IterEnd, IInv, TypeOK, iteration, history
  <2>2. Ended(p)'
    BY <2>1 DEF IterReady, Underway, Due, Ended, OnlySeen, ObjectName
  <2>3. IterReady(p)'
    BY <2>1, <2>2 DEF IterReady, ShardMade, Underway, Unbegun
  <2> QED BY <1>2, <2>3, OneIterationStep DEF Step
<1> QED BY <1>3, <1>4, <1>5, <1>6 DEF IterStep

LEMMA NextXInv == XInv /\ [Next]_vars => XInv'
<1> SUFFICES ASSUME XInv, [Next]_vars PROVE XInv'
  OBVIOUS
<1>1. CASE UNCHANGED vars
  <2>1. IInv'
    BY <1>1, NextIInv DEF XInv
  <2> QED BY <1>1, <2>1 DEF XInv, vars, files, frame, iteration, history, ShardsMade, Present, IterReady,
     ShardMade, Underway, Ended, Unbegun, OnlySeen, Due, ObjectName
<1>2. CASE Next
  BY <1>2, CallIterates, PutIterates, OthersIterate, IterIterates, LeaveIterates DEF Next, Step
<1> QED BY <1>1, <1>2

\* For any number of clients, contents and shards, whatever others put and delete
\* meanwhile: an iteration that ends has yielded each object that was there throughout,
\* and nothing that never was (filesystem.py:90-98).
THEOREM IterationsExact == Spec => []IterationExact
<1>1. XInv => IterationExact
  <2> SUFFICES ASSUME XInv, NEW p \in Clients, pc[p] = "return", op[p] = "iter"
               PROVE  steady[p] \subseteq {n.of : n \in yielded[p]} /\ OnlySeen(p)
    BY DEF IterationExact, OnlySeen
  <2>1. OnlySeen(p) /\ \A c \in steady[p] : ObjectName(c) \in yielded[p]
    BY DEF XInv, IterReady, Ended
  <2>2. \A c : ObjectName(c).of = c
    BY DEF ObjectName
  <2> QED BY <2>1, <2>2
<1>2. Spec => []XInv
  BY InitXInv, NextXInv, PTL DEF Spec
<1> QED BY <1>1, <1>2, PTL

-----------------------------------------------------------------------------
(* Power losses *)

ObjectsSynced == \A c \in Present : objects[c].synced

DiskWhole ==
    \A c \in Contents : disk[c] # None => disk[c].of = c /\ disk[c].whole /\ disk[c].synced

DInv ==
    /\ IInv
    /\ disk \in [Contents -> File \cup {None}]
    /\ owed \subseteq Contents
    /\ ObjectsSynced
    /\ DiskWhole

LEMMA DInitInv == DInit => DInv
  BY InitIInv, NoneAssumption DEF DInit, Init, DInv, ObjectsSynced, DiskWhole, Present

\* Only os.replace brings a new file to an object's path, and it has been synced.
LEMMA SyncedStep ==
    ASSUME IInv, ObjectsSynced, NEW p \in Clients, Call(p) \/ Step(p) \/ Crash(p)
    PROVE  ObjectsSynced'
<1>1. CASE PutReplace(p)
  <2>1. arg[p] \in Contents /\ temp[p].synced
    BY <1>1 DEF IInv, Ready, WriterReady, WellPlaced, PutReplace
  <2>2. objects' = [objects EXCEPT ![arg[p]] = temp[p]]
    BY <1>1 DEF PutReplace
  <2> QED BY <2>1, <2>2 DEF IInv, TypeOK, ObjectsSynced, Present
<1>2. CASE Delete(p)
  BY <1>2 DEF IInv, TypeOK, ObjectsSynced, Present, Delete
<1>3. CASE UNCHANGED objects
  BY <1>3 DEF ObjectsSynced, Present
<1>4. PutReplace(p) \/ Delete(p) \/ UNCHANGED objects
  BY DEF Call, Begin, Step, PutStep, PutCheck, PutMkdir, PutCreate, PutWrite, PutSync,
     PutFailsEarly, PutFailsLate, PutCleanup, GetOpen, GetRead, Exists, IterStep, IterRoot,
     IterShard, IterName, IterEnd, Return, Crash, files
<1> QED BY <1>1, <1>2, <1>3, <1>4

LEMMA WorkStep == ASSUME DInv, Work PROVE DInv'
<1>1. PICK p \in Clients : (Call(p) \/ Step(p) \/ Crash(p)) /\ Owe(p) /\ UNCHANGED disk
  BY DEF Work
<1>2. IInv'
  BY <1>1, NextIInv DEF DInv, Next
<1>3. ObjectsSynced' /\ DiskWhole'
  BY <1>1, SyncedStep DEF DInv, DiskWhole
<1>4. owed' \subseteq Contents
  <2>1. Return(p) /\ op[p] = "put" => arg[p] \in Contents
    BY DEF DInv, IInv, Ready, WellPlaced
  <2> QED BY <1>1, <2>1 DEF DInv, Owe
<1> QED BY <1>1, <1>2, <1>3, <1>4 DEF DInv

LEMMA WriteBackStep == ASSUME DInv, NEW c \in Contents, WriteBack(c) PROVE DInv'
<1> USE DEF WriteBack, vars, files, frame, iteration, history
<1>1. IInv'
  BY NextIInv DEF DInv
<1>2. ObjectsSynced'
  BY DEF DInv, ObjectsSynced, Present
<1>3. disk' \in [Contents -> File \cup {None}] /\ DiskWhole'
  BY DEF DInv, IInv, TypeOK, NoTornObject, ObjectsSynced, Present, DiskWhole
<1> QED BY <1>1, <1>2, <1>3 DEF DInv

\* After a power loss the directory is what the disk had.
LEMMA PowerLossStep == ASSUME DInv, PowerLoss PROVE DInv'
<1>1. objects' = disk /\ disk' = disk
  <2>1. /\ objects' \in [Contents -> UNION {Survivors(disk[c]) : c \in Contents}]
        /\ \A c \in Contents : objects'[c] \in Survivors(disk[c])
    BY DEF PowerLoss
  <2>2. \A c \in Contents : Survivors(disk[c]) = {disk[c]}
    BY DEF DInv, DiskWhole, Survivors
  <2>3. \A c \in Contents : objects'[c] = disk[c]
    BY <2>1, <2>2
  <2>4. objects' = disk
    BY <2>1, <2>3 DEF DInv
  <2> QED BY <2>4 DEF PowerLoss
<1>2. ObjectsSynced' /\ DiskWhole' /\ NoTornObject'
  BY <1>1 DEF DInv, DiskWhole, ObjectsSynced, NoTornObject, Present
<1>3. TypeOK'
  <2>1. orphans' \subseteq Contents
    <3>1. {temp[p].of : p \in {q \in Clients : temp[q] # None}} \subseteq Contents
      BY DEF DInv, IInv, TypeOK, File
    <3> QED BY <3>1 DEF PowerLoss, DInv, IInv, TypeOK
  <2> QED BY <1>1, <2>1 DEF PowerLoss, DInv, IInv, TypeOK, PCs, Ops, Results
<1>4. \A p \in Clients : Ready(p)'
  BY DEF PowerLoss, Ready, WriterReady, ReaderReady, TempHeld, WellPlaced
<1> QED BY <1>1, <1>2, <1>3, <1>4 DEF PowerLoss, DInv, IInv

LEMMA DNextInv == DInv /\ [DNext]_dvars => DInv'
<1> SUFFICES ASSUME DInv, [DNext]_dvars PROVE DInv'
  OBVIOUS
<1>1. CASE UNCHANGED dvars
  <2>1. IInv'
    BY <1>1, NextIInv DEF DInv, dvars
  <2> QED
    BY <1>1, <2>1 DEF DInv, dvars, vars, files, ObjectsSynced, DiskWhole, Present
<1> QED BY <1>1, WorkStep, WriteBackStep, PowerLossStep DEF DNext

\* For any clients and contents: no object is torn, in the directory or on the disk,
\* whatever write-backs and power losses come between the calls (filesystem.py:52-58).
THEOREM NeverTorn == DSpec => []NoTornObjectEver
<1>1. DInv => NoTornObjectEver
  BY DEF DInv, IInv, DiskWhole, NoTornObjectEver
<1> QED BY <1>1, DInitInv, DNextInv, PTL DEF DSpec

\* The disk, and the history of what put has answered for, stay well typed.
THEOREM DTypeCorrect == DSpec => []DTypeOK
<1>1. DInv => DTypeOK
  BY DEF DInv, IInv, DTypeOK
<1> QED BY <1>1, DInitInv, DNextInv, PTL DEF DSpec
=============================================================================
