--------------------------- MODULE FilesystemCAS ---------------------------
(***************************************************************************)
(* storage/filesystem.py: objects at root/{hash[:2]}/{hash[2:]}, written to  *)
(* a dot-prefixed temporary file of the same shard directory and moved into *)
(* place with os.replace.  Several threads or processes share the directory *)
(* and nothing locks it, so every system call is a step of its own and the  *)
(* steps of different clients interleave.  A client may die between any two *)
(* of its steps, and the steps that write may raise OSError.                *)
(***************************************************************************)
CONSTANTS Clients,    \* threads or processes using the directory
          Contents,   \* byte strings, each identified with its SHA-256
          Shards,     \* two-character directory names
          ShardOf,    \* the shard of each content: hash[:2]
          None        \* no file, no argument

ASSUME ShardOfAssumption == ShardOf \in [Contents -> Shards]

\* What a file holds: the content it is meant for, whether all of it has been
\* written, and whether fsync has returned for it.
File == [of : Contents, whole : BOOLEAN, synced : BOOLEAN]

ASSUME NoneAssumption == None \notin File \cup Contents

\* A name in a shard directory: that of an object, or hidden ("." prefix).
Name == [of : Contents, hidden : BOOLEAN]

VARIABLES
    objects,   \* object path of each content |-> the file there, or None
    temp,      \* the temporary file each client's put holds, or None
    orphans,   \* contents whose temporary file a dead client left behind
    shards,    \* shard directories made so far
    pc,        \* the next step of each client
    op,        \* the method each client is in
    arg,       \* the content it was called with
    result,    \* what the call will return or raise, once settled
    handle,    \* the file a get has opened, or None
    todo,      \* shard directories an iteration has still to list
    listing,   \* names of the current shard it has still to visit
    yielded,   \* names the iteration has yielded
    steady,    \* history: contents present ever since the iteration began
    seen       \* history: contents present at some time since it began

files == <<objects, temp, orphans, shards>>
frame == <<op, arg>>
iteration == <<todo, listing, yielded>>
history == <<steady, seen>>
vars == <<files, pc, frame, result, handle, iteration, history>>

PCs == {"idle", "check", "mkdir", "create", "write", "sync", "replace", "cleanup",
        "open", "read", "stat", "unlink", "list", "next", "return"}
Ops == {"none", "put", "get", "exists", "delete", "iter"}
Results == {"none", "hash", "bytes", "torn", "missing", "yes", "no", "ok", "error"}

TypeOK ==
    /\ objects \in [Contents -> File \cup {None}]
    /\ temp \in [Clients -> File \cup {None}]
    /\ orphans \subseteq Contents
    /\ shards \subseteq Shards
    /\ pc \in [Clients -> PCs]
    /\ op \in [Clients -> Ops]
    /\ arg \in [Clients -> Contents \cup {None}]
    /\ result \in [Clients -> Results]
    /\ handle \in [Clients -> File \cup {None}]
    /\ todo \in [Clients -> SUBSET Shards]
    /\ listing \in [Clients -> SUBSET Name]
    /\ yielded \in [Clients -> SUBSET Name]
    /\ steady \in [Clients -> SUBSET Contents]
    /\ seen \in [Clients -> SUBSET Contents]

Present == {c \in Contents : objects[c] # None}

Init ==
    /\ objects = [c \in Contents |-> None]
    /\ temp = [p \in Clients |-> None]
    /\ orphans = {}
    /\ shards = {}
    /\ pc = [p \in Clients |-> "idle"]
    /\ op = [p \in Clients |-> "none"]
    /\ arg = [p \in Clients |-> None]
    /\ result = [p \in Clients |-> "none"]
    /\ handle = [p \in Clients |-> None]
    /\ todo = [p \in Clients |-> {}]
    /\ listing = [p \in Clients |-> {}]
    /\ yielded = [p \in Clients |-> {}]
    /\ steady = [p \in Clients |-> {}]
    /\ seen = [p \in Clients |-> {}]

-----------------------------------------------------------------------------
(* Helpers. *)

\* Client p goes on to step l of its method.
Goto(p, l) == pc' = [pc EXCEPT ![p] = l]

\* The outcome of p's call is settled as r; it goes on to step l.
Settle(p, r, l) ==
    /\ result' = [result EXCEPT ![p] = r]
    /\ Goto(p, l)

\* History of the iterations in progress, kept by every step that changes objects.
Track ==
    /\ steady' = [q \in Clients |-> steady[q] \cap Present']
    /\ seen' = [q \in Clients |-> IF pc[q] = "next" THEN seen[q] \cup Present'
                                                    ELSE seen[q]]

\* The names of shard directory s.
NamesIn(s) ==
    {n \in Name : /\ ShardOf[n.of] = s
                  /\ IF n.hidden
                     THEN n.of \in orphans \/ \E q \in Clients : temp[q] # None /\ temp[q].of = n.of
                     ELSE n.of \in Present}

-----------------------------------------------------------------------------
(* A call begins. *)

FirstStep == [put |-> "check", get |-> "open", exists |-> "stat",
              delete |-> "unlink", iter |-> "list"]

Begin(p, o, c) ==
    /\ pc[p] = "idle"
    /\ op' = [op EXCEPT ![p] = o]
    /\ arg' = [arg EXCEPT ![p] = c]
    /\ Goto(p, FirstStep[o])
    /\ UNCHANGED <<files, result, handle, iteration, history>>

Call(p) ==
    \/ \E o \in {"put", "get", "exists", "delete"}, c \in Contents : Begin(p, o, c)
    \/ Begin(p, "iter", None)

-----------------------------------------------------------------------------
(* put *)

\* PutCheck looking for the shard directory only.
PutCheckShard(p) ==
    /\ pc[p] = "check"
    /\ IF ShardOf[arg[p]] \in shards
       THEN Settle(p, "hash", "return")
       ELSE Goto(p, "mkdir") /\ UNCHANGED result
    /\ UNCHANGED <<files, frame, handle, iteration, history>>

\* if path.exists(): return content_hash
PutCheck(p) ==
    /\ pc[p] = "check"
    /\ IF arg[p] \in Present
       THEN Settle(p, "hash", "return")
       ELSE Goto(p, "mkdir") /\ UNCHANGED result
    /\ UNCHANGED <<files, frame, handle, iteration, history>>

\* path.parent.mkdir(parents=True, exist_ok=True)
PutMkdir(p) ==
    /\ pc[p] = "mkdir"
    /\ shards' = shards \cup {ShardOf[arg[p]]}
    /\ Goto(p, "create")
    /\ UNCHANGED <<objects, temp, orphans, frame, result, handle, iteration, history>>

\* PutCreate opening the object's own path for writing.
PutCreateInPlace(p) ==
    /\ pc[p] = "create"
    /\ temp' = [temp EXCEPT ![p] = [of |-> arg[p], whole |-> FALSE, synced |-> FALSE]]
    /\ objects' = [objects EXCEPT ![arg[p]] = temp'[p]]
    /\ Goto(p, "write")
    /\ Track
    /\ UNCHANGED <<orphans, shards, frame, result, handle, iteration>>

\* NamedTemporaryFile(dir=path.parent, prefix=".<name>.", delete=False)
PutCreate(p) ==
    /\ pc[p] = "create"
    /\ temp' = [temp EXCEPT ![p] = [of |-> arg[p], whole |-> FALSE, synced |-> FALSE]]
    /\ Goto(p, "write")
    /\ UNCHANGED <<objects, orphans, shards, frame, result, handle, iteration, history>>

\* temp_file.write(data); temp_file.flush()
PutWrite(p) ==
    /\ pc[p] = "write"
    /\ temp' = [temp EXCEPT ![p].whole = TRUE]
    /\ Goto(p, "sync")
    /\ UNCHANGED <<objects, orphans, shards, frame, result, handle, iteration, history>>

\* PutSync without the call.
PutUnsynced(p) ==
    /\ pc[p] = "sync"
    /\ Goto(p, "replace")
    /\ UNCHANGED <<files, frame, result, handle, iteration, history>>

\* os.fsync(temp_file.fileno())
PutSync(p) ==
    /\ pc[p] = "sync"
    /\ temp' = [temp EXCEPT ![p].synced = TRUE]
    /\ Goto(p, "replace")
    /\ UNCHANGED <<objects, orphans, shards, frame, result, handle, iteration, history>>

\* os.replace(temp_name, path)
PutReplace(p) ==
    /\ pc[p] = "replace"
    /\ objects' = [objects EXCEPT ![arg[p]] = temp[p]]
    /\ temp' = [temp EXCEPT ![p] = None]
    /\ Settle(p, "hash", "cleanup")
    /\ Track
    /\ UNCHANGED <<orphans, shards, frame, handle, iteration>>

\* OSError before a temporary file exists: the exception leaves put at once.
PutFailsEarly(p) ==
    /\ pc[p] \in {"mkdir", "create"}
    /\ Settle(p, "error", "return")
    /\ UNCHANGED <<files, frame, handle, iteration, history>>

\* PutFailsLate without a finally clause.
PutFailsBare(p) ==
    /\ pc[p] \in {"write", "sync", "replace"}
    /\ Settle(p, "error", "return")
    /\ UNCHANGED <<files, frame, handle, iteration, history>>

\* OSError afterwards: the exception passes through the finally clause.
PutFailsLate(p) ==
    /\ pc[p] \in {"write", "sync", "replace"}
    /\ Settle(p, "error", "cleanup")
    /\ UNCHANGED <<files, frame, handle, iteration, history>>

\* finally: if the temporary file is still there, unlink it
PutCleanup(p) ==
    /\ pc[p] = "cleanup"
    /\ temp' = [temp EXCEPT ![p] = None]
    /\ Goto(p, "return")
    /\ UNCHANGED <<objects, orphans, shards, frame, result, handle, iteration, history>>

-----------------------------------------------------------------------------
(* get, exists, delete *)

\* GetOpen trying again until the file is there.
GetRetry(p) ==
    /\ pc[p] = "open"
    /\ arg[p] \in Present
    /\ handle' = [handle EXCEPT ![p] = objects[arg[p]]]
    /\ Goto(p, "read")
    /\ UNCHANGED <<files, frame, result, iteration, history>>

\* read_bytes opens the file; FileNotFoundError becomes KeyError
GetOpen(p) ==
    /\ pc[p] = "open"
    /\ IF arg[p] \in Present
       THEN /\ handle' = [handle EXCEPT ![p] = objects[arg[p]]]
            /\ Goto(p, "read")
            /\ UNCHANGED result
       ELSE Settle(p, "missing", "return") /\ UNCHANGED handle
    /\ UNCHANGED <<files, frame, iteration, history>>

\* ... and reads what the file it opened holds, unlinked meanwhile or not
GetRead(p) ==
    /\ pc[p] = "read"
    /\ Settle(p, IF handle[p].whole THEN "bytes" ELSE "torn", "return")
    /\ handle' = [handle EXCEPT ![p] = None]
    /\ UNCHANGED <<files, frame, iteration, history>>

Exists(p) ==
    /\ pc[p] = "stat"
    /\ Settle(p, IF arg[p] \in Present THEN "yes" ELSE "no", "return")
    /\ UNCHANGED <<files, frame, handle, iteration, history>>

\* Delete letting FileNotFoundError out.
DeleteRaises(p) ==
    /\ pc[p] = "unlink"
    /\ objects' = [objects EXCEPT ![arg[p]] = None]
    /\ Settle(p, IF arg[p] \in Present THEN "ok" ELSE "FileNotFoundError", "return")
    /\ Track
    /\ UNCHANGED <<temp, orphans, shards, frame, handle, iteration>>

\* unlink; FileNotFoundError is ignored
Delete(p) ==
    /\ pc[p] = "unlink"
    /\ objects' = [objects EXCEPT ![arg[p]] = None]
    /\ Settle(p, "ok", "return")
    /\ Track
    /\ UNCHANGED <<temp, orphans, shards, frame, handle, iteration>>

-----------------------------------------------------------------------------
(* iter_hashes: a generator, so other clients run between any two names *)

\* sorted(self.root.iterdir())
IterRoot(p) ==
    /\ pc[p] = "list"
    /\ todo' = [todo EXCEPT ![p] = shards]
    /\ steady' = [steady EXCEPT ![p] = Present]
    /\ seen' = [seen EXCEPT ![p] = Present]
    /\ Goto(p, "next")
    /\ UNCHANGED <<files, frame, result, handle, listing, yielded>>

\* sorted(shard.iterdir())
IterShard(p) ==
    /\ pc[p] = "next"
    /\ listing[p] = {}
    /\ \E s \in todo[p] :
          /\ todo' = [todo EXCEPT ![p] = @ \ {s}]
          /\ listing' = [listing EXCEPT ![p] = NamesIn(s)]
    /\ UNCHANGED <<files, pc, frame, result, handle, yielded, history>>

\* path.is_file(): the name is still there when its turn comes
IsFile(n) == n \in NamesIn(ShardOf[n.of])

\* IterName yielding any file.
IterAnyName(p) ==
    /\ pc[p] = "next"
    /\ \E n \in listing[p] :
          /\ listing' = [listing EXCEPT ![p] = @ \ {n}]
          /\ yielded' = [yielded EXCEPT ![p] = IF IsFile(n) THEN @ \cup {n} ELSE @]
    /\ UNCHANGED <<files, pc, frame, result, handle, todo, history>>

\* if path.is_file() and not path.name.startswith("."): yield
IterName(p) ==
    /\ pc[p] = "next"
    /\ \E n \in listing[p] :
          /\ listing' = [listing EXCEPT ![p] = @ \ {n}]
          /\ yielded' = [yielded EXCEPT ![p] = IF IsFile(n) /\ ~n.hidden THEN @ \cup {n} ELSE @]
    /\ UNCHANGED <<files, pc, frame, result, handle, todo, history>>

IterEnd(p) ==
    /\ pc[p] = "next"
    /\ listing[p] = {} /\ todo[p] = {}
    /\ Settle(p, "ok", "return")
    /\ UNCHANGED <<files, frame, handle, iteration, history>>

-----------------------------------------------------------------------------
(* The call returns or raises; or the client dies in the middle of it. *)

\* The client's locals are gone.
Forget(p) ==
    /\ Settle(p, "none", "idle")
    /\ op' = [op EXCEPT ![p] = "none"]
    /\ arg' = [arg EXCEPT ![p] = None]
    /\ handle' = [handle EXCEPT ![p] = None]
    /\ todo' = [todo EXCEPT ![p] = {}]
    /\ listing' = [listing EXCEPT ![p] = {}]
    /\ yielded' = [yielded EXCEPT ![p] = {}]
    /\ steady' = [steady EXCEPT ![p] = {}]
    /\ seen' = [seen EXCEPT ![p] = {}]

Return(p) ==
    /\ pc[p] = "return"
    /\ Forget(p)
    /\ UNCHANGED files

\* No finally clause runs: a temporary file stays where it is, for good.
Crash(p) ==
    /\ pc[p] # "idle"
    /\ orphans' = IF temp[p] = None THEN orphans ELSE orphans \cup {temp[p].of}
    /\ temp' = [temp EXCEPT ![p] = None]
    /\ Forget(p)
    /\ UNCHANGED <<objects, shards>>

-----------------------------------------------------------------------------
PutStep(p) ==
    \/ PutCheck(p) \/ PutMkdir(p) \/ PutCreate(p) \/ PutWrite(p) \/ PutSync(p)
    \/ PutReplace(p) \/ PutFailsEarly(p) \/ PutFailsLate(p) \/ PutCleanup(p)

IterStep(p) == IterRoot(p) \/ IterShard(p) \/ IterName(p) \/ IterEnd(p)

\* What a client inside a call does next.
Step(p) ==
    \/ PutStep(p) \/ GetOpen(p) \/ GetRead(p) \/ Exists(p) \/ Delete(p)
    \/ IterStep(p) \/ Return(p)

Next == \E p \in Clients : Call(p) \/ Step(p) \/ Crash(p)

\* A client that is in a call keeps running; nothing makes it begin one or die.
Spec == Init /\ [][Next]_vars /\ \A p \in Clients : WF_vars(Step(p))

-----------------------------------------------------------------------------
(* Properties *)

\* No reader can ever find a partly written object: whatever is at an object's
\* path is the whole content the path is named after, however puts, deletes,
\* failed writes and dying clients interleave (put, filesystem.py:37-62).
NoTornObject ==
    \A c \in Present : objects[c].of = c /\ objects[c].whole

\* A temporary file outlives neither the success nor the failure of the put that
\* made it: the finally clause (filesystem.py:59-61) takes it away before the
\* call returns or raises.
TempOnlyInFlight ==
    \A p \in Clients : temp[p] # None => pc[p] \in {"write", "sync", "replace", "cleanup"}

\* An iteration that ends has yielded every object that was there from its start
\* to its end, nothing that was never there, and no temporary file, although it
\* lists one shard at a time while others put and delete (filesystem.py:90-98).
IterationExact ==
    \A p \in Clients :
        pc[p] = "return" /\ op[p] = "iter" =>
            /\ steady[p] \subseteq {n.of : n \in yielded[p]}
            /\ \A n \in yielded[p] : ~n.hidden /\ n.of \in seen[p]

\* The call client p is in, as the contract sees it.  A get that has opened its
\* file is settled: it will read the whole content.
CallOf(p) ==
    IF pc[p] = "idle" \/ op[p] = "iter" THEN [phase |-> "idle"]
    ELSE IF pc[p] # "read" /\ result[p] = "none"
         THEN [phase |-> "pending", op |-> op[p], arg |-> arg[p]]
         ELSE [phase |-> "done", op |-> op[p], arg |-> arg[p],
               result |-> IF pc[p] = "read" THEN "bytes" ELSE result[p]]

AbsCall == [p \in Clients |-> CallOf(p)]

Contract == INSTANCE CASContract WITH store <- Present, call <- AbsCall

\* The directory behaves as the atomic store of base.py: put takes effect at the
\* existence check or at os.replace, get at open, and every call ends.
ImplementsContract == Contract!Spec

\* Every call returns or raises (or its client dies): no step of a method waits
\* for another client.
CallsReturn == \A p \in Clients : pc[p] # "idle" ~> pc[p] = "idle"
============================================================================
