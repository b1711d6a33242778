------------------------ MODULE FilesystemDurability ------------------------
(***************************************************************************)
(* FilesystemCAS across a power loss.  The directory the clients see is in  *)
(* the kernel's cache; the disk has an older one, which the kernel brings   *)
(* up to date one entry at a time, when it likes.  put calls fsync on the   *)
(* temporary file before os.replace, and never on a directory, so a rename  *)
(* or an unlink that has returned may still be undone by a power loss, and  *)
(* a file is whole after one only if fsync had returned for it.             *)
(***************************************************************************)
EXTENDS FilesystemCAS

VARIABLES
    disk,    \* directory entry of each object on the disk
    owed     \* history: contents whose put has returned a hash and which
             \* nobody has begun to delete since

dvars == <<vars, disk, owed>>

DTypeOK ==
    /\ TypeOK
    /\ disk \in [Contents -> File \cup {None}]
    /\ owed \subseteq Contents

DInit ==
    /\ Init
    /\ disk = objects
    /\ owed = {}

\* Contents some client is in the course of deleting.
BeingDeleted == {arg[q] : q \in {r \in Clients : op[r] = "delete"}}

\* The history of what put has answered for, kept by every step of a client.
Owe(p) ==
    owed' = (IF Return(p) /\ op[p] = "put" /\ result[p] = "hash"
             THEN owed \cup {arg[p]} ELSE owed) \ BeingDeleted'

Work ==
    \E p \in Clients :
        /\ Call(p) \/ Step(p) \/ Crash(p)
        /\ Owe(p)
        /\ UNCHANGED disk

\* The kernel writes the entry of c (and its shard directory) back.
WriteBack(c) ==
    /\ disk[c] # objects[c]
    /\ disk' = [disk EXCEPT ![c] = objects[c]]
    /\ UNCHANGED <<vars, owed>>

\* What the disk still has of file f.
Survivors(f) ==
    IF f = None \/ f.synced THEN {f} ELSE {f, [f EXCEPT !.whole = FALSE]}

\* Power loss and restart: every process is gone, the directory is what the disk
\* has, and any temporary file may have survived.
PowerLoss ==
    /\ objects' \in {o \in [Contents -> UNION {Survivors(disk[c]) : c \in Contents}] :
                        \A c \in Contents : o[c] \in Survivors(disk[c])}
    /\ disk' = objects'
    /\ orphans' \in SUBSET (orphans \cup {temp[p].of : p \in {q \in Clients : temp[q] # None}})
    /\ temp' = [p \in Clients |-> None]
    /\ shards' \in {d \in SUBSET shards :
                      \A c \in orphans' \cup Present' : ShardOf[c] \in d}
    /\ pc' = [p \in Clients |-> "idle"]
    /\ op' = [p \in Clients |-> "none"]
    /\ arg' = [p \in Clients |-> None]
    /\ result' = [p \in Clients |-> "none"]
    /\ handle' = [p \in Clients |-> None]
    /\ todo' = [p \in Clients |-> {}]
    /\ listing' = [p \in Clients |-> {}]
    /\ yielded' = [p \in Clients |-> {}]
    /\ steady' = [p \in Clients |-> {}]
    /\ seen' = [p \in Clients |-> {}]
    /\ UNCHANGED owed

DNext == Work \/ (\E c \in Contents : WriteBack(c)) \/ PowerLoss

DSpec == DInit /\ [][DNext]_dvars

-----------------------------------------------------------------------------
(* Properties *)

\* NoTornObject of FilesystemCAS, here across power losses: by the time an entry
\* is renamed into place its data are on the disk (fsync before os.replace,
\* filesystem.py:57-58), and a file that was put whole is never found torn.
NoTornObjectEver ==
    /\ NoTornObject
    /\ \A c \in Contents : disk[c] # None => disk[c].of = c /\ disk[c].whole

\* README.md:193 calls FilesystemCAS "simple durable storage": an object whose put
\* has returned and which nobody deletes is there, whatever happens.
PutIsDurable == owed \subseteq Present
=============================================================================
