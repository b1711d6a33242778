----------------------------- MODULE Migration -----------------------------
(***************************************************************************)
(* migrate_cas of storage/migrate.py: objects are copied one by one from one *)
(* store to another while others use both.  The stores are those of          *)
(* CASContract, a content being the bytes and their hash at once; of          *)
(* iter_hashes is taken what every store gives: a hash comes at most once,    *)
(* none comes that was not there at some moment of the iteration, and all     *)
(* come that were there throughout (FilesystemCAS!IterationExact).  The hashes *)
(* that a caller gives are taken to be different.                             *)
(***************************************************************************)
EXTENDS Naturals

CONSTANTS
    Contents,    \* whole objects
    Junk,        \* what an object is whose bytes have changed under its name
    None

ASSUME MigrationAssumption == Junk \notin Contents /\ None \notin Contents

VARIABLES
    source,      \* hashes the source has
    rotten,      \* those of them whose bytes have changed
    target,      \* contents the target holds
    job          \* the call of migrate_cas

migrationVars == <<source, rotten, target, job>>

\* counted: what the call's result is about; object_count is how many they are, bytes_copied
\* the sum of their lengths.  History: throughout has been in the source since the call,
\* seen there at some time since, withdrawn deleted from the target since.
Job == [phase : {"idle", "running", "done", "failed"},
        hashes : (SUBSET Contents) \cup {None},
        taken : SUBSET Contents, counted : SUBSET Contents,
        hash : Contents \cup {None},
        payload : Contents \cup {Junk, None},
        throughout : SUBSET Contents, seen : SUBSET Contents, withdrawn : SUBSET Contents]

MigrationTypeOK ==
    /\ source \subseteq Contents
    /\ rotten \subseteq source
    /\ target \subseteq Contents \cup {Junk}
    /\ job \in Job

MigrationInit ==
    /\ source \in SUBSET Contents
    /\ rotten = {}
    /\ target = {}
    /\ job = [phase |-> "idle", hashes |-> None, taken |-> {}, counted |-> {},
              hash |-> None, payload |-> None, throughout |-> {}, seen |-> {}, withdrawn |-> {}]

Running == job.phase = "running"

\* The hashes the call is to copy before it may return, and those that it may copy.
Selected == IF job.hashes = None THEN job.throughout ELSE job.hashes
Eligible == IF job.hashes = None THEN job.seen ELSE job.hashes

\* migrate_cas(source, target, hashes=H); it may be called again after a failure.
Migrate(H) ==
    /\ ~Running
    /\ job' = [phase |-> "running", hashes |-> H, taken |-> {}, counted |-> {},
               hash |-> None, payload |-> None, throughout |-> source, seen |-> source, withdrawn |-> {}]
    /\ UNCHANGED <<source, rotten, target>>

\* for content_hash in selected_hashes
NextHash(c) ==
    /\ Running /\ job.hash = None
    /\ c \in Eligible \ job.taken
    /\ job' = [job EXCEPT !.hash = c, !.taken = @ \cup {c}]
    /\ UNCHANGED <<source, rotten, target>>

\* GetPayload that passes over what is gone.
GetOrSkip ==
    /\ Running /\ job.hash # None /\ job.payload = None
    /\ job' = IF job.hash \in source
              THEN [job EXCEPT !.payload = IF job.hash \in rotten THEN Junk ELSE job.hash]
              ELSE [job EXCEPT !.hash = None]
    /\ UNCHANGED <<source, rotten, target>>

\* GetPayload of a store that waits until it has the object.
GetWhenThere ==
    /\ Running /\ job.hash # None /\ job.payload = None
    /\ job.hash \in source
    /\ job' = [job EXCEPT !.payload = IF job.hash \in rotten THEN Junk ELSE job.hash]
    /\ UNCHANGED <<source, rotten, target>>

\* source.get; its KeyError ends the call.
GetPayload ==
    /\ Running /\ job.hash # None /\ job.payload = None
    /\ job' = IF job.hash \in source
              THEN [job EXCEPT !.payload = IF job.hash \in rotten THEN Junk ELSE job.hash]
              ELSE [job EXCEPT !.phase = "failed"]
    /\ UNCHANGED <<source, rotten, target>>

\* target.put, the comparison of the hash it returns, and the counts; or put raises.
PutPayload ==
    /\ Running /\ job.payload # None
    /\ \/ /\ target' = target \cup {job.payload}
          /\ job' = IF job.payload = job.hash
                    THEN [job EXCEPT !.hash = None, !.payload = None, !.counted = @ \cup {job.hash}]
                    ELSE [job EXCEPT !.phase = "failed"]
       \/ /\ job' = [job EXCEPT !.phase = "failed"]
          /\ UNCHANGED target
    /\ UNCHANGED <<source, rotten>>

\* The iterator is exhausted.
MigrateReturns ==
    /\ Running /\ job.hash = None
    /\ Selected \subseteq job.taken
    /\ job' = [job EXCEPT !.phase = "done"]
    /\ UNCHANGED <<source, rotten, target>>

-----------------------------------------------------------------------------
(* Others *)

\* put of a content that the source has already is no step.
SourcePut(c) ==
    /\ c \notin source
    /\ source' = source \cup {c}
    /\ job' = IF Running THEN [job EXCEPT !.seen = @ \cup {c}] ELSE job
    /\ UNCHANGED <<rotten, target>>

SourceDelete(c) ==
    /\ c \in source
    /\ source' = source \ {c}
    /\ rotten' = rotten \ {c}
    /\ job' = IF Running THEN [job EXCEPT !.throughout = @ \ {c}] ELSE job
    /\ UNCHANGED target

\* The bytes of an object change under its name.  get does not compare them with it.
Rot(c) ==
    /\ c \in source
    /\ rotten' = rotten \cup {c}
    /\ UNCHANGED <<source, target, job>>

TargetPut(c) ==
    /\ target' = target \cup {c}
    /\ UNCHANGED <<source, rotten, job>>

TargetDelete(c) ==
    /\ c \in target
    /\ target' = target \ {c}
    /\ job' = IF job.phase = "idle" \/ c = Junk THEN job ELSE [job EXCEPT !.withdrawn = @ \cup {c}]
    /\ UNCHANGED <<source, rotten>>

MigrationStep ==
    \/ \E c \in Contents : NextHash(c)
    \/ GetPayload \/ PutPayload \/ MigrateReturns

MigrationNext ==
    \/ \E H \in (SUBSET Contents) \cup {None} : Migrate(H)
    \/ MigrationStep
    \/ \E c \in Contents : SourcePut(c) \/ SourceDelete(c) \/ Rot(c) \/ TargetPut(c)
    \/ \E c \in target : TargetDelete(c)

MigrationSpec == MigrationInit /\ [][MigrationNext]_migrationVars /\ WF_migrationVars(MigrationStep)

-----------------------------------------------------------------------------
(* Properties *)

\* migrate.py:28-46: once migrate_cas has returned, its result counts every object that it
\* was asked for, or that was in the source throughout, and none that it was not asked for or
\* that was never there; and each object counted is in the target under its own hash, where
\* a reference to it finds it by the alias, unless it was deleted there since: whatever
\* others put and deleted on either side meanwhile, and whatever bytes had changed.
MigrationComplete ==
    job.phase = "done" =>
        /\ Selected \subseteq job.counted /\ job.counted \subseteq Eligible
        /\ job.counted \subseteq target \cup job.withdrawn

\* migrate.py:36: a call returns or raises, however many objects others put meanwhile.
MigrationEnds == Running ~> ~Running
=============================================================================
