---------------------------- MODULE PostgresCAS ----------------------------
(***************************************************************************)
(* storage/postgres.py: workers with a connection each share one table.     *)
(* A connection is as psycopg.connect gives it: a transaction opens with     *)
(* the first statement, at READ COMMITTED, NOW() is the time it opened, and  *)
(* it stays open until commit.  A statement that changes a row holds the     *)
(* row's lock until its transaction ends, another one that wants the row     *)
(* waits for that and then looks at the row again.  The database is          *)
(* external: it is modelled from the statements the code gives it.           *)
(***************************************************************************)
EXTENDS Integers, FiniteSets

CONSTANTS
    Clients,       \* workers, each with a PostgresCAS of its own
    Contents,      \* byte strings, each identified with its hash
    TTL,           \* client |-> default_ttl_seconds, or None
    TouchOnRead,   \* client |-> update_last_accessed
    Limits,        \* limits prune_expired is called with
    MaxTime,       \* bound of the clock
    Never,         \* expires_at IS NULL
    Untouched,     \* a transaction has no version of its own of a row, nor its lock
    Gone,          \* it has deleted it
    None

ASSUME TTLAssumption == TTL \in [Clients -> (Nat \ {0}) \cup {None}]
ASSUME TouchAssumption == TouchOnRead \in [Clients -> BOOLEAN]
ASSUME LimitsAssumption == Limits \subseteq Nat \ {0}
ASSUME TimeAssumption == MaxTime \in Nat
ASSUME MarkAssumption ==
    /\ {Never, Untouched, Gone, None} \cap Int = {}
    /\ Never \notin {Untouched, Gone, None} /\ Untouched \notin {Gone, None} /\ Gone # None
    /\ None \notin Contents

Expiry == Nat \cup {Never}

VARIABLES
    clock,     \* the time, to clients and database alike
    rows,      \* content |-> expires_at of its committed row, or None
    tx,        \* state of each connection's transaction
    work,      \* content |-> what the transaction has made of its row
    pc,        \* the next step of each client
    op,        \* the method it is in
    arg,       \* the content, or the limit, it was called with
    stamp,     \* expires_at that a put has computed
    doomed,    \* contents a prune has found expired
    result,    \* what the call will return or raise
    owed       \* history: content |-> until when puts have answered for it

table == <<clock, rows>>
connection == <<tx, work>>
call == <<op, arg, stamp>>
vars == <<table, connection, call, pc, doomed, result, owed>>

Ops == {"none", "put", "get", "exists", "delete", "iter", "prune"}
PCs == {"idle", "execute", "touch", "reap", "commit", "return"}
Results == {"none", "hash", "bytes", "missing", "yes", "no", "ok", "error"}

TypeOK ==
    /\ clock \in 0..MaxTime
    /\ rows \in [Contents -> Expiry \cup {None}]
    /\ tx \in [Clients -> [state : {"none", "open", "failed"}, start : 0..MaxTime]]
    /\ work \in [Clients -> [Contents -> Expiry \cup {Untouched, Gone}]]
    /\ pc \in [Clients -> PCs]
    /\ op \in [Clients -> Ops]
    /\ arg \in [Clients -> Contents \cup Limits \cup {None}]
    /\ stamp \in [Clients -> Expiry]
    /\ doomed \in [Clients -> SUBSET Contents]
    /\ result \in [Clients -> Results]
    /\ owed \in [Contents -> Expiry \cup {None}]

NoTx == [state |-> "none", start |-> 0]
NoWork == [c \in Contents |-> Untouched]

Init ==
    /\ clock = 0
    /\ rows = [c \in Contents |-> None]
    /\ tx = [p \in Clients |-> NoTx]
    /\ work = [p \in Clients |-> NoWork]
    /\ pc = [p \in Clients |-> "idle"]
    /\ op = [p \in Clients |-> "none"]
    /\ arg = [p \in Clients |-> None]
    /\ stamp = [p \in Clients |-> Never]
    /\ doomed = [p \in Clients |-> {}]
    /\ result = [p \in Clients |-> "none"]
    /\ owed = [c \in Contents |-> None]

-----------------------------------------------------------------------------
(* Helpers: the database *)

\* NOW() in p's next statement.
Now(p) == IF tx[p].state = "open" THEN tx[p].start ELSE clock

\* A statement of p runs: its transaction is open from now on.
OpenTx(p) == tx' = [tx EXCEPT ![p] = [state |-> "open", start |-> Now(p)]]

\* Row, with the rows that the transaction has deleted left in sight.
RowStillThere(p, c) == IF work[p][c] = Untouched THEN rows[c] ELSE work[p][c]

\* The row of c as a statement of p finds it; None if there is none.
Row(p, c) ==
    IF work[p][c] = Untouched THEN rows[c]
    ELSE IF work[p][c] = Gone THEN None ELSE work[p][c]

Expired(e, now) == e # Never /\ e <= now

\* expires_at IS NULL OR expires_at > NOW()
Live(p, c) == Row(p, c) # None /\ ~Expired(Row(p, c), Now(p))

\* No other transaction holds the lock of c's row.
Free(p, c) == \A q \in Clients \ {p} : work[q][c] = Untouched

\* A statement can run: the transaction is not in its failed state.
Able(p) == tx[p].state # "failed"

Goto(p, l) == pc' = [pc EXCEPT ![p] = l]

Settle(p, r, l) ==
    /\ result' = [result EXCEPT ![p] = r]
    /\ Goto(p, l)

-----------------------------------------------------------------------------
(* A call begins. *)

\* _expires_at_for_new_object: computed by the client, before the statement.
ExpiresAt(p) == IF TTL[p] = None THEN Never ELSE clock + TTL[p]

Call(p, o, x) ==
    /\ pc[p] = "idle"
    /\ op' = [op EXCEPT ![p] = o]
    /\ arg' = [arg EXCEPT ![p] = x]
    /\ stamp' = [stamp EXCEPT ![p] = IF o = "put" THEN ExpiresAt(p) ELSE Never]
    /\ owed' = IF o = "delete" THEN [owed EXCEPT ![x] = None] ELSE owed
    /\ Goto(p, "execute")
    /\ UNCHANGED <<table, connection, doomed, result>>

-----------------------------------------------------------------------------
(* The statements *)

\* PutExecute with ON CONFLICT DO NOTHING.
PutDoesNothing(p) ==
    /\ pc[p] = "execute" /\ op[p] = "put" /\ Able(p)
    /\ Free(p, arg[p])
    /\ OpenTx(p)
    /\ work' = IF Row(p, arg[p]) = None THEN [work EXCEPT ![p][arg[p]] = stamp[p]] ELSE work
    /\ Settle(p, "hash", "commit")
    /\ UNCHANGED <<table, call, doomed, owed>>

\* INSERT ... ON CONFLICT DO UPDATE
\*   SET expires_at = COALESCE(EXCLUDED.expires_at, target.expires_at)
PutExecute(p) ==
    /\ pc[p] = "execute" /\ op[p] = "put" /\ Able(p)
    /\ Free(p, arg[p])
    /\ OpenTx(p)
    /\ work' = [work EXCEPT ![p][arg[p]] =
            IF stamp[p] # Never \/ Row(p, arg[p]) = None THEN stamp[p] ELSE Row(p, arg[p])]
    /\ Settle(p, "hash", "commit")
    /\ UNCHANGED <<table, call, doomed, owed>>

\* SELECT payload; the transaction it opens is left open, unless the read is to be
\* recorded.
GetExecute(p) ==
    /\ pc[p] = "execute" /\ op[p] = "get" /\ Able(p)
    /\ OpenTx(p)
    /\ IF Live(p, arg[p])
       THEN Settle(p, "bytes", IF TouchOnRead[p] THEN "touch" ELSE "return")
       ELSE Settle(p, "missing", "return")
    /\ UNCHANGED <<table, work, call, doomed, owed>>

\* GetTouch without the commit.
GetTouchUncommitted(p) ==
    /\ pc[p] = "touch" /\ Able(p)
    /\ Row(p, arg[p]) # None => Free(p, arg[p])
    /\ OpenTx(p)
    /\ work' = IF Row(p, arg[p]) = None THEN work
               ELSE [work EXCEPT ![p][arg[p]] = Row(p, arg[p])]
    /\ Goto(p, "return")
    /\ UNCHANGED <<table, call, doomed, result, owed>>

\* UPDATE SET last_accessed_at = NOW()
GetTouch(p) ==
    /\ pc[p] = "touch" /\ Able(p)
    /\ Row(p, arg[p]) # None => Free(p, arg[p])
    /\ OpenTx(p)
    /\ work' = IF Row(p, arg[p]) = None THEN work
               ELSE [work EXCEPT ![p][arg[p]] = Row(p, arg[p])]
    /\ Goto(p, "commit")
    /\ UNCHANGED <<table, call, doomed, result, owed>>

\* SELECT 1; no commit
ExistsExecute(p) ==
    /\ pc[p] = "execute" /\ op[p] = "exists" /\ Able(p)
    /\ OpenTx(p)
    /\ Settle(p, IF Live(p, arg[p]) THEN "yes" ELSE "no", "return")
    /\ UNCHANGED <<table, work, call, doomed, owed>>

\* SELECT hash: like exists, for every row, and no commit either
IterExecute(p) ==
    /\ pc[p] = "execute" /\ op[p] = "iter" /\ Able(p)
    /\ OpenTx(p)
    /\ Settle(p, "ok", "return")
    /\ UNCHANGED <<table, work, call, doomed, owed>>

\* DELETE of one row; it does not see, nor wait for, a row not yet committed
DeleteExecute(p) ==
    /\ pc[p] = "execute" /\ op[p] = "delete" /\ Able(p)
    /\ Row(p, arg[p]) # None => Free(p, arg[p])
    /\ OpenTx(p)
    /\ work' = IF Row(p, arg[p]) = None THEN work
               ELSE [work EXCEPT ![p][arg[p]] = Gone]
    /\ Settle(p, "ok", "commit")
    /\ UNCHANGED <<table, call, doomed, owed>>

\* prune_expired, first half of its statement: the rows its snapshot shows expired,
\* at most limit of them if there is one.
PruneExecute(p) ==
    /\ pc[p] = "execute" /\ op[p] = "prune" /\ Able(p)
    /\ OpenTx(p)
    /\ LET found == {c \in Contents : Row(p, c) # None /\ Expired(Row(p, c), Now(p))}
       IN  \E d \in SUBSET found :
              /\ IF arg[p] = None \/ Cardinality(found) <= arg[p]
                 THEN d = found ELSE Cardinality(d) = arg[p]
              /\ doomed' = [doomed EXCEPT ![p] = d]
    /\ Goto(p, "reap")
    /\ UNCHANGED <<table, work, call, result, owed>>

\* Reapable when the DELETE trusts the hashes the first half has found.
ReapableOnceFound(p, c) == Row(p, c) # None

\* A row that has changed since is looked at again.  Without a limit the condition
\* on expires_at is part of the DELETE; with one the DELETE only joins on the hash.
Reapable(p, c) ==
    Row(p, c) # None /\ (arg[p] = None => Expired(Row(p, c), Now(p)))

\* ... second half: each row is locked, looked at again and deleted.
PruneReap(p) ==
    /\ pc[p] = "reap" /\ Able(p)
    /\ \A c \in doomed[p] : Row(p, c) # None => Free(p, c)
    /\ work' = [work EXCEPT ![p] = [c \in Contents |->
            IF c \in doomed[p] /\ Reapable(p, c) THEN Gone ELSE @[c]]]
    /\ doomed' = [doomed EXCEPT ![p] = {}]
    /\ Settle(p, "ok", "commit")
    /\ UNCHANGED <<table, tx, call, owed>>

\* Whether e is no later than f, Never being the latest; the earliest of a set; the later
\* of two, the first of which may be None.
NotLater(e, f) == f = Never \/ (e # Never /\ e <= f)
Earliest(E) == CHOOSE e \in E : \A f \in E : NotLater(e, f)
Later(e, f) == IF e = None \/ NotLater(e, f) THEN f ELSE e

\* q has begun, and not committed, a call of o for c.
Pends(q, o, c) == op[q] = o /\ arg[q] = c /\ pc[q] \in {"execute", "commit"}

\* History: the expiry that the puts of c which are under way now, and those that begin
\* from now on, leave at least, unless something deletes c.
Promise(c) ==
    Earliest({stamp[q] : q \in {r \in Clients : Pends(r, "put", c)}}
             \cup {ExpiresAt(q) : q \in Clients})

\* connection.commit().  A put answers for its object from here on, unless a delete that
\* somebody has begun may have the last word.
Commit(p) ==
    /\ pc[p] = "commit"
    /\ rows' = [c \in Contents |-> Row(p, c)]
    /\ tx' = [tx EXCEPT ![p] = NoTx]
    /\ work' = [work EXCEPT ![p] = NoWork]
    /\ owed' = IF op[p] = "put"
               THEN [owed EXCEPT ![arg[p]] =
                        IF \E q \in Clients : Pends(q, "delete", arg[p]) THEN None
                        ELSE Later(@, Promise(arg[p]))]
               ELSE owed
    /\ Goto(p, "return")
    /\ UNCHANGED <<clock, call, doomed, result>>

InStatement(p) == pc[p] \in {"execute", "touch", "reap"}

\* The statement raises (timeout, disk full, ...): the database drops the
\* transaction's work and refuses every statement until a rollback, which no
\* method calls.
StatementFails(p) ==
    /\ InStatement(p) /\ Able(p)
    /\ tx' = [tx EXCEPT ![p] = [state |-> "failed", start |-> 0]]
    /\ work' = [work EXCEPT ![p] = NoWork]
    /\ doomed' = [doomed EXCEPT ![p] = {}]
    /\ Settle(p, "error", "return")
    /\ UNCHANGED <<table, call, owed>>

\* InFailedSqlTransaction
Refused(p) ==
    /\ InStatement(p) /\ ~Able(p)
    /\ Settle(p, "error", "return")
    /\ UNCHANGED <<table, connection, call, doomed, owed>>

-----------------------------------------------------------------------------
(* The call returns or raises; the client dies; time passes. *)

Finish(p) ==
    /\ op' = [op EXCEPT ![p] = "none"]
    /\ arg' = [arg EXCEPT ![p] = None]
    /\ stamp' = [stamp EXCEPT ![p] = Never]
    /\ Settle(p, "none", "idle")

Return(p) ==
    /\ pc[p] = "return"
    /\ Finish(p)
    /\ UNCHANGED <<table, connection, doomed, owed>>

\* The process or its connection is gone; the database rolls back.  A new
\* PostgresCAS takes its place.
Disconnect(p) ==
    /\ Finish(p)
    /\ tx' = [tx EXCEPT ![p] = NoTx]
    /\ work' = [work EXCEPT ![p] = NoWork]
    /\ doomed' = [doomed EXCEPT ![p] = {}]
    /\ UNCHANGED <<table, owed>>

Tick ==
    /\ clock < MaxTime
    /\ clock' = clock + 1
    /\ UNCHANGED <<rows, connection, call, pc, doomed, result, owed>>

\* A statement runs.
Execute(p) ==
    \/ PutExecute(p) \/ GetExecute(p) \/ GetTouch(p) \/ ExistsExecute(p) \/ IterExecute(p)
    \/ DeleteExecute(p) \/ PruneExecute(p) \/ PruneReap(p) \/ Refused(p)

Next ==
    \/ \E p \in Clients :
        \/ \E o \in {"put", "get", "exists", "delete"}, c \in Contents : Call(p, o, c)
        \/ Call(p, "iter", None)
        \/ \E n \in Limits \cup {None} : Call(p, "prune", n)
        \/ Execute(p) \/ StatementFails(p) \/ Commit(p) \/ Return(p) \/ Disconnect(p)
    \/ Tick

\* A client in a call keeps running, and the lock it waits for is granted in turn.  No
\* statement has to fail, nor any client to die.
Fairness ==
    \A p \in Clients :
        /\ SF_vars(PutExecute(p) \/ GetTouch(p) \/ DeleteExecute(p) \/ PruneReap(p))
        /\ WF_vars(Execute(p) \/ Commit(p) \/ Return(p))

Spec == Init /\ [][Next]_vars /\ Fairness

-----------------------------------------------------------------------------
(* Properties *)

\* An object whose put has returned stays until put's promise ends, unless somebody calls
\* delete; later puts, prunes, reads and failures do not cut it short.  The promise is the
\* earliest of the expiry this put wrote, those which overlapping puts had computed by
\* then, and the one a put that begins at its commit would compute.  It is no more than
\* that because expires_at is computed before the statement (postgres.py:80): of two
\* overlapping puts the last to write may leave the older expiry, and so may a worker with
\* a shorter lifetime.  With one lifetime the loss is at most the time between the
\* beginnings of the two calls (postgres.py:76-90, 166-201).
KeepsPromise ==
    \A c \in Contents :
        owed[c] # None /\ ~Expired(owed[c], clock) =>
            rows[c] # None /\ ~Expired(rows[c], clock)

\* "Delete expired objects" (postgres.py:167): a row that a prune removes has
\* expired at the time it is removed, even if it was renewed since the prune chose it.
PruneOnlyExpired ==
    [][\A p \in Clients, c \in Contents :
        op[p] = "prune" /\ pc[p] = "commit" /\ pc'[p] = "return"
            /\ rows[c] # None /\ rows'[c] = None
        => Expired(rows[c], clock)]_vars

\* A worker outside a statement and its commit locks no row, so that a worker that
\* only sits there, its transaction open or failed, makes nobody wait
\* (postgres.py:122, 89, 148, 200).
IdleHoldsNoLock ==
    \A p \in Clients : pc[p] \in {"idle", "return"} => work[p] = NoWork

\* A call returns or raises, whoever else wants the row.
CallsReturn == \A p \in Clients : pc[p] # "idle" ~> pc[p] = "idle"

\* get: "KeyError: If the hash is not present or has expired" (postgres.py:96).  A
\* read that answers finds a row that has not expired when it answers.
ExpiredIsMissing ==
    [][\A p \in Clients :
        op[p] = "get" /\ pc[p] = "execute" /\ result'[p] = "bytes"
        => ~Expired(Row(p, arg[p]), clock)]_vars
============================================================================
