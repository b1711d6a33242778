------------------------- MODULE PostgresCASProofs -------------------------
(***************************************************************************)
(* Proofs about PostgresCAS for any set of workers and contents.  What a    *)
(* commit does to the table was settled when its statement ran, so the      *)
(* invariant has to say what each open transaction is about to do           *)
(* (Pending), and that no other transaction can change the rows it will do  *)
(* it to (RowLocks).                                                        *)
(***************************************************************************)
EXTENDS PostgresCAS, WellFoundedInduction, TLAPS

\* No two transactions have versions of the same row.
RowLocks ==
    \A p, q \in Clients : p # q =>
        \A c \in Contents : work[p][c] = Untouched \/ work[q][c] = Untouched

\* A transaction has begun by now.
Begun == \A p \in Clients : tx[p].start <= clock

\* Each step belongs to one method, and only a commit finds work to do.
Placed ==
    \A p \in Clients :
        /\ op[p] \in {"put", "get", "exists", "delete"} => arg[p] \in Contents
        /\ op[p] = "prune" => arg[p] \in Limits \cup {None}
        /\ pc[p] = "touch" => op[p] = "get"
        /\ pc[p] = "reap" => op[p] = "prune"
        /\ pc[p] # "commit" => work[p] = NoWork

\* What p's commit will make of the row of c.
Intended(p, c) ==
    \/ op[p] = "put" /\ c = arg[p] /\ work[p][c] \in {stamp[p], rows[c]}
    \/ op[p] = "get" /\ c = arg[p] /\ rows[c] # None /\ work[p][c] = rows[c]
    \/ op[p] = "delete" /\ c = arg[p] /\ work[p][c] = Gone
    \/ /\ op[p] = "prune" /\ work[p][c] = Gone
       /\ arg[p] = None => rows[c] # None /\ Expired(rows[c], clock)

Pending ==
    \A p \in Clients : \A c \in Contents : work[p][c] # Untouched => Intended(p, c)

IInv == TypeOK /\ RowLocks /\ Begun /\ Placed /\ Pending

\* Workers all give their objects a lifetime, or none of them does.
Alike == \A p, q \in Clients : TTL[p] = None <=> TTL[q] = None

Stamped ==
    \A p \in Clients : op[p] = "put" =>
        /\ stamp[p] = Never <=> TTL[p] = None
        /\ pc[p] = "commit" => work[p][arg[p]] = stamp[p]

Lifetimes ==
    \A c \in Contents : rows[c] # None =>
        \A p \in Clients : rows[c] = Never <=> TTL[p] = None

\* A delete has called the promise off before it does anything.
CalledOff ==
    \A p \in Clients :
        op[p] = "delete" /\ pc[p] \in {"execute", "commit"} => owed[arg[p]] = None

\* Until it ends, a promise is kept by the row, and by what the puts under way and those to
\* come will make of it.
Covered ==
    \A c \in Contents : owed[c] # None /\ ~Expired(owed[c], clock) =>
        rows[c] # None /\ NotLater(owed[c], rows[c])

PutsKeep ==
    \A c \in Contents : owed[c] # None =>
        /\ \A p \in Clients : Pends(p, "put", c) => NotLater(owed[c], stamp[p])
        /\ \A p \in Clients : NotLater(owed[c], ExpiresAt(p))

Promised == Stamped /\ Lifetimes /\ CalledOff /\ Covered /\ PutsKeep

-----------------------------------------------------------------------------
(* Each step keeps the invariant. *)

LEMMA InitIInv == Init => IInv
  BY MarkAssumption, TimeAssumption
     DEF Init, IInv, TypeOK, RowLocks, Begun, Placed, Pending, NoTx, NoWork, Expiry, PCs, Ops, Results

\* A row that a transaction finds is a committed one or its own.
LEMMA RowType ==
    ASSUME TypeOK, NEW p \in Clients, NEW c \in Contents
    PROVE  Row(p, c) \in Expiry \cup {None}
  BY MarkAssumption DEF TypeOK, Row, Expiry

LEMMA NowType == ASSUME TypeOK, Begun, NEW p \in Clients
                 PROVE  Now(p) \in 0..MaxTime /\ Now(p) <= clock
  BY TimeAssumption DEF TypeOK, Begun, Now

LEMMA OpenTxStep ==
    ASSUME TypeOK, Begun, NEW p \in Clients, OpenTx(p), clock' = clock
    PROVE  /\ tx' \in [Clients -> [state : {"none", "open", "failed"}, start : 0..MaxTime]]
           /\ Begun'
  BY NowType DEF TypeOK, Begun, OpenTx

\* Steps that change neither a row nor a transaction's versions of rows.
LEMMA QuietStep ==
    ASSUME IInv, NEW p \in Clients,
           UNCHANGED <<table, work, call, owed>>,
           \A q \in Clients : pc'[q] = pc[q] \/ q = p,
           pc[p] # "commit",
           pc' \in [Clients -> PCs], result' \in [Clients -> Results],
           doomed' \in [Clients -> SUBSET Contents],
           pc'[p] \in {"return", "touch", "reap"},
           pc'[p] = "touch" => op[p] = "get",
           pc'[p] = "reap" => op[p] = "prune",
           UNCHANGED tx \/ OpenTx(p)
    PROVE  IInv'
<1> USE DEF IInv, table, call
<1>1. TypeOK'
  BY OpenTxStep DEF TypeOK
<1>2. RowLocks'
  BY DEF RowLocks
<1>3. Begun'
  BY OpenTxStep DEF Begun
<1>4. Placed'
  BY DEF Placed, NoWork
<1>5. Pending'
  BY DEF Pending, Intended, Expired
<1> QED BY <1>1, <1>2, <1>3, <1>4, <1>5

\* A statement that makes its transaction's only versions of rows, ready to commit.
LEMMA WritingStep ==
    ASSUME IInv, NEW p \in Clients, NEW W \in [Contents -> Expiry \cup {Untouched, Gone}],
           pc[p] # "commit", pc' = [pc EXCEPT ![p] = "commit"],
           work' = [work EXCEPT ![p] = W],
           \A c \in Contents : W[c] # Untouched => Free(p, c) /\ Intended(p, c)',
           UNCHANGED <<table, call, owed>>,
           result' \in [Clients -> Results],
           doomed' \in [Clients -> SUBSET Contents],
           UNCHANGED tx \/ OpenTx(p)
    PROVE  IInv'
<1> USE DEF IInv, table, call
<1>1. TypeOK'
  BY OpenTxStep DEF TypeOK, PCs
<1>2. RowLocks'
  BY DEF TypeOK, RowLocks, Free
<1>3. Begun'
  BY OpenTxStep DEF Begun
<1>4. Placed'
  BY DEF TypeOK, Placed
<1>5. Pending'
  BY DEF TypeOK, Pending, Intended, Expired
<1> QED BY <1>1, <1>2, <1>3, <1>4, <1>5

LEMMA PutStep == ASSUME IInv, NEW p \in Clients, PutExecute(p) PROVE IInv'
<1> DEFINE e == IF stamp[p] # Never \/ Row(p, arg[p]) = None THEN stamp[p] ELSE Row(p, arg[p])
           W == [work[p] EXCEPT ![arg[p]] = e]
<1>1. arg[p] \in Contents /\ work[p] = NoWork
  BY DEF IInv, Placed, PutExecute
<1>2. Row(p, arg[p]) = rows[arg[p]]
  BY <1>1 DEF Row, NoWork
<1>3. e \in Expiry
  BY <1>1, RowType DEF IInv, TypeOK
<1>4. W \in [Contents -> Expiry \cup {Untouched, Gone}] /\ work' = [work EXCEPT ![p] = W]
  BY <1>1, <1>3 DEF IInv, TypeOK, PutExecute
<1>5. \A c \in Contents : W[c] # Untouched => Free(p, c) /\ Intended(p, c)'
  <2> SUFFICES ASSUME NEW c \in Contents, W[c] # Untouched
               PROVE  Free(p, c) /\ Intended(p, c)'
    OBVIOUS
  <2>1. c = arg[p]
    BY <1>1 DEF NoWork
  <2>2. work'[p][c] = e
    BY <1>1, <1>4, <2>1 DEF IInv, TypeOK
  <2> QED BY <1>2, <2>1, <2>2 DEF PutExecute, Intended, table, call
<1> QED
  BY <1>4, <1>5, WritingStep DEF IInv, TypeOK, PutExecute, Settle, Goto, Results

LEMMA TouchStep == ASSUME IInv, NEW p \in Clients, GetTouch(p) PROVE IInv'
<1> DEFINE W == IF Row(p, arg[p]) = None THEN work[p]
                ELSE [work[p] EXCEPT ![arg[p]] = Row(p, arg[p])]
<1>1. op[p] = "get" /\ arg[p] \in Contents /\ work[p] = NoWork
  BY DEF IInv, Placed, GetTouch
<1>2. Row(p, arg[p]) = rows[arg[p]]
  BY <1>1 DEF Row, NoWork
<1>3. W \in [Contents -> Expiry \cup {Untouched, Gone}] /\ work' = [work EXCEPT ![p] = W]
  BY <1>1, RowType DEF IInv, TypeOK, GetTouch
<1>4. \A c \in Contents : W[c] # Untouched => Free(p, c) /\ Intended(p, c)'
  <2> SUFFICES ASSUME NEW c \in Contents, W[c] # Untouched
               PROVE  Free(p, c) /\ Intended(p, c)'
    OBVIOUS
  <2>1. c = arg[p] /\ rows[c] # None
    BY <1>1, <1>2 DEF NoWork
  <2>2. work'[p][c] = rows[c]
    BY <1>1, <1>2, <1>3, <2>1 DEF IInv, TypeOK
  <2> QED BY <1>1, <1>2, <2>1, <2>2 DEF GetTouch, Intended, table, call
<1> QED
  BY <1>3, <1>4, WritingStep DEF IInv, TypeOK, GetTouch, Goto

LEMMA DeleteStep == ASSUME IInv, NEW p \in Clients, DeleteExecute(p) PROVE IInv'
<1> DEFINE W == IF Row(p, arg[p]) = None THEN work[p] ELSE [work[p] EXCEPT ![arg[p]] = Gone]
<1>1. arg[p] \in Contents /\ work[p] = NoWork
  BY DEF IInv, Placed, DeleteExecute
<1>2. W \in [Contents -> Expiry \cup {Untouched, Gone}] /\ work' = [work EXCEPT ![p] = W]
  BY <1>1 DEF IInv, TypeOK, DeleteExecute
<1>3. \A c \in Contents : W[c] # Untouched => Free(p, c) /\ Intended(p, c)'
  <2> SUFFICES ASSUME NEW c \in Contents, W[c] # Untouched
               PROVE  Free(p, c) /\ Intended(p, c)'
    OBVIOUS
  <2>1. c = arg[p] /\ Row(p, c) # None
    BY <1>1 DEF NoWork
  <2>2. work'[p][c] = Gone
    BY <1>1, <1>2, <2>1 DEF IInv, TypeOK
  <2> QED BY <2>1, <2>2 DEF DeleteExecute, Intended, table, call
<1> QED
  BY <1>2, <1>3, WritingStep DEF IInv, TypeOK, DeleteExecute, Settle, Goto, Results

\* What a prune looks at again under the rows' locks has expired.
LEMMA ReapStep == ASSUME IInv, NEW p \in Clients, PruneReap(p) PROVE IInv'
<1> DEFINE W == [c \in Contents |-> IF c \in doomed[p] /\ Reapable(p, c) THEN Gone ELSE work[p][c]]
<1>1. op[p] = "prune" /\ work[p] = NoWork
  BY DEF IInv, Placed, PruneReap
<1>2. W \in [Contents -> Expiry \cup {Untouched, Gone}] /\ work' = [work EXCEPT ![p] = W]
  BY DEF IInv, TypeOK, PruneReap
<1>3. \A c \in Contents : W[c] # Untouched => Free(p, c) /\ Intended(p, c)'
  <2> SUFFICES ASSUME NEW c \in Contents, W[c] # Untouched
               PROVE  Free(p, c) /\ Intended(p, c)'
    OBVIOUS
  <2>1. c \in doomed[p] /\ Reapable(p, c) /\ W[c] = Gone
    BY <1>1 DEF NoWork
  <2>2. Row(p, c) = rows[c] /\ rows[c] # None
    BY <1>1, <2>1 DEF Row, NoWork, Reapable
  <2>3. Free(p, c)
    BY <2>1, <2>2 DEF PruneReap
  <2>4. arg[p] = None => Expired(rows[c], clock)
    BY <2>1, <2>2, NowType, TimeAssumption DEF IInv, TypeOK, Reapable, Expired, Expiry
  <2>5. work'[p][c] = Gone
    BY <1>2, <2>1 DEF IInv, TypeOK
  <2> QED BY <1>1, <2>2, <2>3, <2>4, <2>5 DEF PruneReap, Intended, Expired, table, call
<1> QED
  BY <1>2, <1>3, WritingStep DEF IInv, TypeOK, PruneReap, Settle, Goto, Results

\* A put's expiry is a time, unless its worker gives objects no lifetime.
LEMMA ExpiresAtType ==
    ASSUME TypeOK, NEW p \in Clients
    PROVE  ExpiresAt(p) \in Expiry /\ (ExpiresAt(p) = Never <=> TTL[p] = None)
<1>1. clock \in Nat
  BY TimeAssumption DEF TypeOK
<1>2. TTL[p] = None \/ TTL[p] \in Nat
  BY TTLAssumption
<1>3. TTL[p] \in Nat => clock + TTL[p] \in Nat
  BY <1>1
<1> QED BY <1>2, <1>3, MarkAssumption DEF ExpiresAt, Expiry

LEMMA CallStep ==
    ASSUME IInv, NEW p \in Clients, NEW o \in Ops, NEW x \in Contents \cup Limits \cup {None},
           o \in {"put", "get", "exists", "delete"} => x \in Contents,
           o = "prune" => x \in Limits \cup {None},
           Call(p, o, x)
    PROVE  IInv'
<1> USE DEF IInv, Call, table, connection
<1>1. TypeOK'
  <2>1. ExpiresAt(p) \in Expiry
    BY ExpiresAtType
  <2>2. stamp' \in [Clients -> Expiry]
    BY <2>1 DEF TypeOK, Expiry
  <2>3. owed' \in [Contents -> Expiry \cup {None}]
    BY DEF TypeOK
  <2> QED BY <2>2, <2>3 DEF TypeOK, Goto, PCs
<1>2. RowLocks' /\ Begun'
  BY DEF RowLocks, Begun
<1>3. Placed'
  BY DEF TypeOK, Placed, Goto
<1>4. Pending'
  <2>1. work[p] = NoWork
    BY DEF Placed
  <2> QED BY <2>1 DEF TypeOK, Pending, Intended, Expired, NoWork
<1> QED BY <1>1, <1>2, <1>3, <1>4

\* Any set of expiries has an earliest one.
LEMMA EarliestIs ==
    ASSUME NEW E \in SUBSET Expiry, E # {}
    PROVE  Earliest(E) \in E /\ \A f \in E : NotLater(Earliest(E), f)
<1> SUFFICES \E e \in E : \A f \in E : NotLater(e, f)
  BY DEF Earliest
<1>1. CASE E \cap Nat = {}
  BY <1>1 DEF Expiry, NotLater
<1>2. CASE E \cap Nat # {}
  <2>1. PICK m \in E \cap Nat : \A k \in E \cap Nat : ~(<<k, m>> \in OpToRel(<, Nat))
    <3>1. E \cap Nat \in SUBSET Nat
      OBVIOUS
    <3> QED BY <1>2, <3>1, NatLessThanWellFounded, WFMin
  <2>2. \A k \in E \cap Nat : ~(k < m)
    BY <2>1 DEF OpToRel
  <2>3. \A f \in E : NotLater(m, f)
    BY <2>2, MarkAssumption DEF Expiry, NotLater
  <2> QED BY <2>3
<1> QED BY <1>1, <1>2

\* The promise that a put makes at its commit.
LEMMA PromiseIs ==
    ASSUME TypeOK, NEW c \in Contents, NEW p \in Clients
    PROVE  /\ Promise(c) \in Expiry
           /\ \A q \in Clients : NotLater(Promise(c), ExpiresAt(q))
           /\ \A q \in Clients : Pends(q, "put", c) => NotLater(Promise(c), stamp[q])
<1> DEFINE E == {stamp[q] : q \in {r \in Clients : Pends(r, "put", c)}}
                \cup {ExpiresAt(q) : q \in Clients}
<1>1. E \in SUBSET Expiry /\ ExpiresAt(p) \in E
  BY ExpiresAtType DEF TypeOK
<1>2. \A q \in Clients : ExpiresAt(q) \in E /\ (Pends(q, "put", c) => stamp[q] \in E)
  OBVIOUS
<1>3. Promise(c) = Earliest(E)
  BY DEF Promise
<1> HIDE DEF E
<1> QED BY <1>1, <1>2, <1>3, EarliestIs

LEMMA CommitOwed ==
    ASSUME TypeOK, NEW p \in Clients, Commit(p)
    PROVE  owed' \in [Contents -> Expiry \cup {None}]
<1>1. \A c \in Contents : Promise(c) \in Expiry
  BY PromiseIs
<1>2. \A c \in Contents : Later(owed[c], Promise(c)) \in Expiry \cup {None}
  BY <1>1 DEF TypeOK, Later
<1> QED BY <1>2 DEF TypeOK, Commit

\* A commit changes only rows that no other transaction has a version of.
LEMMA CommitKeepsOthers ==
    ASSUME IInv, NEW p \in Clients, Commit(p),
           NEW q \in Clients, q # p, NEW c \in Contents, work[q][c] # Untouched
    PROVE  rows'[c] = rows[c]
  BY DEF IInv, RowLocks, Commit, Row

LEMMA CommitStep == ASSUME IInv, NEW p \in Clients, Commit(p) PROVE IInv'
<1> USE DEF IInv, Commit, call
<1>1. TypeOK'
  <2>1. rows' \in [Contents -> Expiry \cup {None}]
    BY RowType
  <2>2. owed' \in [Contents -> Expiry \cup {None}]
    BY CommitOwed
  <2>3. tx' \in [Clients -> [state : {"none", "open", "failed"}, start : 0..MaxTime]]
    BY TimeAssumption DEF TypeOK, NoTx
  <2>4. work' \in [Clients -> [Contents -> Expiry \cup {Untouched, Gone}]]
    BY DEF TypeOK, NoWork
  <2> QED BY <2>1, <2>2, <2>3, <2>4 DEF TypeOK, Goto, PCs
<1>2. RowLocks'
  BY DEF TypeOK, RowLocks, NoWork
<1>3. Begun'
  BY TimeAssumption DEF TypeOK, Begun, NoTx
<1>4. Placed'
  BY DEF TypeOK, Placed, Goto
<1>5. Pending'
  <2> SUFFICES ASSUME NEW q \in Clients, NEW c \in Contents, work'[q][c] # Untouched
               PROVE  Intended(q, c)'
    BY DEF Pending
  <2>1. q # p /\ work'[q] = work[q]
    BY DEF TypeOK, NoWork
  <2>2. rows'[c] = rows[c] /\ Intended(q, c)
    BY <2>1, CommitKeepsOthers DEF Pending
  <2> QED BY <2>1, <2>2 DEF Intended, Expired
<1> QED BY <1>1, <1>2, <1>3, <1>4, <1>5

\* A transaction ends without a commit, or the call does.
LEMMA EndingStep ==
    ASSUME IInv, NEW p \in Clients,
           tx' = [tx EXCEPT ![p] = tx'[p]],
           tx'[p] \in [state : {"none", "open", "failed"}, start : 0..MaxTime],
           tx'[p].start <= clock,
           work' = [work EXCEPT ![p] = NoWork],
           pc' = [pc EXCEPT ![p] = pc'[p]], pc'[p] \in {"return", "idle"},
           UNCHANGED call \/ Finish(p),
           result' \in [Clients -> Results], doomed' \in [Clients -> SUBSET Contents],
           UNCHANGED <<table, owed>>
    PROVE  IInv'
<1> USE DEF IInv, table, call
<1>1. \A q \in Clients \ {p} :
          /\ work'[q] = work[q] /\ pc'[q] = pc[q] /\ op'[q] = op[q]
          /\ arg'[q] = arg[q] /\ stamp'[q] = stamp[q]
  BY DEF TypeOK, Finish
<1>2. work'[p] = NoWork
  BY DEF TypeOK
<1>3. TypeOK'
  <2>1. work' \in [Clients -> [Contents -> Expiry \cup {Untouched, Gone}]]
    BY DEF TypeOK, NoWork
  <2>2. pc' \in [Clients -> PCs] /\ tx' \in [Clients -> [state : {"none", "open", "failed"}, start : 0..MaxTime]]
    BY DEF TypeOK, PCs
  <2>3. /\ op' \in [Clients -> Ops] /\ arg' \in [Clients -> Contents \cup Limits \cup {None}]
        /\ stamp' \in [Clients -> Expiry]
    BY DEF TypeOK, Finish, Ops, Expiry
  <2> QED BY <2>1, <2>2, <2>3 DEF TypeOK
<1>4. RowLocks'
  BY <1>1, <1>2 DEF RowLocks, NoWork
<1>5. Begun'
  BY DEF TypeOK, Begun
<1>6. Placed'
  <2>1. /\ op'[p] \in {"put", "get", "exists", "delete"} => arg'[p] \in Contents
        /\ op'[p] = "prune" => arg'[p] \in Limits \cup {None}
    BY DEF TypeOK, Placed, Finish
  <2> QED BY <1>1, <1>2, <2>1 DEF Placed
<1>7. Pending'
  BY <1>1, <1>2 DEF Pending, Intended, Expired, NoWork
<1> QED BY <1>3, <1>4, <1>5, <1>6, <1>7

LEMMA AbortStep ==
    ASSUME IInv, NEW p \in Clients, StatementFails(p) \/ Disconnect(p) \/ Return(p)
    PROVE  IInv'
<1> USE DEF IInv
<1>1. CASE StatementFails(p)
  <2>1. /\ tx'[p] = [state |-> "failed", start |-> 0] /\ tx' = [tx EXCEPT ![p] = tx'[p]]
        /\ tx'[p] \in [state : {"none", "open", "failed"}, start : 0..MaxTime]
        /\ tx'[p].start <= clock
    BY <1>1, TimeAssumption DEF StatementFails, TypeOK
  <2>2. /\ pc'[p] = "return" /\ pc' = [pc EXCEPT ![p] = pc'[p]]
        /\ result' \in [Clients -> Results] /\ doomed' \in [Clients -> SUBSET Contents]
    BY <1>1 DEF StatementFails, TypeOK, Settle, Goto, Results
  <2> QED BY <1>1, <2>1, <2>2, EndingStep DEF StatementFails
<1>2. CASE Disconnect(p)
  <2>1. /\ tx'[p] = [state |-> "none", start |-> 0] /\ tx' = [tx EXCEPT ![p] = tx'[p]]
        /\ tx'[p] \in [state : {"none", "open", "failed"}, start : 0..MaxTime]
        /\ tx'[p].start <= clock
    BY <1>2, TimeAssumption DEF Disconnect, TypeOK, NoTx
  <2>2. /\ pc'[p] = "idle" /\ pc' = [pc EXCEPT ![p] = pc'[p]]
        /\ result' \in [Clients -> Results] /\ doomed' \in [Clients -> SUBSET Contents]
    BY <1>2 DEF Disconnect, Finish, TypeOK, Settle, Goto, Results
  <2> QED BY <1>2, <2>1, <2>2, EndingStep DEF Disconnect
<1>3. CASE Return(p)
  <2>1. /\ tx' = [tx EXCEPT ![p] = tx'[p]] /\ tx'[p].start <= clock
        /\ tx'[p] \in [state : {"none", "open", "failed"}, start : 0..MaxTime]
    BY <1>3 DEF Return, TypeOK, Begun, connection
  <2>2. work' = [work EXCEPT ![p] = NoWork]
    BY <1>3 DEF Return, Placed, TypeOK, connection
  <2>3. /\ pc'[p] = "idle" /\ pc' = [pc EXCEPT ![p] = pc'[p]]
        /\ result' \in [Clients -> Results] /\ doomed' \in [Clients -> SUBSET Contents]
    BY <1>3 DEF Return, Finish, TypeOK, Settle, Goto, Results
  <2> QED BY <1>3, <2>1, <2>2, <2>3, EndingStep DEF Return
<1> QED BY <1>1, <1>2, <1>3

LEMMA TickStep == ASSUME IInv, Tick PROVE IInv'
<1> USE DEF IInv, Tick, connection, call
<1>1. TypeOK' /\ Begun'
  BY TimeAssumption DEF TypeOK, Begun
<1>2. RowLocks' /\ Placed'
  BY DEF RowLocks, Placed, NoWork
<1>3. Pending'
  BY TimeAssumption DEF TypeOK, Pending, Intended, Expired, Expiry
<1> QED BY <1>1, <1>2, <1>3

LEMMA ReadStep ==
    ASSUME IInv, NEW p \in Clients,
           GetExecute(p) \/ ExistsExecute(p) \/ IterExecute(p) \/ PruneExecute(p) \/ Refused(p)
    PROVE  IInv'
<1> USE DEF IInv, TypeOK, Settle, Goto, PCs, Results
<1>1. CASE GetExecute(p)
  <2>1. /\ pc'[p] \in {"return", "touch"} /\ pc' \in [Clients -> PCs]
        /\ result' \in [Clients -> Results]
        /\ \A q \in Clients : pc'[q] = pc[q] \/ q = p
    BY <1>1 DEF GetExecute
  <2> QED BY <1>1, <2>1, QuietStep DEF GetExecute
<1>2. CASE ExistsExecute(p) \/ IterExecute(p)
  <2>1. /\ pc'[p] = "return" /\ pc' \in [Clients -> PCs]
        /\ result' \in [Clients -> Results]
        /\ \A q \in Clients : pc'[q] = pc[q] \/ q = p
    BY <1>2 DEF ExistsExecute, IterExecute
  <2> QED BY <1>2, <2>1, QuietStep DEF ExistsExecute, IterExecute
<1>3. CASE PruneExecute(p)
  <2>1. /\ pc'[p] = "reap" /\ pc' \in [Clients -> PCs]
        /\ doomed' \in [Clients -> SUBSET Contents]
        /\ \A q \in Clients : pc'[q] = pc[q] \/ q = p
    BY <1>3 DEF PruneExecute
  <2> QED BY <1>3, <2>1, QuietStep DEF PruneExecute
<1>4. CASE Refused(p)
  <2>1. /\ pc'[p] = "return" /\ pc' \in [Clients -> PCs]
        /\ result' \in [Clients -> Results]
        /\ \A q \in Clients : pc'[q] = pc[q] \/ q = p
    BY <1>4 DEF Refused
  <2> QED BY <1>4, <2>1, QuietStep DEF Refused, InStatement, connection
<1> QED BY <1>1, <1>2, <1>3, <1>4

LEMMA NextIInv == IInv /\ [Next]_vars => IInv'
<1> SUFFICES ASSUME IInv, [Next]_vars PROVE IInv'
  OBVIOUS
<1>1. ASSUME NEW p \in Clients, NEW o \in {"put", "get", "exists", "delete"}, NEW c \in Contents,
             Call(p, o, c)
      PROVE  IInv'
  BY <1>1, CallStep DEF Ops
<1>2. ASSUME NEW p \in Clients, Call(p, "iter", None) PROVE IInv'
  BY <1>2, CallStep DEF Ops
<1>3. ASSUME NEW p \in Clients, NEW n \in Limits \cup {None}, Call(p, "prune", n) PROVE IInv'
  BY <1>3, CallStep DEF Ops
<1>4. ASSUME NEW p \in Clients, Execute(p) PROVE IInv'
  BY <1>4, PutStep, TouchStep, DeleteStep, ReapStep, ReadStep DEF Execute
<1>5. ASSUME NEW p \in Clients, StatementFails(p) \/ Commit(p) \/ Return(p) \/ Disconnect(p)
      PROVE  IInv'
  BY <1>5, AbortStep, CommitStep
<1>6. CASE UNCHANGED vars
  BY <1>6 DEF vars, table, connection, call, IInv, TypeOK, RowLocks, Begun, Placed, Pending,
     Intended, Expired, NoWork
<1> QED BY <1>1, <1>2, <1>3, <1>4, <1>5, <1>6, TickStep DEF Next

-----------------------------------------------------------------------------
(* Theorems *)

\* Every reachable state satisfies the invariant.
THEOREM Invariance == Spec => []IInv
  BY InitIInv, NextIInv, PTL DEF Spec

\* Every state the workers and the table can be in is well typed.
THEOREM TypeCorrect == Spec => []TypeOK
  BY Invariance, PTL DEF IInv

\* A worker that is not between a statement and its commit holds no row's lock, for
\* any number of workers, and whatever fails (postgres.py:89, 122, 148, 200).
THEOREM NoLockHeldIdle == Spec => []IdleHoldsNoLock
<1>1. IInv => IdleHoldsNoLock
  BY DEF IInv, Placed, IdleHoldsNoLock
<1> QED BY <1>1, Invariance, PTL

\* Only a commit changes the table.
LEMMA RowsChange ==
    ASSUME [Next]_vars, rows' # rows
    PROVE  \E p \in Clients : Commit(p)
  BY DEF Next, vars, table, Call, Execute, PutExecute, GetExecute, GetTouch, ExistsExecute,
     IterExecute, DeleteExecute, PruneExecute, PruneReap, Refused, StatementFails, Return,
     Disconnect, Tick

\* Without limits, a prune removes only what has expired when it commits, even if it
\* was renewed while the prune was at work (postgres.py:173-201).
THEOREM PrunesOnlyExpired ==
    ASSUME Limits = {}
    PROVE  Spec => PruneOnlyExpired
<1>1. ASSUME IInv, [Next]_vars, NEW p \in Clients, NEW c \in Contents,
             op[p] = "prune", pc[p] = "commit", pc'[p] = "return",
             rows[c] # None, rows'[c] = None
      PROVE  Expired(rows[c], clock)
  <2>1. Commit(p)
    <3>1. PICK q \in Clients : Commit(q)
      BY <1>1, RowsChange
    <3>2. q = p
      BY <1>1, <3>1 DEF IInv, TypeOK, Commit, Goto
    <3> QED BY <3>1, <3>2
  <2>2. work[p][c] = Gone
    BY <1>1, <2>1, MarkAssumption DEF IInv, TypeOK, Commit, Row, Expiry
  <2> QED BY <1>1, <2>2, MarkAssumption DEF IInv, Placed, Pending, Intended
<1> DEFINE A == \A p \in Clients, c \in Contents :
                    op[p] = "prune" /\ pc[p] = "commit" /\ pc'[p] = "return"
                        /\ rows[c] # None /\ rows'[c] = None
                    => Expired(rows[c], clock)
<1>2. IInv /\ [Next]_vars => A
  BY <1>1
<1>3. Spec => [][A]_vars
  <2> HIDE DEF A
  <2> QED BY <1>2, Invariance, PTL DEF Spec
<1> QED BY <1>3 DEF PruneOnlyExpired

-----------------------------------------------------------------------------
(* What puts answer for, when workers all give objects lifetimes or none does, and *)
(* prunes have no limit.                                                           *)

\* A put leaves on its row the expiry it has computed.
LEMMA PutLeavesStamp ==
    ASSUME Alike, IInv, Promised, NEW p \in Clients, PutExecute(p)
    PROVE  work'[p][arg[p]] = stamp[p]
<1>1. arg[p] \in Contents /\ work[p] = NoWork
  BY DEF IInv, Placed, PutExecute
<1>2. Row(p, arg[p]) = rows[arg[p]]
  BY <1>1 DEF Row, NoWork
<1>3. stamp[p] = Never /\ rows[arg[p]] # None => rows[arg[p]] = Never
  BY <1>1 DEF Promised, Stamped, Lifetimes, PutExecute
<1> QED BY <1>1, <1>2, <1>3 DEF IInv, TypeOK, PutExecute

LEMMA InitPromised == Init => Promised
  BY MarkAssumption DEF Init, Promised, Stamped, Lifetimes, CalledOff, Covered, PutsKeep

\* Steps of a call that leave the table and the promises alone.
LEMMA UnpromisingStep ==
    ASSUME IInv, Promised, NEW p \in Clients,
           UNCHANGED <<table, owed>>,
           UNCHANGED call \/ Finish(p),
           \A q \in Clients \ {p} : pc'[q] = pc[q] /\ work'[q] = work[q],
           pc'[p] = "execute" => pc[p] = "execute",
           pc'[p] = "commit" => pc[p] \in {"execute", "commit"} \/ op[p] \notin {"put", "delete"},
           pc'[p] = "commit" /\ op[p] = "put" => work'[p][arg[p]] = stamp[p]
    PROVE  Promised'
<1>1. \A q \in Clients \ {p} : op'[q] = op[q] /\ arg'[q] = arg[q] /\ stamp'[q] = stamp[q]
  BY DEF IInv, TypeOK, call, Finish
<1>2. op'[p] = "none" \/ (op'[p] = op[p] /\ arg'[p] = arg[p] /\ stamp'[p] = stamp[p])
  BY DEF IInv, TypeOK, call, Finish
<1>3. Stamped'
  BY <1>1, <1>2 DEF Promised, Stamped
<1>4. CalledOff'
  BY <1>1, <1>2 DEF Promised, CalledOff
<1>5. Lifetimes' /\ Covered'
  BY DEF Promised, Lifetimes, Covered, Expired, NotLater, table
<1>6. \A q \in Clients, c \in Contents : Pends(q, "put", c)' => Pends(q, "put", c)
  BY <1>1, <1>2 DEF Pends
<1>7. PutsKeep'
  <2> SUFFICES ASSUME NEW c \in Contents, owed'[c] # None, NEW q \in Clients
               PROVE  /\ Pends(q, "put", c)' => NotLater(owed'[c], stamp'[q])
                      /\ NotLater(owed'[c], ExpiresAt(q)')
    BY DEF PutsKeep, NotLater
  <2>1. NotLater(owed'[c], ExpiresAt(q)')
    BY DEF Promised, PutsKeep, ExpiresAt, NotLater, table
  <2>2. Pends(q, "put", c)' => stamp'[q] = stamp[q]
    BY <1>1, <1>2 DEF Pends
  <2> QED BY <1>6, <2>1, <2>2 DEF Promised, PutsKeep, NotLater
<1> QED BY <1>3, <1>4, <1>5, <1>7 DEF Promised

LEMMA ExecutePromised ==
    ASSUME Alike, IInv, Promised, NEW p \in Clients,
           Execute(p) \/ StatementFails(p) \/ Return(p) \/ Disconnect(p)
    PROVE  Promised'
<1> USE DEF IInv, TypeOK, Settle, Goto, connection
<1>1. CASE PutExecute(p)
  BY <1>1, PutLeavesStamp, UnpromisingStep DEF PutExecute
<1>2. CASE GetExecute(p) \/ ExistsExecute(p) \/ IterExecute(p) \/ PruneExecute(p) \/ Refused(p)
  BY <1>2, UnpromisingStep DEF GetExecute, ExistsExecute, IterExecute, PruneExecute, Refused
<1>3. CASE GetTouch(p) \/ PruneReap(p)
  <2>1. op[p] \in {"get", "prune"}
    BY <1>3 DEF Placed, GetTouch, PruneReap
  <2> QED BY <1>3, <2>1, UnpromisingStep DEF GetTouch, PruneReap
<1>4. CASE DeleteExecute(p)
  BY <1>4, UnpromisingStep DEF DeleteExecute
<1>5. CASE StatementFails(p) \/ Return(p) \/ Disconnect(p)
  BY <1>5, UnpromisingStep DEF StatementFails, Return, Disconnect, Finish
<1> QED BY <1>1, <1>2, <1>3, <1>4, <1>5 DEF Execute

\* A delete calls the promise off, a put computes its expiry from its own lifetime.
LEMMA CallPromised ==
    ASSUME IInv, Promised, NEW p \in Clients, NEW o \in Ops, NEW x,
           o \in {"put", "delete"} => x \in Contents, Call(p, o, x)
    PROVE  Promised'
<1> USE DEF IInv, TypeOK, Call, table, connection, Goto
<1>1. Stamped'
  <2>1. o = "put" => (stamp'[p] = Never <=> TTL[p] = None)
    BY ExpiresAtType
  <2> QED BY <2>1 DEF Promised, Stamped
<1>2. CalledOff'
  BY DEF Promised, CalledOff, Placed
<1>3. Lifetimes' /\ Covered'
  BY DEF Promised, Lifetimes, Covered, Expired, NotLater
<1>4. PutsKeep'
  <2> SUFFICES ASSUME NEW c \in Contents, owed'[c] # None, NEW q \in Clients
               PROVE  /\ Pends(q, "put", c)' => NotLater(owed'[c], stamp'[q])
                      /\ NotLater(owed'[c], ExpiresAt(q)')
    BY DEF PutsKeep, NotLater
  <2>1. owed'[c] = owed[c]
    OBVIOUS
  <2>2. NotLater(owed[c], ExpiresAt(q)) /\ ExpiresAt(q)' = ExpiresAt(q)
    BY <2>1 DEF Promised, PutsKeep, ExpiresAt
  <2>3. CASE q = p
    BY <2>1, <2>2, <2>3 DEF Pends, NotLater
  <2>4. CASE q # p
    <3>1. Pends(q, "put", c)' => Pends(q, "put", c) /\ stamp'[q] = stamp[q]
      BY <2>4 DEF Pends
    <3> QED BY <2>1, <2>2, <3>1 DEF Promised, PutsKeep, NotLater
  <2> QED BY <2>3, <2>4
<1> QED BY <1>1, <1>2, <1>3, <1>4 DEF Promised

LEMMA CommitPromised ==
    ASSUME Alike, Limits = {}, IInv, Promised, NEW p \in Clients, Commit(p)
    PROVE  Promised'
<1> USE DEF IInv
<1>1. ASSUME NEW c \in Contents
      PROVE  \/ rows'[c] = rows[c]
             \/ op[p] = "put" /\ c = arg[p]
             \/ op[p] = "delete" /\ c = arg[p] /\ rows'[c] = None
             \/ rows'[c] = None /\ Expired(rows[c], clock)
  <2>1. CASE work[p][c] = Untouched
    BY <2>1 DEF Commit, Row
  <2>2. CASE work[p][c] # Untouched
    <3>1. Intended(p, c)
      BY <2>2 DEF Pending
    <3>2. op[p] = "prune" => arg[p] = None
      BY DEF Placed
    <3>3. rows'[c] = IF work[p][c] = Gone THEN None ELSE work[p][c]
      BY <2>2 DEF Commit, Row
    <3> QED BY <3>1, <3>2, <3>3, MarkAssumption DEF Intended, TypeOK, Expiry
  <2> QED BY <2>1, <2>2
<1>2. op[p] = "put" => arg[p] \in Contents /\ rows'[arg[p]] = stamp[p]
  <2> SUFFICES ASSUME op[p] = "put" PROVE arg[p] \in Contents /\ rows'[arg[p]] = stamp[p]
    OBVIOUS
  <2>1. arg[p] \in Contents /\ work[p][arg[p]] = stamp[p]
    BY DEF Placed, Promised, Stamped, Commit
  <2> QED BY <2>1, MarkAssumption DEF Commit, Row, TypeOK, Expiry
<1>3. Stamped'
  BY DEF Promised, Stamped, Commit, Goto, TypeOK, call
<1>4. Lifetimes'
  <2> SUFFICES ASSUME NEW c \in Contents, rows'[c] # None, NEW q \in Clients
               PROVE  rows'[c] = Never <=> TTL[q] = None
    BY DEF Lifetimes
  <2>1. CASE rows'[c] = rows[c]
    BY <2>1 DEF Promised, Lifetimes
  <2>2. CASE op[p] = "put" /\ c = arg[p]
    BY <2>2, <1>2 DEF Promised, Stamped, Alike
  <2> QED BY <1>1, <2>1, <2>2
<1>5. CalledOff'
  <2> SUFFICES ASSUME NEW q \in Clients, op'[q] = "delete", pc'[q] \in {"execute", "commit"}
               PROVE  owed'[arg'[q]] = None
    BY DEF CalledOff
  <2>1. /\ q # p /\ op[q] = "delete" /\ pc[q] \in {"execute", "commit"}
        /\ arg'[q] = arg[q] /\ arg[q] \in Contents
    BY DEF Commit, Goto, TypeOK, Placed, call
  <2>2. owed[arg[q]] = None
    BY <2>1 DEF Promised, CalledOff
  <2>3. op[p] = "put" /\ arg[p] = arg[q] => Pends(q, "delete", arg[p])
    BY <2>1 DEF Pends
  <2> QED BY <2>1, <2>2, <2>3 DEF Commit, TypeOK
<1>6. \A c \in Contents : owed'[c] # None =>
         \/ owed'[c] = owed[c]
         \/ op[p] = "put" /\ c = arg[p] /\ owed'[c] = Promise(c)
  <2> SUFFICES ASSUME NEW c \in Contents, owed'[c] # None
               PROVE  owed'[c] = owed[c] \/ (op[p] = "put" /\ c = arg[p] /\ owed'[c] = Promise(c))
    OBVIOUS
  <2>1. CASE op[p] = "put" /\ c = arg[p]
    BY <2>1 DEF Commit, TypeOK, Later
  <2>2. CASE ~(op[p] = "put" /\ c = arg[p])
    BY <2>2 DEF Commit, TypeOK
  <2> QED BY <2>1, <2>2
<1>7. op[p] = "put" => Pends(p, "put", arg[p])
  BY DEF Commit, Pends
<1>8. \A c \in Contents, q \in Clients : owed'[c] # None =>
         /\ Pends(q, "put", c) => NotLater(owed'[c], stamp[q])
         /\ NotLater(owed'[c], ExpiresAt(q))
  BY <1>6, PromiseIs DEF Promised, PutsKeep
<1>9. Covered'
  <2> SUFFICES ASSUME NEW c \in Contents, owed'[c] # None, ~Expired(owed'[c], clock)
               PROVE  rows'[c] # None /\ NotLater(owed'[c], rows'[c])
    BY DEF Covered, Commit, NotLater, Expired
  <2>1. CASE op[p] = "put" /\ c = arg[p]
    <3>1. rows'[c] = stamp[p] /\ stamp[p] # None
      BY <1>2, <2>1, MarkAssumption DEF TypeOK, Expiry
    <3> QED BY <1>7, <1>8, <2>1, <3>1
  <2>2. CASE ~(op[p] = "put" /\ c = arg[p])
    <3>1. owed'[c] = owed[c]
      BY <1>6, <2>2
    <3>2. rows[c] # None /\ NotLater(owed[c], rows[c])
      BY <3>1 DEF Promised, Covered
    <3>3. ~(op[p] = "delete" /\ c = arg[p])
      BY <3>1 DEF Promised, CalledOff, Commit
    <3>4. ~Expired(rows[c], clock)
      <4>1. owed[c] \in Expiry /\ rows[c] \in Expiry /\ clock \in Nat
        BY <3>1, <3>2, TimeAssumption DEF TypeOK
      <4> QED BY <3>1, <3>2, <4>1, MarkAssumption DEF NotLater, Expired, Expiry
    <3> QED BY <1>1, <2>2, <3>1, <3>2, <3>3, <3>4
  <2> QED BY <2>1, <2>2
<1>10. PutsKeep'
  <2> SUFFICES ASSUME NEW c \in Contents, owed'[c] # None, NEW q \in Clients
               PROVE  /\ Pends(q, "put", c)' => NotLater(owed'[c], stamp'[q])
                      /\ NotLater(owed'[c], ExpiresAt(q)')
    BY DEF PutsKeep, NotLater
  <2>1. Pends(q, "put", c)' => Pends(q, "put", c)
    BY DEF Commit, Pends, Goto, TypeOK, call
  <2>2. stamp' = stamp /\ ExpiresAt(q)' = ExpiresAt(q)
    BY DEF Commit, call, ExpiresAt
  <2> QED BY <1>8, <2>1, <2>2
<1> QED BY <1>3, <1>4, <1>5, <1>9, <1>10 DEF Promised

\* What has not expired a tick later has not expired yet, and puts to come only expire later.
LEMMA TickPromised == ASSUME IInv, Promised, Tick PROVE Promised'
<1> USE DEF IInv, Tick, connection, call
<1>1. Stamped' /\ Lifetimes' /\ CalledOff'
  BY DEF Promised, Stamped, Lifetimes, CalledOff
<1>2. Covered'
  BY TimeAssumption DEF Promised, Covered, Expired, NotLater, TypeOK, Expiry
<1>3. PutsKeep'
  <2> SUFFICES ASSUME NEW c \in Contents, owed[c] # None, NEW q \in Clients
               PROVE  /\ Pends(q, "put", c) => NotLater(owed[c], stamp[q])
                      /\ NotLater(owed[c], ExpiresAt(q)')
    BY DEF PutsKeep, NotLater, Pends
  <2>1. Pends(q, "put", c) => NotLater(owed[c], stamp[q])
    BY DEF Promised, PutsKeep
  <2>2. NotLater(owed[c], ExpiresAt(q)) /\ owed[c] \in Expiry /\ clock \in Nat
    BY TimeAssumption DEF Promised, PutsKeep, TypeOK
  <2>3. CASE TTL[q] = None
    BY <2>1, <2>3 DEF ExpiresAt, NotLater
  <2>4. CASE TTL[q] # None
    <3>1. TTL[q] \in Nat
      BY <2>4, TTLAssumption
    <3>2. clock + TTL[q] # Never
      BY <2>2, <3>1, MarkAssumption
    <3>3. owed[c] \in Nat /\ owed[c] <= clock + TTL[q]
      BY <2>2, <2>4, <3>2 DEF ExpiresAt, NotLater, Expiry
    <3>4. owed[c] <= clock' + TTL[q]
      BY <2>2, <3>1, <3>3
    <3>5. owed[c] # Never
      BY <3>3, MarkAssumption
    <3> QED BY <2>1, <2>4, <3>4, <3>5 DEF ExpiresAt, NotLater
  <2> QED BY <2>3, <2>4
<1> QED BY <1>1, <1>2, <1>3 DEF Promised

LEMMA NextPromised ==
    ASSUME Alike, Limits = {}, IInv, Promised, [Next]_vars
    PROVE  Promised'
<1>1. ASSUME NEW p \in Clients, NEW o \in {"put", "get", "exists", "delete"}, NEW c \in Contents,
             Call(p, o, c)
      PROVE  Promised'
  BY <1>1, CallPromised DEF Ops
<1>2. ASSUME NEW p \in Clients, NEW o \in {"iter", "prune"}, NEW n, Call(p, o, n)
      PROVE  Promised'
  BY <1>2, CallPromised DEF Ops
<1>3. ASSUME NEW p \in Clients,
             Execute(p) \/ StatementFails(p) \/ Return(p) \/ Disconnect(p)
      PROVE  Promised'
  BY <1>3, ExecutePromised
<1>4. ASSUME NEW p \in Clients, Commit(p) PROVE Promised'
  BY <1>4, CommitPromised
<1>5. CASE UNCHANGED vars
  BY <1>5 DEF vars, table, connection, call, Promised, Stamped, Lifetimes, CalledOff, Covered, Expired,
     PutsKeep, Pends, ExpiresAt, NotLater
<1> QED BY <1>1, <1>2, <1>3, <1>4, <1>5, TickPromised DEF Next

\* If workers all give objects lifetimes, of whatever lengths, or none does, and no prune
\* has a limit: an object whose put has returned is in the table until the promise of
\* KeepsPromise ends, that is until the earliest expiry that this put, a put overlapping
\* it or one that begins at its commit has computed, whatever is put, read, pruned or
\* fails meanwhile, deletes apart (postgres.py:76-90, 166-201).
THEOREM PromisesKept ==
    ASSUME Alike, Limits = {}
    PROVE  Spec => []KeepsPromise
<1>1. IInv /\ Promised => KeepsPromise
  <2> SUFFICES ASSUME IInv, Promised, NEW c \in Contents, owed[c] # None, ~Expired(owed[c], clock)
               PROVE  rows[c] # None /\ ~Expired(rows[c], clock)
    BY DEF KeepsPromise
  <2>1. rows[c] # None /\ NotLater(owed[c], rows[c])
    BY DEF Promised, Covered
  <2>2. owed[c] \in Expiry /\ rows[c] \in Expiry /\ clock \in Nat
    BY <2>1, TimeAssumption DEF IInv, TypeOK
  <2> QED BY <2>1, <2>2, MarkAssumption DEF NotLater, Expired, Expiry
<1>2. Init => IInv /\ Promised
  BY InitIInv, InitPromised
<1>3. IInv /\ Promised /\ [Next]_vars => (IInv /\ Promised)'
  BY NextIInv, NextPromised
<1> QED BY <1>1, <1>2, <1>3, PTL DEF Spec
============================================================================
