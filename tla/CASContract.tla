---------------------------- MODULE CASContract ----------------------------
(***************************************************************************)
(* What storage/base.py promises its callers of a content-addressed store, *)
(* and what core/ and adapters/ rely on: put, get, exists and delete each   *)
(* take effect at one instant between their call and their return, a get    *)
(* yields the whole content or KeyError, and a put that raises has stored   *)
(* nothing.  A content stands for the bytes and for their SHA-256 at once   *)
(* (hash_bytes is taken to be injective), so the store is the set of the    *)
(* contents it holds.                                                       *)
(***************************************************************************)
CONSTANTS Clients,   \* threads or worker processes that call the store
          Contents   \* byte strings, each identified with its hash

VARIABLES store,     \* the contents held
          call       \* the call each client is in

vars == <<store, call>>

Ops == {"put", "get", "exists", "delete"}
Results == {"hash", "bytes", "missing", "yes", "no", "ok", "error"}

\* No call in flight.
Idle == [phase |-> "idle"]

Pending == [phase : {"pending"}, op : Ops, arg : Contents]
Done == [phase : {"done"}, op : Ops, arg : Contents, result : Results]

TypeOK ==
    /\ store \subseteq Contents
    /\ call \in [Clients -> {Idle} \cup Pending \cup Done]

Init ==
    /\ store = {}
    /\ call = [p \in Clients |-> Idle]

Invoke(p, o, c) ==
    /\ call[p] = Idle
    /\ call' = [call EXCEPT ![p] = [phase |-> "pending", op |-> o, arg |-> c]]
    /\ UNCHANGED store

InCall(p, o) == call[p].phase = "pending" /\ call[p].op = o

\* The call's outcome is settled; it will return r.
Settle(p, r) ==
    call' = [call EXCEPT ![p] = [phase |-> "done", op |-> call[p].op,
                                 arg |-> call[p].arg, result |-> r]]

Put(p) ==
    /\ InCall(p, "put")
    /\ store' = store \cup {call[p].arg}
    /\ Settle(p, "hash")

\* A put that raises (disk full, no permission) leaves the store as it was.
PutFails(p) ==
    /\ InCall(p, "put")
    /\ Settle(p, "error")
    /\ UNCHANGED store

Get(p) ==
    /\ InCall(p, "get")
    /\ Settle(p, IF call[p].arg \in store THEN "bytes" ELSE "missing")
    /\ UNCHANGED store

Exists(p) ==
    /\ InCall(p, "exists")
    /\ Settle(p, IF call[p].arg \in store THEN "yes" ELSE "no")
    /\ UNCHANGED store

Delete(p) ==
    /\ InCall(p, "delete")
    /\ store' = store \ {call[p].arg}
    /\ Settle(p, "ok")

Return(p) ==
    /\ call[p].phase = "done"
    /\ call' = [call EXCEPT ![p] = Idle]
    /\ UNCHANGED store

\* The client dies; a call that had not taken effect never will.
Abandon(p) ==
    /\ call[p] # Idle
    /\ call' = [call EXCEPT ![p] = Idle]
    /\ UNCHANGED store

TakeEffect(p) == Put(p) \/ PutFails(p) \/ Get(p) \/ Exists(p) \/ Delete(p)

Next ==
    \E p \in Clients :
        \/ \E o \in Ops, c \in Contents : Invoke(p, o, c)
        \/ TakeEffect(p)
        \/ Return(p)
        \/ Abandon(p)

Spec == Init /\ [][Next]_vars /\ \A p \in Clients : WF_vars(TakeEffect(p) \/ Return(p))
============================================================================
