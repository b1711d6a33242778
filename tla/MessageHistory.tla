--------------------------- MODULE MessageHistory ---------------------------
(***************************************************************************)
(* externalize_message_history and hydrate_message_history of               *)
(* adapters/autogen.py, called any number of times on one history, as        *)
(* retries and several agents do.  A call works on a copy: one that raises    *)
(* leaves the history alone.  The codec is Serialization's, here for values   *)
(* it brings back; a payload is told by the content it is of, and a wrapper   *)
(* is itself a content that can be externalized.                             *)
(***************************************************************************)
EXTENDS Naturals

CONSTANTS
    Slots,       \* the entries of the messages under one of the keys
    Texts,    \* what the entries hold when they are written
    SizeOfText,
    WrapperSize, \* len(serialize({"agentref_ref": {...}}))
    Limits,      \* threshold_bytes in use
    MaxDepth     \* bound: how deep wrappers are nested

ASSUME HistoryAssumption ==
    /\ SizeOfText \in [Texts -> Nat] /\ WrapperSize \in Nat
    /\ Limits \subseteq Nat /\ MaxDepth \in Nat

VARIABLES
    history,     \* slot |-> an entry
    blobs,       \* entries whose payload the store has
    meant,       \* history: what was written to the slot
    steady       \* history: all thresholds so far left a wrapper alone

historyVars == <<history, blobs, meant, steady>>

\* An entry of depth d is content c inside d wrappers.
Entry == [content : Texts, depth : 0..MaxDepth]
Written(c) == [content |-> c, depth |-> 0]
IsRefWrapper(e) == e.depth > 0
Wrap(e) == [e EXCEPT !.depth = @ + 1]
Unwrap(e) == [e EXCEPT !.depth = @ - 1]
SizeOf(e) == IF IsRefWrapper(e) THEN WrapperSize ELSE SizeOfText[e.content]

HistoryTypeOK ==
    /\ history \in [Slots -> Entry]
    /\ blobs \subseteq Entry
    /\ meant \in [Slots -> Texts]
    /\ steady \in BOOLEAN

HistoryInit ==
    /\ meant \in [Slots -> Texts]
    /\ history = [s \in Slots |-> Written(meant[s])]
    /\ blobs = {}
    /\ steady = TRUE

\* Big without the threshold.
BigAlways(e, limit) == TRUE

Big(e, limit) == SizeOf(e) > limit

\* Externalize that stores one of the big ones only.
ExternalizeOnce(S, limit) ==
    LET big == {s \in S : Big(history[s], limit)}
    IN  /\ \A s \in big : history[s].depth < MaxDepth
        /\ blobs' = blobs \cup (IF big = {} THEN {} ELSE {history[CHOOSE s \in big : TRUE]})
        /\ history' = [s \in Slots |-> IF s \in big THEN Wrap(history[s]) ELSE history[s]]
        /\ steady' = (steady /\ WrapperSize <= limit)
        /\ UNCHANGED meant

\* externalize_message_history(history, threshold_bytes=limit) on the slots in S
Externalize(S, limit) ==
    LET big == {s \in S : Big(history[s], limit)}
    IN  /\ \A s \in big : history[s].depth < MaxDepth
        /\ blobs' = blobs \cup {history[s] : s \in big}
        /\ history' = [s \in Slots |-> IF s \in big THEN Wrap(history[s]) ELSE history[s]]
        /\ steady' = (steady /\ WrapperSize <= limit)
        /\ UNCHANGED meant

\* A put raises after those of some of the big ones.
ExternalizeFails(S, limit) ==
    /\ \E done \in SUBSET {s \in S : Big(history[s], limit)} :
          blobs' = blobs \cup {history[s] : s \in done}
    /\ UNCHANGED <<history, meant, steady>>

\* hydrate_message_history: one wrapper is taken off each entry that has one.
Hydrate(S) ==
    LET wrapped == {s \in S : IsRefWrapper(history[s])}
    IN  /\ \A s \in wrapped : Unwrap(history[s]) \in blobs
        /\ history' = [s \in Slots |-> IF s \in wrapped THEN Unwrap(history[s]) ELSE history[s]]
        /\ UNCHANGED <<blobs, meant, steady>>

\* A new message is written over an old one, or a forwarded entry.
Say(s, c) ==
    /\ history' = [history EXCEPT ![s] = Written(c)]
    /\ meant' = [meant EXCEPT ![s] = c]
    /\ UNCHANGED <<blobs, steady>>

ForwardEntry(s, r) ==
    /\ history' = [history EXCEPT ![s] = history[r]]
    /\ meant' = [meant EXCEPT ![s] = meant[r]]
    /\ UNCHANGED <<blobs, steady>>

HistoryNext ==
    \/ \E S \in SUBSET Slots : \E limit \in Limits :
            Externalize(S, limit) \/ ExternalizeFails(S, limit)
    \/ \E S \in SUBSET Slots : Hydrate(S)
    \/ \E s \in Slots : \E c \in Texts : Say(s, c)
    \/ \E s, r \in Slots : ForwardEntry(s, r)

HistorySpec == HistoryInit /\ [][HistoryNext]_historyVars

-----------------------------------------------------------------------------
(* Properties *)

\* docs/autogen_limitations.md:10-11: however often a history has been externalized,
\* forwarded and hydrated, every entry is what was written to it inside some wrappers,
\* and the store has what is inside each of them.
EntriesRecoverable ==
    \A s \in Slots :
        /\ history[s].content = meant[s]
        /\ \A d \in 0..(history[s].depth - 1) : [history[s] EXCEPT !.depth = d] \in blobs

\* autogen.py:99: while every threshold so far was at least the size of a wrapper, one
\* hydration gives the messages back, however often they were externalized before it.
OneHydrationEnough == steady => \A s \in Slots : history[s].depth <= 1
=============================================================================
