-------------------------- MODULE MCAgentRefState --------------------------
(***************************************************************************)
(* Fields, values and stores to give to AgentRefState for TLC: note is       *)
(* inline, docs and raw are externalized; every store has the default        *)
(* backend_id "memory".  Identities of references are interchangeable.       *)
(***************************************************************************)
EXTENDS AgentRefState, TLC

CONSTANTS heap, blobs,        \* stores
          note, docs, raw,    \* fields
          leaf                \* an atom

Small == [shape |-> "plain", atom |-> leaf]
Blob == [shape |-> "bytes", atom |-> leaf]
IntMap == [shape |-> "intmap", atom |-> leaf]

MCAnnotation == [f \in Externalized |-> "other"]
MCValues == {Small, Blob}
LossyValues == {Small, IntMap}
AllValues == [f \in Fields |-> Values]
OneEach == [f \in Fields |-> IF f = docs THEN {Small} ELSE {Blob}]
MCSize == (Small :> 1) @@ (Blob :> 2)
LossySize == (Small :> 1) @@ (IntMap :> 2)
MCBackendId == [s \in Stores |-> "memory"]
MCAliases == [s \in Stores |-> {}]
Symmetric == Permutations(RefIds)
=============================================================================
