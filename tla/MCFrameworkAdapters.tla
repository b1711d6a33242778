------------------------ MODULE MCFrameworkAdapters ------------------------
(***************************************************************************)
(* FrameworkAdapters for TLC: an inline field and an externalized one, whose *)
(* two values the codec treats differently, bytes and the wrapper of their   *)
(* own reference; and two stores of which the new one has the old one's id   *)
(* for an alias.                                                             *)
(***************************************************************************)
EXTENDS FrameworkAdapters, TLC

CONSTANTS oldStore, newStore, note, docs, leaf

Small == [shape |-> "plain", atom |-> leaf]
Blob == [shape |-> "bytes", atom |-> leaf]

MCDomain == [f \in Fields |-> IF f = note THEN {Small} ELSE {Blob}]
MCFits == {Small}
MCHanded == {[hash |-> Serialize(Blob), backend_id |-> "fs", type_name |-> "bytes"]}
MCBackendId == (oldStore :> "fs") @@ (newStore :> "pg")
MCAliases == (oldStore :> {}) @@ (newStore :> {"fs"})
Symmetric == Permutations(Tasks)
=============================================================================
