------------------------------- MODULE MCRefs -------------------------------
(***************************************************************************)
(* AgentRefState for TLC, in two parts of which a behaviour is one, chosen   *)
(* at the start: stores has two stores that share the default backend_id     *)
(* "memory", one of which outlives the process, and one externalized field   *)
(* with two values; fields has an inline and two externalized fields, one    *)
(* store and two thresholds.                                                *)
(***************************************************************************)
EXTENDS MCAgentRefState

VARIABLE part

PartStores == IF part = "stores" THEN Stores ELSE {Default}
PartThresholds == IF part = "fields" THEN Thresholds ELSE {DefaultThreshold}
PartFields == IF part = "stores" THEN {docs} ELSE Externalized
PartDomain ==
    IF part = "stores" THEN [f \in Fields |-> IF f = docs THEN Values ELSE {}] ELSE OneEach

PartsInit == part \in {"stores", "fields"} /\ Init
PartsNext == Steps(PartStores, PartThresholds, PartFields, PartDomain) /\ UNCHANGED part

PartsSpec == PartsInit /\ [][PartsNext]_<<vars, part>>
=============================================================================
