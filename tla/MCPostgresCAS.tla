--------------------------- MODULE MCPostgresCAS ---------------------------
(* Two workers; p records its reads, q does not. *)
EXTENDS PostgresCAS, TLC

CONSTANTS p, q

\* p gives its objects one unit of time, q two.
MixedTTL == [w \in Clients |-> IF w = p THEN 1 ELSE 2]
SameTTL == [w \in Clients |-> 1]
ReaderTouches == [w \in Clients |-> w = p]

\* A worker that touches nothing and never runs a limited prune.
NobodyTouches == [w \in Clients |-> FALSE]
============================================================================
