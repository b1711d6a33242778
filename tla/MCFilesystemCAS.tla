-------------------------- MODULE MCFilesystemCAS --------------------------
(* FilesystemCAS for TLC: two clients, two contents in shards of their own. *)
EXTENDS FilesystemCAS, TLC

CONSTANTS a, b,    \* contents
          s, t     \* shards

MCShardOf == (a :> s) @@ (b :> t)
=============================================================================
