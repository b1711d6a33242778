----------------------- MODULE MCFilesystemDurability -----------------------
(* FilesystemDurability for TLC.  Contents have separate paths and separate   *)
(* disk entries, so one content shared by two clients is the case in point.   *)
EXTENDS FilesystemDurability

CONSTANTS a, s

MCShardOf == [c \in {a} |-> s]
=============================================================================
