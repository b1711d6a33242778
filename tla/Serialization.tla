--------------------------- MODULE Serialization ---------------------------
(***************************************************************************)
(* serialize and deserialize of storage/base.py and type_name_for of        *)
(* core/descriptors.py, for values told apart by what the codec does with   *)
(* them.  msgpack is a dependency of the package, so it is always there.    *)
(* A payload stands for its bytes and its hash at once.                     *)
(***************************************************************************)
CONSTANT Atoms      \* what distinguishes two values of the same shape

\* bytes   passed through
\* none    None: msgpack round-trips it, but it has no type of its own to name
\* plain   str, int, list, dict with str keys: msgpack round-trips them
\* tuple   msgpack packs it as the list of the same items (strict_types=False)
\* intmap  dict with a key that is neither str nor bytes: msgpack packs it and
\*         unpackb refuses it (strict_map_key)
\* object  msgpack refuses it, pickle round-trips it
\* closed  neither packs it (a lock, a socket, a lambda)
\* encoded the bytes of another value's payload, as a result of deserialize
Shapes == {"bytes", "none", "plain", "tuple", "intmap", "object", "closed", "encoded"}

Value == [shape : Shapes, atom : Atoms]

Payload == [format : {"raw", "msgpack", "pickle"}, of : Value]

\* deserialize only tells the name "bytes" from the others.
TypeNames == {"bytes", "other"}

\* No value: deserialize raises SerializationError.
Unreadable == [shape |-> "unreadable"]

\* SerializationError otherwise.
Serializable(v) == v.shape # "closed"

Serialize(v) ==
    CASE v.shape \in {"bytes", "encoded"} -> [format |-> "raw", of |-> v]
      [] v.shape = "tuple"  -> [format |-> "msgpack", of |-> [v EXCEPT !.shape = "plain"]]
      [] v.shape = "object" -> [format |-> "pickle", of |-> v]
      [] OTHER              -> [format |-> "msgpack", of |-> v]

\* msgpack first, pickle when msgpack raises; a payload of msgpack's that msgpack
\* refuses is no pickle either.
Deserialize(p, type_name) ==
    IF type_name = "bytes"
    THEN IF p.format = "raw" THEN p.of ELSE [p.of EXCEPT !.shape = "encoded"]
    ELSE IF p.format = "raw" \/ p.of.shape = "intmap" THEN Unreadable ELSE p.of

\* The runtime type names the value, unless the value is None: then the annotation does.
TypeNameFor(annotation, v) ==
    IF v.shape = "none" THEN annotation
    ELSE IF v.shape \in {"bytes", "encoded"} THEN "bytes" ELSE "other"
=============================================================================
