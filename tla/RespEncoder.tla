------------------------------- MODULE RespEncoder -------------------------------
(***************************************************************************)
(* encode of mini_redis/lib/mini_redis.ml, which calls itself on the       *)
(* elements of an array.                                                   *)
(***************************************************************************)
EXTENDS RespCodec

RECURSIVE encode(_)

encode(r) ==
    Encoded(r, IF r.type = "Array" THEN [i \in DOMAIN r.value |-> encode(r.value[i])] ELSE <<>>)
===============================================================================
