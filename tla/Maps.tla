-------------------------------- MODULE Maps --------------------------------
(* Go maps as partial functions: assignment to a key, and delete, which    *)
(* does nothing when the key is absent.                                    *)
EmptyMap == [key \in {} |-> {}]
Put(map, key, value) ==
    [k \in DOMAIN map \cup {key} |-> IF k = key THEN value ELSE map[k]]
Delete(map, key) == [k \in DOMAIN map \ {key} |-> map[k]]
=============================================================================
