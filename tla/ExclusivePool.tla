--------------------------- MODULE ExclusivePool ----------------------------
(***************************************************************************)
(* What a host promises of anything it hands out by name (a GPU, a         *)
(* hyper-threaded core): whoever takes an item is its only owner until it  *)
(* gives the item back.                                                    *)
(***************************************************************************)
CONSTANTS Items, Users

VARIABLE owners     \* owners[i]: who uses item i now

PoolInit == owners = [i \in Items |-> {}]

Take(u, S) ==
    /\ \A i \in S : owners[i] = {}
    /\ owners' = [i \in Items |-> IF i \in S THEN {u} ELSE owners[i]]

Give(u) == owners' = [i \in Items |-> owners[i] \ {u}]

PoolNext == \E u \in Users : Give(u) \/ \E S \in SUBSET Items : Take(u, S)

PoolSpec == PoolInit /\ [][PoolNext]_owners
=============================================================================
