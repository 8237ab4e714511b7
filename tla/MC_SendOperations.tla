-------------------------- MODULE MC_SendOperations --------------------------
(* Three sends of operation A, one with another payload, and one each of B, C. *)
EXTENDS SendOperations, TLC

CONSTANTS A, B, C, x, y, a1, a2, a3, b1, c1

MCOperation ==
    [r \in Requests |-> IF r = b1 THEN B ELSE IF r = c1 THEN C ELSE A]
MCPayload == [r \in Requests |-> IF r = a3 THEN y ELSE x]

Interchangeable == Permutations({a1, a2})
=============================================================================
