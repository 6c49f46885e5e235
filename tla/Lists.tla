-------------------------------- MODULE Lists --------------------------------
(***************************************************************************)
(* What the statements and the components do with lists: a DELETE from an  *)
(* ordered table, and the filter of an array in the client.                *)
(***************************************************************************)
EXTENDS Naturals, Sequences

\* The elements of a list that are in a set, in their order.
Only(list, set) ==
    LET kept[n \in 0..Len(list)] ==
            IF n = 0 THEN <<>>
            ELSE IF list[n] \in set THEN Append(kept[n - 1], list[n])
            ELSE kept[n - 1]
    IN  kept[Len(list)]
=============================================================================
