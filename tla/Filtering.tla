------------------------------ MODULE Filtering ------------------------------
(* Rows of a table, in their order, as a query with a condition returns them. *)
EXTENDS Integers, Sequences

(* The rows of q that are in S, in the order they have in q. *)
Kept(q, S) ==
  LET kept[i \in 0..Len(q)] ==
        IF i = 0 THEN <<>>
        ELSE IF q[i] \in S THEN Append(kept[i - 1], q[i]) ELSE kept[i - 1]
  IN kept[Len(q)]
=============================================================================
