------------------------------- MODULE Filters --------------------------------
(* Removing elements from a list, as a recursive function: the provers     *)
(* cannot look into SelectSeq.  The smaller and the greater number.        *)
EXTENDS Integers, Sequences

Least(m, n) == IF m < n THEN m ELSE n
Most(m, n)  == IF m < n THEN n ELSE m

(* The elements of q that are not in a set, in their order.                *)
Drop(q, set) ==
    LET kept[i \in 0 .. Len(q)] ==
          IF i = 0 THEN <<>>
          ELSE IF q[i] \in set THEN kept[i - 1] ELSE Append(kept[i - 1], q[i])
    IN  kept[Len(q)]
===============================================================================
