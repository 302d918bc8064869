------------------------------- MODULE Among -------------------------------
(***************************************************************************)
(* Array.prototype.filter, as the workflows use it on fixtures, teams and  *)
(* competitions: SelectSeq, but for a set instead of a test, so that the   *)
(* theorems can say what it returns.                                       *)
(***************************************************************************)
EXTENDS Integers, Sequences

(* The elements of s that are in good, in their order.                     *)
Among(s, good) ==
    LET kept[i \in 0 .. Len(s)] ==
            IF i = 0 THEN <<>>
            ELSE IF s[i] \in good THEN Append(kept[i - 1], s[i]) ELSE kept[i - 1]
    IN  kept[Len(s)]
=============================================================================
