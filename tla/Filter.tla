--------------------------------- MODULE Filter ---------------------------------
(***************************************************************************)
(* A list comprehension over a sequence, as a recursive function, and the  *)
(* cut that a query's limit makes.                                         *)
(***************************************************************************)
EXTENDS Integers, Sequences

\* The elements of s that are in A, in their order.
Keep(s, A) ==
  LET kept[n \in 0 .. Len(s)] ==
        IF n = 0 THEN <<>>
        ELSE IF s[n] \in A THEN Append(kept[n - 1], s[n]) ELSE kept[n - 1]
  IN  kept[Len(s)]

\* The first elements of s, no more than most.
AtMost(s, most) == IF Len(s) <= most THEN s ELSE SubSeq(s, 1, most)
================================================================================
