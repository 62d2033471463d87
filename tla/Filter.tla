------------------------------- MODULE Filter -------------------------------
(* What is left of a sequence. SelectSeq takes an operator, of which nothing  *)
(* could be proved; this is the same with a set, as a recursive function.     *)
EXTENDS Integers, Sequences

\* The elements of s that are in S, in their order.
Only(s, S) ==
    LET only[i \in 0..Len(s)] ==
            IF i = 0 THEN << >> ELSE IF s[i] \in S THEN Append(only[i - 1], s[i]) ELSE only[i - 1]
    IN  only[Len(s)]
=============================================================================
