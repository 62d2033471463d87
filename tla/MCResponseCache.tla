-------------------------- MODULE MCResponseCache --------------------------
(* Three clients: one that stores, one that finds it expired, and one that   *)
(* stores or looks it up in between.                                         *)
EXTENDS ResponseCache, TLC

CONSTANTS c1, c2, c3, ask, other

Good  == [stop |-> "end_turn", shows |-> TRUE, size |-> "fits"]
Short == [Good EXCEPT !.stop = "max_tokens"]
None  == [Good EXCEPT !.shows = FALSE]
Large == [Good EXCEPT !.size = "too_large"]

FewAnswers     == {Good, Short, None, Large}
FewRequests    ==
    {[body |-> ask, handler |-> h, passive_tools |-> TRUE] : h \in Handlers}
    \cup {[body |-> ask, handler |-> "stream", passive_tools |-> FALSE],
          [body |-> other, handler |-> "stream", passive_tools |-> TRUE]}
ClientSymmetry == Permutations(Clients)
=============================================================================
