--------------------------- MODULE MCRequestRecords ---------------------------
(* A conversation whose first message is too short for the input cache and     *)
(* whose second has a tool result. In one mix it is sent with a system prompt, *)
(* at its second and third message; in the other only its first message is     *)
(* sent, so that only the log is busy, and writing fails.                      *)
EXTENDS RequestRecords

MCScript == << [bytes |-> 40, tokens |-> 10, result |-> 0],
               [bytes |-> 240, tokens |-> 10, result |-> 200],
               [bytes |-> 80, tokens |-> 20, result |-> 0] >>
MCParts == << [name |-> "system", bytes |-> 100, tokens |-> 25] >>
MCUsages == {[input |-> 40, read |-> 0, created |-> 0], [input |-> 5, read |-> 60, created |-> 7]}
MCMixes == {[asked |-> {[upto |-> 2, parts |-> MCParts], [upto |-> 3, parts |-> MCParts]},
             requests |-> 2, time |-> 2, faults |-> 1, restarts |-> 0],
            [asked |-> {[upto |-> 1, parts |-> << >>]},
             requests |-> 5, time |-> 0, faults |-> 3, restarts |-> 1]}
MCSymmetry == Permutations(Workers)
=============================================================================
