----------------------------- MODULE SseProtocol -----------------------------
(***************************************************************************)
(* What a stream of server-sent events promises its client: the rules that *)
(* SseStateManager states, with the one that its code relies on for the     *)
(* numbers of the blocks. A client that reads the events one by one builds  *)
(* its content blocks from them, and can do nothing with any other event.   *)
(***************************************************************************)
EXTENDS Naturals, Sequences

VARIABLE client   \* [phase, blocks], each block [type, open]; blocks count from 1

Types == {"text", "thinking", "tool_use", "server_tool_use", "web_search_tool_result"}

NewClient == [phase |-> "new", blocks |-> << >>]

Started(i, c) == c.phase = "open" /\ i \in DOMAIN c.blocks
AllClosed(c)  == \A i \in DOMAIN c.blocks : ~c.blocks[i].open

\* 1. message_start once, first; 2. a block starts, gets deltas, stops;
\* 3. message_delta once, when every block has stopped; 4. message_stop last
Accepts(c, e) ==
    \/ e.ev = "message_start" /\ c.phase = "new"
    \/ e.ev = "block_start" /\ c.phase = "open" /\ e.at = Len(c.blocks) + 1
    \/ /\ e.ev = "delta" /\ Started(e.at, c)
       /\ c.blocks[e.at].open /\ c.blocks[e.at].type = e.type
    \/ e.ev = "block_stop" /\ Started(e.at, c) /\ c.blocks[e.at].open
    \/ e.ev = "message_delta" /\ c.phase = "open" /\ AllClosed(c)
    \/ e.ev = "message_stop" /\ c.phase = "closing"

Receive(c, e) ==
    CASE e.ev = "message_start" -> [c EXCEPT !.phase = "open"]
      [] e.ev = "block_start"   -> [c EXCEPT !.blocks = Append(@, [type |-> e.type, open |-> TRUE])]
      [] e.ev = "delta"         -> c
      [] e.ev = "block_stop"    -> [c EXCEPT !.blocks[e.at].open = FALSE]
      [] e.ev = "message_delta" -> [c EXCEPT !.phase = "closing"]
      [] e.ev = "message_stop"  -> [c EXCEPT !.phase = "done"]

Event(c) == [ev : {"message_start", "block_start", "block_stop", "message_delta", "message_stop"},
             at : 1..(Len(c.blocks) + 1), type : Types]

Init == client = NewClient
Next == \E e \in Event(client) : Accepts(client, e) /\ client' = Receive(client, e)
Spec == Init /\ [][Next]_client
=============================================================================
