------------------------------ MODULE SseStream ------------------------------
(***************************************************************************)
(* StreamContext of kiro2api: it turns the events of a Kiro response into   *)
(* the server-sent events of the Anthropic API, and takes the thinking that *)
(* the model writes between <thinking> and </thinking> out of the text,     *)
(* although the text arrives in chunks that may end inside a tag. Beside it *)
(* BufferedStreamContext, which holds the events back to the end.           *)
(*                                                                         *)
(* Text is a sequence of characters, and the two tags are two characters    *)
(* long each, so that a chunk can end within one; what the code keeps back  *)
(* of its buffer is measured in tag lengths, as there.                      *)
(*                                                                         *)
(* A web search (websearch.rs) is answered with such a stream too, made     *)
(* whole from the results by a function of its own.                         *)
(***************************************************************************)
EXTENDS Integers, Sequences, FiniteSets, FiniteSetsExt, SequencesExt, Filter

CONSTANTS
    Texts,          \* the texts the model may write: sequences of characters
    BufferedTexts,  \* those that a buffered stream may be given
    SearchTexts,    \* what a search may be answered with
    SummaryChunk,   \* how many characters of its summary are sent at once
    Tools,          \* ids of tool calls
    MaxToolEvents   \* bound: tool events in a stream

ASSUME BoundAssumption ==
    /\ BufferedTexts \subseteq Texts /\ MaxToolEvents \in Nat
    /\ SearchTexts \cap {<< >>} = {} /\ SummaryChunk \in Nat \ {0}
    /\ Texts \cup SearchTexts \subseteq Seq(STRING)

NL == "n"                        \* a newline, which stands for white space
Quote == "q"                     \* one of QUOTE_CHARS
OpenTag  == <<"<t", "t>">>       \* <thinking>
CloseTag == <<"</t", "t>">>      \* </thinking>
\* QUOTE_CHARS has < and > too, so a tag quotes the tag beside it
QuoteBefore == {Quote, "t>"}
QuoteAfter  == {Quote, "<t", "</t"}
Markup == {NL, Quote} \cup Range(OpenTag) \cup Range(CloseTag)

VARIABLES
    thinking,  \* thinking_enabled
    buffered,  \* the stream is a BufferedStreamContext's
    searching, \* the request was for a web search
    text, pos, \* what the model writes, and how much of it has arrived
    ctx,       \* the StreamContext; its out is what has not been sent
    ended,     \* the final events have been generated
    limited,   \* history: an event said that a limit was reached
    toolEvents,\* counter for the bound, also: how many tool events came
    client,    \* the client's reading of what was sent (see SseProtocol)
    shown      \* history: the characters of the deltas sent, each with its type

upstream == <<thinking, buffered, searching, text>>
vars == <<upstream, pos, ctx, ended, limited, toolEvents, client, shown>>

Client == INSTANCE SseProtocol WITH client <- client

-----------------------------------------------------------------------------
(* The tags.                                                               *)

Blank(s) == \A i \in DOMAIN s : s[i] = NL
Take(s, n) == SubSeq(s, 1, n)
Drop(s, n) == SubSeq(s, n + 1, Len(s))

\* where tag stands in s with no quote character on either side
Unquoted(s, tag) ==
    {p \in 1..(Len(s) + 1 - Len(tag)) :
        /\ SubSeq(s, p, p + Len(tag) - 1) = tag
        /\ p > 1 => s[p - 1] \notin QuoteBefore
        /\ p + Len(tag) <= Len(s) => s[p + Len(tag)] \notin QuoteAfter}

\* the first of them, 0 if there is none
First(ps) == IF ps = {} THEN 0 ELSE Min(ps)

StartTag(s) == First(Unquoted(s, OpenTag))

\* </thinking> counts when two newlines follow it ...
EndTag(s) ==
    First({p \in Unquoted(s, CloseTag) : IsPrefix(<<NL, NL>>, Drop(s, p + Len(CloseTag) - 1))})

\* ... or, where the text breaks off, when nothing but white space does
EndTagAtEnd(s) == First({p \in Unquoted(s, CloseTag) : Blank(Drop(s, p + Len(CloseTag) - 1))})

-----------------------------------------------------------------------------
(* SseStateManager: the blocks and the events about them.                  *)

Ev(e, i, t, s) == [ev |-> e, at |-> i, type |-> t, text |-> s]
Emit(c, e) == [c EXCEPT !.out = Append(@, e)]

StartBlock(c, t) ==
    Emit([c EXCEPT !.blocks = Append(@, [type |-> t, open |-> TRUE])],
         Ev("block_start", Len(c.blocks) + 1, t, << >>))

OpenBlocks(c, ts) == {i \in DOMAIN c.blocks : c.blocks[i].open /\ c.blocks[i].type \in ts}

\* the code's order is that of a HashMap
StopBlocks(c, is) ==
    [c EXCEPT !.blocks = [i \in DOMAIN c.blocks |->
                             IF i \in is THEN [c.blocks[i] EXCEPT !.open = FALSE]
                                         ELSE c.blocks[i]],
              !.out = @ \o SetToSeq({Ev("block_stop", i, c.blocks[i].type, << >>) : i \in is})]

StopBlock_Always(c, i) == StopBlocks(c, {i})
StopBlock(c, i) == IF c.blocks[i].open THEN StopBlocks(c, {i}) ELSE c

Delta(c, i, s) ==
    IF c.blocks[i].open THEN Emit(c, Ev("delta", i, c.blocks[i].type, s)) ELSE c

-----------------------------------------------------------------------------
(* StreamContext: text, thinking and tool calls.                           *)

\* tool_use closes the text block; text that follows gets a new one
TextDelta_KeepsBlock(c, s) ==
    LET d == IF c.textAt # 0 THEN c
             ELSE [StartBlock(c, "text") EXCEPT !.textAt = Len(c.blocks) + 1]
    IN  Delta(d, d.textAt, s)
TextDelta(c, s) ==
    LET d == IF c.textAt # 0 /\ c.blocks[c.textAt].open THEN c
             ELSE [StartBlock(c, "text") EXCEPT !.textAt = Len(c.blocks) + 1]
    IN  Delta(d, d.textAt, s)

\* past the state manager
ThinkingDelta(c, s) == Emit(c, Ev("delta", c.thinkAt, "thinking", s))

\* the last of the thinking, an empty delta, the end of the block
CloseThinking(c, s) ==
    LET d == IF s = << >> THEN c ELSE ThinkingDelta(c, s)
    IN  StopBlock(ThinkingDelta(d, << >>), c.thinkAt)

EndThinking(c, s, rest) ==
    [CloseThinking(c, s) EXCEPT !.inThinking = FALSE, !.extracted = TRUE, !.buf = rest]

\* before the thinking: white space is not worth a text block, and the end of the
\* buffer may be the beginning of a tag
BeforeThinking(c) ==
    LET p == StartTag(c.buf)
        safe == Len(c.buf) - Len(OpenTag)
    IN  IF p # 0
        THEN LET before == Take(c.buf, p - 1)
                 d == StartBlock(IF Blank(before) THEN c ELSE TextDelta(c, before), "thinking")
             IN  [d EXCEPT !.inThinking = TRUE, !.strip = TRUE, !.thinkAt = Len(d.blocks),
                           !.buf = Drop(@, p + Len(OpenTag) - 1)]
        ELSE IF Blank(Take(c.buf, safe)) THEN c
        ELSE [TextDelta(c, Take(c.buf, safe)) EXCEPT !.buf = Drop(@, safe)]

\* one newline after <thinking> is dropped, when it comes
Strip(c) ==
    IF ~c.strip \/ c.buf = << >> THEN c
    ELSE [c EXCEPT !.strip = FALSE, !.buf = IF Head(@) = NL THEN Tail(@) ELSE @]

KeptBack_TagOnly == Len(CloseTag)
KeptBack == Len(CloseTag) + 2

InThinking(c) ==
    LET d == Strip(c)
        p == EndTag(d.buf)
        safe == Len(d.buf) - KeptBack
    IN  IF p # 0 THEN EndThinking(d, Take(d.buf, p - 1), Drop(d.buf, p + Len(CloseTag) + 1))
        ELSE IF safe <= 0 THEN d
        ELSE [ThinkingDelta(d, Take(d.buf, safe)) EXCEPT !.buf = Drop(@, safe)]

AfterThinking(c) ==
    IF c.buf = << >> THEN c ELSE [TextDelta(c, c.buf) EXCEPT !.buf = << >>]

\* process_assistant_response: the loop of process_content_with_thinking goes
\* through its three branches in this order, each at most once
Content(c, s) ==
    IF ~thinking THEN TextDelta(c, s)
    ELSE LET c0 == [c EXCEPT !.buf = @ \o s]
             c1 == IF c0.inThinking \/ c0.extracted THEN c0 ELSE BeforeThinking(c0)
             c2 == IF c1.inThinking THEN InThinking(c1) ELSE c1
         IN  IF c2.extracted THEN AfterThinking(c2) ELSE c2

\* process_tool_use: what the buffer holds comes first
Flushed(c) ==
    LET p == EndTagAtEnd(c.buf)
    IN  IF c.inThinking /\ p # 0 THEN EndThinking(c, Take(c.buf, p - 1), << >>)
        ELSE IF ~c.inThinking /\ ~c.extracted THEN AfterThinking(c) ELSE c

\* a repeated start of the same call only closes the text block
ToolBlock_LastIndex(c, id) ==
    LET d == StopBlocks(c, OpenBlocks(c, {"text"}))
    IN  IF d.tool[id] # 0 THEN d
        ELSE [StartBlock(d, "tool_use") EXCEPT !.tool[id] = Len(d.blocks)]
ToolBlock(c, id) ==
    LET d == StopBlocks(c, OpenBlocks(c, {"text"}))
    IN  IF d.tool[id] # 0 THEN d
        ELSE [StartBlock(d, "tool_use") EXCEPT !.tool[id] = Len(d.blocks) + 1]

ToolUse(c, id, input, stop) ==
    LET c1 == [ToolBlock(Flushed(c), id) EXCEPT !.hasToolUse = TRUE]
        c2 == IF input THEN Delta(c1, c1.tool[id], << >>) ELSE c1
    IN  IF stop THEN StopBlock(c2, c2.tool[id]) ELSE c2

StopReason(c) ==
    IF c.reason # "none" THEN c.reason ELSE IF c.hasToolUse THEN "tool_use" ELSE "end_turn"

\* generate_final_events: the buffer, one text block at least beside the thinking,
\* the ends of the blocks and of the message
LastOfBuffer(c) ==
    LET p == EndTagAtEnd(c.buf)
    IN  IF c.buf = << >> \/ ~thinking THEN c
        ELSE IF ~c.inThinking THEN AfterThinking(c)
        ELSE IF p # 0 THEN EndThinking(c, Take(c.buf, p - 1), << >>)
        ELSE [CloseThinking(c, c.buf) EXCEPT !.buf = << >>]

OnlyThinking_NoBlocks(c) == c.blocks = << >>
OnlyThinking(c) == c.thinkAt # 0 /\ \A i \in DOMAIN c.blocks : c.blocks[i].type = "thinking"

Final(c) ==
    LET c1 == LastOfBuffer(c)
        c2 == IF OnlyThinking(c1) THEN TextDelta([c1 EXCEPT !.reason = "max_tokens"], <<NL>>)
                                  ELSE c1
        c3 == StopBlocks(c2, OpenBlocks(c2, Client!Types))
    IN  Emit(Emit(c3, Ev("message_delta", 0, StopReason(c3), << >>)),
             Ev("message_stop", 0, "none", << >>))

-----------------------------------------------------------------------------
(* The answer to a search: what will be done, the search, its results, and  *)
(* a summary of them in chunks.                                             *)

\* block i, of type t, with the given deltas
SearchBlock(i, t, deltas) ==
    << Ev("block_start", i, t, << >>) >> \o [k \in DOMAIN deltas |-> Ev("delta", i, t, deltas[k])]
        \o << Ev("block_stop", i, t, << >>) >>

Chunks(s) ==
    [k \in 1..((Len(s) + SummaryChunk - 1) \div SummaryChunk) |->
        SubSeq(s, (k - 1) * SummaryChunk + 1, Min({k * SummaryChunk, Len(s)}))]

generate_websearch_events(s) ==
    << Ev("message_start", 0, "none", << >>) >>
        \o SearchBlock(1, "text", << Take(s, 1) >>)
        \o SearchBlock(2, "server_tool_use", << >>)
        \o SearchBlock(3, "web_search_tool_result", << >>)
        \o SearchBlock(4, "text", Chunks(Drop(s, 1)))
        \o << Ev("message_delta", 0, "end_turn", << >>), Ev("message_stop", 0, "none", << >>) >>

-----------------------------------------------------------------------------
(* The stream.                                                             *)

NewContext == [buf |-> << >>, inThinking |-> FALSE, extracted |-> FALSE, strip |-> FALSE,
               thinkAt |-> 0, textAt |-> 0, tool |-> [id \in Tools |-> 0],
               blocks |-> << >>, hasToolUse |-> FALSE, reason |-> "none", out |-> << >>]

\* generate_initial_events: with thinking, no block yet
Initial(t) ==
    LET c == Emit(NewContext, Ev("message_start", 0, "none", << >>))
    IN  IF t THEN c ELSE [StartBlock(c, "text") EXCEPT !.textAt = 1]

Init ==
    /\ \/ /\ searching = FALSE /\ thinking \in BOOLEAN /\ buffered \in BOOLEAN
          /\ text \in (IF buffered THEN BufferedTexts ELSE Texts)
          /\ ctx = Initial(thinking)
       \/ /\ searching = TRUE /\ thinking = FALSE /\ buffered = FALSE
          /\ text \in SearchTexts
          /\ ctx = NewContext
    /\ pos = 0
    /\ ended = FALSE /\ limited = FALSE /\ toolEvents = 0
    /\ client = Client!NewClient /\ shown = << >>

\* the next event is read when the events of the last one are on their way, or
\* kept in the event_buffer
Reading == ~ended /\ ~searching /\ (buffered \/ ctx.out = << >>)

Assistant ==
    /\ Reading
    /\ \E n \in 1..(Len(text) - pos) :
          /\ ctx' = Content(ctx, SubSeq(text, pos + 1, pos + n))
          /\ pos' = pos + n
    /\ UNCHANGED <<upstream, ended, limited, toolEvents, client, shown>>

Tool ==
    /\ Reading /\ toolEvents < MaxToolEvents
    /\ toolEvents' = toolEvents + 1
    /\ \E id \in Tools, input, stop \in BOOLEAN : ctx' = ToolUse(ctx, id, input, stop)
    /\ UNCHANGED <<upstream, pos, ended, limited, client, shown>>

\* contextUsageEvent of 100 % or more, ContentLengthExceededException
Limit ==
    /\ Reading /\ ~limited
    /\ limited' = TRUE
    /\ \E r \in {"model_context_window_exceeded", "max_tokens"} : ctx' = [ctx EXCEPT !.reason = r]
    /\ UNCHANGED <<upstream, pos, ended, toolEvents, client, shown>>

\* the body ends, or breaks off
End ==
    /\ Reading
    /\ ended' = TRUE
    /\ ctx' = Final(ctx)
    /\ UNCHANGED <<upstream, pos, limited, toolEvents, client, shown>>

\* handle_websearch_request: the results, or none when the search fails, become the
\* whole stream at once.
Search ==
    /\ searching /\ ~ended
    /\ ended' = TRUE /\ pos' = Len(text)
    /\ ctx' = [ctx EXCEPT !.out = generate_websearch_events(text)]
    /\ UNCHANGED <<upstream, limited, toolEvents, client, shown>>

Chars(e) == [i \in DOMAIN e.text |-> [type |-> e.type, ch |-> e.text[i]]]

\* the client reads one event
Send ==
    LET e == Head(ctx.out) IN
    /\ ctx.out # << >> /\ (buffered => ended)
    /\ ctx' = [ctx EXCEPT !.out = Tail(@)]
    /\ client' = IF Client!Accepts(client, e) THEN Client!Receive(client, e)
                 ELSE [client EXCEPT !.phase = "broken"]
    /\ shown' = IF e.ev = "delta" THEN shown \o Chars(e) ELSE shown
    /\ UNCHANGED <<upstream, pos, ended, limited, toolEvents>>

Over == ended /\ ctx.out = << >>
Stay == Over /\ UNCHANGED vars

Next == Assistant \/ Tool \/ Limit \/ End \/ Search \/ Send \/ Stay

Spec == Init /\ [][Next]_vars

-----------------------------------------------------------------------------
\* The context is one the code can be in: at most one text block is open, the
\* thinking block is open as long as the context is inside it, and a block index
\* it holds is that of a block of the right type.
TypeOK ==
    /\ thinking \in BOOLEAN /\ buffered \in BOOLEAN /\ searching \in BOOLEAN
    /\ text \in Texts \cup SearchTexts /\ pos \in 0..Len(text)
    /\ ended \in BOOLEAN /\ limited \in BOOLEAN /\ toolEvents \in 0..MaxToolEvents
    /\ Cardinality(OpenBlocks(ctx, {"text"})) <= 1
    /\ ctx.inThinking => ~ctx.extracted /\ ctx.thinkAt # 0
                         /\ (ended \/ ctx.blocks[ctx.thinkAt].open)
    /\ ctx.thinkAt # 0 => ctx.blocks[ctx.thinkAt].type = "thinking"
    /\ ctx.textAt # 0 => ctx.blocks[ctx.textAt].type = "text"
    /\ \A id \in Tools : ctx.tool[id] # 0 => ctx.blocks[ctx.tool[id]].type = "tool_use"
    /\ client.phase \in {"new", "open", "closing", "done", "broken"}

\* What is sent follows the protocol, event by event: the events of one handler
\* call, those of the next, and those that generate_final_events adds to what any
\* of them left open.
KeepsProtocol == Client!Spec

Plain(s) == Only(s, STRING \ Markup)
Arrived == Take(text, pos)

\* No text is swallowed and none is sent twice or out of order, however it is cut
\* into chunks and whatever tool calls come between.
NothingSwallowed ==
    Over => Plain([i \in DOMAIN shown |-> shown[i].ch]) = Plain(Arrived)

Solid(s) == Only(s, STRING \ {NL})
Of(t) ==
    LET part == Only(shown, {x \in Range(shown) : x.type = t})
    IN  [i \in DOMAIN part |-> part[i].ch]

\* no tag in s stands beside a quote character
Bare(s) ==
    \A tag \in {OpenTag, CloseTag}, p \in 1..(Len(s) - 1) :
        SubSeq(s, p, p + 1) = tag => p \in Unquoted(s, tag)

\* extract_thinking_from_complete_text, which the responses that are not streamed
\* use: what it takes for the thinking, and the text around it
Complete(s) ==
    LET p == StartTag(s)
        rest == Drop(s, p + Len(OpenTag) - 1)
        q == IF EndTag(rest) # 0 THEN EndTag(rest) ELSE EndTagAtEnd(rest)
    IN  IF p = 0 \/ q = 0 THEN [found |-> FALSE, thinking |-> << >>, text |-> s]
        ELSE [found |-> TRUE, thinking |-> Take(rest, q - 1),
              text |-> Take(s, p - 1) \o Drop(rest, q + Len(CloseTag) - 1)]

\* Where the chunks end makes no difference: the stream takes the same thinking
\* out of a text as the function that sees the whole of it, up to white space. Not
\* said of quoted tags, the quote of which may arrive too late or have been sent
\* already (a tag quotes the one beside it, too), nor of thinking that does not end:
\* the one streams it as thinking, the other leaves it in the text.
SplitInvisible ==
    LET whole == Complete(Arrived) IN
    Over /\ thinking /\ toolEvents = 0 /\ whole.found /\ Bare(Arrived)
    => /\ Solid(Of("thinking")) = Solid(whole.thinking)
       /\ Solid(Of("text")) = Solid(whole.text)

\* A stream that has been sent whole has brought the client to the end of the
\* message, and a client that got thinking got something to show beside it, wherever
\* the upstream body broke off.
WholeMessage ==
    Over => /\ client.phase = "done"
            /\ client.blocks # << >> =>
                  \E i \in DOMAIN client.blocks : client.blocks[i].type # "thinking"
=============================================================================
