-------------------------- MODULE RequestConversion --------------------------
(* convert_request (anthropic/converter.rs): the translation of a request of  *)
(* the Anthropic API, which carries the client's whole conversation, into one *)
(* for the Kiro API. It is checked on the conversations that a session can    *)
(* reach: the client speaks, answers tool calls late, twice or never, sends   *)
(* again after a broken answer, forgets the beginning of a long conversation  *)
(* and changes its tools; upstream answers with the tools it has been given.  *)
(* A text is the number of the message it came with, content a sequence of    *)
(* texts; images are left out, and so is whatever a tool is called with.      *)
EXTENDS Naturals, FiniteSets, SequencesExt, Filter

CONSTANTS
    Words,            \* what tools are called, without regard to case
    Long,             \* the words of more than TOOL_NAME_MAX_LEN characters
    ToolSets,         \* the sets of tools a client may declare
    Settings,         \* what a client may ask for besides, and the tools it begins with
    OtherRole,        \* a role that is neither user nor assistant
    MaxMessages,      \* bound on the messages of a session
    MaxCalls,         \* bound on the tool calls of a session
    MaxResults,       \* bound on the tool results in a message
    MaxChanges        \* bound on truncations, changes of tools and other roles

\* A name is a word in lower or upper case, whole or shortened.
Names  == [word : Words, upper : BOOLEAN, short : BOOLEAN]
Models == [family : {"sonnet", "opus", "haiku", "other"}, version : {"4-5", "4-6", "4-7", "none"}]

ASSUME ConversionAssumption ==
    /\ Long \subseteq Words
    /\ ToolSets \subseteq SUBSET {n \in Names : ~n.short}
    /\ Settings \subseteq [model : Models, system : {"absent", "empty", "text"},
                           thinking : BOOLEAN, session : BOOLEAN, tools : ToolSets]
    /\ MaxMessages \in Nat /\ MaxCalls \in Nat /\ MaxResults \in Nat /\ MaxChanges \in Nat

VARIABLES
    asks,        \* the client's settings
    messages,    \* the conversation as the client has it
    tools,       \* the tools it declares
    made,        \* how many messages there have been
    called,      \* how many tool calls there have been
    changes,     \* how many truncations, changes of tools and other roles there have been
    thread,      \* conversation id of the requests since the last truncation or change
    sent         \* the request that upstream has and has not answered

sessionVars == <<asks, messages, tools, made, called, changes, thread, sent>>

(***************************************************************************)
(* Messages. A message of the client has a role, the number of its text (0  *)
(* when it has none), the calls that its tool results answer, and its tool  *)
(* uses. One of the Kiro API has content instead of a text.                 *)
(***************************************************************************)

Say(r, t, results, uses)  == [role |-> r, text |-> t, results |-> results, uses |-> uses]
Kiro(r, c, results, uses) == [role |-> r, content |-> c, results |-> results, uses |-> uses]

\* Texts that the converter writes itself; a space stands for no text.
Space        == MaxMessages + 1
Thinking     == MaxMessages + 2
Instructions == MaxMessages + 3
Promise      == MaxMessages + 4
Okay         == MaxMessages + 5

Texts(ms) == FlattenSeq([i \in DOMAIN ms |-> IF ms[i].text = 0 THEN << >> ELSE <<ms[i].text>>])
Uses(ms)  == FlattenSeq([i \in DOMAIN ms |-> ms[i].uses])
Results(ms) == FlattenSeq([i \in DOMAIN ms |-> ms[i].results])

Ids(calls) == {c.id : c \in ToSet(calls)}
NamesOf(calls) == {c.name : c \in ToSet(calls)}

(***************************************************************************)
(* Names of tools and models.                                               *)
(***************************************************************************)

IsLong(n) == n.word \in Long /\ ~n.short

\* A long name is cut and gets a hash at its end; two hashes never agree here.
shorten_tool_name(n) == [n EXCEPT !.short = TRUE]
map_tool_name(n) == IF IsLong(n) THEN shorten_tool_name(n) ELSE n

\* The short names that tool_name_map leads back to the names they stand for.
NameMap(names) == {shorten_tool_name(n) : n \in {m \in names : IsLong(m)}}
Original(n, map) == IF n \in map THEN [n EXCEPT !.short = FALSE] ELSE n

\* Kiro compares names without case; the hash of a short one depends on it.
SameTool(m, n) == m.word = n.word /\ m.short = n.short /\ (m.short => m.upper = n.upper)

map_model(m) ==
    CASE m.family = "sonnet" -> <<"sonnet", IF m.version = "4-6" THEN "4-6" ELSE "4-5">>
      [] m.family = "opus"   -> <<"opus", IF m.version \in {"4-5", "4-7"} THEN m.version ELSE "4-6">>
      [] m.family = "haiku"  -> <<"haiku", "4-5">>
      [] OTHER               -> << >>

(***************************************************************************)
(* The history.                                                             *)
(***************************************************************************)

merge_user_messages_ResultsOnly(ms) ==
    Kiro("user", IF Results(ms) # << >> THEN << >> ELSE Texts(ms), Results(ms), << >>)
merge_user_messages(ms) == Kiro("user", Texts(ms), Results(ms), << >>)

\* convert_assistant_message is the same for a single message.
merge_assistant_messages(ms) ==
    LET uses == Uses(ms)
    IN  Kiro("assistant",
             IF Texts(ms) = << >> /\ uses # << >> THEN <<Space>> ELSE Texts(ms),
             << >>,
             [i \in DOMAIN uses |-> [uses[i] EXCEPT !.name = map_tool_name(@)]])

\* The system prompt, and the request to think, as a first exchange.
SystemPair ==
    LET pair(content) == <<Kiro("user", content, << >>, << >>),
                           Kiro("assistant", <<Promise>>, << >>, << >>)>>
        prefix == IF asks.thinking THEN <<Thinking>> ELSE << >>
    IN  CASE asks.system = "text" -> pair(prefix \o <<Instructions>>)
          [] asks.system = "absent" /\ asks.thinking -> pair(prefix)
          [] OTHER -> << >>

\* Messages of one role in a row are collected and become one.
FlushUsers(b) == IF b.users = << >> THEN b.history
                 ELSE Append(b.history, merge_user_messages(b.users))
FlushAssistants(b) == IF b.assistants = << >> THEN b.history
                      ELSE Append(b.history, merge_assistant_messages(b.assistants))
Collect(b, m) ==
    CASE m.role = "user" ->
           [history |-> FlushAssistants(b), users |-> Append(b.users, m), assistants |-> << >>]
      [] m.role = "assistant" ->
           [history |-> FlushUsers(b), users |-> << >>, assistants |-> Append(b.assistants, m)]
      [] OTHER -> b

\* ms ends with the current message, which is not part of the history.
Collected(ms) ==
    LET after[i \in 0..(Len(ms) - 1)] ==
            IF i = 0 THEN [history |-> SystemPair, users |-> << >>, assistants |-> << >>]
            ELSE Collect(after[i - 1], ms[i])
    IN  after[Len(ms) - 1]
build_history_NoReply(ms) ==
    LET b == Collected(ms) IN IF b.users = << >> THEN FlushAssistants(b) ELSE FlushUsers(b)
build_history(ms) ==
    LET b == Collected(ms)
    IN  IF b.users = << >> THEN FlushAssistants(b)
        ELSE Append(FlushUsers(b), Kiro("assistant", <<Okay>>, << >>, << >>))

(***************************************************************************)
(* Tool uses and their results.                                             *)
(***************************************************************************)

Unpaired(history) == Ids(Uses(history)) \ ToSet(Results(history))

Validated_Repeats(history, results) == Only(results, Unpaired(history))
\* Of the results in the current message, the first for each open tool use stays.
Validated(history, results) ==
    LET kept[i \in 0..Len(results)] ==
            IF i = 0 THEN << >>
            ELSE IF results[i] \in Unpaired(history) \ ToSet(kept[i - 1])
                 THEN Append(kept[i - 1], results[i]) ELSE kept[i - 1]
    IN  kept[Len(results)]

Orphaned(history, results) == Unpaired(history) \ ToSet(results)

remove_orphaned_tool_uses(history, orphaned) ==
    [i \in DOMAIN history |->
        [history[i] EXCEPT !.uses = Only(@, {u \in ToSet(@) : u.id \notin orphaned})]]

\* Tools that the history mentions and the client does not declare any more.
Placeholders(history, declared) ==
    {n \in NamesOf(Uses(history)) : \A d \in declared : ~SameTool(n, d)}

(***************************************************************************)
(* The request.                                                             *)
(***************************************************************************)

NoId     == [from |-> "none"]
RandomId == [from |-> "random"]

FirstUser(ms) == SelectInSeq(ms, LAMBDA m : m.role = "user")
LastUser(ms)  == SelectLastInSeq(ms, LAMBDA m : m.role = "user")

\* tool_name_map after the tools and the history have been converted
tool_name_map_Declared(ms) == NameMap(tools)
tool_name_map(ms) == NameMap(tools \cup NamesOf(Uses(Front(ms))))

\* The session the client names, or what stays the same in all its requests.
stable_conversation_id_Last(ms) ==
    IF asks.session THEN [from |-> "session"]
    ELSE [from |-> "anchor", model |-> map_model(asks.model), system |-> asks.system,
          first |-> ms[LastUser(ms)].text, tools |-> tools]
stable_conversation_id(ms) ==
    CASE asks.session -> [from |-> "session"]
      [] ~asks.session /\ ms[FirstUser(ms)].text = 0 -> RandomId
      [] OTHER -> [from |-> "anchor", model |-> map_model(asks.model), system |-> asks.system,
                   first |-> ms[FirstUser(ms)].text, tools |-> tools]

NoRequest == [state |-> "none"]
Refused   == [state |-> "refused"]

\* Whatever follows the last user message is a prefill and is dropped.
convert_request(all) ==
    IF map_model(asks.model) = << >> \/ LastUser(all) = 0 THEN Refused
    ELSE LET ms       == SubSeq(all, 1, LastUser(all))
             built    == build_history(ms)
             results  == Last(ms).results
             history  == remove_orphaned_tool_uses(built, Orphaned(built, results))
             declared == {map_tool_name(n) : n \in tools}
         IN  [state   |-> "sent",
              model   |-> map_model(asks.model),
              id      |-> stable_conversation_id(ms),
              history |-> history,
              content |-> Texts(<<Last(ms)>>),
              results |-> Validated(built, results),
              tools   |-> declared \cup Placeholders(history, declared),
              map     |-> tool_name_map(ms)]

(***************************************************************************)
(* The key of a request in the true cache (anthropic/true_cache.rs): what is *)
(* the same when the conversation is another one and its calls have other ids.*)
(***************************************************************************)

\* Ids in the order of the canonical JSON, where currentMessage precedes history.
IdsInOrder(r) ==
    r.results \o FlattenSeq([i \in DOMAIN r.history |->
        r.history[i].results \o [j \in DOMAIN r.history[i].uses |-> r.history[i].uses[j].id]])

normalized_id_Blank(ids, id) == 1
normalized_id(ids, id) ==
    Cardinality(ToSet(SubSeq(ids, 1, SelectInSeq(ids, LAMBDA x : x = id))))

\* A message in which calls have other ids: as uses has it where they are made, as
\* results has it where they are answered.
Renumbered(m, uses, results) ==
    [m EXCEPT !.results = [i \in DOMAIN @ |-> results[@[i]]],
              !.uses = [j \in DOMAIN @ |-> [id |-> uses[@[j].id], name |-> @[j].name]]]

response_key(r) ==
    LET order == IdsInOrder(r)
        n == [id \in ToSet(order) |-> normalized_id(order, id)]
    IN  [model |-> r.model, content |-> r.content, tools |-> r.tools,
         results |-> [i \in DOMAIN r.results |-> n[r.results[i]]],
         history |-> [i \in DOMAIN r.history |-> Renumbered(r.history[i], n, n)]]

(***************************************************************************)
(* The session.                                                             *)
(***************************************************************************)

SessionInit ==
    /\ asks \in Settings /\ tools = asks.tools
    /\ messages = << >> /\ made = 0 /\ called = 0 /\ changes = 0
    /\ thread = NoId /\ sent = NoRequest

Idle == sent.state # "sent"

\* The user says something, and gives any results for the tool calls so far.
UserSpeaks(speaks, results) ==
    /\ Idle /\ made < MaxMessages
    /\ speaks \/ results # << >>
    /\ made' = made + 1
    /\ messages' = Append(messages, Say("user", IF speaks THEN made' ELSE 0, results, << >>))
    /\ sent' = NoRequest
    /\ UNCHANGED <<asks, tools, called, changes, thread>>

\* A message in another role; the code knows only user and assistant.
OtherSpeaks ==
    /\ OtherRole /\ Idle /\ made < MaxMessages /\ changes < MaxChanges
    /\ made' = made + 1
    /\ messages' = Append(messages, Say("system", made', << >>, << >>))
    /\ changes' = changes + 1 /\ sent' = NoRequest
    /\ UNCHANGED <<asks, tools, called, thread>>

\* POST /v1/messages with the conversation, which may end with an answer.
Send ==
    /\ sent = NoRequest
    /\ sent' = convert_request(messages)
    /\ thread' = IF sent'.state = "sent" THEN sent'.id ELSE thread
    /\ UNCHANGED <<asks, messages, tools, made, called, changes>>

\* Upstream says something or calls tools; the client keeps what it is sent.
Answer(speaks, names) ==
    /\ sent.state = "sent" /\ made < MaxMessages
    /\ speaks \/ names # << >>
    /\ called + Len(names) <= MaxCalls
    /\ ToSet(names) \subseteq sent.tools
    /\ made' = made + 1
    /\ called' = called + Len(names)
    /\ messages' = Append(messages,
           Say("assistant", IF speaks THEN made' ELSE 0, << >>,
               [i \in DOMAIN names |-> [id |-> called + i, name |-> Original(names[i], sent.map)]]))
    /\ sent' = NoRequest
    /\ UNCHANGED <<asks, tools, changes, thread>>

\* Nothing comes back.
AnswerLost == sent.state = "sent" /\ sent' = NoRequest
              /\ UNCHANGED <<asks, messages, tools, made, called, changes, thread>>

\* The client shortens its conversation to its last messages.
Truncate(k) ==
    /\ Idle /\ changes < MaxChanges /\ k < Len(messages)
    /\ messages' = SubSeq(messages, k + 1, Len(messages))
    /\ changes' = changes + 1 /\ thread' = NoId /\ sent' = NoRequest
    /\ UNCHANGED <<asks, tools, made, called>>

ChangeTools(t) ==
    /\ Idle /\ changes < MaxChanges /\ t # tools
    /\ tools' = t
    /\ changes' = changes + 1 /\ thread' = NoId /\ sent' = NoRequest
    /\ UNCHANGED <<asks, messages, made, called>>

\* Nothing more is said.
Stay == made = MaxMessages /\ UNCHANGED sessionVars

SessionNext ==
    \/ \E speaks \in BOOLEAN, results \in SeqOf(1..called, MaxResults) : UserSpeaks(speaks, results)
    \/ OtherSpeaks
    \/ Send
    \/ \E speaks \in BOOLEAN : \E names \in SeqOf(Names, MaxCalls) : Answer(speaks, names)
    \/ AnswerLost
    \/ \E k \in 1..MaxMessages : Truncate(k)
    \/ \E t \in ToolSets : ChangeTools(t)
    \/ Stay

SessionSpec == SessionInit /\ [][SessionNext]_sessionVars

(***************************************************************************)
(* Properties.                                                              *)
(***************************************************************************)

Sent == sent.state = "sent"

\* What the user and the assistant say; messages of other roles are passed over by the converter.
Spoken(ms) == Only(ms, {m \in ToSet(ms) : m.role # "system"})

\* Every tool use that is sent has a result, in the history or in the current
\* message, and every result in the current message is the only one of a tool
\* use that is sent; the upstream refuses the conversation otherwise.
Paired ==
    Sent =>
      LET used == Ids(Uses(sent.history))
          past == ToSet(Results(sent.history))
      IN  /\ used \subseteq past \cup ToSet(sent.results)
          /\ ToSet(sent.results) \subseteq used \ past
          /\ IsInjective(sent.results)

\* The history alternates between the roles, unless the client's own messages begin
\* with the assistant; it ends with the assistant, so that the current message can
\* follow; every tool in it is defined, and the model is one that upstream has.
WellFormed ==
    Sent =>
      /\ \/ Spoken(messages)[1].role = "assistant"
         \/ \A i \in 1..(Len(sent.history) - 1) : sent.history[i].role # sent.history[i + 1].role
      /\ sent.history # << >> => Last(sent.history).role = "assistant"
      /\ \A n \in NamesOf(Uses(sent.history)) : \E t \in sent.tools : SameTool(n, t)
      /\ sent.model \in ({"opus"} \X {"4-5", "4-6", "4-7"}) \cup ({"sonnet"} \X {"4-5", "4-6"})
                       \cup {<<"haiku", "4-5">>}

\* However often names are shortened and led back, the client is only told names of
\* tools from the sets that it may declare, in the case they have there, and never a
\* shortened one.  Which of these sets it has declared by then is not asked.
NamesKnown ==
    \A u \in ToSet(Uses(messages)) : \E t \in ToolSets : u.name \in t

\* What the user and the assistant have said up to the last user message is
\* sent, all of it and in order, also beside tool results and when merged.
TextsKept ==
    Sent =>
      LET said == Spoken(SubSeq(messages, 1, LastUser(messages)))
          all  == FlattenSeq([i \in DOMAIN sent.history |-> sent.history[i].content]) \o sent.content
      IN  Only(all, 1..MaxMessages) = Texts(said)

\* The requests of a session are one conversation upstream as long as the client
\* changes nothing but adds to it and its first user message has a text.
OneConversation ==
    [][Sent' /\ ~Sent /\ thread # NoId /\ thread # RandomId => sent'.id = thread]_sessionVars

\* A request in which other calls are made, or other calls are answered.
Relabelled(r, uses, results) ==
    [r EXCEPT !.results = [i \in DOMAIN @ |-> results[@[i]]],
              !.history = [i \in DOMAIN @ |-> Renumbered(@[i], uses, results)]]

\* Two requests have the same key in the true cache exactly if they differ in the ids of
\* calls alone: what the calls are named makes no difference, and which result answers
\* which call does. Otherwise an answer is never found again, or is one to another question.
KeyTellsApart ==
    Sent /\ called > 1 /\ Results(messages) # << >> =>
      LET orders == {p \in [1..called -> 1..called] : IsInjective(p)}
          same   == [i \in 1..called |-> i]
          key    == response_key(sent)
      IN  \A p \in orders \ {same} :
            LET other == Relabelled(sent, same, p)
            IN  /\ response_key(Relabelled(sent, p, p)) = key
                /\ response_key(other) = key <=> \E q \in orders : Relabelled(sent, q, q) = other
=============================================================================
