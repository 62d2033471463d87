---------------------------- MODULE ResponseCache ----------------------------
(* The true cache: TrueCache (anthropic/true_cache.rs), one file per key, and *)
(* the handlers of anthropic/handlers.rs that look an answer up in it before  *)
(* they call upstream and store theirs after. Handlers run on several threads *)
(* and nothing locks the files, so the calls to the file system interleave.   *)
(* A key stands for the hash of a request without its volatile ids.           *)
EXTENDS Naturals, Sequences

CONSTANTS
    Clients,          \* each sends one request
    NoClient,
    Bodies,           \* the translated requests, without ids
    Asked,            \* the requests that clients send
    Answers,          \* what upstream may answer
    TTL,              \* response_ttl, in ticks
    MaxTime,          \* bound on the clock
    MaxCrashes        \* bound on crashes of the process

Handlers == {"whole", "stream"}   \* a buffered stream uses the cache as a stream does
Requests == [body : Bodies, handler : Handlers, passive_tools : BOOLEAN]

ASSUME CacheAssumption ==
    /\ NoClient \notin Clients
    /\ Asked \subseteq Requests
    /\ Answers \subseteq [stop : {"end_turn", "tool_use", "max_tokens"},
                          shows : BOOLEAN, size : {"fits", "too_large"}]
    /\ TTL \in Nat /\ MaxTime \in Nat /\ MaxCrashes \in Nat

VARIABLES
    now,       \* the clock
    files,     \* the file of each key
    request,   \* request[c]: what c asks, and through which handler
    pc,        \* where the handler of c is
    linked,    \* linked[c]: the file c is writing is still the one of its key
    answer,    \* answer[c]: the answer to c, when upstream has been asked
    since,     \* since[c]: cached_at of the file c writes
    got,       \* got[c]: what c has been sent
    logged,    \* logged[c]: the statuses of its records in the call log
    broken,    \* keys whose file was left unfinished
    crashes

vars == <<now, files, request, pc, linked, answer, since, got, logged, broken, crashes>>

Keys     == {"json", "sse"} \X Bodies
NoFile   == [state |-> "absent", from |-> NoClient, at |-> 0]
TornFile == [NoFile EXCEPT !.state = "torn"]
Nothing  == [how |-> "nothing", from |-> NoClient, age |-> 0]
NoAnswer == [stop |-> "none", shows |-> FALSE, size |-> "fits"]

\* Only requests whose tool_choice forces nothing use the cache.
is_true_cache_eligible(c) == request[c].passive_tools

\* Streams are kept apart from whole answers; /cc/v1 shares those of /v1.
response_cache_key(c) ==
    <<IF request[c].handler = "whole" THEN "json" ELSE "sse", request[c].body>>

is_expired(at) == now - at >= TTL

\* An answer shows something when it has a tool call or text that is not blank.
Storable_All(a) == a.shows
Storable(a) == a.shows /\ a.stop \in {"end_turn", "tool_use"}

Goto(c, l) == pc' = [pc EXCEPT ![c] = l]
Log(c, s)  == logged' = [logged EXCEPT ![c] = Append(@, s)]
Receive(c, h, f, age) == got' = [got EXCEPT ![c] = [how |-> h, from |-> f, age |-> age]]

Init ==
    /\ now = 0
    /\ files = [k \in Keys |-> NoFile]
    /\ request \in [Clients -> Asked]
    /\ pc = [c \in Clients |-> "start"]
    /\ linked = [c \in Clients |-> FALSE]
    /\ answer = [c \in Clients |-> NoAnswer]
    /\ since = [c \in Clients |-> 0]
    /\ got = [c \in Clients |-> Nothing]
    /\ logged = [c \in Clients |-> << >>]
    /\ broken = {} /\ crashes = 0

-----------------------------------------------------------------------------
(* Lookup: get_response and what the handlers do with its answer.           *)

\* A request that may not use the cache goes upstream at once.
Bypass(c) ==
    /\ pc[c] = "start" /\ ~is_true_cache_eligible(c)
    /\ Goto(c, "upstream")
    /\ UNCHANGED <<now, files, request, linked, answer, since, got, logged, broken, crashes>>

\* A file that is missing, or that cannot be parsed because it is being
\* written or was not finished, is a miss.
LookupMisses(c) ==
    /\ pc[c] = "start" /\ is_true_cache_eligible(c)
    /\ files[response_cache_key(c)].state # "whole"
    /\ Goto(c, "upstream")
    /\ UNCHANGED <<now, files, request, linked, answer, since, got, logged, broken, crashes>>

LookupExpired(c) ==
    LET f == files[response_cache_key(c)] IN
    /\ pc[c] = "start" /\ is_true_cache_eligible(c)
    /\ f.state = "whole" /\ is_expired(f.at)
    /\ Goto(c, "remove")
    /\ UNCHANGED <<now, files, request, linked, answer, since, got, logged, broken, crashes>>

LookupHits(c) ==
    LET f == files[response_cache_key(c)] IN
    /\ pc[c] = "start" /\ is_true_cache_eligible(c)
    /\ f.state = "whole" /\ ~is_expired(f.at)
    /\ Log(c, "success") /\ Receive(c, "hit", f.from, now - f.at)
    /\ Goto(c, "done")
    /\ UNCHANGED <<now, files, request, linked, answer, since, broken, crashes>>

\* The expired file is removed by its name, whatever is there by now; who has
\* it open for writing goes on with a file that has no name.
RemoveFile(c) ==
    LET k == response_cache_key(c) IN
    /\ pc[c] = "remove"
    /\ files' = [files EXCEPT ![k] = NoFile]
    /\ linked' = [d \in Clients |-> linked[d] /\ response_cache_key(d) # k]
    /\ broken' = broken \ {k}
    /\ Goto(c, "upstream")
    /\ UNCHANGED <<now, request, answer, since, got, logged, crashes>>

-----------------------------------------------------------------------------
(* The answer of upstream.                                                  *)

UpstreamFails_Unlogged(c) ==
    /\ pc[c] = "upstream"
    /\ Receive(c, "error", NoClient, 0)
    /\ Goto(c, "done")
    /\ UNCHANGED <<now, files, request, linked, answer, since, logged, broken, crashes>>

UpstreamFails(c) ==
    /\ pc[c] = "upstream"
    /\ Log(c, "error") /\ Receive(c, "error", NoClient, 0)
    /\ Goto(c, "done")
    /\ UNCHANGED <<now, files, request, linked, answer, since, broken, crashes>>

UpstreamAnswers(c) ==
    /\ pc[c] = "upstream"
    /\ Goto(c, "body")
    /\ UNCHANGED <<now, files, request, linked, answer, since, got, logged, broken, crashes>>

BodyFails_Continues(c) ==
    /\ pc[c] = "body"
    /\ Log(c, "error")
    /\ Receive(c, "part", c, 0)
    /\ UNCHANGED <<now, files, request, pc, linked, answer, since, broken, crashes>>

\* Reading the body fails: a stream is closed with the events there are, a
\* whole answer becomes an error.
BodyFails(c) ==
    /\ pc[c] = "body"
    /\ Log(c, "error")
    /\ Receive(c, IF request[c].handler = "whole" THEN "error" ELSE "part", c, 0)
    /\ Goto(c, "done")
    /\ UNCHANGED <<now, files, request, linked, answer, since, broken, crashes>>

\* The body has ended with answer a, which is stored if it may be. An answer
\* that is too large is not, and the file is left as it is.
BodyEnds(c, a) ==
    LET stores == is_true_cache_eligible(c) /\ Storable(a) /\ a.size = "fits" IN
    /\ pc[c] = "body"
    /\ answer' = [answer EXCEPT ![c] = a]
    /\ since' = [since EXCEPT ![c] = IF stores THEN now ELSE @]
    /\ Goto(c, IF stores THEN "open" ELSE "reply")
    /\ UNCHANGED <<now, files, request, linked, got, logged, broken, crashes>>

\* fs::write opens the file and truncates it, or fails to.
OpenFile(c) ==
    LET k == response_cache_key(c) IN
    /\ pc[c] = "open"
    /\ files' = [files EXCEPT ![k] = TornFile]
    /\ linked' = [linked EXCEPT ![c] = TRUE]
    /\ broken' = broken \ {k}
    /\ Goto(c, "write")
    /\ UNCHANGED <<now, request, answer, since, got, logged, crashes>>

OpenFails(c) ==
    /\ pc[c] = "open"
    /\ Goto(c, "reply")
    /\ UNCHANGED <<now, files, request, linked, answer, since, got, logged, broken, crashes>>

\* The content is written from the start of the file. If another one has been
\* written there meanwhile, its end may be left behind the new one.
WriteFile(c) ==
    LET k    == response_cache_key(c)
        mine == [state |-> "whole", from |-> c, at |-> since[c]]
        left == IF files[k].state = "whole" THEN {mine, TornFile} ELSE {mine}
    IN  /\ pc[c] = "write"
        /\ IF linked[c]
           THEN \E f \in left :
                    /\ files' = [files EXCEPT ![k] = f]
                    /\ broken' = IF f = TornFile THEN broken \cup {k} ELSE broken \ {k}
           ELSE UNCHANGED <<files, broken>>
        /\ linked' = [linked EXCEPT ![c] = FALSE]
        /\ Goto(c, "reply")
        /\ UNCHANGED <<now, request, answer, since, got, logged, crashes>>

\* The disk is full in the middle of it; that is logged, no more.
WriteFails(c) ==
    LET k == response_cache_key(c) IN
    /\ pc[c] = "write"
    /\ IF linked[c]
       THEN files' = [files EXCEPT ![k] = TornFile] /\ broken' = broken \cup {k}
       ELSE UNCHANGED <<files, broken>>
    /\ linked' = [linked EXCEPT ![c] = FALSE]
    /\ Goto(c, "reply")
    /\ UNCHANGED <<now, request, answer, since, got, logged, crashes>>

\* The answer, or what is left to send of it, is sent and logged.
Reply(c) ==
    /\ pc[c] = "reply"
    /\ Log(c, "success") /\ Receive(c, "own", c, 0)
    /\ Goto(c, "done")
    /\ UNCHANGED <<now, files, request, linked, answer, since, broken, crashes>>

Disconnect_WhileStoring(c) ==
    /\ pc[c] \in {"upstream", "body", "write"}
    /\ Goto(c, "gone")
    /\ UNCHANGED <<now, files, request, linked, answer, since, got, logged, broken, crashes>>

\* The client leaves; the handler is dropped where it waits for upstream.
Disconnect(c) ==
    /\ pc[c] \in {"upstream", "body"}
    /\ Goto(c, "gone")
    /\ UNCHANGED <<now, files, request, linked, answer, since, got, logged, broken, crashes>>

Tick ==
    /\ now < MaxTime
    /\ now' = now + 1
    /\ UNCHANGED <<files, request, pc, linked, answer, since, got, logged, broken, crashes>>

\* The process is killed and started again: the files are what is left.
Crash ==
    /\ crashes < MaxCrashes
    /\ crashes' = crashes + 1
    /\ pc' = [c \in Clients |-> IF pc[c] \in {"start", "done"} THEN pc[c] ELSE "gone"]
    /\ linked' = [c \in Clients |-> FALSE]
    /\ broken' = {k \in Keys : files[k].state = "torn"}
    /\ UNCHANGED <<now, files, request, answer, since, got, logged>>

Handle(c) ==
    \/ Bypass(c) \/ LookupMisses(c) \/ LookupExpired(c) \/ LookupHits(c) \/ RemoveFile(c)
    \/ UpstreamFails(c) \/ UpstreamAnswers(c) \/ BodyFails(c)
    \/ \E a \in Answers : BodyEnds(c, a)
    \/ OpenFile(c) \/ OpenFails(c) \/ WriteFile(c) \/ WriteFails(c)
    \/ Reply(c) \/ Disconnect(c)

Next == (\E c \in Clients : Handle(c)) \/ Tick \/ Crash

Spec == Init /\ [][Next]_vars

-----------------------------------------------------------------------------
Places == {"start", "remove", "upstream", "body", "open", "write", "reply", "done", "gone"}

TypeOK ==
    /\ now \in 0 .. MaxTime /\ crashes \in 0 .. MaxCrashes
    /\ files \in [Keys -> [state : {"absent", "torn", "whole"},
                            from : Clients \cup {NoClient}, at : 0 .. MaxTime]]
    /\ request \in [Clients -> Asked] /\ pc \in [Clients -> Places]
    /\ linked \in [Clients -> BOOLEAN]
    /\ answer \in [Clients -> Answers \cup {NoAnswer}]
    /\ since \in [Clients -> 0 .. MaxTime]
    /\ got \in [Clients -> [how : {"nothing", "hit", "own", "part", "error"},
                             from : Clients \cup {NoClient}, age : 0 .. MaxTime]]
    /\ logged \in [Clients -> {<< >>, <<"success">>, <<"error">>}]
    /\ broken \subseteq Keys

\* What a client gets from the cache is an answer to the same request in the
\* same form, to a client that might use the cache too, that had come to its
\* proper end with something to show, and is younger than the TTL: never the
\* start of an answer, an answer cut by a limit or a half-written file.
ReplayedAnswers ==
    \A c \in Clients : got[c].how = "hit" =>
        LET o == got[c].from IN
        /\ o \in Clients /\ o # c
        /\ request[o].body = request[c].body
        /\ (request[o].handler = "whole") = (request[c].handler = "whole")
        /\ request[o].passive_tools /\ request[c].passive_tools
        /\ answer[o].stop \in {"end_turn", "tool_use"} /\ answer[o].shows
        /\ got[c].age < TTL

\* A file that cannot be read is being written, or was left so by a crash, a
\* failed write or two writes at once; no other way of the handlers through
\* put_response, among removals by others, spoils what was stored.
TornOnlyByFault ==
    \A k \in Keys : files[k].state = "torn" =>
        \/ k \in broken
        \/ \E c \in Clients : pc[c] = "write" /\ linked[c] /\ response_cache_key(c) = k

\* Every request whose handler went on to the lookup in the cache and came to its
\* end is in the call log once, as a success exactly if its client got a complete
\* answer, from the cache or its own (the many ends of the handlers, each with a
\* call of CallLogContext).  Requests that are refused before there is such a
\* context, and web searches, leave no record in the code and are not meant.
LoggedOnce ==
    \A c \in Clients : pc[c] = "done" =>
        logged[c] = IF got[c].how \in {"hit", "own"} THEN <<"success">> ELSE <<"error">>
=============================================================================
