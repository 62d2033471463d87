---------------------------- MODULE RequestRecords ----------------------------
(* What is written down about each request: the segments of its prompt in the  *)
(* input cache (anthropic/input_cache.rs), from which the saving of a later    *)
(* request is estimated, the usage the client is told, and a record in the     *)
(* call log (call_log.rs). Segments are files read and written without a lock; *)
(* the log is one file of lines, written under a lock in several writes.       *)
EXTENDS Integers, FiniteSets, SequencesExt, Filter

CONSTANTS
    Workers,       \* requests that run at once
    Script,        \* the messages of a conversation, [bytes, tokens, result]:
                   \* result is the length of its tool result, 0 for none
    Parts,         \* system and tools, [name, bytes, tokens]
    Counts,        \* what the remote count may say instead of the local one
    Usages,        \* what the upstream may report, [input, read, created]
    ShortTTL, LongTTL,
    MaxRecords,    \* call_log_max_records
    Mixes          \* what is asked in a behaviour, and the bounds on it

MIN_SEGMENT_CHARS == 64

Usage == [input : Nat, read : Nat, created : Nat]

ASSUME RecordsAssumption ==
    /\ Script \in Seq([bytes : Nat, tokens : Nat, result : Nat])
    /\ Parts \in Seq([name : STRING, bytes : Nat, tokens : Nat])
    /\ Mixes \subseteq [asked : SUBSET [upto : DOMAIN Script, parts : {<< >>, Parts}],
                        requests : Nat, time : Nat, faults : Nat, restarts : Nat]
    /\ Counts \subseteq Nat /\ Usages \subseteq Usage
    /\ ShortTTL \in Nat /\ LongTTL \in Nat /\ MaxRecords \in Nat \ {0}

VARIABLES
    now,
    segments,    \* the files of the input cache: key -> [at, ttl, state]
    log,         \* the lines of the log, each [pieces, ended]; a piece is [n, state]
    held,        \* who appends to the log
    written,     \* records begun so far: their numbers are their order
    task,
    mix,                            \* the member of Mixes this behaviour is of
    requests, faults, restarts,     \* counters
    stored,      \* segments sent so far, [key, at, by]
    acked,       \* records whose append has returned Ok
    spoiled      \* records begun on the line of an interrupted one, or behind a line
                 \* that is cut within a character

input   == <<segments, stored>>
calllog == <<log, held, written, acked, spoiled>>
counters == <<mix, requests, faults, restarts>>
vars == <<now, input, calllog, task, counters>>

Idle == [at |-> "idle"]
At(w, place) == task[w].at = place
Finish(w) == task' = [task EXCEPT ![w] = Idle]
Fault == faults < mix.faults /\ faults' = faults + 1 /\ UNCHANGED <<mix, requests, restarts>>

AtLeast(a, b) == IF a > b THEN a ELSE b
AtMost(a, b) == IF a < b THEN a ELSE b

\* The sum of a sequence of numbers (as a recursive function, of which something can be
\* proved).
Total(q) ==
    LET total[i \in 0..Len(q)] == IF i = 0 THEN 0 ELSE total[i - 1] + q[i]
    IN  total[Len(q)]

(***************************************************************************)
(* The input cache.                                                         *)
(***************************************************************************)

BytesOf(messages) == Total([i \in DOMAIN messages |-> messages[i].bytes])

\* Keys stand for the hashes of name and content.
Segment(kind, key, ttl, bytes, store) ==
    [kind |-> kind, key |-> key, ttl |-> ttl, bytes |-> bytes, store |-> store]

\* extract_segments: the whole conversation is stored, its beginnings are only looked up.
extract_segments(r) ==
    LET messages == SubSeq(Script, 1, r.upto)
        beginning(i) == Segment("message", <<"messages", i>>, ShortTTL,
                                BytesOf(SubSeq(Script, 1, i)), i = r.upto)
        parts   == [i \in DOMAIN r.parts |->
                       Segment("prefix", <<r.parts[i].name, 0>>, LongTTL, r.parts[i].bytes, TRUE)]
        results == [i \in DOMAIN messages |->
                       Segment("result", <<"result", i>>, ShortTTL, messages[i].result, TRUE)]
        all == parts \o << beginning(r.upto) >> \o [i \in 1..(r.upto - 1) |-> beginning(i)] \o results
    IN  Only(all, {s \in Range(all) : s.bytes >= MIN_SEGMENT_CHARS})

\* count_all_tokens: texts and definitions are counted, tool results are not.
RawCounts(r) ==
    Counts \cup {AtLeast(1, Total([i \in 1..r.upto |-> Script[i].tokens])
                            + Total([i \in DOMAIN r.parts |-> r.parts[i].tokens]))}

estimate_tokens_from_bytes(b) == AtLeast(1, (b + 3) \div 4)
estimate_message_prefix_tokens(b, full, raw) ==
    IF full = 0 THEN estimate_tokens_from_bytes(b) ELSE AtLeast(1, (raw * AtMost(b, full)) \div full)

\* The saving that follows from the hits: the longest beginning, and all other parts.
Saved(ss, raw, hits) ==
    LET messages == {s \in Range(ss) : s.kind = "message"}
        full    == Max({0} \cup {s.bytes : s \in {m \in messages : m.store}})
        longest == Max({0} \cup {estimate_message_prefix_tokens(s.bytes, full, raw) :
                                    s \in {m \in messages : m.key \in hits}})
        rest    == Total([i \in DOMAIN ss |->
                       IF ss[i].kind # "message" /\ ss[i].key \in hits
                       THEN estimate_tokens_from_bytes(ss[i].bytes) ELSE 0])
    IN  AtMost(longest + rest, (raw * 9) \div 10)

\* post_messages counts the tokens and asks the input cache, which looks at the clock once.
Ask(w) ==
    /\ At(w, "idle") /\ requests < mix.requests /\ requests' = requests + 1
    /\ \E r \in mix.asked : \E raw \in RawCounts(r) :
          LET ss == IF raw = 0 THEN << >> ELSE extract_segments(r)
          IN  task' = [task EXCEPT ![w] =
                  [at |-> "look", by |-> requests', since |-> now, all |-> ss, todo |-> ss,
                   raw |-> raw, seen |-> {}]]
    /\ UNCHANGED <<now, input, calllog, mix, faults, restarts>>

Others(w, s) ==
    \E v \in Workers \ {w} : At(v, "store") /\ task[v].todo # << >> /\ Head(task[v].todo).key = s.key

segment_is_fresh_Late(s, since) ==
    /\ s.key \in DOMAIN segments /\ segments[s.key].state = "whole"
    /\ AtLeast(0, since - segments[s.key].at) <= AtMost(segments[s.key].ttl, s.ttl)
segment_is_fresh(s, since) ==
    /\ s.key \in DOMAIN segments /\ segments[s.key].state = "whole"
    /\ AtLeast(0, since - segments[s.key].at) < AtMost(segments[s.key].ttl, s.ttl)

\* A file that another request is just writing may be found empty.
Look(w) ==
    /\ At(w, "look") /\ task[w].todo # << >>
    /\ LET s == Head(task[w].todo)
       IN  \E hit \in {segment_is_fresh(s, task[w].since)} \cup (IF Others(w, s) THEN {FALSE} ELSE {}) :
              task' = [task EXCEPT ![w].todo = Tail(@),
                           ![w].seen = IF hit THEN @ \cup {[key |-> s.key, ttl |-> s.ttl]} ELSE @]
    /\ UNCHANGED <<now, input, calllog, counters>>

Storing(ss) == Only(ss, {s \in Range(ss) : s.store})

\* All lookups come first; then the segments are stored.
Looked(w) ==
    /\ At(w, "look") /\ task[w].todo = << >>
    /\ task' = [task EXCEPT ![w] =
           [at |-> "store", by |-> @.by, since |-> @.since, todo |-> Storing(@.all), seen |-> @.seen,
            report |-> [raw |-> @.raw, saved |-> Saved(@.all, @.raw, {x.key : x \in @.seen})]]]
    /\ UNCHANGED <<now, input, calllog, counters>>

\* store_segment; a failure is not reported.
StoreSegment(w) ==
    /\ At(w, "store") /\ task[w].todo # << >>
    /\ LET s == Head(task[w].todo)
           put(state) == segments' = [k \in DOMAIN segments \cup {s.key} |->
                             IF k = s.key THEN [at |-> task[w].since, ttl |-> s.ttl, state |-> state]
                             ELSE segments[k]]
       IN  \/ /\ put("whole") /\ UNCHANGED counters
              /\ stored' = stored \cup {[key |-> s.key, at |-> task[w].since, by |-> task[w].by]}
           \/ Fault /\ put("torn") /\ UNCHANGED stored
    /\ task' = [task EXCEPT ![w].todo = Tail(@)]
    /\ UNCHANGED <<now, calllog>>

(***************************************************************************)
(* What the client is told, and what is logged.                             *)
(***************************************************************************)

NoUsage == [input |-> 0, read |-> 0, created |-> 0]
InputOf(u) == u.input + u.read + u.created

\* compute_input_cache_accounting. (With floating point the scaled saving may be one
\* less than the quotient.)
compute_input_cache_accounting(report, u) ==
    LET raw    == AtLeast(report.raw, InputOf(u))
        scaled == IF report.raw = 0 THEN 0 ELSE (raw * report.saved) \div report.raw
        saved  == AtMost(AtLeast(AtLeast(report.saved, scaled), u.read), raw)
    IN  [raw |-> raw, saved |-> saved, billable |-> raw - saved]

\* adjusted_input_cache_usage, written into the answer
Adjusted_KeepsCreated(report, u) ==
    LET a == compute_input_cache_accounting(report, u)
    IN  IF a.saved = 0 THEN u ELSE [u EXCEPT !.input = a.billable, !.read = a.saved]
Adjusted(report, u) ==
    LET a == compute_input_cache_accounting(report, u)
    IN  IF a.saved = 0 THEN u ELSE [input |-> a.billable, read |-> a.saved, created |-> 0]

\* The request leaves a record. The log computes its numbers from what the client was told.
ToLog(w, how, said, told) ==
    task' = [task EXCEPT ![w] =
        [at |-> "log", how |-> how, report |-> @.report, said |-> said, told |-> told, n |-> 0,
         numbers |-> compute_input_cache_accounting(@.report, told)]]

Stored(w) == At(w, "store") /\ task[w].todo = << >>

\* The upstream answers; an answer without text and tools is told to cost nothing.
Answer(w) ==
    /\ Stored(w)
    /\ \/ \E u \in Usages : ToLog(w, "success", InputOf(u), Adjusted(task[w].report, u))
       \/ ToLog(w, "empty", 0, NoUsage)
    /\ UNCHANGED <<now, input, calllog, counters>>

\* The true cache answers: all of the earlier answer's input was read from it.
Replay(w) ==
    /\ Stored(w)
    /\ \E u \in Usages : ToLog(w, "hit", InputOf(u), [NoUsage EXCEPT !.read = InputOf(u)])
    /\ UNCHANGED <<now, input, calllog, counters>>

\* The upstream fails.
Fail(w) ==
    /\ Stored(w) /\ ToLog(w, "error", 0, NoUsage)
    /\ UNCHANGED <<now, input, calllog, counters>>

\* The client goes away during a stream, and nothing is logged.
Leave(w) ==
    /\ Stored(w) /\ Finish(w)
    /\ UNCHANGED <<now, input, calllog, counters>>

(***************************************************************************)
(* The call log. append opens the file, writes the record and the end of    *)
(* the line, and makes room; a failure is only reported.                    *)
(***************************************************************************)

Put(line, piece) == [line EXCEPT !.pieces = Append(@, piece)]
Become(state, n) ==
    [i \in DOMAIN log |-> [log[i] EXCEPT !.pieces =
        [j \in DOMAIN @ |-> IF @[j].n = n THEN [@[j] EXCEPT !.state = state] ELSE @[j]]]]

Appending(w) == held = {w}
Release == held' = {}

IsRecord(line) == Len(line.pieces) = 1 /\ line.pieces[1].state = "whole"
IsCut(line) == \E i \in DOMAIN line.pieces : line.pieces[i].state = "cut"
HasCut(lines) == \E i \in DOMAIN lines : IsCut(lines[i])

\* A record is begun behind whatever an interrupted one has left of its line.
BeginRecord(w) ==
    LET n     == written + 1
        piece == [n |-> n, state |-> "half"]
        joins == log # << >> /\ ~Last(log).ended
    IN  /\ At(w, "log") /\ task[w].n = 0 /\ held = {}
        /\ \/ /\ held' = {w} /\ written' = n
              /\ log' = IF joins THEN [log EXCEPT ![Len(log)] = Put(@, piece)]
                        ELSE Append(log, [pieces |-> << piece >>, ended |-> FALSE])
              /\ spoiled' = IF joins \/ HasCut(log) THEN spoiled \cup {n} ELSE spoiled
              /\ task' = [task EXCEPT ![w] = [at |-> "log", n |-> n, step |-> "rest"]]
              /\ UNCHANGED counters
           \/ Fault /\ Finish(w) /\ UNCHANGED <<log, held, written, spoiled>>
        /\ UNCHANGED <<now, input, acked>>

\* When the disk is full the text may end within a character.
WriteRest(w) ==
    /\ Appending(w) /\ task[w].step = "rest" /\ UNCHANGED <<now, input, written, acked, spoiled>>
    /\ \/ /\ log' = Become("whole", task[w].n) /\ task' = [task EXCEPT ![w].step = "end"]
          /\ UNCHANGED <<held, counters>>
       \/ /\ Fault /\ Release /\ Finish(w)
          /\ \E state \in {"half", "cut"} : log' = Become(state, task[w].n)

EndLine(w) ==
    /\ Appending(w) /\ task[w].step = "end" /\ UNCHANGED <<now, input, written, acked, spoiled>>
    /\ \/ /\ log' = [log EXCEPT ![Len(log)].ended = TRUE] /\ task' = [task EXCEPT ![w].step = "room"]
          /\ UNCHANGED <<held, counters>>
       \/ Fault /\ Release /\ Finish(w) /\ UNCHANGED log

\* read_records stops at a line that is no text, and skips one that is no record.
Legible(lines) == LET cut == {i \in DOMAIN lines : IsCut(lines[i])}
                  IN  IF cut = {} THEN lines
                      ELSE SubSeq(lines, 1, Min(cut) - 1)
read_records(lines) == Only(Legible(lines), {line \in Range(lines) : IsRecord(line)})
LastOnes_First(s, k) == SubSeq(s, 1, AtMost(k, Len(s)))
LastOnes(s, k) == SubSeq(s, AtLeast(1, Len(s) - k + 1), Len(s))

\* compact_locked writes the last records to another file and renames it.
MakeRoom(w) ==
    /\ Appending(w) /\ task[w].step = "room" /\ Release /\ Finish(w)
    /\ \/ /\ log' = IF Len(read_records(log)) <= MaxRecords THEN log
                    ELSE [i \in 1..MaxRecords |->
                             [LastOnes(read_records(log), MaxRecords)[i] EXCEPT !.ended = TRUE]]
          /\ acked' = Append(acked, task[w].n) /\ UNCHANGED counters
       \/ Fault /\ UNCHANGED <<log, acked>>
    /\ UNCHANGED <<now, input, written, spoiled>>

(***************************************************************************)
(* Time, and the process.                                                   *)
(***************************************************************************)

Tick ==
    /\ now < mix.time /\ now' = now + 1
    /\ UNCHANGED <<input, calllog, task, counters>>

\* The process is killed: a file being written is left unfinished.
Kill ==
    /\ restarts < mix.restarts /\ restarts' = restarts + 1
    /\ task' = [w \in Workers |-> Idle] /\ held' = {}
    /\ segments' \in {segments} \cup
          {[segments EXCEPT ![k].state = "torn"] : k \in {j \in DOMAIN segments :
              \E w \in Workers : At(w, "store") /\ task[w].todo # << >> /\ Head(task[w].todo).key = j}}
    /\ UNCHANGED <<now, stored, log, written, acked, spoiled, mix, requests, faults>>

Rest == (\A w \in Workers : At(w, "idle")) /\ UNCHANGED vars

Init ==
    /\ now = 0 /\ segments = << >> /\ stored = {}
    /\ log = << >> /\ held = {} /\ written = 0 /\ acked = << >> /\ spoiled = {}
    /\ task = [w \in Workers |-> Idle]
    /\ mix \in Mixes /\ requests = 0 /\ faults = 0 /\ restarts = 0

Step(w) ==
    \/ Ask(w) \/ Look(w) \/ Looked(w) \/ StoreSegment(w)
    \/ Answer(w) \/ Replay(w) \/ Fail(w) \/ Leave(w)
    \/ BeginRecord(w) \/ WriteRest(w) \/ EndLine(w) \/ MakeRoom(w)

Next == (\E w \in Workers : Step(w)) \/ Tick \/ Kill \/ Rest

Spec == Init /\ [][Next]_vars

(***************************************************************************)
(* Properties.                                                              *)
(***************************************************************************)

\* A segment counts as read from the cache only if an earlier or concurrent request has
\* stored it, within the lifetime it has for the one that asks; a request never hits what
\* it stores itself, and a torn file is no hit.
HitsEarned ==
    \A w \in Workers : At(w, "store") =>
        \A x \in task[w].seen : \E s \in stored :
            s.key = x.key /\ s.by # task[w].by /\ task[w].since - s.at < x.ttl

\* In a successful answer of the upstream with which anything was saved, the input the
\* client is told adds up to what was counted or what the upstream says, whichever is
\* more, and the log, which computes its numbers from the told ones, comes to the same.
\* Replays, failures and answers that saved nothing are not meant.
UsageAgrees ==
    \A w \in Workers :
        (At(w, "log") /\ task[w].n = 0 /\ task[w].how = "success" /\ task[w].numbers.saved > 0) =>
            LET t == task[w]
            IN  /\ t.told.input = t.numbers.billable /\ t.told.read = t.numbers.saved
                /\ InputOf(t.told) = AtLeast(t.report.raw, t.said)

\* A record whose append has returned stays in the list, in order, until MaxRecords later
\* ones are in it, whatever failed or was killed before or after; except one that was
\* begun on the line of an interrupted record, or behind a line that ends within a character.
LogIntact ==
    held = {} =>
        LET listed == LET rs == read_records(log) IN [i \in DOMAIN rs |-> rs[i].pieces[1].n]
        IN  /\ \A i, j \in DOMAIN listed : i < j => listed[i] < listed[j]
            /\ \A i \in DOMAIN acked :
                   \/ acked[i] \in Range(listed) \/ acked[i] \in spoiled
                   \/ Cardinality({j \in DOMAIN listed : listed[j] > acked[i]}) >= MaxRecords
=============================================================================
