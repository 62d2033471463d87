---------------------------- MODULE EventDecoder ----------------------------
(* EventStreamDecoder (kiro/parser/decoder.rs) over parse_frame (frame.rs),   *)
(* fed chunk by chunk by the handlers. The bytes of the upstream body are     *)
(* numbered from 0; it is a sequence of frames of FrameSize bytes, some of    *)
(* which are damaged. A buffer holds the numbers of its bytes, so a frame in  *)
(* it is whole when they follow each other. What a length says that is read   *)
(* from damaged bytes or from the middle of a frame is left open, and that a  *)
(* checksum agrees by chance with other bytes than its own is left out.       *)
EXTENDS Integers, Sequences, FiniteSets

CONSTANTS
    Frames,                 \* number of frames in the body
    FrameSize,              \* bytes of a frame
    Damages,                \* what may be wrong with a frame
    ChunkSizes,             \* bytes of a chunk; the last one may be shorter
    PRELUDE_SIZE, MIN_MESSAGE_SIZE, MAX_MESSAGE_SIZE,
    DEFAULT_MAX_BUFFER_SIZE, DEFAULT_MAX_ERRORS

ASSUME FramesAssumption ==
    /\ Frames \in Nat
    /\ FrameSize \in Nat
    /\ FrameSize \in MIN_MESSAGE_SIZE .. MAX_MESSAGE_SIZE
    /\ Damages \subseteq {"none", "length", "prelude", "message", "header", "type"}
    /\ ChunkSizes \subseteq Nat \ {0}
ASSUME LimitsAssumption ==
    /\ PRELUDE_SIZE \in Nat /\ 4 <= PRELUDE_SIZE    \* it begins with the length
    /\ MIN_MESSAGE_SIZE \in Nat
    /\ PRELUDE_SIZE < MIN_MESSAGE_SIZE
    /\ MAX_MESSAGE_SIZE \in Nat
    /\ DEFAULT_MAX_BUFFER_SIZE \in Nat
    /\ DEFAULT_MAX_ERRORS \in Nat \ {0}

VARIABLES
    damage,       \* damage[f]: what is wrong with frame f
    sent,         \* bytes that have arrived
    buffer,       \* the decoder's bytes
    state,        \* its DecoderState between two calls
    error_count,
    fed,          \* chunks it has taken
    dropped,      \* a chunk has been refused
    decoding,     \* the handler is in the loop over decode_iter
    decoded       \* the frames handed to the handler

vars == <<damage, sent, buffer, state, error_count, fed, dropped, decoding, decoded>>

BodySize     == Frames * FrameSize
States       == {"Ready", "Recovering", "Stopped"}   \* Parsing only within decode
PreludeErrors == {"PreludeCrcMismatch", "MessageTooSmall", "MessageTooLarge"}
DataErrors    == {"MessageCrcMismatch", "HeaderParseFailed"}
OtherErrors   == {"InvalidHeaderType"}               \* Incomplete goes the same way
Errors        == PreludeErrors \cup DataErrors \cup OtherErrors

FrameAt(n)  == n \div FrameSize + 1
AtStart(n)  == n % FrameSize = 0
Bytes(i, n) == [k \in 1 .. n |-> i + k - 1]

-----------------------------------------------------------------------------
(* parse_frame: what it may answer for a buffer.                            *)

\* The first n bytes of b are those of the start of a frame.
StartsFrame(b, n) == AtStart(b[1]) /\ SubSeq(b, 1, n) = Bytes(b[1], n)

LengthRead(b) == StartsFrame(b, 4) /\ damage[FrameAt(b[1])] # "length"

CheckFrame_NoMessageCrc(b) ==
    IF damage[FrameAt(b[1])] = "prelude" \/ ~StartsFrame(b, PRELUDE_SIZE)
    THEN "PreludeCrcMismatch" ELSE "frame"

\* The checks of a frame whose length is right and whose bytes are there.
CheckFrame(b) ==
    LET d == damage[FrameAt(b[1])]
    IN  IF d = "prelude" \/ ~StartsFrame(b, PRELUDE_SIZE) THEN "PreludeCrcMismatch"
        ELSE IF d = "message" \/ ~StartsFrame(b, FrameSize) THEN "MessageCrcMismatch"
        ELSE IF d = "header" THEN "HeaderParseFailed"
        ELSE IF d = "type" THEN "InvalidHeaderType"
        ELSE "frame"

\* A length read from other bytes is too small, too large, of a message that
\* is not there yet, or of one whose prelude has another checksum.
Misread(b) ==
    {"MessageTooSmall", "MessageTooLarge"}
    \cup {r \in {"wait"} : Len(b) < MAX_MESSAGE_SIZE}
    \cup {r \in {"PreludeCrcMismatch"} : Len(b) >= MIN_MESSAGE_SIZE}

parse_frame(b) ==
    IF Len(b) < PRELUDE_SIZE THEN {"wait"}
    ELSE IF ~LengthRead(b) THEN Misread(b)
    ELSE IF Len(b) < FrameSize THEN {"wait"}
    ELSE {CheckFrame(b)}

-----------------------------------------------------------------------------
Advance(b, n) == SubSeq(b, n + 1, Len(b))

try_recover_Byte(b, e) == Advance(b, 1)

\* The bytes try_recover leaves: a frame whose length can be trusted is
\* skipped whole, otherwise one byte is.
try_recover(b, e) ==
    IF e \in DataErrors /\ FrameSize <= Len(b) THEN Advance(b, FrameSize)
                                               ELSE Advance(b, 1)

Init ==
    /\ damage \in [1 .. Frames -> Damages]
    /\ sent = 0 /\ buffer = << >>
    /\ state = "Ready" /\ error_count = 0
    /\ fed = 0 /\ dropped = FALSE
    /\ decoding = FALSE /\ decoded = << >>

HasRoom_Chunk(size) == size <= DEFAULT_MAX_BUFFER_SIZE
HasRoom(size) == Len(buffer) + size <= DEFAULT_MAX_BUFFER_SIZE

\* The next chunk has arrived and is fed; the loop over decode_iter follows
\* whether or not there was room for it.
Feed(n) ==
    LET size == IF n < BodySize - sent THEN n ELSE BodySize - sent
    IN  /\ ~decoding /\ sent < BodySize
        /\ sent' = sent + size
        /\ decoding' = TRUE
        /\ IF HasRoom(size)
           THEN /\ buffer' = buffer \o Bytes(sent, size)
                /\ state' = IF state = "Recovering" THEN "Ready" ELSE state
                /\ fed' = fed + 1
                /\ UNCHANGED dropped
           ELSE dropped' = TRUE /\ UNCHANGED <<buffer, state, fed>>
        /\ UNCHANGED <<damage, error_count, decoded>>

\* DecodeIter::next ends the loop in these states, that is after an error.
EndsLoop_Stopped == state = "Stopped"
EndsLoop == state \in {"Stopped", "Recovering"}

IterStops ==
    /\ decoding /\ EndsLoop
    /\ decoding' = FALSE
    /\ UNCHANGED <<damage, sent, buffer, state, error_count, fed, dropped, decoded>>

\* Otherwise it asks decode for a frame.
Iterates == decoding /\ ~EndsLoop

\* No frame is complete; this ends the loop too.
DecodeNone ==
    /\ Iterates
    /\ buffer = << >> \/ "wait" \in parse_frame(buffer)
    /\ state' = "Ready" /\ decoding' = FALSE
    /\ UNCHANGED <<damage, sent, buffer, error_count, fed, dropped, decoded>>

DecodeFrame_Once ==
    /\ Iterates /\ buffer # << >>
    /\ "frame" \in parse_frame(buffer)
    /\ buffer' = Advance(buffer, FrameSize)
    /\ state' = "Ready" /\ error_count' = 0
    /\ decoded' = Append(decoded, FrameAt(buffer[1]))
    /\ decoding' = FALSE
    /\ UNCHANGED <<damage, sent, fed, dropped>>

DecodeFrame ==
    /\ Iterates /\ buffer # << >>
    /\ "frame" \in parse_frame(buffer)
    /\ buffer' = Advance(buffer, FrameSize)
    /\ state' = "Ready" /\ error_count' = 0
    /\ decoded' = Append(decoded, FrameAt(buffer[1]))
    /\ UNCHANGED <<damage, sent, fed, dropped, decoding>>

\* The last error allowed stops the decoder for good; one before it is
\* followed by recovery.
DecodeError(e) ==
    /\ Iterates /\ buffer # << >>
    /\ e \in parse_frame(buffer)
    /\ error_count' = error_count + 1
    /\ IF error_count' >= DEFAULT_MAX_ERRORS
       THEN state' = "Stopped" /\ UNCHANGED buffer
       ELSE state' = "Recovering" /\ buffer' = try_recover(buffer, e)
    /\ UNCHANGED <<damage, sent, fed, dropped, decoding, decoded>>

Next ==
    \/ \E n \in ChunkSizes : Feed(n)
    \/ IterStops \/ DecodeNone \/ DecodeFrame
    \/ \E e \in Errors : DecodeError(e)

Spec == Init /\ [][Next]_vars

-----------------------------------------------------------------------------
TypeOK ==
    /\ damage \in [1 .. Frames -> Damages]
    /\ sent \in 0 .. BodySize
    /\ buffer \in Seq(0 .. BodySize - 1) /\ Len(buffer) <= DEFAULT_MAX_BUFFER_SIZE
    /\ state \in States /\ error_count \in 0 .. DEFAULT_MAX_ERRORS
    /\ fed \in Nat /\ dropped \in BOOLEAN /\ decoding \in BOOLEAN
    /\ decoded \in Seq(1 .. Frames)

Damaged == {f \in 1 .. Frames : damage[f] # "none"}

\* The first byte that is not decoded, skipped or thrown away yet.
FirstByte == IF buffer = << >> THEN sent ELSE buffer[1]

Increasing(s) == \A i, j \in DOMAIN s : i < j => s[i] < s[j]

\* As long as only the data of frames is damaged and no chunk was refused,
\* the buffer starts where a frame starts, and what has been handed on is
\* every sound frame before it, once and in order: a damaged frame is left
\* out and costs no other, whatever the chunks (decode, try_recover).
LosesOnlyDamaged ==
    (~dropped /\ \A f \in Damaged : damage[f] \in {"message", "header"})
        => /\ AtStart(FirstByte)
           /\ {decoded[i] : i \in DOMAIN decoded} = (1 .. FirstByte \div FrameSize) \ Damaged
           /\ Increasing(decoded)

\* Damage of any kind never makes a frame appear twice, out of its order or
\* out of a frame that is damaged (decode, whose callers trust every frame).
DecodedInOrder ==
    /\ Increasing(decoded)
    /\ \A i \in DOMAIN decoded : decoded[i] \notin Damaged

\* Between two chunks a sound and complete frame is left at the front of the
\* buffer only after an error; without one, everything there is is decoded
\* (decode_iter, "all available frames").
BacklogOnlyAfterError ==
    (~decoding /\ buffer # << >> /\ "frame" \in parse_frame(buffer))
        => state \in {"Recovering", "Stopped"}

\* The errors counted against the limit came with as many chunks: the rest of
\* a chunk is not searched after an error, so one bad chunk cannot stop the
\* decoder (decode_iter and feed).
StoppedTakesChunks == state = "Stopped" => fed >= DEFAULT_MAX_ERRORS
=============================================================================
