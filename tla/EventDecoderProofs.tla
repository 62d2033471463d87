------------------------- MODULE EventDecoderProofs -------------------------
(* Proofs about EventDecoder for bodies of any length, frames and chunks of  *)
(* any size, and any limits.                                                 *)
EXTENDS EventDecoder, SequenceTheorems, TLAPS

-----------------------------------------------------------------------------
(* Frames and bytes.                                                        *)

LEMMA SizesType ==
    /\ FrameSize \in Nat \ {0} /\ PRELUDE_SIZE < FrameSize
    /\ PRELUDE_SIZE \in Nat \ {0} /\ BodySize \in Nat
  BY FramesAssumption, LimitsAssumption DEF BodySize

LEMMA DivBounds ==
    ASSUME NEW n \in Nat, NEW s \in Nat \ {0}
    PROVE  /\ n \div s \in Nat
           /\ s * (n \div s) <= n
           /\ n < s * (n \div s) + s
  OBVIOUS

\* Bytes a frame's length apart are in different frames.
LEMMA FramesApart ==
    ASSUME NEW n \in Nat, NEW m \in Nat, n + FrameSize <= m
    PROVE  FrameAt(n) < FrameAt(m)
<1> DEFINE p == n \div FrameSize
           q == m \div FrameSize
<1>1. /\ p \in Nat /\ FrameSize * p <= n
      /\ q \in Nat /\ m < FrameSize * q + FrameSize
  BY SizesType, DivBounds
<1> HIDE DEF p, q
<1>2. FrameSize * (p + 1) < FrameSize * (q + 1)
  BY <1>1, SizesType
<1>3. p + 1 < q + 1
  BY <1>1, <1>2, SizesType
<1>4. QED
  BY <1>1, <1>3 DEF FrameAt, p, q

LEMMA FramesOrdered ==
    ASSUME NEW n \in Nat, NEW m \in Nat, n <= m
    PROVE  FrameAt(n) <= FrameAt(m)
<1> DEFINE p == n \div FrameSize
           q == m \div FrameSize
<1>1. /\ p \in Nat /\ FrameSize * p <= n
      /\ q \in Nat /\ m < FrameSize * q + FrameSize
  BY SizesType, DivBounds
<1> HIDE DEF p, q
<1>2. FrameSize * p < FrameSize * (q + 1)
  BY <1>1, SizesType
<1>3. p < q + 1
  BY <1>1, <1>2, SizesType
<1>4. QED
  BY <1>1, <1>3 DEF FrameAt, p, q

LEMMA FrameAtType ==
    ASSUME NEW n \in 0 .. BodySize - 1
    PROVE  FrameAt(n) \in 1 .. Frames
<1> DEFINE p == n \div FrameSize
<1>1. p \in Nat /\ FrameSize * p <= n /\ n < Frames * FrameSize
  BY SizesType, DivBounds DEF BodySize
<1> HIDE DEF p
<1>2. FrameSize * p < FrameSize * Frames
  BY <1>1, SizesType, FramesAssumption
<1>3. p < Frames
  BY <1>1, <1>2, SizesType, FramesAssumption
<1>4. QED
  BY <1>1, <1>3, FramesAssumption DEF FrameAt, p

\* What is left of a buffer after its first n bytes are consumed.
LEMMA AdvanceProperties ==
    ASSUME NEW S, NEW b \in Seq(S), NEW n \in 1 .. Len(b)
    PROVE  /\ Advance(b, n) \in Seq(S)
           /\ Len(Advance(b, n)) = Len(b) - n
           /\ \A k \in 1 .. Len(b) - n : Advance(b, n)[k] = b[n + k]
<1>1. /\ SubSeq(b, n + 1, Len(b)) \in Seq(S)
      /\ Len(SubSeq(b, n + 1, Len(b))) = Len(b) - n
      /\ \A k \in 1 .. Len(b) - n : SubSeq(b, n + 1, Len(b))[k] = b[n + k]
  OBVIOUS
<1>2. QED
  BY <1>1 DEF Advance

\* Every byte that is fed is a byte of the body.
LEMMA BytesProperties ==
    ASSUME NEW i \in Nat, NEW n \in Nat, i + n <= BodySize
    PROVE  /\ Bytes(i, n) \in Seq(0 .. BodySize - 1)
           /\ Len(Bytes(i, n)) = n
           /\ \A k \in 1 .. n : Bytes(i, n)[k] = i + k - 1
  BY SizesType DEF Bytes

\* A buffer to which the next bytes of the body have been added.
LEMMA AppendBytes ==
    ASSUME NEW b \in Seq(0 .. BodySize - 1), NEW i \in Nat, NEW n \in Nat, i + n <= BodySize
    PROVE  /\ b \o Bytes(i, n) \in Seq(0 .. BodySize - 1)
           /\ Len(b) \in Nat /\ Len(b \o Bytes(i, n)) = Len(b) + n
           /\ \A k \in 1 .. Len(b) : (b \o Bytes(i, n))[k] = b[k]
           /\ \A k \in Len(b) + 1 .. Len(b) + n :
                  (b \o Bytes(i, n))[k] = i + (k - Len(b)) - 1
<1> DEFINE c == Bytes(i, n)
<1>1. /\ c \in Seq(0 .. BodySize - 1) /\ Len(c) = n
      /\ \A k \in 1 .. n : c[k] = i + k - 1
  BY BytesProperties
<1>2. Len(b) \in Nat
  BY LenProperties
<1> HIDE DEF c
<1>3. /\ b \o c \in Seq(0 .. BodySize - 1) /\ Len(b \o c) = Len(b) + n
      /\ \A k \in 1 .. Len(b) + n :
            (b \o c)[k] = IF k <= Len(b) THEN b[k] ELSE c[k - Len(b)]
  BY <1>1, ConcatProperties
<1>4. \A k \in 1 .. Len(b) : (b \o c)[k] = b[k]
  BY <1>2, <1>3
<1>5. \A k \in Len(b) + 1 .. Len(b) + n : (b \o c)[k] = i + (k - Len(b)) - 1
  <2> TAKE k \in Len(b) + 1 .. Len(b) + n
  <2>1. k \in 1 .. Len(b) + n /\ ~(k <= Len(b)) /\ k - Len(b) \in 1 .. n
    BY <1>2
  <2>2. (b \o c)[k] = c[k - Len(b)]
    BY <1>3, <2>1
  <2>3. QED
    BY <1>1, <2>1, <2>2
<1>6. QED
  BY <1>2, <1>3, <1>4, <1>5 DEF c

-----------------------------------------------------------------------------
(* Types.                                                                   *)

LEMMA FeedTyped ==
    ASSUME TypeOK, NEW n \in ChunkSizes, Feed(n)
    PROVE  TypeOK'
<1> DEFINE size == IF n < BodySize - sent THEN n ELSE BodySize - sent
<1>1. n \in Nat /\ size \in Nat /\ sent \in Nat /\ sent + size <= BodySize
  BY SizesType, FramesAssumption DEF TypeOK
<1>2. sent' \in 0 .. BodySize /\ decoding' \in BOOLEAN
  BY <1>1, SizesType DEF Feed
<1>3. buffer' \in Seq(0 .. BodySize - 1) /\ Len(buffer') <= DEFAULT_MAX_BUFFER_SIZE
  <2>1. CASE HasRoom(size)
    <3>1. /\ Bytes(sent, size) \in Seq(0 .. BodySize - 1)
          /\ Len(Bytes(sent, size)) = size
      BY <1>1, BytesProperties
    <3>2. buffer' = buffer \o Bytes(sent, size)
      BY <2>1 DEF Feed
    <3>3. buffer \in Seq(0 .. BodySize - 1)
      BY DEF TypeOK
    <3>4. buffer' \in Seq(0 .. BodySize - 1) /\ Len(buffer') = Len(buffer) + size
      BY <3>1, <3>2, <3>3, ConcatProperties
    <3>5. QED
      BY <2>1, <3>4 DEF HasRoom
  <2>2. CASE ~HasRoom(size)
    BY <2>2 DEF Feed, TypeOK
  <2>3. QED
    BY <2>1, <2>2
<1>4. state' \in States /\ fed' \in Nat /\ dropped' \in BOOLEAN
  <2>1. state \in States /\ fed \in Nat /\ dropped \in BOOLEAN
    BY DEF TypeOK
  <2>2. CASE HasRoom(size)
    <3>1. /\ state' = IF state = "Recovering" THEN "Ready" ELSE state
          /\ fed' = fed + 1 /\ dropped' = dropped
      BY <2>2 DEF Feed
    <3>2. QED
      BY <2>1, <3>1 DEF States
  <2>3. CASE ~HasRoom(size)
    <3>1. state' = state /\ fed' = fed /\ dropped' = TRUE
      BY <2>3 DEF Feed
    <3>2. QED
      BY <2>1, <3>1
  <2>4. QED
    BY <2>2, <2>3
<1>5. damage' \in [1 .. Frames -> Damages] /\ decoded' \in Seq(1 .. Frames)
      /\ error_count' \in 0 .. DEFAULT_MAX_ERRORS
  BY DEF Feed, TypeOK
<1>6. QED
  BY <1>2, <1>3, <1>4, <1>5 DEF TypeOK

\* The decoder is between two errors when it is asked for a frame.
LEMMA IteratesReady ==
    ASSUME TypeOK, Iterates
    PROVE  state = "Ready" /\ decoding
  BY DEF TypeOK, Iterates, EndsLoop, States

\* The first byte, its frame, and what is left without it.
LEMMA FirstTyped ==
    ASSUME TypeOK, buffer # << >>
    PROVE  /\ Len(buffer) \in Nat \ {0}
           /\ buffer[1] \in 0 .. BodySize - 1
           /\ FrameAt(buffer[1]) \in 1 .. Frames
<1>1. buffer \in Seq(0 .. BodySize - 1)
  BY DEF TypeOK
<1>2. Len(buffer) \in Nat \ {0}
  BY <1>1, EmptySeq
<1>3. buffer[1] \in 0 .. BodySize - 1
  <2>1. 1 \in 1 .. Len(buffer)
    BY <1>2
  <2>2. QED
    BY <1>1, <2>1, ElementOfSeq
<1>4. QED
  BY <1>2, <1>3, FrameAtType

\* A frame is answered only when its bytes are all there.
LEMMA FrameComplete ==
    ASSUME TypeOK, buffer # << >>, "frame" \in parse_frame(buffer)
    PROVE  /\ FrameSize <= Len(buffer)
           /\ SubSeq(buffer, 1, FrameSize) = Bytes(buffer[1], FrameSize)
           /\ damage[FrameAt(buffer[1])] \notin {"length", "prelude", "message", "header", "type"}
<1>1. Len(buffer) \in Nat \ {0}
  BY FirstTyped
<1>2. "frame" \notin Misread(buffer)
  BY DEF Misread
<1>3. /\ ~(Len(buffer) < PRELUDE_SIZE) /\ LengthRead(buffer)
      /\ "frame" \in IF Len(buffer) < FrameSize THEN {"wait"} ELSE {CheckFrame(buffer)}
  BY <1>2 DEF parse_frame
<1>4. ~(Len(buffer) < FrameSize) /\ CheckFrame(buffer) = "frame"
  BY <1>3
<1>5. /\ damage[FrameAt(buffer[1])] \notin {"prelude", "message", "header", "type"}
      /\ StartsFrame(buffer, FrameSize)
  BY <1>4 DEF CheckFrame
<1>6. QED
  BY <1>1, <1>3, <1>4, <1>5, SizesType DEF StartsFrame, LengthRead

LEMMA DecodeFrameTyped ==
    ASSUME TypeOK, DecodeFrame
    PROVE  TypeOK'
<1>1. buffer # << >> /\ FrameSize \in 1 .. Len(buffer)
  BY FirstTyped, FrameComplete, SizesType DEF DecodeFrame
<1>2. buffer' \in Seq(0 .. BodySize - 1) /\ Len(buffer') <= DEFAULT_MAX_BUFFER_SIZE
  BY <1>1, AdvanceProperties, LimitsAssumption DEF TypeOK, DecodeFrame
<1>3. decoded' \in Seq(1 .. Frames)
  BY <1>1, FirstTyped DEF TypeOK, DecodeFrame
<1>4. state' \in States /\ error_count' \in 0 .. DEFAULT_MAX_ERRORS
  BY LimitsAssumption DEF DecodeFrame, States
<1>5. QED
  BY <1>2, <1>3, <1>4 DEF TypeOK, DecodeFrame

\* Recovery takes at least one byte off and leaves the rest as it was.
LEMMA RecoverProperties ==
    ASSUME TypeOK, buffer # << >>, NEW e
    PROVE  \E n \in 1 .. Len(buffer) : try_recover(buffer, e) = Advance(buffer, n)
<1>1. 1 \in 1 .. Len(buffer)
  BY FirstTyped
<1>2. FrameSize <= Len(buffer) => FrameSize \in 1 .. Len(buffer)
  BY FirstTyped, SizesType
<1>3. QED
  BY <1>1, <1>2 DEF try_recover

\* An error is counted only while the decoder has not stopped, so the count
\* does not pass the limit.
ErrorsBelowLimit == state # "Stopped" => error_count < DEFAULT_MAX_ERRORS

LEMMA DecodeErrorTyped ==
    ASSUME TypeOK, ErrorsBelowLimit, NEW e \in Errors, DecodeError(e)
    PROVE  TypeOK'
<1>1. error_count' \in 0 .. DEFAULT_MAX_ERRORS /\ state' \in States
  <2>1. state = "Ready"
    BY IteratesReady DEF DecodeError
  <2>2. error_count \in Nat /\ error_count < DEFAULT_MAX_ERRORS
    BY <2>1 DEF ErrorsBelowLimit, TypeOK
  <2>3. QED
    BY <2>2, LimitsAssumption DEF DecodeError, States
<1>2. buffer' \in Seq(0 .. BodySize - 1) /\ Len(buffer') <= DEFAULT_MAX_BUFFER_SIZE
  <2>1. CASE buffer' = buffer
    BY <2>1 DEF TypeOK
  <2>2. CASE buffer' = try_recover(buffer, e)
    <3>1. PICK n \in 1 .. Len(buffer) : buffer' = Advance(buffer, n)
      BY <2>2, RecoverProperties DEF DecodeError
    <3>2. QED
      BY <3>1, AdvanceProperties, LimitsAssumption DEF TypeOK
  <2>3. QED
    BY <2>1, <2>2 DEF DecodeError
<1>3. QED
  BY <1>1, <1>2 DEF TypeOK, DecodeError

-----------------------------------------------------------------------------
(* Errors and chunks: while the decoder is ready, the last chunk has not     *)
(* been charged with an error, unless nothing is there to decode.            *)

ErrorsPaid ==
    /\ ErrorsBelowLimit
    /\ error_count <= fed
    /\ state = "Stopped" => error_count >= DEFAULT_MAX_ERRORS
    /\ state = "Ready" => error_count < fed \/ buffer = << >>

LEMMA ErrorsPaidInit ==
    ASSUME Init
    PROVE  TypeOK /\ ErrorsPaid
<1>1. TypeOK
  <2>1. << >> \in Seq(0 .. BodySize - 1) /\ << >> \in Seq(1 .. Frames) /\ Len(<< >>) = 0
    BY EmptySeq
  <2>2. /\ buffer \in Seq(0 .. BodySize - 1) /\ Len(buffer) <= DEFAULT_MAX_BUFFER_SIZE
        /\ decoded \in Seq(1 .. Frames)
    BY <2>1, LimitsAssumption DEF Init
  <2>3. sent \in 0 .. BodySize /\ fed \in Nat /\ error_count \in 0 .. DEFAULT_MAX_ERRORS
    BY SizesType, LimitsAssumption DEF Init
  <2>4. QED
    BY <2>2, <2>3 DEF Init, TypeOK, States
<1>2. ErrorsPaid
  BY LimitsAssumption DEF Init, ErrorsPaid, ErrorsBelowLimit
<1>3. QED
  BY <1>1, <1>2

LEMMA ErrorsPaidNext ==
    ASSUME TypeOK, ErrorsPaid, [Next]_vars
    PROVE  TypeOK' /\ ErrorsPaid'
<1>0. error_count \in Nat /\ fed \in Nat /\ DEFAULT_MAX_ERRORS \in Nat \ {0}
  BY LimitsAssumption DEF TypeOK
<1>1. CASE \E n \in ChunkSizes : Feed(n)
  <2>1. PICK n \in ChunkSizes : Feed(n)
    BY <1>1
  <2>2. TypeOK'
    BY <2>1, FeedTyped
  <2>3. ErrorsPaid'
    BY <2>1, <1>0 DEF Feed, ErrorsPaid, ErrorsBelowLimit, TypeOK, States
  <2>4. QED
    BY <2>2, <2>3
<1>2. CASE IterStops
  BY <1>2 DEF IterStops, TypeOK, ErrorsPaid, ErrorsBelowLimit
<1>3. CASE DecodeNone
  <2>1. state = "Ready"
    BY <1>3, IteratesReady DEF DecodeNone
  <2>2. QED
    BY <1>3, <2>1 DEF DecodeNone, TypeOK, ErrorsPaid, ErrorsBelowLimit
<1>4. CASE DecodeFrame
  <2>1. state = "Ready" /\ buffer # << >>
    BY <1>4, IteratesReady DEF DecodeFrame
  <2>2. TypeOK'
    BY <1>4, DecodeFrameTyped
  <2>3. ErrorsPaid'
    BY <1>0, <1>4, <2>1 DEF DecodeFrame, ErrorsPaid, ErrorsBelowLimit
  <2>4. QED
    BY <2>2, <2>3
<1>5. CASE \E e \in Errors : DecodeError(e)
  <2>1. PICK e \in Errors : DecodeError(e)
    BY <1>5
  <2>2. state = "Ready" /\ buffer # << >>
    BY <2>1, IteratesReady DEF DecodeError
  <2>3. TypeOK'
    BY <2>1, DecodeErrorTyped DEF ErrorsPaid
  <2>4. ErrorsPaid'
    BY <1>0, <2>1, <2>2 DEF DecodeError, ErrorsPaid, ErrorsBelowLimit
  <2>5. QED
    BY <2>3, <2>4
<1>6. CASE UNCHANGED vars
  BY <1>6 DEF vars, TypeOK, ErrorsPaid, ErrorsBelowLimit
<1>7. QED
  BY <1>1, <1>2, <1>3, <1>4, <1>5, <1>6 DEF Next

\* The decoder's buffer, counters and results keep their types, and the buffer
\* its limit, whatever the body and its chunks (feed, decode).
THEOREM DecoderTypes == Spec => []TypeOK
<1>1. Init => TypeOK /\ ErrorsPaid
  BY ErrorsPaidInit
<1>2. (TypeOK /\ ErrorsPaid) /\ [Next]_vars => (TypeOK /\ ErrorsPaid)'
  BY ErrorsPaidNext
<1>3. QED
  BY <1>1, <1>2, PTL DEF Spec

\* A decoder that has given up has taken at least as many chunks as it allows
\* errors in a row: no single chunk, whatever is in it, stops it (decode_iter).
THEOREM StoppingTakesChunks == Spec => []StoppedTakesChunks
<1>1. Init => TypeOK /\ ErrorsPaid
  BY ErrorsPaidInit
<1>2. (TypeOK /\ ErrorsPaid) /\ [Next]_vars => (TypeOK /\ ErrorsPaid)'
  BY ErrorsPaidNext
<1>3. TypeOK /\ ErrorsPaid => StoppedTakesChunks
  BY LimitsAssumption DEF TypeOK, ErrorsPaid, StoppedTakesChunks
<1>4. QED
  BY <1>1, <1>2, <1>3, PTL DEF Spec

-----------------------------------------------------------------------------
(* Order: the bytes in the buffer are in the order of the body, and belong   *)
(* to frames after those that have been decoded.                             *)

BufferOrdered ==
    /\ \A i, j \in 1 .. Len(buffer) : i < j => buffer[i] < buffer[j]
    /\ \A i \in 1 .. Len(buffer) : buffer[i] < sent
DecodedBefore ==
    /\ \A i \in 1 .. Len(decoded) : decoded[i] < FrameAt(sent)
    /\ \A i \in 1 .. Len(decoded), k \in 1 .. Len(buffer) : decoded[i] < FrameAt(buffer[k])
DecodedSound ==
    /\ \A i, j \in 1 .. Len(decoded) : i < j => decoded[i] < decoded[j]
    /\ \A i \in 1 .. Len(decoded) : decoded[i] \notin Damaged
OrderInv == BufferOrdered /\ DecodedBefore /\ DecodedSound

LEMMA FeedOrdered ==
    ASSUME TypeOK, OrderInv, NEW n \in ChunkSizes, Feed(n)
    PROVE  OrderInv'
<1> DEFINE size == IF n < BodySize - sent THEN n ELSE BodySize - sent
<1>1. /\ n \in Nat /\ size \in Nat /\ sent \in Nat
      /\ sent + size <= BodySize /\ sent' = sent + size
  BY SizesType, FramesAssumption DEF TypeOK, Feed
<1>2. /\ decoded' = decoded /\ damage' = damage
      /\ HasRoom(size) => buffer' = buffer \o Bytes(sent, size)
      /\ ~HasRoom(size) => buffer' = buffer
  BY DEF Feed
<1> HIDE DEF size
<1>3. \A i \in 1 .. Len(decoded) : decoded[i] \in Nat
  BY FramesAssumption DEF TypeOK
<1>4. \A m \in Nat : sent <= m => \A i \in 1 .. Len(decoded) : decoded[i] < FrameAt(m)
  <2> TAKE m \in Nat
  <2> HAVE sent <= m
  <2>1. FrameAt(sent) <= FrameAt(m)
    BY <1>1, FramesOrdered
  <2>2. FrameAt(sent) \in Int /\ FrameAt(m) \in Int
    BY <1>1, SizesType DEF FrameAt
  <2>3. QED
    BY <1>3, <2>1, <2>2 DEF OrderInv, DecodedBefore
<1>5. DecodedSound'
  BY <1>2 DEF OrderInv, DecodedSound, Damaged
<1>6. CASE HasRoom(size)
  <2>1. buffer \in Seq(0 .. BodySize - 1)
    BY DEF TypeOK
  <2>2. buffer' = buffer \o Bytes(sent, size)
    BY <1>2, <1>6
  <2>4. /\ Len(buffer) \in Nat /\ Len(buffer') = Len(buffer) + size
        /\ \A k \in 1 .. Len(buffer) : buffer'[k] = buffer[k]
        /\ \A k \in Len(buffer) + 1 .. Len(buffer) + size :
                buffer'[k] = sent + (k - Len(buffer)) - 1
    <3> DEFINE c == buffer \o Bytes(sent, size)
    <3>1. /\ Len(buffer) \in Nat /\ Len(c) = Len(buffer) + size
          /\ \A k \in 1 .. Len(buffer) : c[k] = buffer[k]
          /\ \A k \in Len(buffer) + 1 .. Len(buffer) + size :
                c[k] = sent + (k - Len(buffer)) - 1
      BY <1>1, <2>1, AppendBytes, ZenonT(30)
    <3>2. buffer' = c
      BY <2>2
    <3> HIDE DEF c
    <3>3. QED
      BY <3>1, <3>2
  <2>5. \A k \in 1 .. Len(buffer) : buffer[k] \in Nat /\ buffer[k] < sent
    BY <2>1, ElementOfSeq, SizesType DEF OrderInv, BufferOrdered
  <2>6. \A k \in 1 .. Len(buffer') :
            \/ k \in 1 .. Len(buffer)
            \/ k \in Len(buffer) + 1 .. Len(buffer) + size
    BY <1>1, <2>4
  <2>7. BufferOrdered'
    <3>1. ASSUME NEW k \in 1 .. Len(buffer')
          PROVE  buffer'[k] < sent'
      <4>1. CASE k \in 1 .. Len(buffer)
        BY <1>1, <2>4, <2>5, <4>1
      <4>2. CASE k \in Len(buffer) + 1 .. Len(buffer) + size
        BY <1>1, <2>4, <4>2
      <4>3. QED
        BY <2>6, <4>1, <4>2
    <3>2. ASSUME NEW i \in 1 .. Len(buffer'), NEW j \in 1 .. Len(buffer'), i < j
          PROVE  buffer'[i] < buffer'[j]
      <4>1. CASE j \in 1 .. Len(buffer)
        <5>1. i \in 1 .. Len(buffer)
          BY <2>4, <3>2, <4>1
        <5>2. QED
          BY <2>4, <3>2, <4>1, <5>1 DEF OrderInv, BufferOrdered
      <4>2. CASE j \in Len(buffer) + 1 .. Len(buffer) + size
        <5>1. buffer'[j] = sent + (j - Len(buffer)) - 1
          BY <2>4, <4>2
        <5>2. CASE i \in 1 .. Len(buffer)
          BY <1>1, <2>4, <2>5, <4>2, <5>1, <5>2
        <5>3. CASE i \in Len(buffer) + 1 .. Len(buffer) + size
          BY <1>1, <2>4, <3>2, <5>1, <5>3
        <5>4. QED
          BY <2>6, <5>2, <5>3
      <4>3. QED
        BY <2>6, <4>1, <4>2
    <3>3. QED
      BY <3>1, <3>2 DEF BufferOrdered
  <2>8. DecodedBefore'
    <3>1. \A i \in 1 .. Len(decoded) : decoded[i] < FrameAt(sent')
      BY <1>1, <1>4
    <3>2. ASSUME NEW i \in 1 .. Len(decoded), NEW k \in 1 .. Len(buffer')
          PROVE  decoded[i] < FrameAt(buffer'[k])
      <4>1. CASE k \in 1 .. Len(buffer)
        BY <2>4, <4>1 DEF OrderInv, DecodedBefore
      <4>2. CASE k \in Len(buffer) + 1 .. Len(buffer) + size
        <5>1. buffer'[k] \in Nat /\ sent <= buffer'[k]
          BY <1>1, <2>4, <4>2
        <5>2. QED
          BY <1>4, <5>1
      <4>3. QED
        BY <2>6, <4>1, <4>2
    <3>3. QED
      BY <1>2, <3>1, <3>2 DEF DecodedBefore
  <2>9. QED
    BY <1>5, <2>7, <2>8 DEF OrderInv
<1>7. CASE ~HasRoom(size)
  <2>1. buffer' = buffer
    BY <1>2, <1>7
  <2>2. \A k \in 1 .. Len(buffer) : buffer[k] \in Nat
    BY ElementOfSeq, SizesType DEF TypeOK
  <2>3. BufferOrdered'
    BY <1>1, <2>1, <2>2 DEF OrderInv, BufferOrdered
  <2>4. DecodedBefore'
    BY <1>1, <1>2, <1>4, <2>1 DEF OrderInv, DecodedBefore
  <2>5. QED
    BY <1>5, <2>3, <2>4 DEF OrderInv
<1>8. QED
  BY <1>6, <1>7

\* What is left after bytes have been consumed is ordered as before.
LEMMA RestOrdered ==
    ASSUME TypeOK, BufferOrdered, NEW n \in 1 .. Len(buffer),
           buffer' = Advance(buffer, n), sent' = sent
    PROVE  /\ BufferOrdered'
           /\ Len(buffer') = Len(buffer) - n
           /\ \A k \in 1 .. Len(buffer') :
                  n + k \in 1 .. Len(buffer) /\ buffer'[k] = buffer[n + k]
<1>1. buffer \in Seq(0 .. BodySize - 1) /\ Len(buffer) \in Nat
  BY LenProperties DEF TypeOK
<1>2. /\ Len(buffer') = Len(buffer) - n
      /\ \A k \in 1 .. Len(buffer) - n : buffer'[k] = buffer[n + k]
  BY <1>1, AdvanceProperties
<1>3. \A k \in 1 .. Len(buffer') : n + k \in 1 .. Len(buffer)
  BY <1>1, <1>2
<1>4. BufferOrdered'
  <2>1. \A k \in 1 .. Len(buffer') : buffer'[k] < sent'
    BY <1>2, <1>3 DEF BufferOrdered
  <2>2. ASSUME NEW i \in 1 .. Len(buffer'), NEW j \in 1 .. Len(buffer'), i < j
        PROVE  buffer'[i] < buffer'[j]
    <3>1. n + i < n + j /\ n + i \in 1 .. Len(buffer) /\ n + j \in 1 .. Len(buffer)
      BY <1>1, <1>2, <1>3, <2>2
    <3>2. buffer[n + i] < buffer[n + j]
      BY <3>1 DEF BufferOrdered
    <3>3. QED
      BY <1>2, <3>2
  <2>3. QED
    BY <2>1, <2>2 DEF BufferOrdered
<1>5. QED
  BY <1>2, <1>3, <1>4

LEMMA ErrorOrdered ==
    ASSUME TypeOK, OrderInv, NEW e \in Errors, DecodeError(e)
    PROVE  OrderInv'
<1>1. decoded' = decoded /\ damage' = damage /\ sent' = sent /\ buffer # << >>
  BY DEF DecodeError
<1>2. DecodedSound'
  BY <1>1 DEF OrderInv, DecodedSound, Damaged
<1>3. CASE buffer' = buffer
  BY <1>1, <1>2, <1>3 DEF OrderInv, BufferOrdered, DecodedBefore
<1>4. CASE buffer' = try_recover(buffer, e)
  <2>1. PICK n \in 1 .. Len(buffer) : buffer' = Advance(buffer, n)
    BY <1>1, <1>4, RecoverProperties
  <2>2. /\ BufferOrdered'
        /\ \A k \in 1 .. Len(buffer') :
               n + k \in 1 .. Len(buffer) /\ buffer'[k] = buffer[n + k]
    BY <1>1, <2>1, RestOrdered DEF OrderInv
  <2>3. DecodedBefore'
    BY <1>1, <2>2 DEF OrderInv, DecodedBefore
  <2>4. QED
    BY <1>2, <2>2, <2>3 DEF OrderInv
<1>5. QED
  BY <1>3, <1>4 DEF DecodeError

LEMMA FrameOrdered ==
    ASSUME TypeOK, OrderInv, DecodeFrame
    PROVE  OrderInv'
<1> DEFINE b == buffer[1]
<1>1. /\ buffer # << >> /\ sent' = sent /\ damage' = damage
      /\ buffer' = Advance(buffer, FrameSize)
      /\ decoded' = Append(decoded, FrameAt(b))
      /\ "frame" \in parse_frame(buffer)
  BY DEF DecodeFrame
<1>2. /\ FrameSize \in 1 .. Len(buffer) /\ Len(buffer) \in Nat \ {0}
      /\ SubSeq(buffer, 1, FrameSize) = Bytes(b, FrameSize)
      /\ b \in Nat /\ FrameAt(b) \in 1 .. Frames /\ FrameAt(b) \notin Damaged
  <2>1. /\ b \in 0 .. BodySize - 1 /\ FrameAt(b) \in 1 .. Frames
        /\ Len(buffer) \in Nat \ {0}
    BY <1>1, FirstTyped
  <2>2. /\ FrameSize <= Len(buffer)
        /\ SubSeq(buffer, 1, FrameSize) = Bytes(b, FrameSize)
        /\ damage[FrameAt(b)] \notin {"length", "prelude", "message", "header", "type"}
    BY <1>1, FrameComplete
  <2>3. damage[FrameAt(b)] = "none"
    BY <2>1, <2>2, FramesAssumption DEF TypeOK
  <2>4. QED
    BY <2>1, <2>2, <2>3, SizesType DEF Damaged
\* The last byte of the frame, which no later byte precedes.
<1>3. buffer[FrameSize] = b + FrameSize - 1
  <2>1. SubSeq(buffer, 1, FrameSize)[FrameSize] = buffer[FrameSize]
    BY <1>2, SizesType, SubSeqProperties DEF TypeOK
  <2>2. Bytes(b, FrameSize)[FrameSize] = b + FrameSize - 1
    BY SizesType DEF Bytes
  <2>3. QED
    BY <1>2, <2>1, <2>2
<1>4. /\ BufferOrdered' /\ Len(buffer') = Len(buffer) - FrameSize
      /\ \A k \in 1 .. Len(buffer') :
            FrameSize + k \in 1 .. Len(buffer) /\ buffer'[k] = buffer[FrameSize + k]
  BY <1>1, <1>2, RestOrdered DEF OrderInv
<1>5. \A k \in 1 .. Len(buffer') : FrameAt(b) < FrameAt(buffer'[k])
  <2> TAKE k \in 1 .. Len(buffer')
  <2>1. FrameSize + k \in 1 .. Len(buffer) /\ buffer'[k] = buffer[FrameSize + k]
    BY <1>4
  <2>2. buffer[FrameSize] < buffer[FrameSize + k]
    BY <1>2, <1>4, <2>1, SizesType DEF OrderInv, BufferOrdered
  <2>3. buffer[FrameSize + k] \in Nat
    BY <2>1, ElementOfSeq, SizesType DEF TypeOK
  <2>4. b + FrameSize <= buffer'[k] /\ buffer'[k] \in Nat
    BY <1>2, <1>3, <2>1, <2>2, <2>3, SizesType
  <2>5. QED
    BY <1>2, <2>4, FramesApart
<1>6. FrameAt(b) < FrameAt(sent)
  <2>1. buffer[FrameSize] < sent /\ sent \in Nat
    BY <1>2, SizesType DEF OrderInv, BufferOrdered, TypeOK
  <2>2. b + FrameSize <= sent
    BY <1>2, <1>3, <2>1, SizesType
  <2>3. QED
    BY <1>2, <2>1, <2>2, FramesApart
<1>7. /\ Len(decoded) \in Nat /\ Len(decoded') = Len(decoded) + 1
      /\ \A i \in 1 .. Len(decoded) : decoded'[i] = decoded[i] /\ decoded[i] \in Nat
      /\ decoded'[Len(decoded) + 1] = FrameAt(b)
  <2>1. decoded \in Seq(1 .. Frames)
    BY DEF TypeOK
  <2>2. \A i \in 1 .. Len(decoded) : decoded[i] \in Nat
    BY <2>1, ElementOfSeq, FramesAssumption
  <2>3. Len(decoded) \in Nat
    BY <2>1, LenProperties
  <2>4. QED
    BY <1>1, <1>2, <2>1, <2>2, <2>3, AppendProperties
<1>8. \A i \in 1 .. Len(decoded') : i \in 1 .. Len(decoded) \/ i = Len(decoded) + 1
  BY <1>7
<1>9. \A i \in 1 .. Len(decoded) : decoded[i] < FrameAt(b)
  <2>1. 1 \in 1 .. Len(buffer)
    BY <1>2
  <2>2. QED
    BY <2>1 DEF OrderInv, DecodedBefore
<1>10. DecodedBefore'
  <2>1. ASSUME NEW i \in 1 .. Len(decoded')
        PROVE  decoded'[i] < FrameAt(sent')
    BY <1>1, <1>6, <1>7, <1>8 DEF OrderInv, DecodedBefore
  <2>2. ASSUME NEW i \in 1 .. Len(decoded'), NEW k \in 1 .. Len(buffer')
        PROVE  decoded'[i] < FrameAt(buffer'[k])
    <3>1. CASE i = Len(decoded) + 1
      BY <1>5, <1>7, <3>1
    <3>2. CASE i \in 1 .. Len(decoded)
      BY <1>4, <1>7, <3>2 DEF OrderInv, DecodedBefore
    <3>3. QED
      BY <1>8, <3>1, <3>2
  <2>3. QED
    BY <2>1, <2>2 DEF DecodedBefore
<1>11. DecodedSound'
  <2>1. ASSUME NEW i \in 1 .. Len(decoded'), NEW j \in 1 .. Len(decoded'), i < j
        PROVE  decoded'[i] < decoded'[j]
    <3>1. i \in 1 .. Len(decoded)
      BY <1>7, <1>8, <2>1
    <3>2. CASE j = Len(decoded) + 1
      BY <1>7, <1>9, <3>1, <3>2
    <3>3. CASE j \in 1 .. Len(decoded)
      BY <1>7, <2>1, <3>1, <3>3 DEF OrderInv, DecodedSound
    <3>4. QED
      BY <1>8, <3>2, <3>3
  <2>2. Damaged' = Damaged
    BY <1>1 DEF Damaged
  <2>3. ASSUME NEW i \in 1 .. Len(decoded')
        PROVE  decoded'[i] \notin Damaged
    BY <1>2, <1>7, <1>8 DEF OrderInv, DecodedSound
  <2>4. QED
    BY <2>1, <2>2, <2>3 DEF DecodedSound
<1>12. QED
  BY <1>4, <1>10, <1>11 DEF OrderInv

LEMMA OrderedInit ==
    ASSUME Init
    PROVE  OrderInv
<1>1. Len(buffer) = 0 /\ Len(decoded) = 0
  BY EmptySeq DEF Init
<1>2. QED
  BY <1>1 DEF OrderInv, BufferOrdered, DecodedBefore, DecodedSound

LEMMA OrderedNext ==
    ASSUME TypeOK, OrderInv, [Next]_vars
    PROVE  OrderInv'
<1>1. CASE \E n \in ChunkSizes : Feed(n)
  BY <1>1, FeedOrdered
<1>2. CASE IterStops \/ DecodeNone \/ UNCHANGED vars
  <2>1. UNCHANGED <<damage, sent, buffer, decoded>>
    BY <1>2 DEF IterStops, DecodeNone, vars
  <2>2. QED
    BY <2>1 DEF OrderInv, BufferOrdered, DecodedBefore, DecodedSound, Damaged
<1>3. CASE DecodeFrame
  BY <1>3, FrameOrdered
<1>4. CASE \E e \in Errors : DecodeError(e)
  BY <1>4, ErrorOrdered
<1>5. QED
  BY <1>1, <1>2, <1>3, <1>4 DEF Next

\* The handler gets every frame at most once, in the order of the body, and no
\* damaged one, whatever is damaged, skipped or refused (decode, try_recover).
THEOREM FramesInOrder == Spec => []DecodedInOrder
<1>1. Init => TypeOK /\ ErrorsPaid /\ OrderInv
  BY ErrorsPaidInit, OrderedInit
<1>2. (TypeOK /\ ErrorsPaid /\ OrderInv) /\ [Next]_vars
        => (TypeOK /\ ErrorsPaid /\ OrderInv)'
  BY ErrorsPaidNext, OrderedNext
<1>3. TypeOK /\ OrderInv => DecodedInOrder
  <2>1. TypeOK => DOMAIN decoded = 1 .. Len(decoded)
    BY LenProperties DEF TypeOK
  <2>2. QED
    BY <2>1 DEF OrderInv, DecodedSound, DecodedInOrder, Increasing
<1>4. QED
  BY <1>1, <1>2, <1>3, PTL DEF Spec

-----------------------------------------------------------------------------
(* What is left between two chunks.                                          *)

\* A buffer whose first frame is complete is not one to wait with.
LEMMA FrameOrWait ==
    ASSUME NEW b, "frame" \in parse_frame(b)
    PROVE  "wait" \notin parse_frame(b)
<1>1. "frame" \notin Misread(b)
  BY DEF Misread
<1>2. CheckFrame(b) # "wait"
  BY DEF CheckFrame
<1>3. QED
  BY <1>1, <1>2 DEF parse_frame

\* When the handler waits for the next chunk, the decoder has no complete frame
\* at the front of its buffer, unless an error has stopped it (decode_iter).
THEOREM BacklogExplained == Spec => []BacklogOnlyAfterError
<1>1. Init => BacklogOnlyAfterError
  BY DEF Init, BacklogOnlyAfterError
<1>2. BacklogOnlyAfterError /\ [Next]_vars => BacklogOnlyAfterError'
  <2> SUFFICES ASSUME BacklogOnlyAfterError, [Next]_vars
               PROVE  BacklogOnlyAfterError'
    OBVIOUS
  <2>1. CASE \E n \in ChunkSizes : Feed(n)
    BY <2>1 DEF Feed, BacklogOnlyAfterError
  <2>2. CASE IterStops
    BY <2>2 DEF IterStops, EndsLoop, BacklogOnlyAfterError
  <2>3. CASE DecodeNone
    <3>1. /\ buffer' = buffer /\ damage' = damage
          /\ buffer = << >> \/ "frame" \notin parse_frame(buffer)
      BY <2>3, FrameOrWait DEF DecodeNone
    <3>2. parse_frame(buffer)' = parse_frame(buffer)
      BY <3>1 DEF parse_frame, LengthRead, StartsFrame, CheckFrame
    <3>3. QED
      BY <3>1, <3>2 DEF BacklogOnlyAfterError
  <2>4. CASE DecodeFrame \/ \E e \in Errors : DecodeError(e)
    BY <2>4 DEF DecodeFrame, DecodeError, Iterates, BacklogOnlyAfterError
  <2>5. CASE UNCHANGED vars
    <3>1. parse_frame(buffer)' = parse_frame(buffer)
      BY <2>5 DEF vars, parse_frame, LengthRead, StartsFrame, CheckFrame
    <3>2. QED
      BY <2>5, <3>1 DEF vars, BacklogOnlyAfterError
  <2>6. QED
    BY <2>1, <2>2, <2>3, <2>4, <2>5 DEF Next
<1>3. QED
  BY <1>1, <1>2, PTL DEF Spec

-----------------------------------------------------------------------------
(* Nothing is lost while only the data of frames is damaged: the bytes in the *)
(* buffer follow each other, from the start of a frame, up to those that have *)
(* been sent; and the sound frames before them have been decoded.             *)

DataDamaged == ~dropped /\ \A f \in Damaged : damage[f] \in {"message", "header"}
DecodedSet  == {decoded[i] : i \in DOMAIN decoded}
Aligned(q) ==
    /\ FrameSize * q + Len(buffer) = sent
    /\ \A i \in 1 .. Len(buffer) : buffer[i] = FrameSize * q + i - 1
    /\ DecodedSet = (1 .. q) \ Damaged
AlignedInv == DataDamaged => \E q \in Nat : Aligned(q)

LEMMA DivMod ==
    ASSUME NEW n \in Nat, NEW s \in Nat \ {0}
    PROVE  /\ n \div s \in Nat /\ n % s \in 0 .. s - 1
           /\ n = s * (n \div s) + (n % s)
  OBVIOUS

\* The byte at which frame q + 1 starts.
LEMMA StartOfFrame ==
    ASSUME NEW q \in Nat
    PROVE  /\ FrameSize * q \in Nat /\ FrameSize * (q + 1) = FrameSize * q + FrameSize
           /\ (FrameSize * q) \div FrameSize = q
           /\ AtStart(FrameSize * q) /\ FrameAt(FrameSize * q) = q + 1
<1> DEFINE n == FrameSize * q
           p == n \div FrameSize
           r == n % FrameSize
<1>0. FrameSize \in Nat \ {0}
  BY SizesType
<1>1. n \in Nat /\ FrameSize * (q + 1) = n + FrameSize
  BY <1>0
<1>2. n = FrameSize * q
  OBVIOUS
<1> HIDE DEF n
<1>3. p \in Nat /\ r \in 0 .. FrameSize - 1 /\ n = FrameSize * p + r
  BY <1>0, <1>1, DivMod
<1> HIDE DEF p, r
<1>4. p = q
  <2>1. FrameSize * q < FrameSize * (p + 1) /\ FrameSize * p < FrameSize * (q + 1)
    BY <1>0, <1>2, <1>3
  <2>2. q < p + 1 /\ p < q + 1
    BY <1>0, <1>3, <2>1
  <2>3. QED
    BY <1>3, <2>2
<1>5. r = 0
  BY <1>0, <1>2, <1>3, <1>4
<1>6. QED
  BY <1>0, <1>1, <1>4, <1>5 DEF n, p, r, AtStart, FrameAt

\* A buffer whose bytes follow each other from the start of a frame is read as
\* that frame, as far as it is there.
LEMMA AlignedStarts ==
    ASSUME TypeOK, NEW q \in Nat, Aligned(q), buffer # << >>, NEW n \in 0 .. Len(buffer)
    PROVE  buffer[1] = FrameSize * q /\ StartsFrame(buffer, n)
<1>1. buffer \in Seq(0 .. BodySize - 1) /\ Len(buffer) \in Nat \ {0}
  BY FirstTyped DEF TypeOK
<1>2. FrameSize * q \in Nat /\ AtStart(FrameSize * q)
  BY StartOfFrame
<1>3. buffer[1] = FrameSize * q
  BY <1>1, <1>2 DEF Aligned
<1>4. SubSeq(buffer, 1, n) = Bytes(buffer[1], n)
  <2>1. SubSeq(buffer, 1, n) = [i \in 1 .. n |-> buffer[i]]
    BY <1>1
  <2>2. \A i \in 1 .. n : buffer[i] = buffer[1] + i - 1
    BY <1>1, <1>2, <1>3 DEF Aligned
  <2>3. QED
    BY <2>1, <2>2 DEF Bytes
<1>5. QED
  BY <1>2, <1>3, <1>4 DEF StartsFrame

\* So parse_frame reads the right length, and an error says what is damaged.
LEMMA AlignedParse ==
    ASSUME TypeOK, DataDamaged, NEW q \in Nat, Aligned(q), buffer # << >>,
           NEW r \in parse_frame(buffer), r # "wait"
    PROVE  /\ FrameSize \in 1 .. Len(buffer)
           /\ FrameAt(buffer[1]) = q + 1 /\ q + 1 \in 1 .. Frames
           /\ r = CheckFrame(buffer)
           /\ r # "frame" => r \in DataErrors /\ q + 1 \in Damaged
<1>1. /\ Len(buffer) \in Nat \ {0} /\ buffer[1] = FrameSize * q
      /\ FrameAt(buffer[1]) \in 1 .. Frames
  <2>1. 0 \in 0 .. Len(buffer) /\ Len(buffer) \in Nat \ {0} /\ FrameAt(buffer[1]) \in 1 .. Frames
    BY FirstTyped
  <2>2. QED
    BY <2>1, AlignedStarts
<1>2. FrameAt(buffer[1]) = q + 1
  BY <1>1, StartOfFrame
<1>3. \A f \in 1 .. Frames : damage[f] \in {"none", "message", "header"}
  BY DEF DataDamaged, Damaged
<1>4. PRELUDE_SIZE <= Len(buffer)
  BY <1>1, SizesType DEF parse_frame
<1>5. StartsFrame(buffer, 4) /\ StartsFrame(buffer, PRELUDE_SIZE)
  <2>1. 4 \in 0 .. Len(buffer) /\ PRELUDE_SIZE \in 0 .. Len(buffer)
    BY <1>1, <1>4, LimitsAssumption
  <2>2. QED
    BY <2>1, AlignedStarts
<1>6. LengthRead(buffer)
  BY <1>1, <1>3, <1>5 DEF LengthRead
<1>7. FrameSize \in 1 .. Len(buffer) /\ r = CheckFrame(buffer)
  BY <1>1, <1>4, <1>6, SizesType DEF parse_frame
<1>8. StartsFrame(buffer, FrameSize)
  <2>1. FrameSize \in 0 .. Len(buffer)
    BY <1>7
  <2>2. QED
    BY <2>1, AlignedStarts
<1>9. r # "frame" => r \in DataErrors /\ q + 1 \in Damaged
  BY <1>1, <1>2, <1>3, <1>5, <1>7, <1>8 DEF CheckFrame, DataErrors, Damaged
<1>10. QED
  BY <1>1, <1>2, <1>7, <1>9

\* The buffer without its first frame.
LEMMA FrameTakenOff ==
    ASSUME TypeOK, NEW q \in Nat, Aligned(q), FrameSize \in 1 .. Len(buffer),
           buffer' = Advance(buffer, FrameSize), sent' = sent
    PROVE  /\ FrameSize * (q + 1) + Len(buffer)' = sent'
           /\ \A i \in 1 .. Len(buffer)' : buffer'[i] = FrameSize * (q + 1) + i - 1
<1>1. buffer \in Seq(0 .. BodySize - 1) /\ Len(buffer) \in Nat /\ FrameSize \in Nat
  BY LenProperties, SizesType DEF TypeOK
<1>2. /\ Len(buffer') = Len(buffer) - FrameSize
      /\ \A k \in 1 .. Len(buffer) - FrameSize : buffer'[k] = buffer[FrameSize + k]
  BY <1>1, AdvanceProperties
<1>3. FrameSize * q \in Nat /\ FrameSize * (q + 1) = FrameSize * q + FrameSize
  BY StartOfFrame
<1>4. \A i \in 1 .. Len(buffer) : buffer[i] = FrameSize * q + i - 1
  BY DEF Aligned
<1>5. FrameSize * q + Len(buffer) = sent
  BY DEF Aligned
<1>6. QED
  BY <1>1, <1>2, <1>3, <1>4, <1>5

LEMMA FrameAligned ==
    ASSUME TypeOK, AlignedInv, DecodeFrame
    PROVE  AlignedInv'
<1> SUFFICES ASSUME DataDamaged'
             PROVE  \E q \in Nat : Aligned(q)'
  BY DEF AlignedInv
<1>1. DataDamaged /\ Damaged' = Damaged
  BY DEF DecodeFrame, DataDamaged, Damaged
<1>2. PICK q \in Nat : Aligned(q)
  BY <1>1 DEF AlignedInv
<1>3. /\ FrameSize \in 1 .. Len(buffer) /\ FrameAt(buffer[1]) = q + 1
      /\ q + 1 \in 1 .. Frames /\ damage[q + 1] \notin {"message", "header"}
  <2>1. /\ FrameSize \in 1 .. Len(buffer) /\ FrameAt(buffer[1]) = q + 1
        /\ q + 1 \in 1 .. Frames
    BY <1>1, <1>2, AlignedParse DEF DecodeFrame
  <2>2. damage[q + 1] \notin {"message", "header"}
    BY <2>1, FrameComplete DEF DecodeFrame
  <2>3. QED
    BY <2>1, <2>2
<1>4. /\ FrameSize * (q + 1) + Len(buffer)' = sent'
      /\ \A i \in 1 .. Len(buffer)' : buffer'[i] = FrameSize * (q + 1) + i - 1
  BY <1>2, <1>3, FrameTakenOff DEF DecodeFrame
<1>5. DecodedSet' = (1 .. q + 1) \ Damaged
  <2>1. decoded \in Seq(1 .. Frames) /\ decoded' = Append(decoded, q + 1)
    BY <1>3 DEF DecodeFrame, TypeOK
  <2>2. DecodedSet' = DecodedSet \cup {q + 1}
    BY <1>3, <2>1 DEF DecodedSet
  <2>3. q + 1 \notin Damaged
    BY <1>1, <1>3 DEF DataDamaged
  <2>4. QED
    BY <1>2, <2>2, <2>3 DEF Aligned
<1>6. Aligned(q + 1)'
  BY <1>1, <1>4, <1>5 DEF Aligned
<1>7. QED
  BY <1>6

LEMMA ErrorAligned ==
    ASSUME TypeOK, AlignedInv, NEW e \in Errors, DecodeError(e)
    PROVE  AlignedInv'
<1> SUFFICES ASSUME DataDamaged'
             PROVE  \E q \in Nat : Aligned(q)'
  BY DEF AlignedInv
<1>1. DataDamaged /\ Damaged' = Damaged /\ DecodedSet' = DecodedSet /\ sent' = sent
  BY DEF DecodeError, DataDamaged, Damaged, DecodedSet
<1>2. PICK q \in Nat : Aligned(q)
  BY <1>1 DEF AlignedInv
<1>3. /\ FrameSize \in 1 .. Len(buffer) /\ q + 1 \in Damaged /\ e \in DataErrors
  <2>1. e # "wait" /\ e # "frame" /\ e \in parse_frame(buffer) /\ buffer # << >>
    BY DEF DecodeError, Errors, PreludeErrors, DataErrors, OtherErrors
  <2>2. QED
    BY <1>1, <1>2, <2>1, AlignedParse
<1>4. CASE buffer' = buffer
  BY <1>1, <1>2, <1>4 DEF Aligned
<1>5. CASE buffer' = try_recover(buffer, e)
  <2>1. buffer' = Advance(buffer, FrameSize)
    BY <1>3, <1>5 DEF try_recover
  <2>2. /\ FrameSize * (q + 1) + Len(buffer)' = sent'
        /\ \A i \in 1 .. Len(buffer)' : buffer'[i] = FrameSize * (q + 1) + i - 1
    BY <1>1, <1>2, <1>3, <2>1, FrameTakenOff
  <2>3. (1 .. q + 1) \ Damaged = (1 .. q) \ Damaged
    BY <1>3
  <2>4. Aligned(q + 1)'
    BY <1>1, <1>2, <2>2, <2>3 DEF Aligned
  <2>5. QED
    BY <2>4
<1>6. QED
  BY <1>4, <1>5 DEF DecodeError

LEMMA FeedAligned ==
    ASSUME TypeOK, AlignedInv, NEW n \in ChunkSizes, Feed(n)
    PROVE  AlignedInv'
<1> SUFFICES ASSUME DataDamaged'
             PROVE  \E q \in Nat : Aligned(q)'
  BY DEF AlignedInv
<1> DEFINE size == IF n < BodySize - sent THEN n ELSE BodySize - sent
<1>0. size \in Nat /\ sent \in Nat /\ sent + size <= BodySize
  BY SizesType, FramesAssumption DEF TypeOK
<1>1. /\ sent' = sent + size /\ decoded' = decoded /\ damage' = damage
      /\ buffer' = buffer \o Bytes(sent, size)
      /\ dropped' = dropped
  BY DEF Feed, DataDamaged
<1> HIDE DEF size
<1>2. DataDamaged /\ Damaged' = Damaged /\ DecodedSet' = DecodedSet
  BY <1>1 DEF DataDamaged, Damaged, DecodedSet
<1>3. PICK q \in Nat : Aligned(q)
  BY <1>2 DEF AlignedInv
<1>4. /\ Len(buffer) \in Nat /\ Len(buffer') = Len(buffer) + size
      /\ \A k \in 1 .. Len(buffer) : buffer'[k] = buffer[k]
      /\ \A k \in Len(buffer) + 1 .. Len(buffer) + size :
              buffer'[k] = sent + (k - Len(buffer)) - 1
  <2> DEFINE c == buffer \o Bytes(sent, size)
  <2>1. /\ Len(buffer) \in Nat /\ Len(c) = Len(buffer) + size
        /\ \A k \in 1 .. Len(buffer) : c[k] = buffer[k]
        /\ \A k \in Len(buffer) + 1 .. Len(buffer) + size :
                c[k] = sent + (k - Len(buffer)) - 1
    BY <1>0, AppendBytes, ZenonT(30) DEF TypeOK
  <2>2. buffer' = c
    BY <1>1
  <2> HIDE DEF c
  <2>3. QED
    BY <2>1, <2>2
<1>5. FrameSize * q \in Nat
  BY StartOfFrame
<1>6. FrameSize * q + Len(buffer)' = sent'
  BY <1>0, <1>1, <1>3, <1>4, <1>5 DEF Aligned
<1>7. \A i \in 1 .. Len(buffer)' : buffer'[i] = FrameSize * q + i - 1
  <2> TAKE i \in 1 .. Len(buffer)'
  <2>1. i \in 1 .. Len(buffer) \/ i \in Len(buffer) + 1 .. Len(buffer) + size
    BY <1>0, <1>4
  <2>2. FrameSize * q + Len(buffer) = sent
    BY <1>3 DEF Aligned
  <2>3. CASE i \in 1 .. Len(buffer)
    BY <1>3, <1>4, <2>3 DEF Aligned
  <2>4. CASE i \in Len(buffer) + 1 .. Len(buffer) + size
    <3> DEFINE first == FrameSize * q
    <3>1. buffer'[i] = sent + (i - Len(buffer)) - 1 /\ i \in Int
      BY <1>4, <2>4
    <3>2. first \in Nat /\ Len(buffer) \in Nat /\ sent = first + Len(buffer)
      BY <1>4, <1>5, <2>2
    <3> HIDE DEF first
    <3>3. sent + (i - Len(buffer)) - 1 = first + i - 1
      BY <3>1, <3>2
    <3>4. buffer'[i] = first + i - 1
      BY <3>1, <3>3
    <3>5. QED
      BY <3>4 DEF first
  <2>5. QED
    BY <2>1, <2>3, <2>4
<1>8. Aligned(q)'
  BY <1>2, <1>3, <1>6, <1>7 DEF Aligned
<1>9. QED
  BY <1>8

LEMMA AlignedInit ==
    ASSUME Init
    PROVE  AlignedInv
<1>1. Aligned(0)
  BY SizesType DEF Init, Aligned, DecodedSet
<1>2. QED
  BY <1>1 DEF AlignedInv

LEMMA AlignedNext ==
    ASSUME TypeOK, AlignedInv, [Next]_vars
    PROVE  AlignedInv'
<1>1. CASE \E n \in ChunkSizes : Feed(n)
  BY <1>1, FeedAligned
<1>2. CASE DecodeFrame
  BY <1>2, FrameAligned
<1>3. CASE \E e \in Errors : DecodeError(e)
  BY <1>3, ErrorAligned
<1>4. CASE IterStops \/ DecodeNone \/ UNCHANGED vars
  <2>1. UNCHANGED <<damage, sent, buffer, decoded, dropped>>
    BY <1>4 DEF IterStops, DecodeNone, vars
  <2>2. QED
    BY <2>1 DEF AlignedInv, Aligned, DataDamaged, Damaged, DecodedSet
<1>5. QED
  BY <1>1, <1>2, <1>3, <1>4 DEF Next

\* Damage to the data of frames costs those frames and no other: whatever the
\* chunks, what has been handed on is every sound frame before the first byte
\* that is left, once and in order (decode, try_recover).
THEOREM OnlyDamagedLost == Spec => []LosesOnlyDamaged
<1> DEFINE Inv == TypeOK /\ ErrorsPaid /\ OrderInv /\ AlignedInv
<1>1. Init => Inv
  BY ErrorsPaidInit, OrderedInit, AlignedInit
<1>2. Inv /\ [Next]_vars => Inv'
  BY ErrorsPaidNext, OrderedNext, AlignedNext
<1>3. Inv => LosesOnlyDamaged
  <2> SUFFICES ASSUME Inv, DataDamaged
               PROVE  /\ AtStart(FirstByte) /\ Increasing(decoded)
                      /\ DecodedSet = (1 .. FirstByte \div FrameSize) \ Damaged
    BY DEF LosesOnlyDamaged, DataDamaged, DecodedSet
  <2>1. PICK q \in Nat : Aligned(q)
    BY DEF AlignedInv
  <2>2. FirstByte = FrameSize * q
    <3>1. CASE buffer = << >>
      <4>1. Len(buffer) = 0 /\ FrameSize * q \in Nat
        BY <3>1, StartOfFrame
      <4>2. QED
        BY <2>1, <3>1, <4>1 DEF FirstByte, Aligned
    <3>2. CASE buffer # << >>
      <4>1. 0 \in 0 .. Len(buffer)
        BY <3>2, FirstTyped
      <4>2. QED
        BY <2>1, <3>2, <4>1, AlignedStarts DEF FirstByte
    <3>3. QED
      BY <3>1, <3>2
  <2>3. Increasing(decoded)
    <3>1. DOMAIN decoded = 1 .. Len(decoded)
      BY LenProperties DEF TypeOK
    <3>2. QED
      BY <3>1 DEF OrderInv, DecodedSound, Increasing
  <2>4. QED
    BY <2>1, <2>2, <2>3, StartOfFrame DEF Aligned
<1>4. QED
  BY <1>1, <1>2, <1>3, PTL DEF Spec
=============================================================================
