---------------------------- MODULE GrpcWebBody ----------------------------
(* readGrpcWebResponseBody of grpc-web-format.ts: a response body arrives in *)
(* chunks that are cut anywhere, as bytes or as base64 text, and is taken    *)
(* apart into frames. A frame is a type byte, four bytes of length and data. *)
(* The connection may also close anywhere, which looks like the end.         *)
EXTENDS Integers, SequencesExt

CONSTANTS
    Bodies    \* the bodies a server may send: sequences of frames

Byte == 0 .. 255

\* The frame types.
DATA == 0
TRAILER == 128

Frames == [type : {DATA, TRAILER}, data : Seq(Byte)]

\* Data frames, then at most one trailer frame.
ASSUME BodiesAssumption ==
    \A b \in Bodies : b \in Seq(Frames)
                      /\ \A i \in DOMAIN b : b[i].type = TRAILER => i = Len(b)

-----------------------------------------------------------------------------
(* The wire. The server frames as createGrpcWebRequestBody does.             *)

Length4(n) ==
    <<(n \div 16777216) % 256, (n \div 65536) % 256, (n \div 256) % 256, n % 256>>

Encode(f) == <<f.type>> \o Length4(Len(f.data)) \o f.data

Bytes(b) == FlattenSeq([i \in DOMAIN b |-> Encode(b[i])])

\* base64: a group of four characters stands for one to three bytes. A
\* character of the wire is its group and its place in it.
Groups(s) == [g \in 1 .. (Len(s) + 2) \div 3 |->
                SubSeq(s, 3 * g - 2, IF 3 * g > Len(s) THEN Len(s) ELSE 3 * g)]
Base64(s) == FlattenSeq([g \in DOMAIN Groups(s) |->
                           [at \in 1 .. 4 |-> [group |-> Groups(s)[g], at |-> at]]])

\* A server may encode the whole body, or each frame for itself, with padding
\* inside the body.
Encodings == {"binary", "text", "padded text"}
Wire(b, encoding) ==
    IF encoding = "binary" THEN Bytes(b)
    ELSE IF encoding = "text" THEN Base64(Bytes(b))
    ELSE FlattenSeq([i \in DOMAIN b |-> Base64(Encode(b[i]))])

-----------------------------------------------------------------------------
VARIABLES
    body,         \* what the server sends
    encoding,     \* and how
    arrived,      \* how much of the wire has been read from the stream
    base64queue,  \* characters that do not make up groups of four yet
    byteQueue,    \* bytes that do not make up a frame yet
    frames,       \* the frames given to onFrame
    result        \* of readGrpcWebResponseBody: its promise

wire == Wire(body, encoding)
bodyVars == <<body, encoding, arrived, base64queue, byteQueue, frames, result>>

BodyInit ==
    /\ body \in Bodies /\ encoding \in Encodings
    /\ arrived = 0 /\ base64queue = <<>> /\ byteQueue = <<>>
    /\ frames = <<>> /\ result = "pending"

\* (msgLen << 8) + byte, four times: a signed 32 bit integer.
MsgLen(s) ==
    (IF s[2] < 128 THEN s[2] ELSE s[2] - 256) * 16777216
      + s[3] * 65536 + s[4] * 256 + s[5]

\* Is a data frame at the front of the queue, with all of its bytes?
HasFrame(s) == Len(s) >= 5 /\ s[1] = DATA /\ Len(s) - 5 >= MsgLen(s)

\* "multiple of 4": the part of a base64 queue that is safe to decode.
SafeLen(s) == Len(s) - (Len(s) % 4)

\* base64decode of a safe part: the group of every fourth character.
Base64Decode(s) == FlattenSeq([g \in 1 .. Len(s) \div 4 |-> s[4 * g].group])

\* Mutant: an incomplete group is thrown away.
ReceiveTextDrops(chunk) ==
    LET queue == base64queue \o chunk IN
    /\ byteQueue' = byteQueue \o Base64Decode(SubSeq(queue, 1, SafeLen(queue)))
    /\ base64queue' = <<>>

\* A chunk of text: what is safe is decoded (nothing, if it is empty).
ReceiveText(chunk) ==
    LET queue == base64queue \o chunk IN
    /\ byteQueue' = byteQueue \o Base64Decode(SubSeq(queue, 1, SafeLen(queue)))
    /\ base64queue' = SubSeq(queue, SafeLen(queue) + 1, Len(queue))

ReceiveBinary(chunk) ==
    /\ byteQueue' = byteQueue \o chunk
    /\ UNCHANGED base64queue

\* The stream reader gives the next chunk. The loop over the data frames that
\* the chunk completes runs before the next one is awaited.
NextChunk ==
    /\ result = "pending" /\ ~HasFrame(byteQueue)
    /\ \E n \in 1 .. Len(wire) - arrived :
         LET chunk == SubSeq(wire, arrived + 1, arrived + n) IN
         /\ arrived' = arrived + n
         /\ IF encoding = "binary" THEN ReceiveBinary(chunk) ELSE ReceiveText(chunk)
    /\ UNCHANGED <<body, encoding, frames, result>>

\* One round of the loop over the available data frames.
EmitFrame ==
    /\ result = "pending" /\ HasFrame(byteQueue)
    /\ frames' = Append(frames, [type |-> DATA,
                                 data |-> SubSeq(byteQueue, 6, 5 + MsgLen(byteQueue))])
    /\ byteQueue' = SubSeq(byteQueue, 6 + MsgLen(byteQueue), Len(byteQueue))
    /\ UNCHANGED <<body, encoding, arrived, base64queue, result>>

\* "exit, but emit trailer if exists": the length in its header is not read.
AtEnd ==
    \/ byteQueue = <<>> /\ result' = "resolved" /\ UNCHANGED frames
    \/ /\ byteQueue # <<>>
       /\ byteQueue[1] # TRAILER \/ Len(byteQueue) < 5
       /\ result' = "premature EOF" /\ UNCHANGED frames
    \/ /\ byteQueue # <<>> /\ byteQueue[1] = TRAILER /\ Len(byteQueue) >= 5
       /\ frames' = Append(frames, [type |-> TRAILER,
                                    data |-> SubSeq(byteQueue, 6, Len(byteQueue))])
       /\ result' = "resolved"

\* The stream reader is done: at the end of the wire, or where it was cut.
EndOfStream ==
    /\ result = "pending" /\ ~HasFrame(byteQueue)
    /\ AtEnd
    /\ UNCHANGED <<body, encoding, arrived, base64queue, byteQueue>>

BodyNext == NextChunk \/ EmitFrame \/ EndOfStream

BodySpec == BodyInit /\ [][BodyNext]_bodyVars

-----------------------------------------------------------------------------
Whole(i) == i <= Len(body) /\ frames[i] = body[i]

\* The frames given to onFrame are those the server sent, in order, byte for
\* byte; only a trailer may be cut short.
FramesAsSent ==
    \A i \in DOMAIN frames :
        \/ Whole(i)
        \/ /\ i = Len(frames) /\ i <= Len(body)
           /\ frames[i].type = TRAILER /\ body[i].type = TRAILER
           /\ IsPrefix(frames[i].data, body[i].data)

\* The bytes that can be decoded from what has arrived.
Decodable ==
    IF encoding = "binary" THEN arrived
    ELSE Len(Base64Decode(SubSeq(wire, 1, arrived - (arrived % 4))))

\* Between two chunks, no data frame that has arrived is held back.
NothingHeldBack ==
    result = "pending" /\ ~HasFrame(byteQueue) =>
        \A i \in DOMAIN body :
            body[i].type = DATA /\ Len(Bytes(SubSeq(body, 1, i))) <= Decodable
                => i <= Len(frames)

\* A body that arrives whole is read whole; and when the promise resolves, every
\* frame of which a byte could be decoded was given out.
CompleteOrError ==
    /\ arrived = Len(wire) /\ result # "pending" =>
           result = "resolved" /\ frames = body
    /\ result = "resolved" =>
           \A i \in DOMAIN body : Len(frames) < i =>
               Len(Bytes(SubSeq(body, 1, i - 1))) >= Decodable

(* "read all fully available data frames" (readGrpcWebResponseBody): however *)
(* the wire is cut into chunks, and groups of base64 straddle them, a frame  *)
(* is given out unchanged as soon as it is there, and a body that is cut     *)
(* within a data frame, or in the five bytes that begin a trailer, ends in   *)
(* an error. Not so one that is cut between two frames, which the function   *)
(* cannot tell, or in the text of its trailer, which comes out shorter.      *)
BodyAsSent == FramesAsSent /\ NothingHeldBack /\ CompleteOrError

(* "The returned promise resolves when the response is complete": it does    *)
(* not when the last frame that has begun is not there to its end.           *)
ResolvesWhenComplete ==
    result = "resolved" =>
        \E i \in 0 .. Len(body) : Len(Bytes(SubSeq(body, 1, i))) = Decodable
=============================================================================
