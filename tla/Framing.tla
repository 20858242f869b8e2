------------------------------- MODULE Framing -------------------------------
(***************************************************************************)
(* tunnel/framing.js: frames over a byte stream.  The encoder prefixes the *)
(* payload with a header; TCP delivers the bytes in chunks of any size;    *)
(* the parser buffers what it has and returns the frames that are whole.   *)
(*                                                                         *)
(* The header is two bytes here, the id and the length (in the code nine:  *)
(* type, id and length), and a payload byte may look like either.  The     *)
(* encoder checks no length; a header whose length is above MaxLength      *)
(* makes push throw, and the caller destroys the socket.                   *)
(***************************************************************************)
EXTENDS Naturals, Sequences

CONSTANTS
    Byte,       \* the values of a byte, lengths among them
    MaxLength,  \* MAX_FRAME_LENGTH
    MaxFrames   \* bound: frames sent

ASSUME FramingAssumption == Byte \subseteq Nat /\ MaxLength \in Nat /\ MaxFrames \in Nat

HeaderSize == 2

VARIABLES
    sent,      \* frames handed to the encoder
    wire,      \* bytes under way
    buffer,    \* this.buffer of the parser
    got,       \* frames that push returned
    thrown     \* push threw

vars == <<sent, wire, buffer, got, thrown>>

Init == sent = << >> /\ wire = << >> /\ buffer = << >> /\ got = << >> /\ thrown = FALSE

Frame == [id : Byte, payload : UNION {[1 .. n -> Byte] : n \in 0 .. MaxLength}]
TooLong == [id : Byte, payload : {[i \in 1 .. MaxLength + 1 |-> b] : b \in Byte}]

encodeFrame(f) == <<f.id, Len(f.payload)>> \o f.payload

Send ==
    /\ Len(sent) < MaxFrames /\ ~thrown
    /\ \E f \in Frame \cup TooLong :
        /\ sent' = Append(sent, f)
        /\ wire' = wire \o encodeFrame(f)
    /\ UNCHANGED <<buffer, got, thrown>>

-----------------------------------------------------------------------------
LengthOf(b) == b[2]
Oversized(b) == Len(b) >= HeaderSize /\ LengthOf(b) > MaxLength

\* mutant: an empty payload is not a frame
WholeNonEmpty(b) == Len(b) >= HeaderSize /\ Len(b) > HeaderSize /\ Len(b) >= HeaderSize + LengthOf(b)
\* The next frame of b is all there.
Whole(b) == Len(b) >= HeaderSize /\ Len(b) >= HeaderSize + LengthOf(b)

First(b) == [id |-> b[1], payload |-> SubSeq(b, HeaderSize + 1, HeaderSize + LengthOf(b))]

\* mutant: off by one, the last byte of the frame stays
RestLate(b) == SubSeq(b, HeaderSize + LengthOf(b), Len(b))
Rest(b) == SubSeq(b, HeaderSize + LengthOf(b) + 1, Len(b))

\* One turn of the while loop of push, which may leave it.
Turn(s) ==
    IF Oversized(s.rest) \/ ~Whole(s.rest) THEN s
    ELSE [frames |-> Append(s.frames, First(s.rest)), rest |-> Rest(s.rest)]

\* The loop on the bytes b: a turn that does not leave it takes a header at least.
Parse(b) ==
    LET most == Len(b) \div HeaderSize
        turns[n \in 0 .. most] ==
          IF n = 0 THEN [frames |-> << >>, rest |-> b] ELSE Turn(turns[n - 1])
        end == turns[most]
    IN  [frames |-> end.frames, rest |-> end.rest, thrown |-> Oversized(end.rest)]

\* Some bytes arrive.  A push that throws returns none of the frames before the bad one.
push ==
    /\ wire # << >> /\ ~thrown
    /\ \E n \in 1 .. Len(wire) :
        LET parsed == Parse(buffer \o SubSeq(wire, 1, n)) IN
        /\ wire' = SubSeq(wire, n + 1, Len(wire))
        /\ buffer' = parsed.rest
        /\ got' = IF parsed.thrown THEN got ELSE got \o parsed.frames
        /\ thrown' = parsed.thrown
    /\ UNCHANGED sent

Next == Send \/ push
Spec == Init /\ [][Next]_vars

-----------------------------------------------------------------------------
(* Properties *)

IsPrefixOf(s, t) == Len(s) <= Len(t) /\ s = SubSeq(t, 1, Len(s))

\* However TCP cuts the stream, the frames come out as they went in, in order,
\* and nothing that comes after a header which claims too much is taken for one.
FramesIntact == IsPrefixOf(got, sent) /\ \A i \in DOMAIN got : got[i] \in Frame

\* Nothing is held back: when every byte has arrived, so has every frame, and
\* the buffer is empty; push throws if and only if a frame is too long.
NothingHeld ==
    /\ wire = << >> /\ (\A i \in DOMAIN sent : sent[i] \in Frame) => got = sent /\ buffer = << >>
    /\ thrown => \E i \in DOMAIN sent : sent[i] \notin Frame
    /\ wire = << >> /\ (\E i \in DOMAIN sent : sent[i] \notin Frame) => thrown
=============================================================================
