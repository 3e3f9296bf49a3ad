------------------------------ MODULE V4Pacing ------------------------------
(***************************************************************************)
(* How a v4Writer sizes its frames: the first is small and padded, each    *)
(* later one of a burst may be larger, and a pause starts over.  Lengths   *)
(* are the program's, in bytes.                                            *)
(***************************************************************************)
EXTENDS Integers

CONSTANTS
    Pads,       \* initialPaddingLength: drawn once per writer
    Sizes       \* lengths of the slices callers write

ASSUME PadsAssumption == Pads \subseteq 256..511
ASSUME SizesAssumption == Sizes \subseteq Nat \ {0}

MTU == 1460                 \* v4FrameSize
MaxPayloadLength == 16383   \* 0x3FFF
SaltSize == 16
HeaderCipherSize == 23
Overhead == 16              \* AES-GCM's tag

VARIABLES
    pad,        \* initialPaddingLength
    saltSent,
    lastWrite,  \* never, recent, or idle: more than 30 s ago
    payloadLimit,
    left,       \* bytes of the Write under way that are not yet in a frame
    frame       \* the last frame: its salt, padding and payload lengths, and
                \* whether it opens a burst

vars == <<pad, saltSent, lastWrite, payloadLimit, left, frame>>

Frame == [salt : {0, SaltSize}, padding : 0..511,
          payload : 0..MaxPayloadLength, opens : BOOLEAN]

TypeOK ==
    /\ pad \in Pads
    /\ saltSent \in BOOLEAN
    /\ lastWrite \in {"never", "recent", "idle"}
    /\ payloadLimit \in 0..MaxPayloadLength
    /\ left \in Nat
    /\ frame \in Frame

(* newV4Writer; no frame is written as an empty one. *)
Init ==
    /\ pad \in Pads
    /\ saltSent = FALSE
    /\ lastWrite = "never"
    /\ payloadLimit = 0
    /\ left = 0
    /\ frame = [salt |-> 0, padding |-> 0, payload |-> 0, opens |-> FALSE]

Least(a, b) == IF a <= b THEN a ELSE b

(* Mutant: the first frame's limit forgets the padding. *)
LimitNowNoPadding ==
    CASE lastWrite = "never" -> MTU - 55
      [] lastWrite = "idle" -> MTU - 39
      [] OTHER -> payloadLimit

(* nextPayloadLimit: the limit it returns ... *)
LimitNow ==
    CASE lastWrite = "never" -> MTU - 55 - pad
      [] lastWrite = "idle" -> MTU - 39
      [] OTHER -> payloadLimit

(* ... and the one it keeps for the next frame. *)
LimitNext(l) ==
    IF l <= MaxPayloadLength - 1
    THEN Least(l + MTU - 39, MaxPayloadLength)
    ELSE MaxPayloadLength

(* nextFramePaddingLength *)
FramePadding(n) == IF saltSent \/ n = 0 THEN 0 ELSE pad

(* Mutant: the last frame of b ends one byte early. *)
FramePayloadOffByOne(l) == Least(l, left - 1)

(* Write: a limit out of range is replaced, and the slice ends with b. *)
FramePayload(l) ==
    Least(IF l <= 0 \/ l > MaxPayloadLength THEN MaxPayloadLength ELSE l, left)

(* writeFrame *)
WriteFrame(n, padding, opens) ==
    /\ frame' = [salt |-> IF saltSent THEN 0 ELSE SaltSize, padding |-> padding,
                 payload |-> n, opens |-> opens]
    /\ saltSent' = TRUE

(* Write is called; w.mux is held until its last frame is written. *)
Write ==
    /\ left = 0
    /\ \E n \in Sizes : left' = n
    /\ UNCHANGED <<pad, saltSent, lastWrite, payloadLimit, frame>>

(* One turn of Write's loop *)
WriteNext ==
    /\ left > 0
    /\ LET n == FramePayload(LimitNow)
       IN /\ WriteFrame(n, FramePadding(n), lastWrite # "recent")
          /\ left' = left - n
    /\ payloadLimit' = LimitNext(LimitNow)
    /\ lastWrite' = "recent"
    /\ UNCHANGED pad

(* Write of an empty slice: a zero chunk. *)
WriteEmpty ==
    /\ left = 0
    /\ WriteFrame(0, 0, FALSE)
    /\ UNCHANGED <<pad, lastWrite, payloadLimit, left>>

(* WritePacketFrame, which refuses a longer b.  Both ends have written      *)
(* their first frame with Write before they send a packet.                  *)
WritePacketFrame(n) ==
    /\ left = 0 /\ saltSent
    /\ n <= MaxPayloadLength
    /\ WriteFrame(n, FramePadding(n), FALSE)
    /\ UNCHANGED <<pad, lastWrite, payloadLimit, left>>

(* 30 seconds without a Write.  Time passes between the frames of a Write   *)
(* too, when the connection is slow.                                        *)
Pause ==
    /\ lastWrite = "recent"
    /\ lastWrite' = "idle"
    /\ UNCHANGED <<pad, saltSent, payloadLimit, left, frame>>

Next == \/ Write \/ WriteNext \/ WriteEmpty \/ Pause
        \/ \E n \in 1..MaxPayloadLength : WritePacketFrame(n)

Spec == Init /\ [][Next]_vars

-----------------------------------------------------------------------------
FrameLength == frame.salt + HeaderCipherSize + frame.padding
                + (IF frame.payload = 0 THEN 0 ELSE frame.payload + Overhead)

(* The frame that carries the salt and the padding, and the first one after *)
(* a pause, go out in a single MTU, whatever padding was drawn and whether  *)
(* or not a zero chunk took the salt before (nextPayloadLimit,              *)
(* nextFramePaddingLength).                                                 *)
OpeningFrameFitsMTU ==
    frame.salt # 0 \/ frame.opens => FrameLength <= MTU

(* Write of data never emits a frame without payload, which the other end   *)
(* would take for a zero chunk and half-close the session; each frame takes *)
(* from b what it carries, so Write ends.                                   *)
DataNeverAsZeroChunk ==
    [][left > 0 /\ <<left, frame>>' # <<left, frame>> =>
        /\ frame'.payload \in 1..MaxPayloadLength
        /\ left' = left - frame'.payload]_vars

(* Within a burst the limit grows with every frame until it saturates.      *)
BurstRampsUp ==
    [][lastWrite = "recent" /\ left > 0 /\ left' # left =>
        payloadLimit' > payloadLimit \/ payloadLimit' = MaxPayloadLength]_vars
=============================================================================
