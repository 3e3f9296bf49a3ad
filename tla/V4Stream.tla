------------------------------ MODULE V4Stream ------------------------------
(***************************************************************************)
(* One direction of a Snell v4 connection: the frames one v4Writer emits,  *)
(* the bytes on the way, and the v4Reader that takes them back apart while *)
(* Relay's read deadline may expire at any byte.  The reading side is      *)
(* written as its callers use it: Relay reads until an error; then the     *)
(* deadline is lifted and the stream is drained for the zero chunk         *)
(* (handleTCP on the server, PoolConn.Close on the client).                *)
(*                                                                         *)
(* Bytes come in units: a salt, a sealed header and a sealed body          *)
(* (padding and payload) are Units units each, so that a read can stop     *)
(* inside one.  A part opens only under the key and the nonce it was       *)
(* sealed with, and only whole.  A payload that would itself read as a     *)
(* header (7 bytes, the first one 4, unpadded) is left out.                *)
(***************************************************************************)
EXTENDS Integers, Sequences

CONSTANT MaxFrames      \* bound: frames the writer emits

ASSUME MaxFramesAssumption == MaxFrames \in Nat

Units == 2              \* units of a part, and pieces of a payload
Kinds == {"data", "zero"}

VARIABLES
    sent,       \* kinds of the frames written
    wnonce,     \* v4Writer.nonce
    wire,       \* units written
    filled,     \* ... of which read from the socket
    pos,        \* ... of which consumed by the reader
    r,          \* v4Conn.r: none, good (keyed by the writer's salt), bad
    rnonce,     \* v4Reader.nonce
    need,       \* the part io.ReadFull is reading, or none
    taken,      \* units of it that it has
    buf,        \* pieces in v4Reader.buf
    frame,      \* ... and the frame they are from
    dl,         \* the read deadline has passed
    phase,      \* the caller: relay, drain, done
    got,        \* what Read has returned: pieces and zero chunks
    lost        \* a deadline fell inside a frame

writer == <<sent, wnonce, wire>>
reader == <<r, rnonce, buf, frame>>
vars == <<writer, filled, pos, reader, need, taken, dl, phase, got, lost>>

Unit == [part : {"salt", "header", "body"}, frame : 1..MaxFrames,
         nonce : 0..2 * MaxFrames, at : 1..Units]

TypeOK ==
    /\ sent \in Seq(Kinds) /\ Len(sent) <= MaxFrames
    /\ wnonce \in 0..2 * MaxFrames
    /\ wire \in Seq(Unit)
    /\ filled \in 0..Len(wire) /\ pos \in 0..filled
    /\ r \in {"none", "good", "bad"} /\ rnonce \in Nat
    /\ need \in {"none", "salt", "header", "body"} /\ taken \in 0..Units
    /\ buf \in 0..Units /\ frame \in 0..MaxFrames
    /\ dl \in BOOLEAN /\ lost \in BOOLEAN
    /\ phase \in {"relay", "drain", "done"}
    /\ got \in Seq((1..MaxFrames) \X (0..Units))

Init ==
    /\ sent = <<>> /\ wnonce = 0 /\ wire = <<>>
    /\ filled = 0 /\ pos = 0
    /\ r = "none" /\ rnonce = 0 /\ buf = 0 /\ frame = 0
    /\ need = "none" /\ taken = 0
    /\ dl = FALSE /\ phase = "relay" /\ got = <<>> /\ lost = FALSE

-----------------------------------------------------------------------------
(* The writer *)

Part(p, f, n) ==
    [i \in 1..Units |-> [part |-> p, frame |-> f, nonce |-> n, at |-> i]]
Salt(f) == IF f = 1 THEN Part("salt", f, 0) ELSE <<>>

(* Mutant: a zero chunk advances the nonce as a data frame does. *)
WriteFrameSealsEmpty(k) ==
    /\ Len(sent) < MaxFrames
    /\ sent' = Append(sent, k)
    /\ LET f == Len(sent')
       IN wire' = wire \o Salt(f) \o Part("header", f, wnonce)
                       \o (IF k = "data" THEN Part("body", f, wnonce + 1) ELSE <<>>)
    /\ wnonce' = wnonce + 2
    /\ UNCHANGED <<filled, pos, reader, need, taken, dl, phase, got, lost>>

(* writeFrame: the salt goes before the first frame; the header and a       *)
(* payload are sealed with a nonce each, and an empty payload is not        *)
(* sealed.                                                                  *)
WriteFrame(k) ==
    /\ Len(sent) < MaxFrames
    /\ sent' = Append(sent, k)
    /\ LET f == Len(sent')
       IN wire' = wire \o Salt(f) \o Part("header", f, wnonce)
                       \o (IF k = "data" THEN Part("body", f, wnonce + 1) ELSE <<>>)
    /\ wnonce' = wnonce + (IF k = "data" THEN 2 ELSE 1)
    /\ UNCHANGED <<filled, pos, reader, need, taken, dl, phase, got, lost>>

-----------------------------------------------------------------------------
(* The reader *)

(* The units io.ReadFull holds are the whole part p, sealed with nonce n.   *)
Whole(p, n) ==
    \A i \in 1..Units :
        LET u == wire[pos - Units + i]
        IN u.part = p /\ u.nonce = n /\ u.at = i

(* The frame whose part io.ReadFull holds *)
FrameRead == wire[pos].frame

Reading(p) == need = p /\ taken = Units
Expect(p) == need' = p /\ taken' = 0

(* Mutant: r.buf is not advanced past what was copied when b was too small. *)
ReadRepeats ==
    /\ need = "none" /\ buf > 0 /\ phase # "done"
    /\ \E n \in 1..buf :
        /\ got' = got \o [i \in 1..n |-> <<frame, Units - buf + i>>]
        /\ buf' = IF n = buf THEN 0 ELSE buf
    /\ UNCHANGED <<writer, filled, pos, r, rnonce, frame, need, taken, dl, phase, lost>>

(* Read of what an earlier, smaller b left over *)
ReadBuffered ==
    /\ need = "none" /\ buf > 0 /\ phase # "done"
    /\ \E n \in 1..buf :
        /\ got' = got \o [i \in 1..n |-> <<frame, Units - buf + i>>]
        /\ buf' = buf - n
    /\ UNCHANGED <<writer, filled, pos, r, rnonce, frame, need, taken, dl, phase, lost>>

(* Read of the next frame; the first one begins with the salt.              *)
ReadNext ==
    /\ need = "none" /\ buf = 0 /\ phase # "done"
    /\ Expect(IF r = "none" THEN "salt" ELSE "header")
    /\ UNCHANGED <<writer, filled, pos, reader, dl, phase, got, lost>>

(* A read of the socket: whatever has arrived, into the bufio.Reader, and   *)
(* never more than the salt before there is one.                            *)
Fill ==
    /\ need # "none" /\ taken < Units /\ pos = filled /\ ~dl
    /\ \E n \in filled + 1..Len(wire) :
        /\ need = "salt" => n - filled <= Units - taken
        /\ filled' = n
    /\ UNCHANGED <<writer, pos, reader, need, taken, dl, phase, got, lost>>

Take ==
    /\ need # "none" /\ taken < Units /\ pos < filled
    /\ pos' = pos + 1 /\ taken' = taken + 1
    /\ UNCHANGED <<writer, filled, reader, need, dl, phase, got, lost>>

(* initReader *)
SaltRead ==
    /\ Reading("salt")
    /\ r' = IF Whole("salt", 0) THEN "good" ELSE "bad"
    /\ Expect("header")
    /\ UNCHANGED <<writer, filled, pos, rnonce, buf, frame, dl, phase, got, lost>>

(* Mutant: an empty payload is read like any other. *)
HeaderReadExpectsBody ==
    /\ Reading("header") /\ r = "good" /\ Whole("header", rnonce)
    /\ rnonce' = rnonce + 1
    /\ Expect("body") /\ UNCHANGED <<dl, phase, got>>
    /\ UNCHANGED <<writer, filled, pos, r, buf, frame, lost>>

(* readFrame: the header opens.  A zero chunk ends the Read, and with it    *)
(* the session: the next one begins, without a deadline.                    *)
HeaderRead ==
    /\ Reading("header") /\ r = "good" /\ Whole("header", rnonce)
    /\ rnonce' = rnonce + 1
    /\ \/ /\ sent[FrameRead] = "data"
          /\ Expect("body") /\ UNCHANGED <<dl, phase, got>>
       \/ /\ sent[FrameRead] = "zero"
          /\ Expect("none")
          /\ got' = Append(got, <<FrameRead, 0>>)
          /\ dl' = FALSE /\ phase' = "relay"
    /\ UNCHANGED <<writer, filled, pos, r, buf, frame, lost>>

BodyRead ==
    /\ Reading("body") /\ r = "good" /\ Whole("body", rnonce)
    /\ rnonce' = rnonce + 1
    /\ buf' = Units /\ frame' = FrameRead
    /\ Expect("none")
    /\ UNCHANGED <<writer, filled, pos, r, dl, phase, got, lost>>

(* Mutant: the drain goes on after an error. *)
FailedIgnored == phase' = "drain" /\ dl' = FALSE

(* An error ends Relay's pump, and a second one the drain.                  *)
Failed ==
    /\ phase' = IF phase = "relay" THEN "drain" ELSE "done"
    /\ dl' = FALSE

(* readFrame: a part does not open.  The nonce has advanced all the same.   *)
ReadFails ==
    /\ \E p \in {"header", "body"} :
        Reading(p) /\ ~(r = "good" /\ Whole(p, rnonce))
    /\ rnonce' = rnonce + 1
    /\ Expect("none")
    /\ Failed
    /\ UNCHANGED <<writer, filled, pos, r, buf, frame, got, lost>>

(* SetReadDeadline: Relay's, and the drain's on the client.                 *)
Deadline ==
    /\ ~dl /\ phase # "done"
    /\ dl' = TRUE
    /\ UNCHANGED <<writer, filled, pos, reader, need, taken, phase, got, lost>>

(* io.ReadFull gives up on the deadline; what it had is not put back.       *)
Interrupt ==
    /\ need # "none" /\ taken < Units /\ pos = filled /\ dl
    /\ lost' = (lost \/ taken > 0 \/ need = "body")
    /\ Expect("none")
    /\ Failed
    /\ UNCHANGED <<writer, filled, pos, reader, got>>

Reader == \/ ReadBuffered \/ ReadNext \/ Fill \/ Take
          \/ SaltRead \/ HeaderRead \/ BodyRead \/ ReadFails
Next == (\E k \in Kinds : WriteFrame(k)) \/ Reader \/ Deadline \/ Interrupt

Spec == Init /\ [][Next]_vars
(* Bytes written arrive, and the callers read in a loop.                    *)
FairSpec == Spec /\ WF_vars(Reader)

-----------------------------------------------------------------------------
(* h may come right after g: the next piece of the same payload, or the     *)
(* beginning of the next frame.                                             *)
Follows(g, h) ==
    \/ g[2] \in 1..Units - 1 /\ h = <<g[1], g[2] + 1>>
    \/ g[2] \in {0, Units} /\ h[1] = g[1] + 1 /\ h[2] \in {0, 1}

(* Read returns the stream that was written: every payload byte and every   *)
(* zero chunk, in its place, once and with none left out in between -       *)
(* whatever the sizes of b, the segments TCP delivers, and the deadlines    *)
(* (v4Reader.Read, readFrame).                                              *)
ReadsWhatWasWritten ==
    /\ \A i \in 1..Len(got) : got[i][2] = 0 <=> sent[got[i][1]] = "zero"
    /\ got # <<>> => Follows(<<0, 0>>, got[1])
    /\ \A i \in 1..Len(got) - 1 : Follows(got[i], got[i + 1])

(* A part fails to open only after a deadline has fallen inside a frame:    *)
(* the two nonces and the lazily sent salt stay in step by themselves, and  *)
(* a deadline between frames, the usual one, does no harm.                  *)
OpensUnlessLost ==
    ~lost =>
        /\ Reading("salt") => Whole("salt", 0)
        /\ \A p \in {"header", "body"} :
            Reading(p) => r = "good" /\ Whole(p, rnonce)

(* Once it has, the connection returns nothing more, neither data nor a     *)
(* zero chunk: no byte is silently skipped, and a drain that follows ends   *)
(* in an error and the connection's close.                                  *)
LostIsSilent == [][lost => got' = got]_vars

(* A zero chunk that was written is read, unless a deadline passes first or *)
(* one fell inside a frame before.                                          *)
ZeroRead(f) == \E i \in 1..Len(got) : got[i] = <<f, 0>>
ZeroChunkRead ==
    \A f \in 1..MaxFrames :
        (f \in 1..Len(sent) /\ sent[f] = "zero")
            ~> (ZeroRead(f) \/ dl \/ lost \/ phase = "done")

(* The reader takes the frames one by one, whole and in the order they were *)
(* written, and none once a deadline has fallen inside one: what both ends  *)
(* of a connection rely on (v4Reader.Read, readFrame).  A frame is taken    *)
(* when its last part has been opened.                                      *)
Opened == IF buf > 0 THEN frame ELSE IF got = <<>> THEN 0 ELSE got[Len(got)][1]
Channel == INSTANCE FrameChannel
               WITH Burst <- 1, q <- SubSeq(sent, Opened + 1, Len(sent)), lost <- lost
ImplementsChannel == Channel!Spec

(* server.go:506-508: "Reset any deadline set by Relay so we can talk to    *)
(* the client one more time, then send our zero chunk and ensure the        *)
(* client's zero chunk has been drained": the reader still understands the  *)
(* client after Relay's deadline.                                           *)
ReadableAfterDeadline ==
    phase = "drain" /\ Reading("header") => r = "good" /\ Whole("header", rnonce)
=============================================================================
