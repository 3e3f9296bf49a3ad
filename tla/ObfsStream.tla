------------------------------ MODULE ObfsStream ------------------------------
(***************************************************************************)
(* One direction of an obfuscated connection: a writer that wraps what it  *)
(* is given in TLS records or puts an HTTP message before it, and the      *)
(* reader at the other end, whose Read may be interrupted by a deadline    *)
(* anywhere and called again.  "up" is client to server, "down" the other  *)
(* way.                                                                    *)
(*                                                                         *)
(* The wire is known by where the data of its records begin: TLS puts a    *)
(* hello and a size before the first one, a head and a size before each    *)
(* later one, and on the way up the other extensions after the first; HTTP *)
(* puts a hello before everything.  A cursor says what the reader's next byte really    *)
(* is; pc and need say what the reader takes it for.  A part other than    *)
(* data has Units bytes, so that a read can stop inside it.                *)
(***************************************************************************)
EXTENDS Integers, Sequences

CONSTANTS
    Chunk,      \* chunkSize
    Slices,     \* lengths of the slices callers write
    Bufs,       \* lengths of the slices callers read into
    MaxData     \* bound: data bytes written

ASSUME ChunkAssumption == Chunk \in Nat \ {0}
ASSUME LengthsAssumption == Slices \subseteq Nat \ {0} /\ Bufs \subseteq Nat \ {0}
ASSUME MaxDataAssumption == MaxData \in Nat

Units == 2

VARIABLES
    mode, dir,  \* tls or http, up or down
    left,       \* bytes of the Write under way that are not yet in a record
    wst,        \* the writer: idle, made (hello or head built), sent (head sent)
    held,       \* its buffer of bufferPool: none, held, given (back already)
    bad,        \* the buffer has been overwritten
    wFirst,     \* firstRequest of the client, firstResponse of the server
    starts,     \* of a record: the data bytes in the records before it; the
                \* last entry is for the record that comes next
    whole,      \* the last record's data has been written
    foreign,    \* records made of another connection's bytes
    rec, part, off,     \* the cursor
    pc,         \* the reader: idle, the part it takes the next byte for
                \* (data: full, some, rest, body or raw), or skewed
    need,       \* bytes it expects in this part
    want,       \* len(b)
    remain,     \* TLS: bytes of the record left for later Reads; HTTP: len(buf) - offset
    rFirst,     \* firstResponse of the client, firstRequest of the server
    ticket,     \* ~sessionTicketDone, on the server
    dl,         \* the read deadline has passed
    got,        \* data bytes returned
    cut         \* a deadline fell where the reader cannot resume

kind   == <<mode, dir>>
writer == <<left, wst, held, bad, wFirst, starts, whole, foreign>>
cursor == <<rec, part, off>>
reader == <<pc, need, want, remain, rFirst, ticket>>
vars   == <<kind, writer, cursor, reader, dl, got, cut>>

Parts == {"hello", "head", "size", "data", "ext"}
Least(a, b) == IF a <= b THEN a ELSE b

(* The data length of each record, and of all of them *)
lens == [r \in 1..Len(starts) - 1 |-> starts[r + 1] - starts[r]]
Total == starts[Len(starts)]

TypeOK ==
    /\ mode \in {"tls", "http"} /\ dir \in {"up", "down"}
    /\ left \in Nat /\ wst \in {"idle", "made", "sent"}
    /\ held \in {"none", "held", "given"} /\ bad \in BOOLEAN /\ wFirst \in BOOLEAN
    /\ starts \in Seq(Nat) /\ Len(starts) > 0
    /\ lens \in Seq(Nat \ {0}) /\ whole \in BOOLEAN
    /\ foreign \in SUBSET (1..Len(lens))
    /\ rec \in 1..Len(lens) + 1 /\ part \in Parts /\ off \in Nat
    /\ pc \in {"idle", "hello", "head", "size", "ext",
               "full", "some", "rest", "body", "raw", "skewed"}
    /\ need \in Nat /\ want \in Nat /\ remain \in Nat
    /\ rFirst \in BOOLEAN /\ ticket \in BOOLEAN
    /\ dl \in BOOLEAN /\ got \in Nat /\ cut \in BOOLEAN

(* NewTLSObfsClient and NewTLSObfsServer, or their HTTP counterparts *)
Init ==
    /\ mode \in {"tls", "http"} /\ dir \in {"up", "down"}
    /\ left = 0 /\ wst = "idle" /\ held = "none" /\ bad = FALSE /\ wFirst = TRUE
    /\ starts = <<0>> /\ whole = TRUE /\ foreign = {}
    /\ rec = 1 /\ part = "hello" /\ off = 0
    /\ pc = "idle" /\ need = 0 /\ want = 0 /\ remain = 0
    /\ rFirst = TRUE /\ ticket = (mode = "tls" /\ dir = "up")
    /\ dl = FALSE /\ got = 0 /\ cut = FALSE

-----------------------------------------------------------------------------
(* The writer *)

(* Write is called. *)
Write ==
    /\ left = 0 /\ wst = "idle"
    /\ \E n \in Slices : Total + n <= MaxData /\ left' = n
    /\ UNCHANGED <<kind, wst, held, bad, wFirst, starts, whole, foreign, cursor, reader,
                   dl, got, cut>>

(* The next record takes up to chunkSize bytes; HTTP does not cut.          *)
RecordLen == IF mode = "tls" THEN Least(left, Chunk) ELSE left

(* makeClientHelloMsg and makeServerHello give their buffer back as they    *)
(* return its bytes.                                                        *)
MakeHello ==
    /\ left > 0 /\ wst = "idle" /\ mode = "tls" /\ wFirst
    /\ wst' = "made" /\ held' = "given" /\ bad' = FALSE
    /\ UNCHANGED <<kind, left, wFirst, starts, whole, foreign, cursor, reader, dl, got, cut>>

(* Mutant: write gives the head's buffer back before it is written. *)
MakeHeadGivenBack ==
    /\ left > 0 /\ wst = "idle" /\ mode = "tls" /\ ~wFirst
    /\ wst' = "made" /\ held' = "given" /\ bad' = FALSE
    /\ UNCHANGED <<kind, left, wFirst, starts, whole, foreign, cursor, reader, dl, got, cut>>

(* write builds a record's head; its buffer is kept until it returns.       *)
MakeHead ==
    /\ left > 0 /\ wst = "idle" /\ mode = "tls" /\ ~wFirst
    /\ wst' = "made" /\ held' = "held" /\ bad' = FALSE
    /\ UNCHANGED <<kind, left, wFirst, starts, whole, foreign, cursor, reader, dl, got, cut>>

(* A buffer that was given back is taken and filled by another connection.  *)
OtherConnection ==
    /\ held = "given" /\ ~bad
    /\ bad' = TRUE
    /\ UNCHANGED <<kind, left, wst, held, wFirst, starts, whole, foreign, cursor, reader,
                   dl, got, cut>>

AddRecord(n) == starts' = Append(starts, Total + n)

(* Conn.Write of the hello with the data in it, or of the head.             *)
SendMade ==
    /\ wst = "made"
    /\ AddRecord(RecordLen)
    /\ foreign' = IF bad THEN foreign \cup {Len(lens) + 1} ELSE foreign
    /\ wFirst' = FALSE
    /\ IF wFirst
       THEN wst' = "idle" /\ held' = "none" /\ whole' = TRUE /\ left' = left - RecordLen
       ELSE wst' = "sent" /\ whole' = FALSE /\ UNCHANGED <<held, left>>
    /\ UNCHANGED <<kind, bad, cursor, reader, dl, got, cut>>

(* The data behind a head *)
SendData ==
    /\ wst = "sent"
    /\ wst' = "idle" /\ held' = "none" /\ whole' = TRUE /\ left' = left - RecordLen
    /\ UNCHANGED <<kind, bad, wFirst, starts, foreign, cursor, reader, dl, got, cut>>

(* HTTP: the message, and then the data. *)
SendHttpHello ==
    /\ left > 0 /\ wst = "idle" /\ mode = "http" /\ wFirst
    /\ AddRecord(left)
    /\ wFirst' = FALSE /\ wst' = "sent" /\ whole' = FALSE
    /\ UNCHANGED <<kind, left, held, bad, foreign, cursor, reader, dl, got, cut>>

SendHttpData ==
    /\ left > 0 /\ wst = "idle" /\ mode = "http" /\ ~wFirst
    /\ AddRecord(left) /\ left' = 0
    /\ UNCHANGED <<kind, wst, held, bad, wFirst, whole, foreign, cursor, reader, dl, got, cut>>

Writer == MakeHello \/ MakeHead \/ SendMade \/ SendData \/ SendHttpHello \/ SendHttpData

-----------------------------------------------------------------------------
(* The wire *)

(* The byte at the cursor has been written. *)
Arrived == rec <= Len(lens) /\ (part = "data" /\ rec = Len(lens) => whole)

PartLen == IF part = "data" THEN lens[rec] ELSE Units

(* The part that follows the one at the cursor *)
FollowingPart ==
    CASE part \in {"hello", "head"} /\ mode = "tls" -> "size"
      [] part = "hello" /\ mode = "http" -> "data"
      [] part = "size" -> "data"
      [] part = "data" /\ rec = 1 /\ mode = "tls" /\ dir = "up" -> "ext"
      [] part = "data" /\ mode = "http" -> "data"
      [] OTHER -> "head"
EndsRecord == part = "ext" \/ (part = "data" /\ FollowingPart # "ext")

Advance(k) ==
    IF off + k < PartLen
    THEN off' = off + k /\ UNCHANGED <<rec, part>>
    ELSE /\ off' = 0 /\ part' = FollowingPart
         /\ rec' = IF EndsRecord THEN rec + 1 ELSE rec

-----------------------------------------------------------------------------
(* The reader *)

IsData(p) == p \in {"full", "some", "rest", "body", "raw"}
Takes(p) == IF IsData(p) THEN "data" ELSE p
InStep == part = Takes(pc) /\ rec \notin foreign

Expect(p, n) == pc' = p /\ need' = n

(* Read is called: the rest of a record, the hello, the extensions after    *)
(* the first record's data, or the next record.  The one-shot flags are     *)
(* cleared before the reads they stand for.                                 *)
ReadTls(b) ==
    /\ pc = "idle" /\ mode = "tls"
    /\ want' = b
    /\ CASE remain > 0 -> Expect("rest", Least(remain, b)) /\ UNCHANGED <<rFirst, ticket>>
         [] remain = 0 /\ rFirst -> Expect("hello", Units) /\ rFirst' = FALSE /\ UNCHANGED ticket
         [] remain = 0 /\ ~rFirst /\ ticket -> Expect("ext", Units) /\ ticket' = FALSE /\ UNCHANGED rFirst
         [] OTHER -> Expect("head", Units) /\ UNCHANGED <<rFirst, ticket>>
    /\ UNCHANGED <<kind, writer, cursor, remain, dl, got, cut>>

(* ... of HTTP: what the last Read left of the body, the message, or the    *)
(* stream itself.                                                           *)
ReadHttp(b) ==
    /\ pc = "idle" /\ mode = "http"
    /\ want' = b
    /\ CASE remain > 0 ->
              /\ got' = got + Least(remain, b) /\ remain' = remain - Least(remain, b)
              /\ UNCHANGED <<pc, need>>
         [] remain = 0 /\ rFirst -> Expect("hello", Units) /\ UNCHANGED <<got, remain>>
         [] OTHER -> Expect("raw", b) /\ UNCHANGED <<got, remain>>
    /\ UNCHANGED <<kind, writer, cursor, rFirst, ticket, dl, cut>>

(* io.ReadFull takes a byte that is what it is taken for.                   *)
TakeByte == ~dl /\ Arrived /\ InStep /\ Advance(1)

(* A part before the data, all but its last byte *)
TakeMore ==
    /\ pc \in {"hello", "head", "size", "ext"} /\ need > 1
    /\ TakeByte
    /\ need' = need - 1
    /\ UNCHANGED <<kind, writer, pc, want, remain, rFirst, ticket, dl, got, cut>>

(* Mutant: the client reads a body behind the response, to the end of the   *)
(* connection.                                                              *)
TakeLastReadsBody ==
    /\ pc \in {"hello", "head", "size", "ext"} /\ need = 1
    /\ TakeByte
    /\ CASE pc \in {"hello", "head"} /\ mode = "tls" -> Expect("size", Units)
         [] pc = "ext" -> Expect("head", Units)
         [] pc = "size" -> Expect(IF lens[rec] > want THEN "some" ELSE "full", lens[rec])
         [] OTHER -> Expect("body", MaxData + 1)
    /\ UNCHANGED <<kind, writer, want, remain, rFirst, ticket, dl, got, cut>>

(* ... and its last byte.  A record longer than b is read with one Read     *)
(* from the connection, a shorter one in full; the body of the client's     *)
(* HTTP request is read in full, the server's response has none.            *)
TakeLast ==
    /\ pc \in {"hello", "head", "size", "ext"} /\ need = 1
    /\ TakeByte
    /\ CASE pc \in {"hello", "head"} /\ mode = "tls" -> Expect("size", Units) /\ UNCHANGED rFirst
         [] pc = "ext" -> Expect("head", Units) /\ UNCHANGED rFirst
         [] pc = "size" -> Expect(IF lens[rec] > want THEN "some" ELSE "full", lens[rec]) /\ UNCHANGED rFirst
         [] pc = "hello" /\ mode = "http" /\ dir = "up" -> Expect("body", lens[rec]) /\ UNCHANGED rFirst
         [] pc = "hello" /\ mode = "http" /\ dir = "down" -> Expect("idle", 0) /\ rFirst' = FALSE
    /\ UNCHANGED <<kind, writer, want, remain, ticket, dl, got, cut>>

(* The record that fits b, or the rest of one, byte by byte *)
TakeFull ==
    /\ pc \in {"full", "rest"}
    /\ TakeByte
    /\ got' = got + 1
    /\ remain' = IF pc = "rest" THEN remain - 1 ELSE 0
    /\ Expect(IF need = 1 THEN "idle" ELSE pc, need - 1)
    /\ UNCHANGED <<kind, writer, want, rFirst, ticket, dl, cut>>

(* The one Read of a longer record *)
TakeSome ==
    /\ pc = "some" /\ ~dl /\ Arrived /\ InStep
    /\ \E k \in 1..Least(want, lens[rec] - off) :
        /\ Advance(k)
        /\ got' = got + k /\ remain' = need - k
    /\ Expect("idle", 0)
    /\ UNCHANGED <<kind, writer, want, rFirst, ticket, dl, cut>>

(* Mutant: Read returns what fits b and drops the rest. *)
TakeBodyDropsRest ==
    /\ pc = "body"
    /\ TakeByte
    /\ IF need > 1
       THEN Expect("body", need - 1) /\ UNCHANGED <<rFirst, got>>
       ELSE /\ Expect("idle", 0) /\ rFirst' = FALSE
            /\ got' = got + Least(want, lens[rec])
    /\ UNCHANGED <<kind, writer, want, remain, ticket, dl, cut>>

(* io.ReadAll of the request's body; b gets what fits. *)
TakeBody ==
    /\ pc = "body"
    /\ TakeByte
    /\ IF need > 1
       THEN Expect("body", need - 1) /\ UNCHANGED <<remain, rFirst, got>>
       ELSE /\ Expect("idle", 0) /\ rFirst' = FALSE
            /\ got' = got + Least(want, lens[rec])
            /\ remain' = lens[rec] - Least(want, lens[rec])
    /\ UNCHANGED <<kind, writer, want, ticket, dl, cut>>

(* bio.Read after the handshake.  What bio already holds it returns after    *)
(* the deadline too.                                                        *)
TakeRaw ==
    /\ pc = "raw" /\ Arrived /\ InStep
    /\ \E k \in 1..Least(want, lens[rec] - off) :
        /\ Advance(k)
        /\ got' = got + k
    /\ Expect("idle", 0)
    /\ UNCHANGED <<kind, writer, want, remain, rFirst, ticket, dl, cut>>

(* The byte is not what it is taken for.  What follows is read as lengths   *)
(* and data it never was, and is not modelled.                              *)
TakeWrong ==
    /\ pc \notin {"idle", "skewed"} /\ ~dl /\ Arrived /\ ~InStep
    /\ pc' = "skewed"
    /\ UNCHANGED <<kind, writer, cursor, need, want, remain, rFirst, ticket, dl, got, cut>>

-----------------------------------------------------------------------------
(* The read deadline, and the caller that lifts it *)

Deadline ==
    /\ ~dl
    /\ dl' = TRUE
    /\ UNCHANGED <<kind, writer, cursor, reader, got, cut>>

Lift ==
    /\ dl /\ pc = "idle"
    /\ dl' = FALSE
    /\ UNCHANGED <<kind, writer, cursor, reader, got, cut>>

(* Where a Read can be given up and called again: in a record that is       *)
(* handed out in pieces, before a record, in HTTP's stream, and before      *)
(* HTTP's message has begun to arrive - not before TLS's hello.             *)
Resumable(r) ==
    \/ mode = "tls" /\ r > 0
    \/ part = "head" /\ off = 0
    \/ mode = "http" /\ (rFirst => part = "hello" /\ off = 0)

(* Mutant: a longer record's rest is kept only when its Read succeeds. *)
InterruptKeepsNothing ==
    /\ dl /\ pc \notin {"idle", "skewed"}
    /\ remain' = IF pc = "rest" THEN remain ELSE 0
    /\ cut' = (cut \/ ~Resumable(IF pc = "some" THEN need ELSE remain'))
    /\ Expect("idle", 0)
    /\ UNCHANGED <<kind, writer, cursor, want, rFirst, ticket, dl, got>>

(* Read returns the deadline's error.  readBlock's remainder is set also    *)
(* when its one Read fails, and is 0 when io.ReadFull does.                 *)
Interrupt ==
    /\ dl /\ pc \notin {"idle", "skewed"}
    /\ remain' = CASE pc = "some" -> need
                   [] pc = "rest" -> remain
                   [] OTHER -> 0
    /\ cut' = (cut \/ ~Resumable(remain'))
    /\ Expect("idle", 0)
    /\ UNCHANGED <<kind, writer, cursor, want, rFirst, ticket, dl, got>>

Call == \E b \in Bufs : ReadTls(b) \/ ReadHttp(b)
Reader == \/ Call
          \/ TakeMore \/ TakeLast \/ TakeFull \/ TakeSome \/ TakeBody \/ TakeRaw \/ TakeWrong

Next == Write \/ Writer \/ OtherConnection \/ Reader \/ Deadline \/ Lift \/ Interrupt

Spec == Init /\ [][Next]_vars
(* Writers finish what they began, callers read in a loop, and bytes        *)
(* written arrive.                                                          *)
FairSpec == Spec /\ WF_vars(Writer) /\ WF_vars(Reader)

-----------------------------------------------------------------------------
(* A reader falls out of step with the stream only after a deadline has     *)
(* fallen where its Read cannot resume, or when the hello was overwritten   *)
(* in the buffer it was sent from: the one-shot flags, the sizes and the    *)
(* rest of a record agree with what the writer sends whatever the lengths   *)
(* of the slices, a deadline between records or in a record longer than b   *)
(* does no harm, and no later record carries another connection's bytes     *)
(* (readBlock, Read, write).                                                *)
InStepUnlessCut == pc = "skewed" => cut \/ 1 \in foreign

(* What is written is read: the reader never waits for bytes that are not   *)
(* on their way, unless a deadline passes first or an earlier one cut it.   *)
Written == Total + left - (IF whole THEN 0 ELSE lens[Len(lens)])
AllRead ==
    \A n \in 1..MaxData :
        Written >= n ~> (got >= n \/ dl \/ cut \/ pc = "skewed")

(* Read returns what was written and nothing else: never more than has been *)
(* sent, and, between two Reads, all the data that lies before the cursor   *)
(* but what it keeps for the next one.                                      *)
DataBeforeCursor ==
    starts[rec] + (CASE part = "data" -> off
                         [] part = "ext" -> lens[rec]
                         [] OTHER -> 0)
NothingDropped ==
    pc = "idle" /\ ~cut =>
        got + (IF mode = "http" THEN remain ELSE 0) = DataBeforeCursor

(* A Read that waits for the peer waits for bytes still to be written:      *)
(* neither the parts of a record nor a message's body make the reader ask   *)
(* for more than the writer sends, and nothing it has already taken is kept *)
(* back meanwhile (Read, readBlock, http.ReadRequest and io.ReadAll).       *)
WaitsOnlyForUnsent ==
    pc \notin {"idle", "skewed"} /\ ~cut /\ foreign = {} /\ ~Arrived
        => left > 0 \/ got = Total
=============================================================================
