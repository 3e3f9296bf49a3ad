# Verification of OpenSnell in TLA+

OpenSnell is a Go implementation of the Snell v4/v5 proxy: a client that
accepts SOCKS5 connections and carries them over encrypted TCP connections to a
server, which connects to the destinations. This directory holds TLA+ models of
the parts of the code in which something can go wrong that a test would hardly
reach, the TLC configurations that check them, and proofs checked by TLAPS. All
paths below are relative to the root of the repository; `snell/` stands for
`components/snell/` and `utils/` for `components/utils/`.

## The system

### Components

| component | code | state | operations |
|---|---|---|---|
| session, client end | `snell/client.go`, `pool.go`, `conn.go` | the reply flag, deadlines, close-once guards | `DialTCP`, `WriteHeader`, `Read`/`ReadReply`, `CloseWrite`, `Close` with its drain |
| session, server end | `snell/server.go` | the lazy response flag, the zero chunk seen flag | `handleConn` loop, `handleRequest`, `handleTCP`, `lazyResponseStream.Write`, `serverReadConn.Read` |
| relay | `utils/relay.go` | two pumps, two read deadlines | `Relay` |
| pool | `snell/pool.go` | a stack of idle connections with expiry and uses | `GetContext`, `takeIdle`, `put` |
| UDP association | `snell/client.go`, `server.go`, `udp.go` | five goroutines, the reply address, the resolver cache | `handleSocksUDP`, `handleUDP`, `handleUDPIngress`, `addrCache` |
| UDP packets | `snell/udp.go`, `utils/pool`, `socks5` | pooled buffers | `WritePacket`, `ParseUDPRequest`, `WritePacketResponse`, `ReadPacketResponse`, `Addr.UDPAddr` |
| QUIC proxy | `snell/quic.go` | the flow table, each flow's last activity | `ServeQUIC`, `quicReverseRelay`, `reaper`, `put`, `remove` |
| v4 framing | `snell/v4.go` | keys, nonces, a partly read payload | `readFrame`, `writeFrame`, `Read`, `Write` |
| v4 pacing | `snell/v4.go` | the payload limit, the last write, whether the salt is out | `nextPayloadLimit`, `nextFramePaddingLength` |
| obfuscation | `components/obfs` | one-shot flags, the rest of a record, pooled buffers | `Read`, `Write`, `readBlock`, `write` of the TLS and HTTP wrappers |
| SOCKS5 | `components/socks5` | none | handshake, address forms, UDP packets |
| resolver, dialer, listeners, TFO, egress, cipher, programs | `snell/*.go`, `cmd/` | configuration only | set-up |

### How they interact

An application's CONNECT runs in a goroutine of its own: it takes a connection
from the pool or dials one, writes a request header on it and runs `Relay`
between the application and the connection. The server's goroutine for that TCP
connection reads the header, dials the destination, and runs `Relay` between
the connection and the destination. Each `Relay` is two pumps; the one that
ends first wakes the other with a read deadline. Half-close travels in the
stream as a zero chunk. When both ends have agreed that the session is over,
the connection goes back to the pool and carries the next session: everything
left in flight or in a flag at that moment belongs to the wrong session. Below,
the v4 framing turns the byte stream into frames; it keeps nonces on both sides
that must stay in step however reads are cut. Below the framing, if configured,
obfuscation puts the stream into TLS records or behind an HTTP message; the
lengths it writes and the slices it is asked to read are cut in different places.

A UDP association uses a snell connection of its own with two pumps and a
watcher on the client, a request loop and an ingress goroutine on the server.
The QUIC proxy uses no snell connection: a receive loop, one goroutine per flow
and a reaper share a table.

### What is hard

Two pumps, two ends and a reused connection: the order in which deadlines, zero
chunks, closes and resets arrive decides whether the next session starts clean.
A deadline may fall inside a frame. A pump may be blocked in a write, where a
read deadline does not reach it. Flows are replaced while a goroutine of the old
one is still about to remove it. Buffers are given back while something still
points into them. Goroutines have to end each other. Lengths are 16-bit, and
four places count the header of a UDP packet on their own.

### What makes each component correct

* sessions: what either party receives is a prefix of what the other sent in
  the same session; a connection is pooled only in a state from which the next
  session works; the server reads requests from frame boundaries; the end of
  stream comes after all of the data; sessions end;
* relay: the direction that ends first is complete, the other is stopped, no
  deadline is set after `Relay` returned;
* pool: one owner per connection, no leak, the caps hold, calls end;
* UDP: neither the server's socket nor the goroutine that relays replies
  outlives the request loop; each party's end ends everything;
* UDP packets: what is sent is read with its address and all of its payload in
  one read, or refused because no frame holds it; a packet is built from the
  frame that was read for it;
* QUIC: a socket is open exactly while its flow is in the table, goroutines of
  closed flows end, silent flows are closed;
* framing: what is read is what was written, once and in order; nothing after a
  frame was lost; a zero chunk is not missed;
* obfuscation: the reader takes each byte for what the writer meant, and hands
  out all of the data once;
* pacing: opening frames fit one MTU, data never makes an empty frame, the
  limit stays within the largest payload.

## Modules

| module | models |
|---|---|
| `SnellSession` | one TCP connection and the sessions on it, both ends |
| `SnellTunnel` | the abstract tunnel it implements |
| `FrameChannel` | the abstract channel of frames: `V4Stream` implements it |
| `SnellSessionProofs` | proofs about `SnellSession` |
| `ConnPool`, `MCConnPool`, `ConnPoolProofs` | the pool under concurrent `DialTCP` calls; the symmetry for TLC; proofs |
| `ConnLease` | the abstract pool: connections leased to callers; `ConnPool` implements it |
| `RelayPump`, `RelayPumpProofs` | `Relay` alone, with writes that block; proofs |
| `UdpAssoc`, `UdpAssocProofs` | one UDP association, both ends; proofs |
| `UdpPacket`, `UdpPacketProofs` | the packets of an association in bytes, on the frames of `V4Pacing`; proofs about both |
| `UdpReplyBuf` | the buffers several associations share when they read replies |
| `QuicFlow`, `QuicFlowProofs` | the QUIC proxy; proofs |
| `FlowSockets` | the abstract proxy: the upstream sockets of the clients; `QuicFlow` implements it |
| `V4Stream`, `V4StreamProofs` | one direction of a v4 stream: framing, nonces, deadlines; proofs |
| `V4Pacing` | frame sizes |
| `ObfsStream`, `ObfsStreamProofs` | one direction of an obfuscated stream; proofs |

Each module's variables are named after the fields and locals they stand for,
and each action after the function or the branch of one. Operators marked
*Mutant* in a comment are variants of the one below them with a plausible error
in it; they show that the property named for them in `PROJECT.json` depends on
that piece of code.

### SnellSession

The client is `cst` (header, relay, close, drain, idle in the pool, closed) with
its pumps `cUp` and `cDown`; the server is `sst` (request, dial, relay, finish,
zero, drain, closed) with `sUp` and `sDown`. `c2s` and `s2c` are the frames in
flight. A frame is its type, the session it belongs to and its place in it. No
guard of the code reads the session, and the place only to tell a status byte
that comes alone from one with payload behind it; they let the properties say
whose data arrives where. A zero chunk has a place too: the epilogue's comes
after the last chunk of the response, the one behind a fallback response has 0. A read deadline is a flag that makes a pump's read
fail; it may also find part of a frame already consumed, which leaves that end
out of step (`cDesync`, `sDesync`; `V4Stream` shows why that is what happens).
`reuse` and `wrapped` are fixed at the start: CommandConnectV2 or not, and
whether the connection came through the pool or through `DialTCP`'s own dial.
The connection may be reset at any point.

Writes may block. A pump that has begun a write is in `writing` until the write
returns, and neither reads nor notices a deadline in between: `relay.go` and all
of `snell/` set deadlines for reads only. A write puts its frame in flight when
it begins and may return at any time, since the buffers on the way have room for
some of what is sent; that it does return is assumed only when the way is free
(`ClientFree`, `ServerFree`: nothing is left in flight in that direction, or the
write fails). The main goroutines' own writes (a header, an error, a zero chunk)
are one step, which `ClientWrites` and `ServerWrites` make wait for the same. A
write to the application or to the destination is sure to return only once that
party is gone; the properties below say where they rest on it reading.
`DrainStarves` is the one case in which bytes in flight do not wake a reader: a
server whose drain follows a cut frame may have too few of them for a header
(`v4.go:201`), and waits.

`SnellTunnel` is what a user of a connection may rely on: sessions follow each
other, each is begun once by the server, and delivers to each party a prefix of
what the other sent in it. The refinement mapping is `open <- cst = "relay"`;
the other variables map to those of the same name.

`SessionNotStuck` says in which single way the two ends wait on each other.
`ClientMoves` and `ServerMoves` are the guards of their steps, written out;
`QuietTunnel`, `Parked`, `AppOwesRead` and `DestOwesRead` are the states in which
only an application, a destination or the pool can act. `BackedUp` is the
exception: both ends are in a write to the other, and neither has a pump left
that reads. TLC reaches it, when application and destination have gone while both
directions are full: without it among the disjuncts `SessionNotStuck` is violated.
The liveness properties except it. `StepsRunOut` counts what is left
to do (`Left`, eight numbers of which each weighs more than all behind it) and says that every step lowers it: no two
loops keep each other going. An idle connection that no other session takes
counts too, so pooling cannot go on for ever.

### RelayPump

Two pumps with bounded queues to the peers. A pump is in `read`, `write`,
setting the deadline, signalling, or done; a write into a full queue waits for
the peer. `SnellSession` has two of these with a connection between them, but no
queues of a size; this module has the queues, and peers that may or may not
read. `Moves` and
`BlockedByPeer` are what a pump's next step needs and what may keep it in a write.
`RelayRunsOut` counts what pumps, peers and caller have left to do (`Left`): a
chunk counts less the further it has come, and every step lowers the sum.

### ConnPool

A caller is a goroutine in `DialTCP`, in a session, or in `Close`; `items` is
the stack of idle connections, `st` says which connections are open and `dead`
which the server has closed. `takeIdle` and `put` are one action each, as they
hold the lock. `served` counts the headers written on a connection, so the use
cap is checked against what was sent and not against the pool's own count.
`GetIdle` states takeIdle's loop by its result: the entries above the topmost
live one are closed.

`ConnLease` is what callers of `DialTCP` may rely on: who has a connection, which
are idle, which are gone for good, and how many requests each has carried. A
connection leaves `fresh` when it is dialed and is from then on with a caller,
idle or gone: so one owner per connection and no leak are part of what is
promised. The mapping is `fresh <- ` the connections not dialed, `idle <- ` those
of `items` and `gone <- ` the closed ones; `held` and `served` are the same. Entries, clocks, expiry and retries are the
pool's own.

### UdpAssoc, UdpPacket and UdpReplyBuf

`UdpAssoc` has the control connection, `handleSocksUDP` with pump 1 (`up`),
pump 2 (`down`) and the watcher, and the server's request loop (`sst`) and
ingress goroutine. `AssociationRunsOut` counts what the application, the four
loops and the frames in flight have left to do (`Left`, a sum of a part for
each), and says that every step lowers it: a datagram makes one frame at most, a
frame one datagram, and no loop goes round for nothing. A datagram either fits a
frame or is too big, and may come from anybody. A response too big to frame ends
ingress, and so may any `ReadFrom` (`IngressFail`); the request loop is not told
and goes on, as in the code. `IngressWithinLoop` is about the other direction:
when the loop ends, socket and goroutine end with it, before `handleUDP` returns. `UdpPacket` is about those sizes:
it extends `V4Pacing`'s writer, whose side (`side`) is the client's or the
server's, with the packets of an association. A step sends one datagram
(`given`) and says what became of it (`outcome`, `seen`): dropped by pump 1,
refused by the sender, taken or not understood by the other end, each with the
program's own limits, header layouts and buffer sizes. `Misread` names the two
requests the server does not read as they were sent: to an empty host name,
whose port's high byte stands where the address type is read, and an empty
datagram to a name. `UdpReplyBuf` has several
associations' pump 2 on one bucket of the allocator: take a buffer, read a
frame into it, copy the payload, give the buffer back, and build the packet
from an address that is still a slice of it.

### QuicFlow

The receive loop handles one packet at a time and is split where other
goroutines can intervene (lookup, write, touch, dial, put, first write). A
packet is its client address and whether it is an envelope. The reaper's scan
under the read lock and its deletions under the write lock are two actions.
Time is a counter.

`FlowSockets` is what the proxy promises of its upstream sockets: a client has
one open socket at most, a new one takes the place of the old, a socket closed
stays closed, and an open one is just being started or has the goroutine that
relays its replies. The table is not in it; that every open socket can be found
under its client's address is what the refinement rests on. The mapping is
`owner <- addr`, `open <- ` the flows whose state is open, `relay <- ` that of the
flow with its inner places taken together, and `starting <- ` the flow whose
first packet the receive loop is about to write.

### V4Stream and V4Pacing

`V4Stream` writes salt, headers and bodies of `Units` pieces each and reads them
through reads that may stop after any piece. A part opens only if it is whole and
has the nonce it was sealed with. Relay's deadline may expire anywhere; then
the caller lifts it and drains. As a `FrameChannel` its queue is the frames
written whose last part the reader has not opened. `V4Pacing` has the program's own numbers: the
padding drawn at the start, the limit, and the length of each frame.

### ObfsStream

One module for four readers: TLS or HTTP, up or down. The writer cuts what it is
given into records; `starts` has, for each record, the data bytes in those before
it, and the wire is known from that. A
cursor (`rec`, `part`, `off`) says what the next byte on the wire really is, and
`pc`, `need` and `remain` say what the reader takes it for. When the two differ
the reader is `skewed`, and what it then makes of the bytes is not modelled.
Parts other than data have two bytes (`Units`), so a read can stop inside one.
`Resumable` lists the places where a `Read` may be interrupted and called again;
an interruption anywhere else sets `cut`. The one-shot flags are cleared where
the code clears them, before the reads they guard. The hello is sent from a
buffer that was given back (`held`); another connection may overwrite it first
(`bad`), which makes the record `foreign`.

## Runs

| run | bounds | shows |
|---|---|---|
| `session` | 2 sessions per connection, 1 frame up, 2 chunks down | `AppSeesOwnSession`, `PooledClean`, `RequestBoundaryUnlessRefused`, `ResponseComplete`, `SessionNotStuck`, `StepsRunOut`; under fairness `DestinationEndsSession`, `AppEndsSession`, `ServerReleased`; `ImplementsTunnel` |
| `session_reuse` | the same with 1 chunk down | a violation, see below |
| `pool` | 3 callers, 4 connections, 2 slots, 2 uses, clock to 2, symmetric | `YoungestOnTop`, `DialEnds`; `ImplementsLease` |
| `relay` | queues of 1, 2 chunks each way | `ResetSticks`, `FirstEndIsComplete`, `OnlyPeerBlocks`, `RelayRunsOut`; under fairness `FirstEndStopsRelay` |
| `udp` | 2 sources, 2 targets, a cache of 1, 2 datagrams each way, 1 frame in flight | `IngressWithinLoop`, `NobodyStuck`, `AssociationRunsOut`; under fairness `ControlEndsAll`, `ServerEndsClient` |
| `udp_address` | 2 associations, 3 buffers, 2 addresses | a violation |
| `packets` | paddings 256, 511; writes of 1, 1421, 20000; names of 0, 1, 255 bytes; port high bytes 0, 4, 6; eleven datagram lengths around the limits | `OpeningFrameFitsMTU`, `DataNeverAsZeroChunk`, `PacketArrives` |
| `quic` | 2 addresses, 2 flows, clock to 3, idle 1 | `OpenIffInTable`; under fairness `RelayEnds`, `SilentFlowReaped`; `ImplementsSockets` |
| `quic_remove` | 1 address, 2 flows | a violation |
| `v4` | 4 frames | `ReadsWhatWasWritten`, `OpensUnlessLost`; under fairness `ZeroChunkRead`; `ImplementsChannel` |
| `v4_drain` | 3 frames | a violation |
| `obfs` | records of 2, slices of 1 and 4, reads of 1 and 3, 6 bytes | `InStepUnlessCut`, `NothingDropped`, `WaitsOnlyForUnsent`; under fairness `AllRead` |

The runs leave out what is proved and shows little more: the type invariants,
proved for every module with a behaviour but `UdpReplyBuf`, and what the
refinements imply. `DestSeesOwnSession` follows from `ImplementsTunnel`;
`Exclusive`, `NoLeak`, `UseCap` and `OpenBound` from `ImplementsLease`; `OpenFlowHasRelay` from
`ImplementsSockets`; and `LostIsSilent` from `ImplementsChannel`. Each has a theorem
of its own.

**Why the bounds are enough.** Two sessions per connection are all there
are: two is the code's own cap (`maxUsesPerConn`). Two chunks down are the least for which a response can be
cut in its middle, and for which a frame merged with the response byte is
followed by one that is not. In the pool a third caller is needed for `put` to
find it full: a caller dials through the pool only when it found it empty, so
the pool and its users together never have more connections than there are
callers. Two callers of one connection, two flows of one address and two
associations on one buffer are the least that can conflict; the spare
connection and buffer let a choice go wrong. Three ticks let a flow be
silent for longer than the idle time while another is not. Four frames let a
zero chunk, a data frame and a second session's frames surround a deadline. The
paddings are the ends of the range the writer draws from; 1421 is one more byte
than a frame after a pause carries, and 20000 needs two of the largest frames.
The names are the shortest and the longest; 4 and 6 are the port bytes that read
as an address type; the datagram lengths are the last that fits and the first
that does not, for each layout, and one that no buffer holds. In `obfs` a slice
of 4 makes two records, a slice of 1 one that fits every read, and a read of 1
one that needs several; 6 bytes allow three records, which is one more than the
reader treats specially. These numbers are the runs' only: every safety
property is proved without them.

**Fairness.** Weak fairness on each goroutine's own steps: the Go scheduler
runs what can run. Nothing is assumed of resets, of timers that need not fire,
of `Close` being called, or of what applications and destinations send and
when they close. A write is not among the steps that are free: in `SnellSession`
it returns when the way is free, and application and destination take what they
are sent or are gone, because nothing in the code stops a write to one that does
neither. So `DestinationEndsSession` rests on an application that reads,
`AppEndsSession` and `ServerReleased` on a destination that does, and the first
two hold but for the connections that stay `BackedUp` for ever. There are these
exceptions too: in `RelayPump` the peers go on reading what they are sent, because without that
`FirstEndStopsRelay` fails: a pump blocked in a write does not notice the read
deadline, whatever `utils/relay.go:16-18` says; and in `QuicFlow` the clock and
the reaper's ticker advance. In `V4Stream` and `ObfsStream` bytes that were
written arrive and the caller reads in a loop, as `io.CopyBuffer` does; in
`ObfsStream` a writer also finishes the write it began. In `SnellSession` the drain's 500 ms deadline
fires if nothing else ends the drain.

Deadlock checking is off where the modelled system really stops: when a
connection is closed, an association or a relay has ended, or the frames of the
bound are used up.

### Violations

Each of these runs checks one sentence of the repository's own documentation
and finds it violated by what the code does.

* `session_reuse`: `README.md:303-306` says that a pooled connection is drained
  "so the next reuse starts on a clean frame boundary". When the application
  closes before the destination has sent a byte, the client writes its zero chunk
  and drains; the server's `Relay` ends on that zero chunk and its deadline ends
  the read of the destination. Nothing has been written, so `handleTCP` writes
  two zero chunks, the fallback's (`server.go:496-500`) and the epilogue's
  (`510`). The drain stops at the first; the other is read by the next
  session as its reply. (When the destination closes first the client's `Relay`
  takes the first and the drain the second.) `PooledClean` says that this is the only frame that can
  be left. That no reply goes astray after it rests on the cap of two uses
  (`pool.go:45`): with `MaxUses = 3` TLC finds `PooledClean` and
  `AppSeesOwnSession` violated, since the second session's drain may end on the
  first one's leftover and pool the connection with its own frames unread.
* `quic_remove`: `quic.go:28-30`. A reverse relay that ends removes whatever
  flow its client's address has by then, including one that replaced its own.
* `udp_address`: `udp.go:189-191`. The address `ReadPacketResponse` returns is
  a slice of a buffer that is back in the allocator when it is read.
* `v4_drain`: `server.go:506-508`. When Relay's deadline falls inside a frame
  `io.ReadFull` drops the bytes it has; after the deadline is lifted nothing
  opens any more. `LostIsSilent` shows that the damage ends there: no byte is
  delivered wrongly, and the connection is closed.

Other places where the code does less than its comments say, kept in the models
as they are and listed among the hazards: a pump that is in a write is not
stopped by the read deadline of `utils/relay.go:16-18`, so that with both
directions full, and application and destination gone, the two ends of a session
can sit in writes to each other until the TCP connection fails (`BackedUp`); a failed dial in reuse mode leaves the
refused session's frames before the server's next request
(`server.go:466-472`; `PooledClean` and `RequestBoundaryUnlessRefused` bound the
effect); when the destination ends first `Close` waits 500 ms for a zero chunk
`Relay` has already read and then drops a healthy connection (`pool.go:148`);
the reaper closes a flow that was touched after its scan (`quic.go:379-387`); a
second envelope is forwarded as it is (`quic.go:154`); replies go to the source
of the latest datagram (`client.go:335`); the TLS hello is written from a buffer
that is back in the allocator (`tls/client.go:101`), and its one-shot flag is
cleared before it is read (`tls/server.go:52`), both of which `InStepUnlessCut`
admits and bounds; a datagram to an empty host name is misread (`udp.go:45`).

## Proofs

All hold for every value of the constants that satisfies the named assumptions
(`MaxUses` positive, limits natural numbers, `Callers` finite, `nil` not a
connection, lengths and paddings within what their types or the random draw
allow). Where a theorem needs more it says so: `MaxUses <= 2` below.

### What each module proves

* `SnellSessionProofs`: `TypeCorrect` for every use cap, the invariant split by
  kind of variable (places, flags, flight, received) with a lemma per part. The
  rest needs to say what both channels can hold. They are chains: `Follows` and
  `Answers` give the frames that may come behind a frame, `Writes` and `Replies`
  those that an end may write next, `Awaits` and `Expects` those that an end may
  read next, and `Requests` and `Responses` say that every neighbour in a
  channel, the first frame against its reader and the last against its writer,
  agree; so a step at one end of a channel is checked there alone, and the
  lemmas `RequestsPut`, `RequestsTake`, `ResponsesPut` and `ResponsesTake` do it
  once for all actions. `ServerInv`, `StopInv`, `SessionInv` and `ClientInv`
  relate the goroutines: why the response pump stopped, which sessions the two
  ends are in, when a flag is still set. From the invariant follow `OwnReplies`,
  `OwnRequests`, `PoolHoldsClean`, `NextRequestInPlace`, `ResponsesWhole`, and
  `Refinement`: each step is a step of `SnellTunnel` or leaves it alone. The cap
  enters once, in `SessionStep`: a drain that read a zero chunk read its own
  session's, because an older session can only have been the last under the cap.
  `ComesToRest` holds for every cap.
* `ConnPoolProofs`: `IInv` is the type invariant, who holds what (`HeldInv`),
  single ownership and no leak together (`OwnInv`: neither is inductive alone,
  since a connection pushed into the pool must not be there already), the counts
  (`CountInv`: what the entries and the callers count is what was written, and
  only connections below the cap are pooled), and the order (`AgeInv`: no entry
  expires later than one pushed now). From it follow `TypeCorrect`,
  `ExclusiveOwner`, `NothingLeaked`, `UseCapHolds`, `PoolSorted`, and `PoolLeases`:
  each step is a step of `ConnLease` or leaves it alone, with one lemma per kind
  of step (`LeaseDial`, `LeaseGetIdle`, `LeaseReturn` and so on). `OpenBounded`
  (of `OpenBound`, the number of connections open at once) adds that the pool is never over its size and counts the owners of open
  connections with the finite set theorems; `DialTCPEnds` adds that the loop
  begins an attempt with fewer than two behind it, and shows that a measure of
  what remains of a call falls with each of its steps.
* `UdpPacketProofs`: of `V4Pacing`, `IInv` is the type invariant, that the salt
  goes out once and with the first frame, and that opening frames fit. Lemmas
  bound `LimitNow`, `LimitNext` and the payload taken per turn. From it
  `TypeCorrect`, `OpeningFrames`, `DataFrames`, and of a burst `LimitsOfBurst`
  (once a frame is sent the limit is above one MTU and at most the largest
  payload) and `BurstRamp` (it grows until it saturates). Of packets, one lemma per direction says that the
  parser undoes the writer; `Packets` follows by cases, `PacketsAreFrames` shows that a
  sender of packets is such a writer.
* `V4StreamProofs`: the wire is a chain of units, each with the part and nonce it
  belongs to; while the reader is in step, the unit it stands at is the one its
  nonce and position name, and once it is cut no unit's place agrees with its
  nonce again, since a part's first unit and its nonce move together. What was
  returned is the frames before that point. From it `ReadAsWritten`,
  `PartsOpen`, `SilentOnceLost`, `StreamTypes`, and `IsFrameChannel`.
* `ObfsStreamProofs`: `WriterInv` (records, flags and the buffer), `CursorInv`
  (the cursor stays on the wire) and `NeedInv` (what is expected of a part is
  what is left of it) carry `TlsAgree` and `HttpAgree`: reader and cursor name
  the same part unless cut. From it `ReaderInStep` and `ObfsTypes`. On top,
  `DataInv` says that what was returned and what the reader keeps for the next
  call is the data before the cursor, and `ForeignInv` that behind an overwritten
  hello nothing has been read; a record's `starts` entry makes the sum of the
  lengths before it one number, so no induction is needed. From it
  `NothingIsDropped` and `NeverWaitsForMore`.
* `RelayPumpProofs`: `IInv` adds to the types where every chunk is
  (`Conserved`: what a peer sent is unread, in a pump's hand, queued or taken,
  and only a write that failed loses one), whose deadline it is (`DeadlineInv`:
  a read deadline that has passed was set by the pump of the other direction,
  which has ended) and why a pump ended first (`EndInv`). From it follow
  `FirstEndComplete`, `DeadlineResetSticks` and `RelayTypes`. `StopInv` is
  `DeadlineInv` the other way round (until the caller resets them, the deadline of
  a pump that has ended is on the other pump's connection); from it
  `RelayNotStuck`. `RelayComesToRest` needs the types only.
* `QuicFlowProofs`: `OpenIffInTable` and `OpenFlowHasRelay` become inductive with
  what the receive loop holds (`LoopInv`: its flow was registered under the
  sender of its packet, so that `remove` closes that very flow) and that only a
  created flow has an address and a relay (`AddrInv`). One lemma describes
  `remove`, which three goroutines call. From it `TableOwnsSockets`,
  `SocketsAreServed`, `QuicTypes`. For `ProxyKeepsSockets` the
  lemma `RemoveCloses` turns `OpenIffInTable` round: since the table finds every
  open socket of a client, `remove` closes all there are of it, whoever calls it
  and however stale its reason; with one lemma per kind of step each is then a
  step of `FlowSockets` or leaves it alone.
* `UdpAssocProofs`: the server's socket and goroutine go with the place its loop
  is at (`SocketInv`); from it `NoReplyAfterReturn`. The type invariant
  needs that nothing but the request travels until the server has read it
  (`RequestInv`); `UdpTypes`. `ClientInv` (a pump that has ended has cancelled the
  main goroutine) and `AnswerInv` (a client that waits for a reply has its
  request or the reply in flight) give `NoWaitingCircle`. They also give
  `AssociationComesToRest`: that `DialUDP`'s reply starts goroutines which were
  not running is `WaitInv`, that `handleUDP` starts an ingress which was not is
  `SocketInv`; `Counts` says that every part of the sum is a natural number, and
  one lemma per goroutine which parts its steps change.

### Frames

`SnellSession` takes frames to arrive whole, in order and once, until a deadline
falls inside one. `FrameChannel` states that, and `IsFrameChannel` proves it of
`V4Stream`; it needs the whole of that module's invariant: that the frame whose
last part opens is the next one. That `SnellSession` uses its queues so is by
construction and has no theorem.

### Liveness, as far as it can be proved

Fairness and `ENABLED` are out of the prover's reach. What is proved instead is
where waiting is mutual, with the guards of the next steps written out: never
within a `Relay` (`RelayNotStuck`) or a UDP association (`NoWaitingCircle`), and
between the two ends of a session only in `BackedUp` (`NeitherEndWaits`, for
`MaxUses <= 2`). The last needs, on top of the session's invariant, that a pump
which ended has left the deadline that ends the other one once that reads again
(`Wakes`), and that a refusal stays in flight until the client has read it
(`Unanswered`). `ComesToRest` adds for sessions that steps run out: `Left`
falls in the lexicographic order with every step, of the environment too, so a
behaviour in which goroutines that can move do move comes to rest, and by
`NeitherEndWaits` only where an application, a destination or the pool has to
act, or backed up. `RelayComesToRest` and `AssociationComesToRest` say the same, with a sum for
`Left`, of relays and of UDP associations, and go with `RelayNotStuck` and
`NoWaitingCircle`. For the pool `DialTCPEnds` has a measure of the same kind. That the runs'
`~>` properties follow is not proved: it takes the fairness.

### Only model-checked

The liveness properties (`DestinationEndsSession`, `AppEndsSession`,
`ServerReleased`, `FirstEndStopsRelay`, `ControlEndsAll`, `ServerEndsClient`,
`RelayEnds`, `SilentFlowReaped`, `ZeroChunkRead`, `AllRead`), the runs that find
a violation, and all of `UdpReplyBuf`. Every invariant, action property and
refinement of a passing run has a theorem.

## Not modelled

* the fields of obfuscation's hellos and messages and the checks `net/http` makes
  of them; what a reader out of step makes of the stream.
* the SOCKS5 handshake: a sequential exchange before a session begins. The reply
  goes out before the dial, so a refused destination looks to the application
  like one that closed at once; nothing in the models depends on it.
* the allocator's size classes: pure arithmetic on a table.
* the cipher and key derivation: assumed to do what they promise.
* resolver, dialer, listeners, TFO, egress binding, command line programs:
  configuration of the `net` package; a dial succeeds or fails in the models.
* payload that happens to read as a header, a request or a status byte.

## Plan

Done: the modules above; a proof of every safety property of the passing runs;
the refinements of `SnellTunnel`, `FrameChannel`, `ConnLease` and `FlowSockets`;
that nobody waits in a circle in relays and UDP associations, and in sessions in
one way only, and that all three come to rest. Left:

* payload that reads as a header, which would need the payload's bytes in
  `V4Stream` and `SnellSession`;
* the order in which the custom resolver tries its servers (a UDP dial always
  succeeds, so the first one wins).
