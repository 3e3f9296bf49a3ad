----------------------------- MODULE UdpReplyBuf -----------------------------
(***************************************************************************)
(* The buffers of the client's UDP receive path.  Pump 2 of every UDP      *)
(* association calls ReadPacketResponse, which takes a buffer from the     *)
(* allocator's 16 KiB bucket, reads a response frame into it, copies the   *)
(* payload out, returns the address and gives the buffer back.  The        *)
(* address it returns is a slice of that buffer (Addr.UDPAddr), read again *)
(* when pump 2 builds the SOCKS5 packet.                                   *)
(***************************************************************************)
EXTENDS Integers, FiniteSets

CONSTANTS
    Pumps,      \* pump 2 of each association
    Bufs,       \* buffers of the bucket
    Addrs,      \* source addresses in response frames
    None

VARIABLES
    free,       \* buffers in the bucket
    content,    \* of a buffer: the address bytes in it
    pc,         \* of a pump: get, read, parse, encode, ended
    mine,       \* of a pump: the buffer it holds
    ref,        \* of a pump: the buffer the returned address is a slice of
    payload,    \* of a pump: the bytes copied out, named by their frame's address
    packet      \* of a pump: the SOCKS5 packet it last built

vars == <<free, content, pc, mine, ref, payload, packet>>

TypeOK ==
    /\ free \in SUBSET Bufs
    /\ content \in [Bufs -> Addrs \cup {None}]
    /\ pc \in [Pumps -> {"get", "read", "parse", "encode", "ended"}]
    /\ mine \in [Pumps -> Bufs \cup {None}]
    /\ ref \in [Pumps -> Bufs \cup {None}]
    /\ payload \in [Pumps -> Addrs \cup {None}]
    /\ packet \in [Pumps -> [addr : Addrs \cup {None}, payload : Addrs \cup {None}]]

(* The allocator makes a buffer when the bucket is empty: all exist. *)
Init ==
    /\ free = Bufs
    /\ content = [b \in Bufs |-> None]
    /\ pc = [p \in Pumps |-> "get"]
    /\ mine = [p \in Pumps |-> None]
    /\ ref = [p \in Pumps |-> None] /\ payload = [p \in Pumps |-> None]
    /\ packet = [p \in Pumps |-> [addr |-> None, payload |-> None]]

Goto(p, l) == pc' = [pc EXCEPT ![p] = l]

(* pool.Get *)
Get(p) ==
    /\ pc[p] = "get"
    /\ \E b \in free :
        /\ mine' = [mine EXCEPT ![p] = b]
        /\ free' = free \ {b}
    /\ Goto(p, "read")
    /\ UNCHANGED <<content, ref, payload, packet>>

(* r.Read fills the buffer with a response frame. *)
Read(p, a) ==
    /\ pc[p] = "read"
    /\ content' = [content EXCEPT ![mine[p]] = a]
    /\ Goto(p, "parse")
    /\ UNCHANGED <<free, mine, ref, payload, packet>>

(* pool.Put, deferred by ReadPacketResponse *)
Put(p) ==
    /\ free' = free \cup {mine[p]}
    /\ mine' = [mine EXCEPT ![p] = None]

(* A failed read, or a frame that is no response, ends the pump; the        *)
(* deferred Put runs all the same.                                          *)
Fail(p) ==
    /\ pc[p] \in {"read", "parse"}
    /\ Put(p)
    /\ Goto(p, "ended")
    /\ UNCHANGED <<content, ref, payload, packet>>

(* ... and one step later it has parsed the frame, copied the payload and   *)
(* given the buffer back.                                                   *)
Parse(p) ==
    /\ pc[p] = "parse"
    /\ payload' = [payload EXCEPT ![p] = content[mine[p]]]
    /\ ref' = [ref EXCEPT ![p] = mine[p]]
    /\ Put(p)
    /\ Goto(p, "encode")
    /\ UNCHANGED <<content, packet>>

(* Pump 2: ParseAddrToSocksAddr reads the address, EncodeUDPPacket joins.   *)
(* A reply that comes before the application has sent a datagram is dropped. *)
Encode(p) ==
    /\ pc[p] = "encode"
    /\ \/ packet' = [packet EXCEPT ![p] = [addr |-> content[ref[p]], payload |-> payload[p]]]
       \/ UNCHANGED packet
    /\ Goto(p, "get")
    /\ UNCHANGED <<free, content, mine, ref, payload>>

Next == \E p \in Pumps :
    Get(p) \/ (\E a \in Addrs : Read(p, a)) \/ Fail(p) \/ Parse(p) \/ Encode(p)

Spec == Init /\ [][Next]_vars

-----------------------------------------------------------------------------
(* udp.go:189-191: ReadPacketResponse returns "the source address embedded  *)
(* in the frame": the packet built from it carries that address.            *)
AddressIsFrames == \A p \in Pumps : packet[p].addr = packet[p].payload
=============================================================================
