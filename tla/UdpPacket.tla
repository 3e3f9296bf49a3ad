------------------------------ MODULE UdpPacket ------------------------------
(***************************************************************************)
(* The packets of a UDP association on the frames of V4Pacing: what the    *)
(* sender makes of a datagram, and what the other end reads from the one   *)
(* frame it becomes.  "up" is the client's writer, with requests, "down"   *)
(* the server's, with responses.  Lengths are the program's, in bytes.     *)
(*                                                                         *)
(* A packet is its length and the bytes a parser decides on; addresses are *)
(* known by their form, the length of a host name and the high byte of the *)
(* port.                                                                   *)
(***************************************************************************)
EXTENDS V4Pacing

CONSTANTS
    HostLens,   \* lengths of host names
    PortHighs,  \* high bytes of ports
    Datagrams   \* lengths of datagrams' payloads

ASSUME HostLensAssumption == HostLens \subseteq 0..255
ASSUME PortHighsAssumption == PortHighs \subseteq 0..255
ASSUME DatagramsAssumption == Datagrams \subseteq Nat

RelayBufferSize == 32768

(* ip: IPv4; mapped: IPv4 in IPv6; no host: a nil IP, as net.ResolveUDPAddr *)
(* makes of an empty name.                                                  *)
Addrs == [form : {"ip4", "mapped", "ip6"}, host : {0}, port : PortHighs]
         \cup [form : {"name"}, host : HostLens, port : PortHighs]

VARIABLES
    side,       \* whose writer: up or down
    given,      \* the datagram of the last step and its address
    outcome,    \* of that datagram: none, dropped, refused, or read by the
                \* other end: taken or error
    seen        \* what the other end took; rest: bytes its buffer had no room for

udpVars == <<side, given, outcome, seen>>
pvars == <<vars, udpVars>>

(* What ParseAddr refuses, such as too long a name: ParseAddrToSocksAddr    *)
(* returns nil.                                                             *)
NoAddr == [form |-> "none", host |-> 0, port |-> 0]

NoDatagram == [addr |-> [form |-> "ip4", host |-> 0, port |-> 0], n |-> 0]
NoPacket == [form |-> "ip4", host |-> 0, n |-> 0, rest |-> 0]

PTypeOK ==
    /\ side \in {"up", "down"}
    /\ given \in [addr : Addrs \cup {NoDatagram.addr, NoAddr}, n : Nat]
    /\ outcome \in {"none", "dropped", "refused", "taken", "error"}
    /\ seen \in [form : {"ip4", "ip6", "name"}, host : 0..255, n : Nat, rest : Nat]

PInit ==
    /\ Init
    /\ side \in {"up", "down"}
    /\ given = NoDatagram /\ outcome = "none" /\ seen = NoPacket

-----------------------------------------------------------------------------
(* Addresses and packets *)

(* ParseAddrToSocksAddr: what is no IPv4 address by To4 keeps its form. *)
SocksAddr(a) == IF a.form = "mapped" THEN [a EXCEPT !.form = "ip4"] ELSE a

(* Mutant: the lengths of the two IP forms are swapped. *)
udpHeaderLengthSwapped(s) ==
    CASE s.form = "none" -> MaxPayloadLength + 1
      [] s.form = "name" -> 1 + 1 + s.host + 2
      [] s.form = "ip4" -> 1 + 2 + 16 + 2
      [] OTHER -> 1 + 2 + 4 + 2

udpHeaderLength(s) ==
    CASE s.form = "none" -> MaxPayloadLength + 1
      [] s.form = "name" -> 1 + 1 + s.host + 2
      [] s.form = "ip4" -> 1 + 2 + 4 + 2
      [] OTHER -> 1 + 2 + 16 + 2

(* writeUDPRequest: its length, and the two bytes after the command.  A     *)
(* name puts its length first and then itself; an empty one has its port    *)
(* where the IP forms have their type.                                      *)
Request(s, n) ==
    [len |-> 1 + (IF s.form = "name" THEN 1 + s.host ELSE 2) + n
             + (CASE s.form = "name" -> 2 [] s.form = "ip4" -> 4 + 2 [] OTHER -> 16 + 2),
     second |-> IF s.form = "name" THEN s.host ELSE 0,
     third |-> CASE s.form = "ip4" -> 4
                 [] s.form = "ip6" -> 6
                 [] OTHER -> s.port]

(* WritePacketResponse: its length and its first byte *)
Response(s, n) ==
    [len |-> 1 + (IF s.form = "ip4" THEN 4 ELSE 16) + 2 + n,
     first |-> IF s.form = "ip4" THEN 4 ELSE 6]

Error == [form |-> "error"]
Packet(form, host, n) == [form |-> form, host |-> host, n |-> n]

(* Mutant: a name's port is not skipped. *)
ParseUDPRequestKeepsPort(p) ==
    IF p.second # 0
    THEN IF p.len <= 2 + p.second + 2 THEN Error
         ELSE Packet("name", p.second, p.len - (2 + p.second))
    ELSE CASE p.third = 4 /\ p.len >= 3 + 4 + 2 -> Packet("ip4", 0, p.len - (3 + 4 + 2))
           [] p.third = 6 /\ p.len >= 3 + 16 + 2 -> Packet("ip6", 0, p.len - (3 + 16 + 2))
           [] OTHER -> Error

ParseUDPRequest(p) ==
    IF p.second # 0
    THEN IF p.len <= 2 + p.second + 2 THEN Error
         ELSE Packet("name", p.second, p.len - (2 + p.second + 2))
    ELSE CASE p.third = 4 /\ p.len >= 3 + 4 + 2 -> Packet("ip4", 0, p.len - (3 + 4 + 2))
           [] p.third = 6 /\ p.len >= 3 + 16 + 2 -> Packet("ip6", 0, p.len - (3 + 16 + 2))
           [] OTHER -> Error

(* ReadPacketResponse into a slice of RelayBufferSize *)
ReadPacketResponse(p) ==
    LET form == IF p.first = 4 THEN "ip4" ELSE "ip6"
        head == IF p.first = 4 THEN 1 + 4 + 2 ELSE 1 + 16 + 2
    IN IF p.len < head THEN Error
       ELSE Packet(form, 0, Least(RelayBufferSize, p.len - head))

(* v4Reader.Read hands out as much of a frame as b holds. *)
ServerBuf == MaxPayloadLength
ClientBuf == MaxPayloadLength + 1
ReadInto(p, size) == [p EXCEPT !.len = Least(p.len, size)]

-----------------------------------------------------------------------------
Running == outcome \notin {"refused", "error"}

Given(a, n) == given' = [addr |-> a, n |-> n]

(* The sender returns the error, which ends its goroutine and with it the   *)
(* association.                                                             *)
Refuse == outcome' = "refused" /\ seen' = NoPacket /\ UNCHANGED vars

(* The other end reads the frame p and makes r of it; what it cannot parse  *)
(* ends the association.                                                    *)
Arrives(p, r, size) ==
    IF r = Error
    THEN outcome' = "error" /\ seen' = NoPacket
    ELSE /\ outcome' = "taken"
         /\ seen' = [form |-> r.form, host |-> r.host, n |-> r.n,
                     rest |-> p.len - Least(p.len, size)]

(* packetConn.WriteTo and WritePacket; the server's loop reads the frame    *)
(* and parses it.                                                           *)
WriteTo(s, n) ==
    LET p == Request(s, n)
    IN IF n > MaxPayloadLength - udpHeaderLength(s)
       THEN Refuse
       ELSE IF p.len > MaxPayloadLength THEN Refuse
       ELSE /\ WritePacketFrame(p.len)
            /\ Arrives(p, ParseUDPRequest(ReadInto(p, ServerBuf)), ServerBuf)

(* A caller of DialUDP sends a packet to any net.Addr; pump 1 to those that *)
(* are left of Addrs.                                                       *)
SendPacket(a, n) ==
    /\ side = "up" /\ Running /\ left = 0 /\ saltSent
    /\ Given(a, n)
    /\ WriteTo(SocksAddr(a), n)
    /\ UNCHANGED side

(* Pump 1: a datagram of the application that DecodeUDPPacket refuses, or   *)
(* to a name that does not resolve.                                         *)
DropDatagram ==
    /\ side = "up" /\ Running
    /\ outcome' = "dropped" /\ given' = NoDatagram /\ seen' = NoPacket
    /\ UNCHANGED <<vars, side>>

(* Addr.UDPAddr is not nil. *)
HasUDPAddr(a) == a.form # "name"

(* Pump 1 resolves names itself; an empty one resolves to no IP. *)
Resolve(a) ==
    IF HasUDPAddr(a) \/ a.host = 0 THEN {a}
    ELSE {[a EXCEPT !.form = f, !.host = 0] : f \in {"ip4", "ip6"}}

SendDatagram(a, n) == \E r \in Resolve(a) : SendPacket(r, n)

(* handleUDPIngress reads a datagram, cut to its buffer, and answers with   *)
(* WritePacketResponse, which refuses what does not fit a frame.  The       *)
(* client's pump 2 reads the frame.  A datagram comes from an IP address.   *)
Ingress(a, d) ==
    LET n == Least(d, MaxPayloadLength)
        p == Response(SocksAddr(a), n)
    IN /\ side = "down" /\ Running /\ left = 0 /\ saltSent
       /\ a.form # "name"
       /\ Given(a, d)
       /\ IF p.len > MaxPayloadLength
          THEN Refuse
          ELSE /\ WritePacketFrame(p.len)
               /\ Arrives(p, ReadPacketResponse(ReadInto(p, ClientBuf)), ClientBuf)
       /\ UNCHANGED side

(* What else the writer does: the request before the packets, the reply.    *)
Stream ==
    /\ Running
    /\ Write \/ WriteNext \/ WriteEmpty \/ Pause
    /\ outcome' = "none" /\ given' = NoDatagram /\ seen' = NoPacket
    /\ UNCHANGED side

PNext ==
    \/ Stream
    \/ DropDatagram
    \/ \E n \in Datagrams : SendPacket(NoAddr, n)
    \/ \E a \in Addrs, n \in Datagrams :
         SendPacket(a, n) \/ SendDatagram(a, n) \/ Ingress(a, n)

PSpec == PInit /\ [][PNext]_pvars

-----------------------------------------------------------------------------
(* A datagram that the sender does not refuse is read by the other end with *)
(* the same kind of address and all of its payload, in one Read, and only   *)
(* one that does not fit a frame, or has no address, is refused: the        *)
(* sender's limits, its layouts and the receiver's buffers agree at every   *)
(* length (WritePacket, ParseUDPRequest, WritePacketResponse,               *)
(* ReadPacketResponse).  Not so for a request without a host name's length, *)
(* whose port is read as the address type, and for an empty datagram to a   *)
(* name, which ParseUDPRequest takes for a short one.                       *)
HeaderLength ==
    CASE given.addr.form = "none" -> MaxPayloadLength + 1
      [] given.addr.form = "name" -> 4 + given.addr.host
      [] given.addr.form = "ip6" -> IF side = "up" THEN 21 ELSE 19
      [] OTHER -> IF side = "up" THEN 9 ELSE 7
ReadAsSent ==
    seen = [form |-> SocksAddr(given.addr).form, host |-> given.addr.host,
            n |-> given.n, rest |-> 0]
Misread ==
    given.addr.form = "name" /\ (given.addr.host = 0 \/ given.n = 0)
PacketArrives ==
    /\ outcome = "refused" <=> /\ outcome \notin {"none", "dropped"}
                               /\ HeaderLength + given.n > MaxPayloadLength
    /\ outcome = "error" => Misread
    /\ outcome = "taken" => ReadAsSent \/ Misread
=============================================================================
