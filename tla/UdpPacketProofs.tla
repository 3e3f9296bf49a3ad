--------------------------- MODULE UdpPacketProofs ---------------------------
(***************************************************************************)
(* Frame sizes for every padding a writer may draw and every slice, and    *)
(* UDP packets of every length with every kind of address.                 *)
(***************************************************************************)
EXTENDS UdpPacket, TLAPS

(* A data frame by Write comes after the salt or carries it. *)
SaltFirst == lastWrite # "never" => saltSent

IInv == TypeOK /\ SaltFirst /\ OpeningFrameFitsMTU

LEMMA MaxPayload == MaxPayloadLength = 16383
BY DEF MaxPayloadLength

(* All that most steps need to know of it *)
LEMMA PayloadRoom == MaxPayloadLength \in Nat /\ MaxPayloadLength > 1421
BY MaxPayload

LEMMA PayloadBound == ASSUME NEW n \in Nat, n <= MaxPayloadLength PROVE n <= 16383
BY MaxPayload

(* The limit of the next frame is a frame's payload length. *)
LEMMA LimitRange ==
    ASSUME TypeOK
    PROVE  /\ LimitNow \in 0..MaxPayloadLength
           /\ lastWrite = "never" => LimitNow = MTU - 55 - pad
           /\ lastWrite = "idle" => LimitNow = MTU - 39
           /\ lastWrite = "recent" => LimitNow = payloadLimit
<1>1. pad \in 256..511
  BY PadsAssumption DEF TypeOK
<1>2. CASE lastWrite = "never"
  <2>1. LimitNow = 1405 - pad
    BY <1>1, <1>2 DEF LimitNow, MTU
  <2> QED
    BY <1>1, <1>2, <2>1, PayloadRoom DEF MTU
<1>3. CASE lastWrite = "idle"
  <2>1. LimitNow = 1421
    BY <1>3 DEF LimitNow, MTU
  <2> QED
    BY <1>3, <2>1, PayloadRoom DEF MTU
<1>4. CASE lastWrite = "recent"
  <2>1. LimitNow = payloadLimit
    BY <1>4 DEF LimitNow
  <2> QED
    BY <1>4, <2>1 DEF TypeOK
<1> QED
  BY <1>2, <1>3, <1>4 DEF TypeOK

(* The limit kept for later grows until it reaches the maximum. *)
LEMMA LimitGrows ==
    ASSUME NEW l \in 0..MaxPayloadLength
    PROVE  /\ LimitNext(l) \in 0..MaxPayloadLength
           /\ LimitNext(l) > l \/ LimitNext(l) = MaxPayloadLength
<1>1. l \in Nat /\ l <= MaxPayloadLength /\ MaxPayloadLength \in Nat /\ MTU = 1460
  BY PayloadRoom DEF MTU
<1>2. CASE l <= MaxPayloadLength - 1 /\ l + MTU - 39 <= MaxPayloadLength
  <2>1. LimitNext(l) = l + MTU - 39
    BY <1>2, Zenon DEF LimitNext, Least
  <2> QED
    BY <1>1, <1>2, <2>1
<1>3. CASE ~(l <= MaxPayloadLength - 1 /\ l + MTU - 39 <= MaxPayloadLength)
  <2>1. LimitNext(l) = MaxPayloadLength
    BY <1>3, Zenon DEF LimitNext, Least
  <2> QED
    BY <1>1, <2>1
<1> QED
  BY <1>2, <1>3, Zenon

(* Write takes at least a byte, and no more than the limit and the slice. *)
LEMMA PayloadRange ==
    ASSUME NEW l \in 0..MaxPayloadLength, left \in Nat, left > 0
    PROVE  /\ FramePayload(l) \in 1..MaxPayloadLength
           /\ FramePayload(l) <= left
           /\ l > 0 => FramePayload(l) <= l
<1> DEFINE k == IF l <= 0 \/ l > MaxPayloadLength THEN MaxPayloadLength ELSE l
<1>1. k \in 1..MaxPayloadLength /\ (l > 0 => k = l)
  BY PayloadRoom
<1>2. FramePayload(l) = IF k <= left THEN k ELSE left
  BY Zenon DEF FramePayload, Least
<1> HIDE DEF k
<1>3. MaxPayloadLength \in Nat
  BY PayloadRoom
<1> QED
  BY <1>1, <1>2, <1>3

LEMMA InitIInv == Init => IInv
<1> SUFFICES ASSUME Init
             PROVE  IInv
  OBVIOUS
<1>1. TypeOK
  <2>1. frame \in Frame
    <3>1. 0 \in {0, SaltSize} /\ 0 \in 0..511 /\ 0 \in 0..MaxPayloadLength
      BY MaxPayload
    <3> QED
      BY <3>1 DEF Init, Frame
  <2>2. payloadLimit \in 0..MaxPayloadLength
    BY MaxPayload DEF Init
  <2> QED
    BY <2>1, <2>2 DEF Init, TypeOK
<1>2. SaltFirst /\ OpeningFrameFitsMTU
  BY DEF Init, SaltFirst, OpeningFrameFitsMTU
<1> QED
  BY <1>1, <1>2 DEF IInv

(* One frame of a Write *)
LEMMA WriteNextIInv ==
    ASSUME IInv, WriteNext
    PROVE  IInv'
<1> DEFINE n == FramePayload(LimitNow)
<1>1. LimitNow \in 0..MaxPayloadLength
  BY LimitRange DEF IInv
<1>2. n \in 1..MaxPayloadLength /\ n <= left /\ (LimitNow > 0 => n <= LimitNow)
  BY <1>1, PayloadRange DEF IInv, TypeOK, WriteNext
<1>3. frame' = [salt |-> IF saltSent THEN 0 ELSE SaltSize,
                padding |-> IF saltSent THEN 0 ELSE pad,
                payload |-> n, opens |-> lastWrite # "recent"]
  <2>1. n # 0
    BY <1>2
  <2>2. FramePadding(n) = IF saltSent THEN 0 ELSE pad
    BY <2>1, Zenon DEF FramePadding
  <2> QED
    BY <2>2, Zenon DEF WriteNext, WriteFrame
<1>4. pad \in 256..511
  BY PadsAssumption DEF IInv, TypeOK
<1>8. left' = left - n
  BY DEF WriteNext
<1> HIDE DEF n
<1>5. TypeOK'
  <2>1. payloadLimit' \in 0..MaxPayloadLength
    BY <1>1, LimitGrows DEF WriteNext
  <2>2. left' \in Nat
    <3>1. left \in Nat /\ n \in Nat
      BY <1>2, PayloadRoom DEF IInv, TypeOK
    <3> QED
      BY <1>2, <1>8, <3>1
  <2>3. frame' \in Frame
    <3>1. (IF saltSent THEN 0 ELSE SaltSize) \in {0, SaltSize}
      BY Zenon
    <3>2. (IF saltSent THEN 0 ELSE pad) \in 0..511
      BY <1>4
    <3>3. n \in 0..MaxPayloadLength
      BY <1>2, PayloadRoom
    <3>4. (lastWrite # "recent") \in BOOLEAN
      BY Zenon
    <3> QED
      BY <1>3, <3>1, <3>2, <3>3, <3>4, Zenon DEF Frame
  <2> QED
    BY <2>1, <2>2, <2>3 DEF WriteNext, WriteFrame, IInv, TypeOK
<1>6. SaltFirst'
  BY DEF WriteNext, WriteFrame, SaltFirst
<1>7. OpeningFrameFitsMTU'
  <2>1. CASE lastWrite = "recent"
    <3>1. frame'.salt = 0 /\ frame'.opens = FALSE
      BY <1>3, <2>1 DEF IInv, SaltFirst
    <3> QED
      BY <3>1 DEF OpeningFrameFitsMTU
  <2>2. CASE lastWrite = "idle"
    <3>1. n <= MTU - 39
      BY <1>2, <2>2, LimitRange DEF IInv, MTU
    <3>2. frame'.salt = 0 /\ frame'.padding = 0 /\ frame'.payload = n
      BY <1>3, <2>2 DEF IInv, SaltFirst
    <3>3. FrameLength' = 39 + n
      BY <1>2, <3>2, MaxPayload DEF FrameLength, HeaderCipherSize, Overhead
    <3> QED
      BY SMTT(30), <1>2, <3>1, <3>3, MaxPayload DEF OpeningFrameFitsMTU, MTU
  <2>3. CASE lastWrite = "never"
    <3>1. n <= MTU - 55 - pad
      BY <1>2, <1>4, <2>3, LimitRange DEF IInv, MTU
    <3>2. /\ frame'.salt \in {0, SaltSize}
          /\ frame'.padding \in {0, pad}
          /\ frame'.payload = n
      BY <1>3
    <3>3. n \in Nat /\ n # 0 /\ n <= 1405 - pad
      BY SMTT(30), <1>2, <1>4, <3>1, MaxPayload DEF MTU
    <3>4. frame'.salt \in 0..16 /\ frame'.padding \in 0..pad
      BY <1>4, <3>2 DEF SaltSize
    <3>5. FrameLength' = frame'.salt + 23 + frame'.padding + (n + 16)
      BY <3>2, <3>3 DEF FrameLength, HeaderCipherSize, Overhead
    <3>6. FrameLength' <= 1460
      BY <1>4, <3>3, <3>4, <3>5
    <3> QED
      BY <3>6 DEF OpeningFrameFitsMTU, MTU
  <2> QED
    BY <2>1, <2>2, <2>3 DEF IInv, TypeOK
<1> QED
  BY <1>5, <1>6, <1>7 DEF IInv

(* A frame without the salt that opens no burst is of any length; what is   *)
(* left of a Write and the limits do not change with it.                    *)
LEMMA LaterFrameIInv ==
    ASSUME IInv,
           NEW salt \in {0, SaltSize}, NEW n \in 0..MaxPayloadLength,
           frame' = [salt |-> salt, padding |-> 0, payload |-> n, opens |-> FALSE],
           salt = 0 \/ n = 0,
           saltSent' = TRUE,
           UNCHANGED <<pad, lastWrite, payloadLimit, left>>
    PROVE  IInv'
<1>1. frame' \in Frame
  <2>1. 0 \in 0..511
    OBVIOUS
  <2> QED
    BY <2>1, Zenon DEF Frame
<1>2. TypeOK'
  <2>1. saltSent' \in BOOLEAN
    OBVIOUS
  <2> QED
    BY <1>1, <2>1, Zenon DEF IInv, TypeOK
<1>3. SaltFirst'
  BY Zenon DEF SaltFirst
<1>4. OpeningFrameFitsMTU'
  <2>1. /\ frame'.salt = salt /\ frame'.padding = 0
        /\ frame'.payload = n /\ frame'.opens = FALSE
    BY Zenon
  <2>2. CASE salt = 0
    BY <2>1, <2>2, Zenon DEF OpeningFrameFitsMTU
  <2>3. CASE n = 0
    <3>1. FrameLength' = salt + 23
      BY <2>1, <2>3 DEF FrameLength, HeaderCipherSize, SaltSize
    <3>2. FrameLength' <= 1460
      BY <3>1 DEF SaltSize
    <3> QED
      BY <3>2 DEF OpeningFrameFitsMTU, MTU
  <2> QED
    BY <2>2, <2>3
<1> QED
  BY <1>2, <1>3, <1>4, Zenon DEF IInv

LEMMA WriteEmptyIInv ==
    ASSUME IInv, WriteEmpty
    PROVE  IInv'
<1> DEFINE salt == IF saltSent THEN 0 ELSE SaltSize
<1>1. salt \in {0, SaltSize}
  BY Zenon
<1>2. 0 \in 0..MaxPayloadLength
  BY MaxPayload
<1>3. frame' = [salt |-> salt, padding |-> 0, payload |-> 0, opens |-> FALSE]
  BY Zenon DEF WriteEmpty, WriteFrame
<1>4. saltSent' = TRUE /\ UNCHANGED <<pad, lastWrite, payloadLimit, left>>
  BY Zenon DEF WriteEmpty, WriteFrame
<1> HIDE DEF salt
<1> QED
  BY <1>1, <1>2, <1>3, <1>4, LaterFrameIInv, Zenon

LEMMA WritePacketFrameIInv ==
    ASSUME IInv, NEW n \in 1..MaxPayloadLength, WritePacketFrame(n)
    PROVE  IInv'
<1>1. WriteFrame(n, FramePadding(n), FALSE)
  BY Zenon DEF WritePacketFrame
<1>2. n \in 0..MaxPayloadLength
  BY PayloadRoom
<1>3. saltSent /\ UNCHANGED <<pad, lastWrite, payloadLimit, left>>
  BY Zenon DEF WritePacketFrame
<1>4. FramePadding(n) = 0
  BY <1>3, Zenon DEF FramePadding
<1>5. frame' = [salt |-> 0, padding |-> 0, payload |-> n, opens |-> FALSE]
  BY <1>1, <1>3, <1>4, Zenon DEF WriteFrame
<1>6. saltSent' = TRUE
  BY <1>1, Zenon DEF WriteFrame
<1> QED
  BY <1>2, <1>3, <1>5, <1>6, LaterFrameIInv, Zenon

(* A step that writes no frame *)
LEMMA NoFrameIInv ==
    ASSUME IInv,
           UNCHANGED <<pad, saltSent, payloadLimit, frame>>,
           left' \in Nat, lastWrite' \in {"never", "recent", "idle"},
           lastWrite' # "never" => lastWrite # "never"
    PROVE  IInv'
<1>1. TypeOK'
  BY Zenon DEF IInv, TypeOK
<1>2. SaltFirst'
  BY Zenon DEF IInv, SaltFirst
<1>3. OpeningFrameFitsMTU'
  <2>1. FrameLength' = FrameLength
    BY Zenon DEF FrameLength
  <2> QED
    BY <2>1, Zenon DEF IInv, OpeningFrameFitsMTU
<1> QED
  BY <1>1, <1>2, <1>3, Zenon DEF IInv

LEMMA OtherIInv ==
    ASSUME IInv, Write \/ Pause \/ UNCHANGED vars
    PROVE  IInv'
<1>1. left \in Nat /\ lastWrite \in {"never", "recent", "idle"}
  BY Zenon DEF IInv, TypeOK
<1>2. CASE Write
  <2>1. left' \in Nat
    BY <1>2, SizesAssumption, Zenon DEF Write
  <2> QED
    BY <1>1, <1>2, <2>1, NoFrameIInv, Zenon DEF Write
<1>3. CASE Pause
  <2>1. lastWrite = "recent" /\ lastWrite' = "idle"
    BY <1>3, Zenon DEF Pause
  <2>2. lastWrite # "never"
    BY <2>1
  <2> QED
    BY <1>1, <1>3, <2>1, <2>2, NoFrameIInv, Zenon DEF Pause
<1>4. CASE UNCHANGED vars
  BY <1>1, <1>4, NoFrameIInv, Zenon DEF vars
<1> QED
  BY <1>2, <1>3, <1>4

LEMMA Inductive == Spec => []IInv
<1>1. IInv /\ [Next]_vars => IInv'
  BY WriteNextIInv, WriteEmptyIInv, WritePacketFrameIInv, OtherIInv DEF Next
<1> QED
  BY <1>1, InitIInv, PTL DEF Spec

(* Lengths stay in range: no limit or frame length leaves its 16 bits.      *)
THEOREM TypeCorrect == Spec => []TypeOK
<1>1. IInv => TypeOK
  BY DEF IInv
<1> QED
  BY <1>1, Inductive, PTL

(* Once a Write has sent a frame the limit kept for the next is more than   *)
(* one MTU and at most the largest payload, for every padding: a frame that *)
(* follows in a burst is never smaller than the ones that open it           *)
(* (nextPayloadLimit's ramp and its saturation).                            *)
LimitAfterData ==
    lastWrite # "never" => payloadLimit > MTU /\ payloadLimit <= MaxPayloadLength

LEMMA LimitAfterWrite ==
    ASSUME IInv, LimitAfterData, WriteNext
    PROVE  LimitAfterData'
<1>1. payloadLimit' = LimitNext(LimitNow)
  BY DEF WriteNext
<1>2. LimitNow \in 0..MaxPayloadLength /\ LimitNow > 893
  <2>1. pad \in 256..511
    BY PadsAssumption DEF IInv, TypeOK
  <2> QED
    BY <2>1, LimitRange DEF IInv, TypeOK, LimitAfterData, MTU
<1> DEFINE l == LimitNow
<1> HIDE DEF l
<1>3. LimitNext(l) > 1460 /\ LimitNext(l) <= MaxPayloadLength
  <2>1. l \in Nat /\ l > 893 /\ l <= 16383
    BY <1>2, PayloadBound DEF l
  <2>2. CASE l <= 16382 /\ l + 1421 <= 16383
    BY <2>1, <2>2, MaxPayload DEF LimitNext, Least, MTU
  <2>3. CASE ~(l <= 16382 /\ l + 1421 <= 16383)
    BY <2>1, <2>3, MaxPayload DEF LimitNext, Least, MTU
  <2> QED
    BY <2>2, <2>3
<1> QED
  BY <1>1, <1>3 DEF LimitAfterData, MTU, l

(* The ramp never falls back below an MTU, and saturates in time.           *)
THEOREM LimitsOfBurst == Spec => []LimitAfterData
<1>1. Init => LimitAfterData
  BY DEF Init, LimitAfterData
<1>2. IInv /\ LimitAfterData /\ [Next]_vars => LimitAfterData'
  <2> SUFFICES ASSUME IInv, LimitAfterData, [Next]_vars
               PROVE  LimitAfterData'
    OBVIOUS
  <2>1. CASE WriteNext
    BY <2>1, LimitAfterWrite
  <2>2. CASE ~WriteNext
    <3>1. payloadLimit' = payloadLimit /\ (lastWrite' # "never" => lastWrite # "never")
      BY <2>2 DEF Next, Write, WriteEmpty, WritePacketFrame, Pause, vars
    <3> QED
      BY <3>1 DEF LimitAfterData, MTU
  <2> QED
    BY <2>1, <2>2
<1> QED
  BY <1>1, <1>2, Inductive, PTL DEF Spec

(* Every frame that opens a connection or a burst fits in one MTU, for      *)
(* every padding newV4Writer may draw and every slice Write is given.       *)
THEOREM OpeningFrames == Spec => []OpeningFrameFitsMTU
<1>1. IInv => OpeningFrameFitsMTU
  BY DEF IInv
<1> QED
  BY <1>1, Inductive, PTL

(* Write of data never emits a zero chunk, and makes progress.              *)
THEOREM DataFrames == Spec => DataNeverAsZeroChunk
<1>1. IInv /\ [Next]_vars =>
        [left > 0 /\ <<left, frame>>' # <<left, frame>> =>
            /\ frame'.payload \in 1..MaxPayloadLength
            /\ left' = left - frame'.payload]_vars
  <2> SUFFICES ASSUME IInv, Next, left > 0, <<left, frame>>' # <<left, frame>>
               PROVE  /\ frame'.payload \in 1..MaxPayloadLength
                      /\ left' = left - frame'.payload
    BY DEF vars
  <2>0. left # 0 /\ ~ UNCHANGED <<left, frame>>
    OBVIOUS
  <2>1. WriteNext
    BY <2>0, Zenon DEF Next, Write, WriteEmpty, WritePacketFrame, WriteFrame, Pause
  <2>2. FramePayload(LimitNow) \in 1..MaxPayloadLength
    BY LimitRange, PayloadRange DEF IInv, TypeOK
  <2> QED
    BY <2>1, <2>2 DEF WriteNext, WriteFrame
<1> QED
  BY <1>1, Inductive, PTL DEF Spec, DataNeverAsZeroChunk

(* Within a burst the limit grows until it saturates.                       *)
THEOREM BurstRamp == Spec => BurstRampsUp
<1>1. IInv /\ [Next]_vars =>
        [lastWrite = "recent" /\ left > 0 /\ left' # left =>
            payloadLimit' > payloadLimit \/ payloadLimit' = MaxPayloadLength]_vars
  <2> SUFFICES ASSUME IInv, Next, lastWrite = "recent", left > 0, left' # left
               PROVE  payloadLimit' > payloadLimit \/ payloadLimit' = MaxPayloadLength
    BY DEF vars
  <2>0. left # 0
    OBVIOUS
  <2>1. WriteNext
    BY <2>0, Zenon DEF Next, Write, WriteEmpty, WritePacketFrame, WriteFrame, Pause
  <2>2. LimitNow \in 0..MaxPayloadLength /\ LimitNow = payloadLimit
    BY LimitRange DEF IInv
  <2>3. payloadLimit' = LimitNext(payloadLimit)
    BY <2>1, <2>2 DEF WriteNext
  <2> QED
    BY <2>2, <2>3, LimitGrows
<1> QED
  BY <1>1, Inductive, PTL DEF Spec, BurstRampsUp

-----------------------------------------------------------------------------
(* Packets.  An address of any length of name and any port *)
AnyAddr == [form : {"ip4", "mapped", "ip6"}, host : {0}, port : 0..255]
           \cup [form : {"name"}, host : 0..255, port : 0..255]

LEMMA AddrsAny == Addrs \subseteq AnyAddr
<1>1. \A p \in PortHighs : p \in 0..255
  BY PortHighsAssumption, Zenon
<1>2. \A h \in HostLens : h \in 0..255
  BY HostLensAssumption, Zenon
<1> SUFFICES ASSUME NEW a \in Addrs
             PROVE  a \in AnyAddr
  BY Zenon
<1>3. CASE a \in [form : {"ip4", "mapped", "ip6"}, host : {0}, port : PortHighs]
  BY <1>1, <1>3 DEF AnyAddr
<1>4. CASE a \in [form : {"name"}, host : HostLens, port : PortHighs]
  BY <1>1, <1>2, <1>4 DEF AnyAddr
<1> QED
  BY <1>3, <1>4 DEF Addrs

LEMMA ResolveAny ==
    ASSUME NEW a \in AnyAddr, NEW r \in Resolve(a)
    PROVE  r \in AnyAddr
<1>1. CASE HasUDPAddr(a) \/ a.host = 0
  BY <1>1 DEF Resolve
<1>2. CASE ~(HasUDPAddr(a) \/ a.host = 0)
  <2>1. PICK f \in {"ip4", "ip6"} : r = [a EXCEPT !.form = f, !.host = 0]
    BY <1>2 DEF Resolve
  <2>2. a \in [form : {"name"}, host : 0..255, port : 0..255]
    BY <1>2 DEF HasUDPAddr, AnyAddr
  <2>3. r = [form |-> f, host |-> 0, port |-> a.port] /\ a.port \in 0..255
    BY <2>1, <2>2
  <2> QED
    BY <2>3 DEF AnyAddr
<1> QED
  BY <1>1, <1>2

(* What SocksAddr makes of an address *)
LEMMA SocksForm ==
    ASSUME NEW a \in AnyAddr
    PROVE  /\ SocksAddr(a).host = a.host /\ SocksAddr(a).host \in 0..255
           /\ SocksAddr(a).form \in {"ip4", "ip6", "name"}
           /\ SocksAddr(a).form = "name" <=> a.form = "name"
           /\ SocksAddr(a).form = "ip6" <=> a.form = "ip6"
           /\ SocksAddr(a).form # "name" => a.host = 0
           /\ a.form # "none"
BY DEF SocksAddr, AnyAddr

(* udpHeaderLength counts what writeUDPRequest puts before the payload.     *)
LEMMA RequestLength ==
    ASSUME NEW s, s.host \in 0..255, s.form \in {"ip4", "ip6", "name"}, NEW n \in Nat
    PROVE  /\ udpHeaderLength(s) \in 4..259
           /\ Request(s, n).len = udpHeaderLength(s) + n
<1>1. CASE s.form = "name"
  BY <1>1 DEF udpHeaderLength, Request
<1>2. CASE s.form = "ip4"
  BY <1>2 DEF udpHeaderLength, Request
<1>3. CASE s.form = "ip6"
  BY <1>3 DEF udpHeaderLength, Request
<1> QED
  BY <1>1, <1>2, <1>3

(* ParseUDPRequest undoes writeUDPRequest.                                  *)
LEMMA RequestParsed ==
    ASSUME NEW s, s.host \in 0..255, s.form \in {"ip4", "ip6", "name"},
           s.form # "name" => s.host = 0, NEW n \in Nat,
           ~(s.form = "name" /\ (s.host = 0 \/ n = 0))
    PROVE  ParseUDPRequest(Request(s, n)) = Packet(s.form, s.host, n)
<1>1. CASE s.form = "name"
  <2>1. /\ Request(s, n).len = 4 + s.host + n
        /\ Request(s, n).second = s.host
    BY <1>1 DEF Request
  <2> QED
    BY <1>1, <2>1 DEF ParseUDPRequest
<1>2. CASE s.form = "ip4"
  <2>1. /\ Request(s, n).len = 9 + n
        /\ Request(s, n).second = 0 /\ Request(s, n).third = 4
    BY <1>2 DEF Request
  <2> QED
    BY <1>2, <2>1 DEF ParseUDPRequest
<1>3. CASE s.form = "ip6"
  <2>1. /\ Request(s, n).len = 21 + n
        /\ Request(s, n).second = 0 /\ Request(s, n).third = 6
    BY <1>3 DEF Request
  <2> QED
    BY <1>3, <2>1 DEF ParseUDPRequest
<1> QED
  BY <1>1, <1>2, <1>3

(* ReadPacketResponse undoes WritePacketResponse.                           *)
LEMMA ResponseParsed ==
    ASSUME NEW s, s.form \in {"ip4", "ip6"}, NEW n \in 0..MaxPayloadLength
    PROVE  /\ Response(s, n).len = (IF s.form = "ip4" THEN 7 ELSE 19) + n
           /\ ReadPacketResponse(Response(s, n)) = Packet(s.form, 0, n)
<1>1. n \in Nat /\ n <= 16383
  BY PayloadRoom, PayloadBound
<1>2. CASE s.form = "ip4"
  <2>1. Response(s, n).len = 7 + n /\ Response(s, n).first = 4
    BY <1>1, <1>2 DEF Response
  <2> QED
    BY <1>1, <1>2, <2>1 DEF ReadPacketResponse, Least, RelayBufferSize
<1>3. CASE s.form = "ip6"
  <2>1. Response(s, n).len = 19 + n /\ Response(s, n).first = 6
    BY <1>1, <1>3 DEF Response
  <2> QED
    BY <1>1, <1>3, <2>1 DEF ReadPacketResponse, Least, RelayBufferSize
<1> QED
  BY <1>2, <1>3

(* A frame fits the buffer that is read into.                               *)
LEMMA FrameFits ==
    ASSUME NEW k \in 0..MaxPayloadLength, NEW size \in {ServerBuf, ClientBuf}
    PROVE  Least(k, size) = k
<1>1. k \in Nat /\ k <= 16383
  BY PayloadRoom, PayloadBound
<1>2. size = 16383 \/ size = 16384
  BY MaxPayload DEF ServerBuf, ClientBuf
<1> QED
  BY <1>1, <1>2 DEF Least

LEMMA FrameRange ==
    ASSUME NEW k \in Nat, ~(k > MaxPayloadLength)
    PROVE  k \in 0..MaxPayloadLength
BY PayloadRoom

LEMMA RequestRead ==
    ASSUME NEW s, NEW n, Request(s, n).len \in 0..MaxPayloadLength
    PROVE  ReadInto(Request(s, n), ServerBuf) = Request(s, n)
<1>1. Least(Request(s, n).len, ServerBuf) = Request(s, n).len
  BY FrameFits
<1>2. Request(s, n) = [Request(s, n) EXCEPT !.len = Request(s, n).len]
  BY DEF Request
<1> QED
  BY <1>1, <1>2, Zenon DEF ReadInto

LEMMA ResponseRead ==
    ASSUME NEW s, NEW n, Response(s, n).len \in 0..MaxPayloadLength
    PROVE  ReadInto(Response(s, n), ClientBuf) = Response(s, n)
<1>1. Least(Response(s, n).len, ClientBuf) = Response(s, n).len
  BY FrameFits
<1>2. Response(s, n) = [Response(s, n) EXCEPT !.len = Response(s, n).len]
  BY DEF Response
<1> QED
  BY <1>1, <1>2, Zenon DEF ReadInto

(* A request that is sent is read as it was, unless it is one that cannot.  *)
LEMMA SendPacketArrives ==
    ASSUME NEW a \in AnyAddr, NEW n \in Nat, SendPacket(a, n)
    PROVE  PacketArrives'
<1> DEFINE s == SocksAddr(a)
           H == udpHeaderLength(s)
           p == Request(s, n)
<1>1. /\ s.host = a.host /\ s.host \in 0..255
      /\ s.form \in {"ip4", "ip6", "name"}
      /\ s.form = "name" <=> a.form = "name"
      /\ s.form = "ip6" <=> a.form = "ip6"
      /\ s.form # "name" => s.host = 0
      /\ a.form # "none"
  BY SocksForm
<1>2. H \in 4..259 /\ p.len = H + n
  BY <1>1, RequestLength
<1>3. /\ given' = [addr |-> a, n |-> n] /\ side' = "up"
      /\ WriteTo(s, n)
  BY DEF SendPacket, Given
<1>4. HeaderLength' = H
  <2>1. given'.addr.form = a.form /\ given'.addr.host = a.host
    BY <1>3
  <2>2. CASE a.form = "name"
    BY <1>1, <1>3, <2>1, <2>2 DEF HeaderLength, udpHeaderLength
  <2>3. CASE a.form = "ip6"
    BY <1>1, <1>3, <2>1, <2>3 DEF HeaderLength, udpHeaderLength
  <2>4. CASE a.form # "name" /\ a.form # "ip6"
    BY <1>1, <1>3, <2>1, <2>4 DEF HeaderLength, udpHeaderLength
  <2> QED
    BY <2>2, <2>3, <2>4
<1>5. CASE H + n > MaxPayloadLength
  <2>1. n > MaxPayloadLength - H
    BY <1>2, <1>5, MaxPayload
  <2>2. outcome' = "refused"
    BY <1>3, <2>1, Zenon DEF WriteTo, Refuse
  <2> QED
    BY <1>3, <1>4, <1>5, <2>2 DEF PacketArrives
<1>6. CASE ~(H + n > MaxPayloadLength)
  <2>1. ~(n > MaxPayloadLength - H) /\ ~(p.len > MaxPayloadLength)
    BY <1>2, <1>6, MaxPayload
  <2>2. p.len \in 0..MaxPayloadLength
    <3>1. p.len \in Nat
      BY <1>2
    <3> QED
      BY <2>1, <3>1, FrameRange
  <2>3. Arrives(p, ParseUDPRequest(p), ServerBuf)
    BY <1>3, <2>1, <2>2, RequestRead, Zenon DEF WriteTo
  <2>4. outcome' \in {"taken", "error"}
    BY <2>3 DEF Arrives
  <2>5. CASE s.form = "name" /\ (s.host = 0 \/ n = 0)
    <3>1. Misread'
      BY <1>1, <1>3, <2>5 DEF Misread
    <3> QED
      BY <1>3, <1>4, <1>6, <2>4, <3>1 DEF PacketArrives
  <2>6. CASE ~(s.form = "name" /\ (s.host = 0 \/ n = 0))
    <3>1. ParseUDPRequest(p) = Packet(s.form, s.host, n)
      BY <1>1, <2>6, RequestParsed
    <3>2. Packet(s.form, s.host, n) # Error
      <4>1. Error.form = "error" /\ Packet(s.form, s.host, n).form = s.form
        BY DEF Error, Packet
      <4> QED
        BY <1>1, <4>1
    <3>3. outcome' = "taken" /\ seen' = [form |-> s.form, host |-> s.host, n |-> n, rest |-> 0]
      <4>1. Least(p.len, ServerBuf) = p.len /\ p.len - p.len = 0
        BY <1>2, <2>2, FrameFits
      <4> QED
        BY <2>3, <3>1, <3>2, <4>1 DEF Arrives, Packet
    <3>4. ReadAsSent'
      BY <1>1, <1>3, <3>3 DEF ReadAsSent
    <3> QED
      BY <1>3, <1>4, <1>6, <3>3, <3>4 DEF PacketArrives
  <2> QED
    BY <2>5, <2>6
<1> QED
  BY <1>5, <1>6

(* A request without an address is refused: no payload is short enough.     *)
LEMMA NoAddrRefused ==
    ASSUME NEW n \in Nat, SendPacket(NoAddr, n)
    PROVE  PacketArrives' /\ UNCHANGED vars
<1>1. SocksAddr(NoAddr) = NoAddr /\ udpHeaderLength(NoAddr) = 16384
  BY MaxPayload DEF SocksAddr, udpHeaderLength, NoAddr
<1>2. n > MaxPayloadLength - udpHeaderLength(NoAddr)
  BY <1>1, MaxPayload
<1>3. Refuse
  <2>1. WriteTo(NoAddr, n)
    BY <1>1 DEF SendPacket
  <2> QED
    BY <1>2, <2>1, Zenon DEF WriteTo
<1>4. given' = [addr |-> NoAddr, n |-> n]
  BY DEF SendPacket, Given
<1>5. HeaderLength' = 16384
  BY <1>4, MaxPayload DEF HeaderLength, NoAddr
<1>6. HeaderLength' + given'.n > MaxPayloadLength
  BY <1>4, <1>5, MaxPayload
<1> QED
  BY <1>3, <1>6 DEF Refuse, PacketArrives

(* A reply longer than the server's buffer is cut there and refused.        *)
LEMMA IngressArrives ==
    ASSUME NEW a \in AnyAddr, NEW d \in Nat, Ingress(a, d)
    PROVE  PacketArrives'
<1> DEFINE s == SocksAddr(a)
           n == Least(d, MaxPayloadLength)
           h == IF s.form = "ip4" THEN 7 ELSE 19
           p == Response(s, n)
<1>1. s.host = a.host /\ s.host = 0 /\ s.form \in {"ip4", "ip6"} /\ (s.form = "ip6" <=> a.form = "ip6")
      /\ a.form # "none"
  BY SocksForm DEF Ingress
<1>2. n \in 0..MaxPayloadLength /\ (d <= MaxPayloadLength => n = d)
      /\ (d > MaxPayloadLength => n = MaxPayloadLength)
  BY PayloadRoom DEF Least
<1>3. h \in {7, 19} /\ p.len = h + n /\ ReadPacketResponse(p) = Packet(s.form, 0, n)
  BY <1>1, <1>2, ResponseParsed
<1>4. given' = [addr |-> a, n |-> d] /\ side' = "down" /\ a.form # "name"
  BY DEF Ingress, Given
<1>5. HeaderLength' = h
  BY <1>1, <1>4 DEF HeaderLength
<1>6. n \in Nat /\ d \in Nat /\ h \in Nat
  BY <1>2, <1>3, PayloadRoom
<1>7. h + n > MaxPayloadLength <=> h + d > MaxPayloadLength
  <2>1. CASE d <= MaxPayloadLength
    BY <1>2, <2>1, Zenon
  <2>2. CASE ~(d <= MaxPayloadLength)
    <3>1. n = MaxPayloadLength /\ d > MaxPayloadLength /\ h > 0
      BY <1>2, <1>3, <1>6, <2>2, PayloadRoom
    <3> HIDE DEF n, h
    <3> QED
      BY <1>6, <3>1, MaxPayload
  <2> QED
    BY <2>1, <2>2
<1>8. IF p.len > MaxPayloadLength
      THEN Refuse
      ELSE Arrives(p, ReadPacketResponse(ReadInto(p, ClientBuf)), ClientBuf)
  BY Zenon DEF Ingress
<1>9. CASE p.len > MaxPayloadLength
  <2>1. outcome' = "refused"
    BY <1>8, <1>9, Zenon DEF Refuse
  <2> QED
    BY <1>3, <1>4, <1>5, <1>7, <1>9, <2>1 DEF PacketArrives
<1>10. CASE ~(p.len > MaxPayloadLength)
  <2>1. p.len \in 0..MaxPayloadLength
    <3>1. p.len \in Nat
      BY <1>3, <1>6
    <3> QED
      BY <1>10, <3>1, FrameRange
  <2>2. Arrives(p, Packet(s.form, 0, n), ClientBuf)
    BY <1>3, <1>8, <1>10, <2>1, ResponseRead, Zenon
  <2>3. Packet(s.form, 0, n) # Error
    <3>1. Error.form = "error" /\ Packet(s.form, 0, n).form = s.form
      BY DEF Error, Packet
    <3> QED
      BY <1>1, <3>1
  <2>4. outcome' = "taken" /\ seen' = [form |-> s.form, host |-> 0, n |-> n, rest |-> 0]
    <3>1. Least(p.len, ClientBuf) = p.len /\ p.len - p.len = 0
      BY <1>3, <1>6, <2>1, FrameFits
    <3> QED
      BY <2>2, <2>3, <3>1 DEF Arrives, Packet
  <2>5. n = d
    <3> HIDE DEF n, h
    <3>1. h + n <= MaxPayloadLength
      BY <1>3, <1>6, <1>10, MaxPayload
    <3> QED
      BY <1>2, <1>3, <1>6, <3>1, MaxPayload
  <2>6. ReadAsSent'
    BY <1>1, <1>4, <2>4, <2>5 DEF ReadAsSent
  <2> QED
    BY <1>3, <1>4, <1>5, <1>7, <1>10, <2>4, <2>6 DEF PacketArrives
<1> QED
  BY <1>9, <1>10

(* Every packet that is sent is read as it was, or refused because no frame *)
(* holds it, for every address and every length (PacketArrives).            *)
THEOREM Packets == PSpec => []PacketArrives
<1>1. PInit => PacketArrives
  BY DEF PInit, PacketArrives
<1>2. PacketArrives /\ [PNext]_pvars => PacketArrives'
  <2> SUFFICES ASSUME PacketArrives, [PNext]_pvars
               PROVE  PacketArrives'
    OBVIOUS
  <2>1. CASE Stream
    BY <2>1 DEF Stream, PacketArrives
  <2>2. CASE DropDatagram
    BY <2>2 DEF DropDatagram, PacketArrives
  <2>3. ASSUME NEW a \in Addrs, NEW n \in Datagrams, SendPacket(a, n)
        PROVE  PacketArrives'
    BY <2>3, AddrsAny, DatagramsAssumption, SendPacketArrives
  <2>4. ASSUME NEW a \in Addrs, NEW n \in Datagrams, SendDatagram(a, n)
        PROVE  PacketArrives'
    <3>1. PICK r \in Resolve(a) : SendPacket(r, n)
      BY <2>4 DEF SendDatagram
    <3>2. r \in AnyAddr /\ n \in Nat
      BY AddrsAny, ResolveAny, DatagramsAssumption
    <3> QED
      BY <3>1, <3>2, SendPacketArrives
  <2>5. ASSUME NEW a \in Addrs, NEW n \in Datagrams, Ingress(a, n)
        PROVE  PacketArrives'
    BY <2>5, AddrsAny, DatagramsAssumption, IngressArrives
  <2>6. CASE UNCHANGED pvars
    BY <2>6 DEF pvars, udpVars, PacketArrives, HeaderLength, ReadAsSent, Misread
  <2>7. ASSUME NEW n \in Datagrams, SendPacket(NoAddr, n)
        PROVE  PacketArrives'
    BY <2>7, DatagramsAssumption, NoAddrRefused
  <2> QED
    BY <2>1, <2>2, <2>3, <2>4, <2>5, <2>6, <2>7 DEF PNext
<1> QED
  BY <1>1, <1>2, PTL DEF PSpec

-----------------------------------------------------------------------------
(* To the writer a packet is one more frame.                                *)
LEMMA SendPacketFrame ==
    ASSUME NEW a \in AnyAddr, NEW n \in Nat, SendPacket(a, n)
    PROVE  [Next]_vars
<1> DEFINE k == Request(SocksAddr(a), n).len
<1>1. k \in Nat /\ k > 0
  <2>1. /\ udpHeaderLength(SocksAddr(a)) \in 4..259
        /\ k = udpHeaderLength(SocksAddr(a)) + n
    BY SocksForm, RequestLength
  <2> QED
    BY <2>1
<1>2. WriteTo(SocksAddr(a), n)
  BY DEF SendPacket
<1>3. UNCHANGED vars \/ (~(k > MaxPayloadLength) /\ WritePacketFrame(k))
  BY <1>2, Zenon DEF WriteTo, Refuse
<1> HIDE DEF k
<1>4. ~(k > MaxPayloadLength) => k \in 1..MaxPayloadLength
  BY <1>1, PayloadRoom
<1> QED
  BY <1>3, <1>4, Zenon DEF Next

LEMMA IngressFrame ==
    ASSUME NEW a \in AnyAddr, NEW d \in Nat, Ingress(a, d)
    PROVE  [Next]_vars
<1> DEFINE n == Least(d, MaxPayloadLength)
           k == Response(SocksAddr(a), n).len
<1>1. k \in Nat /\ k > 0
  <2>1. n \in Nat /\ n \in 0..MaxPayloadLength
    BY PayloadRoom DEF Least
  <2>2. SocksAddr(a).form \in {"ip4", "ip6"}
    BY SocksForm DEF Ingress
  <2>3. k = (IF SocksAddr(a).form = "ip4" THEN 7 ELSE 19) + n
    BY <2>1, <2>2, ResponseParsed
  <2> QED
    BY <2>1, <2>3
<1>2. UNCHANGED vars \/ (~(k > MaxPayloadLength) /\ WritePacketFrame(k))
  BY Zenon DEF Ingress, Refuse
<1> HIDE DEF k
<1>3. ~(k > MaxPayloadLength) => k \in 1..MaxPayloadLength
  BY <1>1, PayloadRoom
<1> QED
  BY <1>2, <1>3, Zenon DEF Next

(* The sender of packets is a writer: what holds of every v4Writer's frames *)
(* holds of a UDP association's (udp.go, v4.go).                            *)
THEOREM PacketsAreFrames == PSpec => Spec
<1>1. PInit => Init
  BY DEF PInit
<1>2. [PNext]_pvars => [Next]_vars
  <2> SUFFICES ASSUME [PNext]_pvars
               PROVE  [Next]_vars
    OBVIOUS
  <2>1. CASE Stream
    BY <2>1, Zenon DEF Stream, Next
  <2>2. CASE DropDatagram
    BY <2>2, Zenon DEF DropDatagram
  <2>3. ASSUME NEW a \in Addrs, NEW n \in Datagrams, SendPacket(a, n)
        PROVE  [Next]_vars
    BY <2>3, AddrsAny, DatagramsAssumption, SendPacketFrame
  <2>4. ASSUME NEW a \in Addrs, NEW n \in Datagrams, SendDatagram(a, n)
        PROVE  [Next]_vars
    <3>1. PICK r \in Resolve(a) : SendPacket(r, n)
      BY <2>4 DEF SendDatagram
    <3>2. r \in AnyAddr /\ n \in Nat
      BY AddrsAny, ResolveAny, DatagramsAssumption
    <3> QED
      BY <3>1, <3>2, SendPacketFrame
  <2>5. ASSUME NEW a \in Addrs, NEW n \in Datagrams, Ingress(a, n)
        PROVE  [Next]_vars
    BY <2>5, AddrsAny, DatagramsAssumption, IngressFrame
  <2>6. CASE UNCHANGED pvars
    BY <2>6, Zenon DEF pvars
  <2>7. ASSUME NEW n \in Datagrams, SendPacket(NoAddr, n)
        PROVE  [Next]_vars
    BY <2>7, DatagramsAssumption, NoAddrRefused
  <2> QED
    BY <2>1, <2>2, <2>3, <2>4, <2>5, <2>6, <2>7, Zenon DEF PNext
<1> QED
  BY <1>1, <1>2, PTL DEF PSpec, Spec
=============================================================================
