------------------------------ MODULE UdpAssoc ------------------------------
(***************************************************************************)
(* One UDP association: the SOCKS5 control connection, the client's        *)
(* handleSocksUDP with its three goroutines, the snell connection, and the *)
(* server's handleUDP with its ingress goroutine.                          *)
(*                                                                         *)
(* A datagram is "fits" or "big": too big for one snell frame together     *)
(* with its address.  Both ends' TCP writes block when Cap frames are in   *)
(* flight.                                                                 *)
(***************************************************************************)
EXTENDS Integers, Sequences, FiniteSets

CONSTANTS
    Srcs,       \* addresses the application sends from
    Targets,    \* destinations
    NoSrc,      \* a nil clientAddr
    CacheMax,   \* addrCache.max
    Cap,        \* frames the TCP connection holds in each direction
    MaxSend,    \* bound: datagrams the application sends
    MaxReply    \* bound: datagrams the destinations send

ASSUME NoSrcAssumption == NoSrc \notin Srcs
ASSUME LimitsAssumption ==
    /\ CacheMax \in Nat \ {0} /\ Cap \in Nat \ {0} /\ MaxSend \in Nat /\ MaxReply \in Nat

Size == {"fits", "big"}

VARIABLES
    ctrl,       \* the SOCKS5 control connection is open
    nSent,      \* datagrams the application has sent
    cst,        \* handleSocksUDP: listen, dial, header, reply, run, done
    up, down, watch,    \* its pumps: none, read, send, done
    upMsg, downMsg,     \* what a pump has read and not yet sent
    cancelled,  \* ctx2
    clientAddr,
    sst,        \* server goroutine: request, tunnel, listen, run, join, done
    ingress,    \* handleUDPIngress: none, read, send, done
    inMsg,      \* the datagram it has read
    pc,         \* the server's UDP socket: none, open, closed
    cache,      \* addrCache.store
    nReply,     \* datagrams received on pc
    c2s, s2c,   \* frames in flight
    broken      \* the snell connection has been reset

app     == <<ctrl, nSent>>
pumps   == <<up, down, watch, upMsg, downMsg, cancelled, clientAddr>>
client  == <<cst, pumps>>
socket  == <<pc, nReply>>
server  == <<sst, ingress, inMsg, cache, socket>>
vars    == <<app, client, server, c2s, s2c, broken>>

TypeOK ==
    /\ ctrl \in BOOLEAN /\ nSent \in 0..MaxSend
    /\ cst \in {"listen", "dial", "header", "reply", "run", "done"}
    /\ up \in {"none", "read", "send", "done"}
    /\ down \in {"none", "read", "send", "done"}
    /\ watch \in {"none", "read", "done"}
    /\ upMsg \in [to : Targets, size : Size] /\ downMsg \in Targets
    /\ cancelled \in BOOLEAN /\ clientAddr \in Srcs \cup {NoSrc}
    /\ sst \in {"request", "tunnel", "listen", "run", "join", "done"}
    /\ ingress \in {"none", "read", "send", "done"}
    /\ inMsg \in [from : Targets, size : Size]
    /\ pc \in {"none", "open", "closed"} /\ cache \in SUBSET Targets
    /\ nReply \in 0..MaxReply
    /\ c2s \in Seq({"request"} \cup Targets) /\ s2c \in Seq({"tunnel", "error"} \cup Targets)
    /\ Len(c2s) <= Cap /\ Len(s2c) <= Cap
    /\ broken \in BOOLEAN

(* The SOCKS5 handshake is over.  The server goroutine is the one that will  *)
(* accept the snell connection.                                             *)
Init ==
    /\ ctrl = TRUE /\ nSent = 0
    /\ cst = "listen" /\ up = "none" /\ down = "none" /\ watch = "none"
    /\ upMsg \in [to : Targets, size : {"fits"}] /\ downMsg \in Targets
    /\ cancelled = FALSE /\ clientAddr = NoSrc
    /\ sst = "request" /\ ingress = "none"
    /\ inMsg \in [from : Targets, size : {"fits"}]
    /\ pc = "none" /\ cache = {} /\ nReply = 0
    /\ c2s = <<>> /\ s2c = <<>> /\ broken = FALSE

cClosed == cst = "done"
sClosed == sst = "done"

ClientWriteFails == broken \/ sClosed \/ cClosed
ServerWriteFails == broken \/ cClosed \/ sClosed
ClientReadFails  == broken \/ cClosed \/ (sClosed /\ s2c = <<>>)
ServerReadFails  == broken \/ (cClosed /\ c2s = <<>>)

-----------------------------------------------------------------------------
(* The application *)

CloseControl ==
    /\ ctrl
    /\ ctrl' = FALSE
    /\ UNCHANGED <<nSent, client, server, c2s, s2c, broken>>

-----------------------------------------------------------------------------
(* handleSocksUDP; returning also closes the control connection (deferred   *)
(* in handleSocks).                                                         *)
Return == cst' = "done" /\ ctrl' = FALSE

(* The local socket is bound and the snell server dialed, or one fails. *)
ClientListen ==
    /\ cst = "listen"
    /\ \/ cst' = "dial" /\ UNCHANGED ctrl
       \/ Return
    /\ UNCHANGED <<nSent, pumps, server, c2s, s2c, broken>>

ClientDial ==
    /\ cst = "dial"
    /\ \/ cst' = "header" /\ UNCHANGED ctrl
       \/ Return
    /\ UNCHANGED <<nSent, pumps, server, c2s, s2c, broken>>

(* WriteUDPHeader *)
ClientHeader ==
    /\ cst = "header"
    /\ \/ c2s' = Append(c2s, "request") /\ cst' = "reply" /\ UNCHANGED ctrl
       \/ ClientWriteFails /\ Return /\ UNCHANGED c2s
    /\ UNCHANGED <<nSent, pumps, server, s2c, broken>>

(* ReadReply, then the three goroutines start. *)
ClientReply ==
    /\ cst = "reply"
    /\ \/ /\ s2c # <<>> /\ s2c' = Tail(s2c)
          /\ \/ /\ Head(s2c) = "tunnel"
                /\ cst' = "run" /\ up' = "read" /\ down' = "read" /\ watch' = "read"
                /\ UNCHANGED ctrl
             \/ /\ Head(s2c) = "error"
                /\ Return /\ UNCHANGED <<up, down, watch>>
       \/ ClientReadFails /\ Return /\ UNCHANGED <<up, down, watch, s2c>>
    /\ UNCHANGED <<nSent, upMsg, downMsg, cancelled, clientAddr, server, c2s, broken>>

(* The main goroutine waits for ctx2 and returns. *)
ClientReturn ==
    /\ cst = "run" /\ cancelled
    /\ Return
    /\ UNCHANGED <<nSent, pumps, server, c2s, s2c, broken>>

(* Pump 1 reads a datagram of the application: one it cannot decode is      *)
(* dropped, of the others it remembers where they came from; one whose name *)
(* does not resolve goes no further.                                        *)
UpRead(src) ==
    /\ up = "read" /\ ~cClosed /\ nSent < MaxSend
    /\ nSent' = nSent + 1
    /\ \/ clientAddr' \in {clientAddr, src} /\ UNCHANGED <<up, upMsg>>
       \/ /\ clientAddr' = src
          /\ \E m \in [to : Targets, size : Size] : upMsg' = m /\ up' = "send"
    /\ UNCHANGED <<ctrl, cst, down, watch, downMsg, cancelled, server, c2s, s2c, broken>>

(* Mutant: the error is reported and the pump reads on. *)
UpEndsReadsOn == up' = "read" /\ cancelled' = TRUE

UpEnds == up' = "done" /\ cancelled' = TRUE

(* packetConn.WriteTo: one frame, or an error that ends the pump. *)
UpSend ==
    /\ up = "send"
    /\ \/ /\ upMsg.size = "fits" /\ Len(c2s) < Cap /\ ~broken /\ ~cClosed
          /\ c2s' = Append(c2s, upMsg.to)
          /\ up' = "read" /\ UNCHANGED cancelled
       \/ /\ upMsg.size = "big" \/ ClientWriteFails
          /\ UpEnds /\ UNCHANGED c2s
    /\ UNCHANGED <<app, cst, down, watch, upMsg, downMsg, clientAddr, server, s2c, broken>>

(* Nothing arrived for five minutes, or the local socket is closed. *)
UpTimeout ==
    /\ up = "read" /\ ~cClosed
    /\ UpEnds
    /\ UNCHANGED <<app, cst, down, watch, upMsg, downMsg, clientAddr, server, c2s, s2c, broken>>

UpClosed ==
    /\ up = "read" /\ cClosed
    /\ UpEnds
    /\ UNCHANGED <<app, cst, down, watch, upMsg, downMsg, clientAddr, server, c2s, s2c, broken>>

DownEnds == down' = "done" /\ cancelled' = TRUE

(* Pump 2: ReadPacketResponse accepts a reply and nothing else. *)
DownRead ==
    /\ down = "read" /\ ~cClosed /\ s2c # <<>>
    /\ s2c' = Tail(s2c)
    /\ \/ /\ Head(s2c) \in Targets
          /\ downMsg' = Head(s2c) /\ down' = "send" /\ UNCHANGED cancelled
       \/ /\ Head(s2c) \notin Targets
          /\ DownEnds /\ UNCHANGED downMsg
    /\ UNCHANGED <<app, cst, up, watch, upMsg, clientAddr, server, c2s, broken>>

(* Mutant: a failed read is tried again. *)
DownFailRetries ==
    /\ down = "read" /\ ClientReadFails
    /\ UNCHANGED <<app, client, server, c2s, s2c, broken>>

(* The snell connection ends. *)
DownFail ==
    /\ down = "read" /\ ClientReadFails
    /\ DownEnds
    /\ UNCHANGED <<app, cst, up, watch, upMsg, downMsg, clientAddr, server, c2s, s2c, broken>>

(* ... and passes it on to clientAddr, if there is one; a failed write ends *)
(* the pump.                                                                *)
DownSend ==
    /\ down = "send"
    /\ \/ (clientAddr = NoSrc \/ ~cClosed) /\ down' = "read" /\ UNCHANGED cancelled
       \/ clientAddr # NoSrc /\ DownEnds
    /\ UNCHANGED <<app, cst, up, watch, upMsg, downMsg, clientAddr, server, c2s, s2c, broken>>

(* Pump 3: the control connection is closed. *)
WatchEnds ==
    /\ watch = "read" /\ ~ctrl
    /\ watch' = "done" /\ cancelled' = TRUE
    /\ UNCHANGED <<app, cst, up, down, upMsg, downMsg, clientAddr, server, c2s, s2c, broken>>

-----------------------------------------------------------------------------
(* The server *)

(* handleRequest: UDP is enabled, or refused. *)
ServerRequest ==
    /\ sst = "request" /\ c2s # <<>>
    /\ c2s' = Tail(c2s)
    /\ \/ sst' = "tunnel" /\ UNCHANGED s2c
       \/ sst' = "done" /\ s2c' = Append(s2c, "error")
    /\ UNCHANGED <<app, client, ingress, inMsg, cache, socket, broken>>

ServerRequestFail ==
    /\ sst = "request" /\ ServerReadFails
    /\ sst' = "done"
    /\ UNCHANGED <<app, client, ingress, inMsg, cache, socket, c2s, s2c, broken>>

(* handleUDP says the tunnel is up before it has a socket. *)
ServerTunnel ==
    /\ sst = "tunnel"
    /\ \/ Len(s2c) < Cap /\ ~broken /\ s2c' = Append(s2c, "tunnel") /\ sst' = "listen"
       \/ ServerWriteFails /\ sst' = "done" /\ UNCHANGED s2c
    /\ UNCHANGED <<app, client, ingress, inMsg, cache, socket, c2s, broken>>

ServerListen ==
    /\ sst = "listen"
    /\ \/ /\ pc' = "open" /\ ingress' = "read" /\ sst' = "run"
          /\ UNCHANGED s2c
       \/ /\ Len(s2c) < Cap /\ ~broken
          /\ s2c' = Append(s2c, "error") /\ sst' = "done"
          /\ UNCHANGED <<pc, ingress>>
       \/ /\ ServerWriteFails
          /\ sst' = "done"
          /\ UNCHANGED <<pc, ingress, s2c>>
    /\ UNCHANGED <<app, client, inMsg, cache, nReply, c2s, broken>>

(* addrCache.put: a full cache loses an arbitrary entry. *)
CachePut(t) ==
    IF Cardinality(cache) >= CacheMax
    THEN cache' \in {(cache \ {e}) \cup {t} : e \in cache}
    ELSE cache' = cache \cup {t}

(* One round of handleUDP's loop: the target is known or resolved, or the   *)
(* datagram is dropped; a packet it cannot parse and a failed write to the  *)
(* destination leave the loop.                                              *)
ServerForward ==
    /\ sst = "run" /\ c2s # <<>>
    /\ c2s' = Tail(c2s)
    /\ LET t == Head(c2s) IN
       \/ sst' = "join" /\ pc' = "closed" /\ UNCHANGED cache
       \/ t \notin cache /\ UNCHANGED <<sst, pc, cache>>
       \/ /\ IF t \in cache THEN UNCHANGED cache ELSE CachePut(t)
          /\ \/ UNCHANGED <<sst, pc>>
             \/ sst' = "join" /\ pc' = "closed"
    /\ UNCHANGED <<app, client, ingress, inMsg, nReply, s2c, broken>>

(* Mutant: the socket is left open for the deferred Close. *)
ServerReadEndKeepsSocket ==
    /\ sst = "run" /\ ServerReadFails
    /\ sst' = "join"
    /\ UNCHANGED <<app, client, ingress, inMsg, cache, socket, c2s, s2c, broken>>

(* Mutant: the loop does not wait for the goroutine. *)
ServerReadEndReturns ==
    /\ sst = "run" /\ ServerReadFails
    /\ sst' = "done" /\ pc' = "closed"
    /\ UNCHANGED <<app, client, ingress, inMsg, cache, nReply, c2s, s2c, broken>>

(* The snell connection ends: the socket is closed, which stops ingress. *)
ServerReadEnd ==
    /\ sst = "run" /\ ServerReadFails
    /\ sst' = "join" /\ pc' = "closed"
    /\ UNCHANGED <<app, client, ingress, inMsg, cache, nReply, c2s, s2c, broken>>

ServerJoin ==
    /\ sst = "join" /\ ingress = "done"
    /\ sst' = "done"
    /\ UNCHANGED <<app, client, ingress, inMsg, cache, socket, c2s, s2c, broken>>

(* handleUDPIngress reads a datagram: the socket is not connected, and      *)
(* takes one of anybody.                                                    *)
IngressRead(t, size) ==
    /\ ingress = "read" /\ pc = "open" /\ nReply < MaxReply
    /\ nReply' = nReply + 1
    /\ inMsg' = [from |-> t, size |-> size] /\ ingress' = "send"
    /\ UNCHANGED <<app, client, sst, cache, pc, c2s, s2c, broken>>

(* ... and relays it in one frame; a datagram with no room for its address  *)
(* in the frame ends the goroutine, as a failed write does.                 *)
IngressSend ==
    /\ ingress = "send"
    /\ \/ /\ inMsg.size = "fits" /\ Len(s2c) < Cap /\ ~broken
          /\ s2c' = Append(s2c, inMsg.from) /\ ingress' = "read"
       \/ /\ inMsg.size = "big" \/ ServerWriteFails
          /\ ingress' = "done" /\ UNCHANGED s2c
    /\ UNCHANGED <<app, client, sst, inMsg, cache, socket, c2s, broken>>

IngressClosed ==
    /\ ingress = "read" /\ pc = "closed"
    /\ ingress' = "done"
    /\ UNCHANGED <<app, client, sst, inMsg, cache, socket, c2s, s2c, broken>>

(* ReadFrom may also fail with the socket open.  The loop is not told: it   *)
(* goes on forwarding, and nothing comes back.                              *)
IngressFail ==
    /\ ingress = "read" /\ pc = "open"
    /\ ingress' = "done"
    /\ UNCHANGED <<app, client, sst, inMsg, cache, socket, c2s, s2c, broken>>

(* The connection is reset, once it exists. *)
NetBreak ==
    /\ cst \in {"header", "reply", "run"} /\ ~sClosed /\ ~broken
    /\ broken' = TRUE
    /\ UNCHANGED <<app, client, server, c2s, s2c>>

-----------------------------------------------------------------------------
ClientMain == ClientListen \/ ClientDial \/ ClientHeader \/ ClientReply \/ ClientReturn
Up     == UpSend \/ UpClosed
Down   == DownRead \/ DownFail \/ DownSend
Server == ServerRequest \/ ServerRequestFail \/ ServerTunnel \/ ServerListen
          \/ ServerForward \/ ServerReadEnd \/ ServerJoin
Ingress == IngressSend \/ IngressClosed

Next ==
    \/ CloseControl \/ NetBreak
    \/ ClientMain \/ Up \/ UpTimeout \/ Down \/ WatchEnds
    \/ \E src \in Srcs : UpRead(src)
    \/ Server \/ Ingress \/ IngressFail
    \/ \E t \in Targets, size \in Size : IngressRead(t, size)

Spec == Init /\ [][Next]_vars

(* Every goroutine runs when it can; the application and the destinations   *)
(* owe nothing, pump 1's timer need not fire and the socket need not fail.  *)
FairSpec ==
    /\ Spec
    /\ WF_vars(ClientMain) /\ WF_vars(Up) /\ WF_vars(Down) /\ WF_vars(WatchEnds)
    /\ WF_vars(Server) /\ WF_vars(Ingress)

-----------------------------------------------------------------------------
(* No reply is written on a stream handleUDP has left, and no socket        *)
(* outlives it: the socket is open while the loop runs, in none of its      *)
(* exits longer, and the goroutine that reads it and writes on the stream   *)
(* is gone when handleUDP returns and its caller has the stream back        *)
(* (pc.Close and <-ingressDone at server.go:635-637, 643-645, 672-674).     *)
IngressWithinLoop ==
    /\ pc = "open" <=> sst = "run"
    /\ ingress \in {"read", "send"} => sst \in {"run", "join"}

Ended == cst = "done" /\ {up, down, watch} \subseteq {"none", "done"}
ServerEnded == sst = "done" /\ ingress \in {"none", "done"}

(* When the control connection closes everything ends, whatever each        *)
(* goroutine was doing: the client's pumps, the server's goroutines and its *)
(* socket (client.go:282-285).                                              *)
ControlEndsAll == ~ctrl ~> Ended /\ ServerEnded

(* When the server gives up the client's association ends, and with it the  *)
(* control connection.                                                      *)
ServerEndsClient == ServerEnded ~> Ended /\ ~ctrl

(* What each goroutine needs of the others for its next step. *)
MainMoves ==
    \/ cst \in {"listen", "dial", "header"}
    \/ cst = "reply" /\ (s2c # <<>> \/ ClientReadFails)
    \/ cst = "run" /\ cancelled
UpMoves ==
    \/ up = "send" /\ (upMsg.size = "big" \/ Len(c2s) < Cap \/ ClientWriteFails)
    \/ up = "read" /\ cClosed
DownMoves ==
    \/ down = "send"
    \/ down = "read" /\ (s2c # <<>> \/ ClientReadFails)
WatchMoves == watch = "read" /\ ~ctrl
ServerMoves ==
    \/ sst \in {"request", "run"} /\ (c2s # <<>> \/ ServerReadFails)
    \/ sst = "tunnel" /\ (Len(s2c) < Cap \/ ServerWriteFails)
    \/ sst = "listen"
    \/ sst = "join" /\ ingress = "done"
IngressMoves ==
    \/ ingress = "send" /\ (inMsg.size = "big" \/ Len(s2c) < Cap \/ ServerWriteFails)
    \/ ingress = "read" /\ pc = "closed"

(* Everything is in place and has nothing to do. *)
Waiting ==
    /\ ctrl /\ cst = "run" /\ {up, down, watch} = {"read"} /\ c2s = <<>> /\ s2c = <<>>
    /\ sst = "run" /\ pc = "open" /\ ingress \in {"read", "done"}

(* The goroutines never wait on each other in a circle, through full        *)
(* windows, <-ctx2.Done() or <-ingressDone: one of them has its next step   *)
(* free, unless all have ended or the association is up, empty and waits    *)
(* for a datagram, with its control connection open - be it without the     *)
(* goroutine that would bring one back.                                     *)
NobodyStuck ==
    \/ MainMoves \/ UpMoves \/ DownMoves \/ WatchMoves \/ ServerMoves \/ IngressMoves
    \/ Ended /\ ServerEnded
    \/ Waiting

(* What the association can still do.  A pump that has read a datagram has  *)
(* its frame and the way back ahead of it; a frame has the datagram that    *)
(* the other end makes of it.                                               *)
MainLeft ==
    CASE cst = "listen" -> 6 [] cst = "dial" -> 5 [] cst = "header" -> 4
      [] cst = "reply" -> 2 [] cst = "run" -> 1 [] OTHER -> 0
UpLeft == CASE up = "send" -> 3 [] up = "done" -> 0 [] OTHER -> 1
DownLeft == CASE down = "send" -> 2 [] down = "done" -> 0 [] OTHER -> 1
WatchLeft == IF watch = "done" THEN 0 ELSE 1
ClientLeft == MainLeft + UpLeft + DownLeft + WatchLeft
HandlerLeft ==
    CASE sst = "request" -> 7 [] sst = "tunnel" -> 6 [] sst = "listen" -> 3
      [] sst = "run" -> 2 [] sst = "join" -> 1 [] OTHER -> 0
IngressLeft == CASE ingress = "send" -> 4 [] ingress = "done" -> 0 [] OTHER -> 1
ServerLeft == HandlerLeft + IngressLeft
FramesUp == Len(c2s)
FramesDown == Len(s2c)
FramesLeft == FramesUp + 2 * FramesDown
WorldLeft ==
    3 * (MaxSend - nSent) + 4 * (MaxReply - nReply)
    + (IF ctrl THEN 1 ELSE 0) + (IF broken THEN 0 ELSE 1)
Left == WorldLeft + ClientLeft + ServerLeft + FramesLeft

(* Nothing in an association keeps itself going: a datagram becomes one     *)
(* frame at most and a frame one datagram, an error ends its loop, no       *)
(* goroutine starts twice; so with every step of whichever side there is    *)
(* less left to do (the loops of handleSocksUDP, handleUDP and              *)
(* handleUDPIngress).                                                       *)
AssociationRunsOut == [][Left' \in Nat /\ Left' < Left]_vars
=============================================================================
