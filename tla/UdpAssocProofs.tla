--------------------------- MODULE UdpAssocProofs ---------------------------
(* One UDP association with any number of destinations, any cache and any   *)
(* TCP window: the server's socket and its goroutine do not outlive its     *)
(* loop, neither queue outgrows the window, and nobody waits in a circle.   *)
EXTENDS UdpAssoc, SequenceTheorems, TLAPS

(* How far handleUDP is, its socket and its goroutine go together. *)
SocketInv ==
    /\ sst \in {"request", "tunnel", "listen"} => ingress = "none" /\ pc = "none"
    /\ sst = "run" => pc = "open"
    /\ sst = "join" => pc = "closed"
    /\ sst \in {"run", "join"} => ingress # "none"
    /\ sst = "done" => ingress \in {"none", "done"} /\ pc # "open"

LEMMA InitSocket == Init => SocketInv
  BY DEF Init, SocketInv

LEMMA OthersKeepSocket ==
    ASSUME SocketInv,
           \/ CloseControl \/ NetBreak \/ UNCHANGED vars
           \/ ClientMain \/ Up \/ UpTimeout \/ Down \/ WatchEnds
           \/ \E src \in Srcs : UpRead(src)
    PROVE  SocketInv'
<1>1. UNCHANGED server
  BY DEF CloseControl, NetBreak, vars, ClientMain, ClientListen, ClientDial, ClientHeader,
         ClientReply, ClientReturn, Up, UpSend, UpClosed, UpTimeout, Down, DownRead,
         DownFail, DownSend, WatchEnds, UpRead
<1> QED
  BY <1>1 DEF server, socket, SocketInv

(* Each exit of the loop closes the socket, and only ServerJoin returns once *)
(* there is a goroutine.                                                     *)
LEMMA ServerSocket ==
    ASSUME SocketInv, Server
    PROVE  SocketInv'
<1>1. CASE ServerRequest \/ ServerRequestFail \/ ServerTunnel
  BY <1>1 DEF ServerRequest, ServerRequestFail, ServerTunnel, socket, SocketInv
<1>2. CASE ServerListen
  BY <1>2 DEF ServerListen, SocketInv
<1>3. CASE ServerForward
  <2>1. \/ sst' = sst /\ pc' = pc
        \/ sst' = "join" /\ pc' = "closed"
    BY <1>3 DEF ServerForward
  <2>2. sst = "run" /\ ingress' = ingress
    BY <1>3 DEF ServerForward
  <2> QED
    BY <2>1, <2>2 DEF SocketInv
<1>4. CASE ServerReadEnd \/ ServerJoin
  BY <1>4 DEF ServerReadEnd, ServerJoin, socket, SocketInv
<1> QED
  BY <1>1, <1>2, <1>3, <1>4 DEF Server

(* The goroutine ends by itself for a big datagram, a connection it cannot  *)
(* write to or a socket it cannot read; it never starts again.              *)
LEMMA IngressSocket ==
    ASSUME SocketInv,
           \/ Ingress \/ IngressFail
           \/ \E t \in Targets, size \in Size : IngressRead(t, size)
    PROVE  SocketInv'
<1>1. /\ ingress \in {"read", "send"} /\ ingress' \in {"read", "send", "done"}
      /\ UNCHANGED <<sst, pc>>
  BY DEF Ingress, IngressSend, IngressClosed, IngressFail, IngressRead, socket
<1> QED
  BY <1>1 DEF SocketInv

LEMMA Sockets == Spec => []SocketInv
<1>1. SocketInv /\ [Next]_vars => SocketInv'
  BY OthersKeepSocket, ServerSocket, IngressSocket DEF Next
<1> QED
  BY <1>1, InitSocket, PTL DEF Spec

-----------------------------------------------------------------------------
(* Until the server has read the request nothing else travels. *)
RequestInv ==
    /\ sst = "request" =>
        s2c = <<>> /\ up = "none" /\ down = "none" /\ c2s \in {<<>>, <<"request">>}
    /\ cst \in {"listen", "dial", "header"} =>
        c2s = <<>> /\ up = "none" /\ down = "none" /\ sst \in {"request", "done"}
    /\ sst \notin {"request", "done"} => c2s \in Seq(Targets)

TypeInv == TypeOK /\ RequestInv

C2S == {"request"} \cup Targets
S2C == {"tunnel", "error"} \cup Targets

LEMMA QueueFacts ==
    ASSUME NEW S, NEW q \in Seq(S)
    PROVE  /\ Len(q) \in Nat
           /\ \A e \in S : Append(q, e) \in Seq(S) /\ Len(Append(q, e)) = Len(q) + 1
           /\ q # <<>> => /\ Head(q) \in S /\ Tail(q) \in Seq(S)
                          /\ Len(Tail(q)) = Len(q) - 1
OBVIOUS

LEMMA InitTypeInv == Init => TypeInv
<1> SUFFICES ASSUME Init
             PROVE  TypeInv
  OBVIOUS
<1>1. c2s \in Seq(C2S) /\ s2c \in Seq(S2C) /\ Len(c2s) = 0 /\ Len(s2c) = 0
  BY DEF Init
<1>2. upMsg \in [to : Targets, size : Size] /\ inMsg \in [from : Targets, size : Size]
  BY DEF Init, Size
<1>3. Len(c2s) <= Cap /\ Len(s2c) <= Cap /\ 0 \in 0..MaxSend /\ 0 \in 0..MaxReply
  BY <1>1, LimitsAssumption
<1>4. TypeOK
  BY <1>1, <1>2, <1>3 DEF Init, TypeOK, C2S, S2C
<1>5. RequestInv
  BY DEF Init, RequestInv
<1> QED
  BY <1>4, <1>5 DEF TypeInv

LEMMA AppTypeInv ==
    ASSUME TypeInv, CloseControl \/ NetBreak \/ UNCHANGED vars
    PROVE  TypeInv'
<1>1. /\ ctrl' \in BOOLEAN /\ broken' \in BOOLEAN
      /\ UNCHANGED <<nSent, client, server, c2s, s2c>>
  BY DEF CloseControl, NetBreak, vars, app, TypeInv, TypeOK
<1>2. TypeOK'
  BY <1>1 DEF client, pumps, server, socket, TypeInv, TypeOK
<1>3. RequestInv'
  BY <1>1 DEF client, pumps, server, socket, TypeInv, RequestInv
<1> QED
  BY <1>2, <1>3 DEF TypeInv

LEMMA ClientMainTypeInv ==
    ASSUME TypeInv, ClientMain
    PROVE  TypeInv'
<1>1. CASE ClientListen \/ ClientDial \/ ClientReturn
  <2>1. /\ \/ cst \in {"listen", "dial"} /\ cst' \in {"dial", "header", "done"}
           \/ cst = "run" /\ cst' = "done"
        /\ ctrl' \in BOOLEAN
        /\ UNCHANGED <<nSent, pumps, server, c2s, s2c, broken>>
    BY <1>1 DEF ClientListen, ClientDial, ClientReturn, Return, TypeInv, TypeOK
  <2>2. TypeOK'
    BY <2>1 DEF pumps, server, socket, TypeInv, TypeOK
  <2>3. RequestInv'
    BY <2>1 DEF pumps, server, socket, TypeInv, RequestInv
  <2> QED
    BY <2>2, <2>3 DEF TypeInv
<1>2. CASE ClientHeader
  <2>1. UNCHANGED <<nSent, pumps, server, s2c, broken>>
    BY <1>2 DEF ClientHeader
  <2>2. c2s = <<>>
    BY <1>2 DEF ClientHeader, TypeInv, RequestInv
  <2>3. Append(c2s, "request") = <<"request">>
    BY <2>2
  <2>4. <<"request">> \in Seq(C2S) /\ Len(<<"request">>) = 1 /\ 1 <= Cap
    BY LimitsAssumption DEF C2S
  <2>5. \/ c2s' = <<"request">> /\ cst' = "reply" /\ UNCHANGED ctrl
        \/ cst' = "done" /\ ctrl' = FALSE /\ UNCHANGED c2s
    BY <1>2, <2>3 DEF ClientHeader, Return
  <2>6. TypeOK'
    <3>0. c2s \in Seq(C2S) /\ Len(c2s) <= Cap
      BY DEF TypeInv, TypeOK, C2S
    <3>1. c2s' \in Seq(C2S) /\ Len(c2s') <= Cap
      BY <2>4, <2>5, <3>0
    <3>2. cst' \in {"reply", "done"} /\ ctrl' \in BOOLEAN
      BY <2>5 DEF TypeInv, TypeOK
    <3> QED
      BY <2>1, <3>1, <3>2 DEF pumps, server, socket, TypeInv, TypeOK, C2S
  <2>7. sst \in {"request", "done"}
    BY <1>2 DEF ClientHeader, TypeInv, RequestInv
  <2>8. RequestInv'
    BY <2>1, <2>2, <2>5, <2>7 DEF pumps, server, socket, TypeInv, RequestInv
  <2> QED
    BY <2>6, <2>8 DEF TypeInv
<1>3. CASE ClientReply
  <2>2. s2c' \in Seq(S2C) /\ Len(s2c') <= Cap
    <3>1. s2c \in Seq(S2C) /\ Len(s2c) <= Cap /\ Cap \in Nat
      BY LimitsAssumption DEF TypeInv, TypeOK, S2C
    <3>2. s2c' = s2c \/ (s2c # <<>> /\ s2c' = Tail(s2c))
      BY <1>3 DEF ClientReply
    <3> QED
      BY <3>1, <3>2, QueueFacts
  <2>3. /\ up' \in {"none", "read", "send", "done"} /\ down' \in {"none", "read", "send", "done"}
        /\ watch' \in {"none", "read", "done"} /\ ctrl' \in BOOLEAN
        /\ cst' \in {"run", "done"}
        /\ s2c = <<>> => UNCHANGED <<up, down, s2c>>
    BY <1>3 DEF ClientReply, Return, TypeInv, TypeOK
  <2>4. UNCHANGED <<nSent, upMsg, downMsg, cancelled, clientAddr, server, c2s, broken>>
    BY <1>3 DEF ClientReply
  <2>5. TypeOK'
    BY <2>2, <2>3, <2>4 DEF server, socket, TypeInv, TypeOK, S2C
  <2>6. RequestInv'
    BY <2>3, <2>4 DEF server, socket, TypeInv, RequestInv
  <2> QED
    BY <2>5, <2>6 DEF TypeInv
<1> QED
  BY <1>1, <1>2, <1>3 DEF ClientMain

LEMMA UpTypeInv ==
    ASSUME TypeInv, Up \/ UpTimeout \/ \E src \in Srcs : UpRead(src)
    PROVE  TypeInv'
<1>1. CASE UpClosed \/ UpTimeout
  <2>1. /\ up = "read" /\ up' = "done" /\ cancelled' = TRUE
        /\ UNCHANGED <<app, cst, down, watch, upMsg, downMsg, clientAddr, server, c2s, s2c, broken>>
    BY <1>1 DEF UpClosed, UpTimeout, UpEnds
  <2>2. TypeOK'
    BY <2>1 DEF app, server, socket, TypeInv, TypeOK
  <2>3. RequestInv'
    BY <2>1 DEF server, socket, TypeInv, RequestInv
  <2> QED
    BY <2>2, <2>3 DEF TypeInv
<1>2. ASSUME NEW src \in Srcs, UpRead(src)
      PROVE  TypeInv'
  <2>1. nSent' \in 0..MaxSend
    BY <1>2, LimitsAssumption DEF UpRead, TypeInv, TypeOK
  <2>2. /\ clientAddr' \in Srcs \cup {NoSrc} /\ up = "read" /\ up' \in {"read", "send"}
        /\ upMsg' \in [to : Targets, size : Size]
        /\ UNCHANGED <<ctrl, cst, down, watch, downMsg, cancelled, server, c2s, s2c, broken>>
    BY <1>2 DEF UpRead, TypeInv, TypeOK
  <2> QED
    BY <2>1, <2>2 DEF server, socket, TypeInv, TypeOK, RequestInv
<1>3. CASE UpSend
  <2>1. /\ up = "send" /\ up' \in {"read", "done"} /\ cancelled' \in BOOLEAN
        /\ UNCHANGED <<app, cst, down, watch, upMsg, downMsg, clientAddr, server, s2c, broken>>
    BY <1>3 DEF UpSend, UpEnds, TypeInv, TypeOK
  <2>2. c2s' = c2s \/ (Len(c2s) < Cap /\ c2s' = Append(c2s, upMsg.to))
    BY <1>3 DEF UpSend
  <2>3. upMsg.to \in Targets
    BY DEF TypeInv, TypeOK
  <2>4. c2s' \in Seq(C2S) /\ Len(c2s') <= Cap
    <3>1. c2s \in Seq(C2S) /\ Len(c2s) <= Cap /\ Cap \in Nat /\ upMsg.to \in C2S
      BY <2>3, LimitsAssumption DEF TypeInv, TypeOK, C2S
    <3> QED
      BY <2>2, <3>1, QueueFacts
  <2>5. c2s \in Seq(Targets) => c2s' \in Seq(Targets)
    BY <2>2, <2>3, QueueFacts
  <2>6. TypeOK'
    BY <2>1, <2>4 DEF app, server, socket, TypeInv, TypeOK, C2S
  <2>7. RequestInv'
    BY <2>1, <2>5 DEF server, socket, TypeInv, RequestInv
  <2> QED
    BY <2>6, <2>7 DEF TypeInv
<1> QED
  BY <1>1, <1>2, <1>3 DEF Up

LEMMA DownTypeInv ==
    ASSUME TypeInv, Down \/ WatchEnds
    PROVE  TypeInv'
<1>1. CASE DownFail \/ DownSend \/ WatchEnds
  <2>1. /\ \/ down # "none" /\ down' \in {"read", "done"} /\ watch' = watch
           \/ down' = down /\ watch' = "done"
        /\ cancelled' \in BOOLEAN
        /\ UNCHANGED <<app, cst, up, upMsg, downMsg, clientAddr, server, c2s, s2c, broken>>
    BY <1>1 DEF DownFail, DownSend, WatchEnds, DownEnds, TypeInv, TypeOK
  <2>2. TypeOK'
    BY <2>1 DEF app, server, socket, TypeInv, TypeOK
  <2>3. RequestInv'
    BY <2>1 DEF server, socket, TypeInv, RequestInv
  <2> QED
    BY <2>2, <2>3 DEF TypeInv
<1>2. CASE DownRead
  <2>1. /\ down = "read" /\ down' \in {"send", "done"} /\ cancelled' \in BOOLEAN
        /\ downMsg' \in Targets
        /\ s2c # <<>> /\ s2c' = Tail(s2c)
        /\ UNCHANGED <<app, cst, up, watch, upMsg, clientAddr, server, c2s, broken>>
    BY <1>2 DEF DownRead, DownEnds, TypeInv, TypeOK
  <2>2. s2c' \in Seq(S2C) /\ Len(s2c') <= Cap
    <3>1. s2c \in Seq(S2C) /\ Len(s2c) <= Cap /\ Cap \in Nat
      BY LimitsAssumption DEF TypeInv, TypeOK, S2C
    <3> QED
      BY <2>1, <3>1, QueueFacts
  <2>3. TypeOK'
    BY <2>1, <2>2 DEF app, server, socket, TypeInv, TypeOK, S2C
  <2>4. RequestInv'
    BY <2>1 DEF server, socket, TypeInv, RequestInv
  <2> QED
    BY <2>3, <2>4 DEF TypeInv
<1> QED
  BY <1>1, <1>2 DEF Down

(* A frame of the server is added to a queue with room for it. *)
LEMMA ReplyQueued ==
    ASSUME TypeInv, NEW e \in S2C, s2c' = s2c \/ (Len(s2c) < Cap /\ s2c' = Append(s2c, e))
    PROVE  s2c' \in Seq(S2C) /\ Len(s2c') <= Cap
<1>1. s2c \in Seq(S2C) /\ Len(s2c) <= Cap /\ Cap \in Nat
  BY LimitsAssumption DEF TypeInv, TypeOK, S2C
<1> QED
  BY <1>1, QueueFacts

LEMMA ServerTypeInv ==
    ASSUME TypeInv, Server
    PROVE  TypeInv'
<1>1. CASE ServerRequestFail \/ ServerReadEnd \/ ServerJoin
  BY <1>1 DEF ServerRequestFail, ServerReadEnd, ServerJoin, client, pumps, socket, app,
       TypeInv, TypeOK, RequestInv
<1>2. CASE ServerRequest
  <2>1. /\ c2s = <<"request">> /\ s2c = <<>> /\ up = "none" /\ down = "none"
        /\ cst \notin {"listen", "dial", "header"}
    BY <1>2 DEF ServerRequest, TypeInv, RequestInv
  <2>2. c2s' = <<>>
    BY <1>2, <2>1 DEF ServerRequest
  <2>3. s2c' = s2c \/ (Len(s2c) < Cap /\ s2c' = Append(s2c, "error"))
    BY <1>2, <2>1, LimitsAssumption DEF ServerRequest
  <2>4. s2c' \in Seq(S2C) /\ Len(s2c') <= Cap
    <3>1. "error" \in S2C
      BY DEF S2C
    <3> QED
      BY <2>3, <3>1, ReplyQueued
  <2>5. sst' \in {"tunnel", "done"}
        /\ UNCHANGED <<app, client, ingress, inMsg, cache, socket, broken>>
    BY <1>2 DEF ServerRequest
  <2>6. c2s' \in Seq(C2S) /\ c2s' \in Seq(Targets) /\ Len(c2s') <= Cap
    BY <2>2, LimitsAssumption
  <2>7. TypeOK'
    BY <2>4, <2>5, <2>6 DEF app, client, pumps, socket, TypeInv, TypeOK, C2S, S2C
  <2>8. RequestInv'
    BY <2>1, <2>5, <2>6 DEF client, pumps, RequestInv
  <2> QED
    BY <2>7, <2>8 DEF TypeInv
<1>3. CASE ServerTunnel \/ ServerListen
  <2>1. \E e \in {"tunnel", "error"} :
          s2c' = s2c \/ (Len(s2c) < Cap /\ s2c' = Append(s2c, e))
    BY <1>3 DEF ServerTunnel, ServerListen
  <2>2. s2c' \in Seq(S2C) /\ Len(s2c') <= Cap
    <3>1. \A e \in {"tunnel", "error"} : e \in S2C
      BY DEF S2C
    <3> QED
      BY <2>1, <3>1, ReplyQueued
  <2>3. /\ sst \in {"tunnel", "listen"} /\ sst' \in {"listen", "run", "done"}
        /\ ingress' \in {"none", "read", "send", "done"} /\ pc' \in {"none", "open", "closed"}
        /\ UNCHANGED <<app, client, inMsg, cache, nReply, c2s, broken>>
    BY <1>3 DEF ServerTunnel, ServerListen, socket, TypeInv, TypeOK
  <2>4. TypeOK'
    BY <2>2, <2>3 DEF app, client, pumps, TypeInv, TypeOK, S2C
  <2>5. RequestInv'
    BY <2>3 DEF client, pumps, TypeInv, RequestInv
  <2> QED
    BY <2>4, <2>5 DEF TypeInv
<1>4. CASE ServerForward
  <2>1. /\ sst = "run" /\ c2s # <<>> /\ c2s' = Tail(c2s) /\ sst' \in {"run", "join"}
        /\ pc' \in {pc, "closed"}
        /\ UNCHANGED <<app, client, ingress, inMsg, nReply, s2c, broken>>
    BY <1>4 DEF ServerForward
  <2>2. c2s \in Seq(Targets) /\ c2s \in Seq(C2S) /\ Len(c2s) <= Cap /\ Cap \in Nat
    BY <2>1, LimitsAssumption DEF TypeInv, TypeOK, RequestInv, C2S
  <2>3. c2s' \in Seq(Targets) /\ c2s' \in Seq(C2S) /\ Len(c2s') <= Cap /\ Head(c2s) \in Targets
    BY <2>1, <2>2, QueueFacts
  <2>4. cache' \in SUBSET Targets
    BY <1>4, <2>3 DEF ServerForward, CachePut, TypeInv, TypeOK
  <2>5. TypeOK'
    BY <2>1, <2>3, <2>4 DEF app, client, pumps, TypeInv, TypeOK, C2S
  <2>6. RequestInv'
    BY <2>1, <2>3 DEF client, pumps, TypeInv, RequestInv
  <2> QED
    BY <2>5, <2>6 DEF TypeInv
<1> QED
  BY <1>1, <1>2, <1>3, <1>4 DEF Server

LEMMA IngressTypeInv ==
    ASSUME TypeInv, SocketInv,
           \/ Ingress \/ IngressFail
           \/ \E t \in Targets, size \in Size : IngressRead(t, size)
    PROVE  TypeInv'
<1>1. CASE IngressClosed \/ IngressFail
  BY <1>1 DEF IngressClosed, IngressFail, app, client, pumps, socket, TypeInv, TypeOK, RequestInv
<1>2. CASE IngressSend
  <2>1. inMsg.from \in S2C
    BY DEF TypeInv, TypeOK, S2C
  <2>2. s2c' \in Seq(S2C) /\ Len(s2c') <= Cap
    BY <1>2, <2>1, ReplyQueued DEF IngressSend
  <2>3. ingress' \in {"read", "done"}
        /\ UNCHANGED <<app, client, sst, inMsg, cache, socket, c2s, broken>>
    BY <1>2 DEF IngressSend
  <2>4. TypeOK'
    BY <2>2, <2>3 DEF app, client, pumps, socket, TypeInv, TypeOK, S2C
  <2>5. sst # "request"
    BY <1>2 DEF IngressSend, SocketInv
  <2> QED
    BY <2>3, <2>4, <2>5 DEF client, pumps, TypeInv, RequestInv
<1>3. ASSUME NEW t \in Targets, NEW size \in Size, IngressRead(t, size)
      PROVE  TypeInv'
  <2>1. nReply' \in 0..MaxReply
    BY <1>3, LimitsAssumption DEF IngressRead, TypeInv, TypeOK
  <2>2. /\ inMsg' \in [from : Targets, size : Size] /\ ingress' = "send"
        /\ UNCHANGED <<app, client, sst, cache, pc, c2s, s2c, broken>>
    BY <1>3 DEF IngressRead, TypeInv, TypeOK
  <2> QED
    BY <2>1, <2>2 DEF app, client, pumps, TypeInv, TypeOK, RequestInv
<1> QED
  BY <1>1, <1>2, <1>3 DEF Ingress

LEMMA Types == Spec => []TypeInv
<1>1. TypeInv /\ SocketInv /\ [Next]_vars => TypeInv'
  BY AppTypeInv, ClientMainTypeInv, UpTypeInv, DownTypeInv, ServerTypeInv, IngressTypeInv
     DEF Next
<1> QED
  BY <1>1, InitTypeInv, Sockets, PTL DEF Spec

(* Neither direction of the snell connection ever holds more than its       *)
(* window, so no write of either end takes place without room, the request  *)
(* and the answer to it included; the server forwards only to targets.      *)
THEOREM UdpTypes == Spec => []TypeOK
<1>1. TypeInv => TypeOK
  BY DEF TypeInv
<1> QED
  BY <1>1, Types, PTL

(* For any number of destinations and any window the socket is open exactly *)
(* while the loop runs, and the goroutine that writes on the stream is gone *)
(* before handleUDP gives the stream back.                                  *)
THEOREM NoReplyAfterReturn == Spec => []IngressWithinLoop
<1>1. TypeInv /\ SocketInv => IngressWithinLoop
  BY DEF TypeInv, TypeOK, SocketInv, IngressWithinLoop
<1> QED
  BY <1>1, Types, Sockets, PTL
-----------------------------------------------------------------------------
(* Who waits for whom.  The client's pumps start together, and one that has *)
(* ended has cancelled the main goroutine; a closed client has closed its   *)
(* control connection.                                                      *)
ClientInv ==
    /\ cst \in {"listen", "dial", "header", "reply"} => up = "none" /\ down = "none" /\ watch = "none"
    /\ cst = "run" => /\ "none" \notin {up, down, watch}
                      /\ "done" \in {up, down, watch} => cancelled
    /\ cst = "done" => ~ctrl

(* A client that waits for the reply has its request or the reply on the    *)
(* way, and one that has the reply talks to a server past it.               *)
AnswerInv ==
    /\ sst = "tunnel" => s2c = <<>>
    /\ cst = "reply" => /\ sst = "request" => c2s # <<>>
                        /\ sst \in {"listen", "run", "join"} => s2c # <<>>
    /\ cst = "run" => sst \notin {"request", "tunnel"}

WaitInv == ClientInv /\ AnswerInv

LEMMA InitWait == Init => WaitInv
  BY DEF Init, WaitInv, ClientInv, AnswerInv

LEMMA AppendNotEmpty ==
    ASSUME NEW q, NEW e, q \in Seq(C2S) \/ q \in Seq(S2C)
    PROVE  Append(q, e) # <<>>
<1>1. ASSUME NEW S, q \in Seq(S) PROVE Append(q, e) # <<>>
  <2>1. q \in Seq(S \cup {e}) /\ Len(q) \in Nat
    BY <1>1
  <2>2. Len(Append(q, e)) = Len(q) + 1
    BY <2>1
  <2> QED
    BY <2>1, <2>2
<1> QED
  BY <1>1

LEMMA AppWait ==
    ASSUME WaitInv, CloseControl \/ NetBreak \/ UNCHANGED vars
    PROVE  WaitInv'
<1>1. UNCHANGED <<client, server, c2s, s2c>> /\ (~ctrl => ~ctrl')
  BY DEF CloseControl, NetBreak, vars, app
<1> QED
  BY <1>1 DEF client, pumps, server, WaitInv, ClientInv, AnswerInv

LEMMA ClientMainWait ==
    ASSUME TypeInv, WaitInv, ClientMain
    PROVE  WaitInv'
<1>1. CASE ClientListen \/ ClientDial \/ ClientReturn
  <2>1. /\ cst' \in {"dial", "header", "done"} /\ (cst' # "done" => cst \in {"listen", "dial"})
        /\ cst' = "done" => ~ctrl'
        /\ UNCHANGED <<pumps, server, c2s, s2c>>
    BY <1>1 DEF ClientListen, ClientDial, ClientReturn, Return
  <2> QED
    BY <2>1 DEF pumps, server, WaitInv, ClientInv, AnswerInv
<1>2. CASE ClientHeader
  <2>1. /\ cst = "header" /\ UNCHANGED <<pumps, server, s2c>>
        /\ \/ c2s' = Append(c2s, "request") /\ cst' = "reply"
           \/ cst' = "done" /\ ~ctrl'
    BY <1>2 DEF ClientHeader, Return
  <2>2. sst \in {"request", "done"} /\ c2s \in Seq(C2S)
    BY <2>1 DEF TypeInv, TypeOK, RequestInv, C2S
  <2>3. Append(c2s, "request") # <<>>
    BY <2>2, AppendNotEmpty
  <2> QED
    BY <2>1, <2>2, <2>3 DEF pumps, server, WaitInv, ClientInv, AnswerInv
<1>3. CASE ClientReply
  <2>1. /\ cst = "reply" /\ UNCHANGED server
        /\ \/ /\ s2c # <<>> /\ cst' = "run"
              /\ up' = "read" /\ down' = "read" /\ watch' = "read"
           \/ cst' = "done" /\ ~ctrl'
        /\ sst = "tunnel" => s2c' = <<>>
    BY <1>3 DEF ClientReply, Return, WaitInv, AnswerInv
  <2>2. s2c # <<>> => sst \notin {"request", "tunnel"}
    BY DEF TypeInv, RequestInv, WaitInv, AnswerInv
  <2> QED
    BY <2>1, <2>2 DEF server, WaitInv, ClientInv, AnswerInv
<1> QED
  BY <1>1, <1>2, <1>3 DEF ClientMain

(* A pump takes steps only once it has started, and cancels when it ends.   *)
LEMMA PumpWait ==
    ASSUME TypeInv, WaitInv,
           \/ Up \/ UpTimeout \/ Down \/ WatchEnds
           \/ \E src \in Srcs : UpRead(src)
    PROVE  WaitInv'
<1>1. /\ UNCHANGED <<ctrl, cst, server>>
      /\ cancelled => cancelled'
  BY DEF Up, UpTimeout, Down, WatchEnds, UpRead, UpSend, UpClosed, UpEnds,
         DownRead, DownFail, DownSend, DownEnds, app
<1>2. \/ up # "none" /\ up' # "none" /\ (up' = "done" => cancelled') /\ UNCHANGED <<down, watch, s2c>>
      \/ down # "none" /\ down' # "none" /\ (down' = "done" => cancelled') /\ UNCHANGED <<up, watch, c2s>>
      \/ watch # "none" /\ watch' # "none" /\ cancelled' /\ UNCHANGED <<up, down, c2s, s2c>>
  BY DEF Up, UpTimeout, Down, WatchEnds, UpRead, UpSend, UpClosed, UpEnds,
         DownRead, DownFail, DownSend, DownEnds
<1>3. ClientInv'
  BY <1>1, <1>2 DEF WaitInv, ClientInv
<1>4. s2c = <<>> => s2c' = <<>>
  BY DEF Up, UpTimeout, Down, WatchEnds, UpRead, UpSend, UpClosed,
         DownRead, DownFail, DownSend
<1>5. cst # "reply" \/ UNCHANGED <<c2s, s2c>>
  BY <1>2 DEF WaitInv, ClientInv
<1>6. AnswerInv'
  BY <1>1, <1>4, <1>5 DEF server, WaitInv, AnswerInv
<1> QED
  BY <1>3, <1>6 DEF WaitInv

LEMMA ServerWait ==
    ASSUME TypeInv, WaitInv, Server
    PROVE  WaitInv'
<1>a. UNCHANGED <<app, client>>
  BY DEF Server, ServerRequest, ServerRequestFail, ServerTunnel, ServerListen, ServerForward,
         ServerReadEnd, ServerJoin
<1>b. s2c \in Seq(S2C)
  BY DEF TypeInv, TypeOK, S2C
<1>1. ClientInv'
  BY <1>a DEF app, client, pumps, WaitInv, ClientInv
<1>2. AnswerInv'
  <2>1. CASE ServerRequest
    <3>1. sst = "request" /\ s2c = <<>>
      BY <2>1 DEF ServerRequest, TypeInv, RequestInv
    <3>2. (sst' = "tunnel" /\ s2c' = s2c) \/ sst' = "done"
      BY <2>1 DEF ServerRequest
    <3> QED
      BY <1>a, <3>1, <3>2 DEF client, WaitInv, AnswerInv
  <2>2. CASE ServerRequestFail \/ ServerJoin
    <3>1. sst' = "done"
      BY <2>2 DEF ServerRequestFail, ServerJoin
    <3> QED
      BY <1>a, <3>1 DEF AnswerInv
  <2>3. CASE ServerTunnel
    <3>1. sst' = "done" \/ (sst' = "listen" /\ s2c' = Append(s2c, "tunnel"))
      BY <2>3 DEF ServerTunnel
    <3> QED
      BY <1>a, <1>b, <3>1, AppendNotEmpty DEF AnswerInv
  <2>4. CASE ServerListen \/ ServerForward \/ ServerReadEnd
    <3>1. sst \in {"listen", "run"}
          /\ (sst' = "done" \/ (sst' \in {"run", "join"} /\ s2c' = s2c))
      BY <2>4 DEF ServerListen, ServerForward, ServerReadEnd
    <3> QED
      BY <1>a, <3>1 DEF client, WaitInv, AnswerInv
  <2> QED
    BY <2>1, <2>2, <2>3, <2>4 DEF Server
<1> QED
  BY <1>1, <1>2 DEF WaitInv

LEMMA IngressWait ==
    ASSUME TypeInv, SocketInv, WaitInv,
           \/ Ingress \/ IngressFail
           \/ \E t \in Targets, size \in Size : IngressRead(t, size)
    PROVE  WaitInv'
<1>1. UNCHANGED <<app, client, sst, c2s>>
  BY DEF Ingress, IngressSend, IngressClosed, IngressFail, IngressRead
<1>2. s2c' = s2c \/ s2c' = Append(s2c, inMsg.from)
  BY DEF Ingress, IngressSend, IngressClosed, IngressFail, IngressRead
<1>3. s2c \in Seq(S2C)
  BY DEF TypeInv, TypeOK, S2C
<1>4. s2c' # s2c => s2c' # <<>>
  BY <1>2, <1>3, AppendNotEmpty
<1>5. sst # "tunnel"
  BY DEF Ingress, IngressSend, IngressClosed, IngressFail, IngressRead, SocketInv
<1> QED
  BY <1>1, <1>4, <1>5 DEF app, client, pumps, WaitInv, ClientInv, AnswerInv

LEMMA Waits == Spec => []WaitInv
<1>1. TypeInv /\ SocketInv /\ WaitInv /\ [Next]_vars => WaitInv'
  BY AppWait, ClientMainWait, PumpWait, ServerWait, IngressWait DEF Next
<1> QED
  BY <1>1, InitWait, Types, Sockets, PTL DEF Spec
-----------------------------------------------------------------------------
(* What the stages of the client can wait for.                              *)
StuckUnless == MainMoves \/ UpMoves \/ DownMoves \/ WatchMoves \/ ServerMoves \/ IngressMoves

LEMMA RoomWhenEmpty ==
    /\ c2s = <<>> => Len(c2s) < Cap
    /\ s2c = <<>> => Len(s2c) < Cap
<1>1. Len(<<>>) = 0 /\ 0 < Cap
  BY LimitsAssumption
<1> QED
  BY <1>1

(* A client that waits for its reply waits for a server that can move.      *)
LEMMA ReplyComes ==
    ASSUME TypeInv, WaitInv, cst = "reply"
    PROVE  MainMoves \/ ServerMoves
<1>1. CASE s2c # <<>> \/ ClientReadFails
  BY <1>1 DEF MainMoves
<1>2. CASE s2c = <<>> /\ ~ClientReadFails
  <2>1. sst \in {"request", "tunnel"}
    <3>1. sst # "done"
      BY <1>2 DEF ClientReadFails, sClosed
    <3> QED
      BY <1>2, <3>1 DEF TypeInv, TypeOK, WaitInv, AnswerInv
  <2> QED
    BY <1>2, <2>1, RoomWhenEmpty DEF WaitInv, AnswerInv, ServerMoves
<1> QED
  BY <1>1, <1>2

(* A client that is closed waits for nobody, and neither does its server.   *)
LEMMA ClosedEnds ==
    ASSUME TypeInv, SocketInv, WaitInv, cst = "done"
    PROVE  StuckUnless \/ (Ended /\ ServerEnded)
<1>1. cClosed /\ ClientWriteFails /\ ClientReadFails /\ ServerWriteFails /\ ~ctrl
  BY DEF cClosed, ClientWriteFails, ClientReadFails, ServerWriteFails, WaitInv, ClientInv
<1>2. UpMoves \/ DownMoves \/ WatchMoves \/ Ended
  BY <1>1 DEF TypeInv, TypeOK, UpMoves, DownMoves, WatchMoves, Ended
<1>3. ServerMoves \/ IngressMoves \/ ServerEnded
  <2>1. CASE sst \in {"request", "run"}
    BY <1>1, <2>1 DEF ServerReadFails, ServerMoves
  <2>2. CASE sst \in {"tunnel", "listen"}
    BY <1>1, <2>2 DEF ServerMoves
  <2>3. CASE sst = "join"
    <3>1. CASE ingress \in {"read", "send", "done"}
      BY <1>1, <2>3, <3>1 DEF SocketInv, ServerMoves, IngressMoves
    <3> QED
      BY <2>3, <3>1 DEF TypeInv, TypeOK, SocketInv
  <2>4. CASE sst = "done"
    BY <2>4 DEF SocketInv, ServerEnded
  <2> QED
    BY <2>1, <2>2, <2>3, <2>4 DEF TypeInv, TypeOK
<1> QED
  BY <1>2, <1>3 DEF StuckUnless

(* While the association is up, a full window is emptied by the other end,  *)
(* which does not wait for room in the other direction to do so.            *)
LEMMA RunningWaits ==
    ASSUME TypeInv, SocketInv, WaitInv, cst = "run", ~StuckUnless
    PROVE  Waiting
<1>1. up \in {"read", "send"} /\ down = "read" /\ watch = "read" /\ ctrl
  BY DEF StuckUnless, MainMoves, DownMoves, WatchMoves, WaitInv, ClientInv, TypeInv, TypeOK
<1>2. s2c = <<>> /\ ~ClientReadFails
  BY <1>1 DEF StuckUnless, DownMoves
<1>3. ~broken /\ ~cClosed /\ ~sClosed
  BY <1>2 DEF ClientReadFails
<1>4. sst = "run" \/ sst = "join"
  BY <1>3 DEF sClosed, WaitInv, AnswerInv, StuckUnless, ServerMoves, TypeInv, TypeOK
<1>5. ingress # "send"
  BY <1>2, RoomWhenEmpty DEF StuckUnless, IngressMoves
<1>6. sst = "run"
  BY <1>4, <1>5 DEF StuckUnless, ServerMoves, IngressMoves, SocketInv, TypeInv, TypeOK
<1>7. c2s = <<>> /\ up = "read"
  BY <1>1, <1>6, RoomWhenEmpty DEF StuckUnless, ServerMoves, UpMoves
<1>8. ingress \in {"read", "done"}
  BY <1>5, <1>6 DEF SocketInv, TypeInv, TypeOK
<1> QED
  BY <1>1, <1>2, <1>6, <1>7, <1>8 DEF Waiting, SocketInv

(* No circle of goroutines ever forms, for any window: some goroutine has   *)
(* its next step free until all have ended, or the association is idle.     *)
(* This is the safety half of ControlEndsAll and ServerEndsClient.          *)
THEOREM NoWaitingCircle == Spec => []NobodyStuck
<1>1. TypeInv /\ SocketInv /\ WaitInv => NobodyStuck
  <2> SUFFICES ASSUME TypeInv, SocketInv, WaitInv PROVE NobodyStuck
    OBVIOUS
  <2>1. CASE cst \in {"listen", "dial", "header"}
    BY <2>1 DEF MainMoves, NobodyStuck
  <2>2. CASE cst = "reply"
    BY <2>2, ReplyComes DEF NobodyStuck
  <2>3. CASE cst = "run"
    BY <2>3, RunningWaits DEF StuckUnless, NobodyStuck
  <2>4. CASE cst = "done"
    BY <2>4, ClosedEnds DEF StuckUnless, NobodyStuck
  <2> QED
    BY <2>1, <2>2, <2>3, <2>4 DEF TypeInv, TypeOK
<1> QED
  BY <1>1, Types, Sockets, Waits, PTL
-----------------------------------------------------------------------------
(* How much is left to do: the counts are natural numbers, and a step is    *)
(* judged by those it changes.                                              *)
Counts ==
    {WorldLeft, MainLeft, UpLeft, DownLeft, WatchLeft, HandlerLeft, IngressLeft,
     FramesUp, FramesDown, ClientLeft, ServerLeft, FramesLeft} \subseteq Nat

LEMMA Counted == TypeOK => Counts
<1> SUFFICES ASSUME TypeOK PROVE Counts
  OBVIOUS
<1>1. WorldLeft \in Nat
  <2>1. MaxSend - nSent \in Nat /\ MaxReply - nReply \in Nat
    BY LimitsAssumption DEF TypeOK
  <2>2. (IF ctrl THEN 1 ELSE 0) \in Nat /\ (IF broken THEN 0 ELSE 1) \in Nat
    OBVIOUS
  <2> QED
    BY <2>1, <2>2 DEF WorldLeft
<1>2. MainLeft \in Nat /\ UpLeft \in Nat /\ DownLeft \in Nat /\ WatchLeft \in Nat
  BY DEF MainLeft, UpLeft, DownLeft, WatchLeft
<1>3. HandlerLeft \in Nat /\ IngressLeft \in Nat
  BY DEF HandlerLeft, IngressLeft
<1>4. FramesUp \in Nat /\ FramesDown \in Nat
  BY LenProperties DEF TypeOK, FramesUp, FramesDown
<1>5. ClientLeft \in Nat /\ ServerLeft \in Nat /\ FramesLeft \in Nat
  BY <1>2, <1>3, <1>4 DEF ClientLeft, ServerLeft, FramesLeft
<1> QED
  BY <1>1, <1>2, <1>3, <1>4, <1>5 DEF Counts

Lowered == Left' < Left

(* What leaves its variables alone leaves a count alone. *)
LEMMA SameWorld == UNCHANGED <<ctrl, nSent, nReply, broken>> => WorldLeft' = WorldLeft
  BY DEF WorldLeft

LEMMA SameClient == UNCHANGED <<cst, up, down, watch>> => ClientLeft' = ClientLeft
  BY DEF ClientLeft, MainLeft, UpLeft, DownLeft, WatchLeft

LEMMA SameServer == UNCHANGED <<sst, ingress>> => ServerLeft' = ServerLeft
  BY DEF ServerLeft, HandlerLeft, IngressLeft

LEMMA SameFrames ==
    /\ c2s' = c2s => FramesUp' = FramesUp
    /\ s2c' = s2c => FramesDown' = FramesDown
    /\ UNCHANGED <<c2s, s2c>> => FramesLeft' = FramesLeft
  BY DEF FramesLeft, FramesUp, FramesDown

(* The client moves frames, and the server does, while the other waits.     *)
LEMMA ClientLowers ==
    ASSUME Counts, Counts', ServerLeft' = ServerLeft, WorldLeft' <= WorldLeft,
           ClientLeft' + FramesLeft' < ClientLeft + FramesLeft
    PROVE  Lowered
  BY DEF Counts, Lowered, Left

LEMMA HandlerLowers ==
    ASSUME Counts, Counts', ClientLeft' = ClientLeft, WorldLeft' = WorldLeft,
           ServerLeft' + FramesLeft' < ServerLeft + FramesLeft
    PROVE  Lowered
  BY DEF Counts, Lowered, Left

(* A frame more or less in flight. *)
LEMMA FramePut ==
    ASSUME TypeOK
    PROVE  /\ \A e \in C2S : c2s' = Append(c2s, e) => FramesUp' = FramesUp + 1
           /\ \A e \in S2C : s2c' = Append(s2c, e) => FramesDown' = FramesDown + 1
<1>1. c2s \in Seq(C2S) /\ s2c \in Seq(S2C)
  BY DEF TypeOK, C2S, S2C
<1> QED
  BY <1>1, QueueFacts DEF FramesUp, FramesDown

LEMMA FrameTaken ==
    ASSUME TypeOK
    PROVE  /\ c2s # <<>> /\ c2s' = Tail(c2s) => FramesUp' = FramesUp - 1
           /\ s2c # <<>> /\ s2c' = Tail(s2c) => FramesDown' = FramesDown - 1
<1>1. c2s \in Seq(C2S) /\ s2c \in Seq(S2C)
  BY DEF TypeOK, C2S, S2C
<1> QED
  BY <1>1, QueueFacts DEF FramesUp, FramesDown

(* Closing the control connection leaves the application one thing less. *)
LEMMA ControlCloses ==
    ASSUME TypeOK, Counts, ctrl' = FALSE, UNCHANGED <<nSent, nReply, broken>>
    PROVE  WorldLeft' <= WorldLeft /\ (ctrl => WorldLeft' < WorldLeft)
<1>1. MaxSend - nSent \in Nat /\ MaxReply - nReply \in Nat
  BY LimitsAssumption DEF TypeOK
<1>2. (IF broken THEN 0 ELSE 1) \in Nat
  OBVIOUS
<1> QED
  BY <1>1, <1>2 DEF WorldLeft

LEMMA AppLowers ==
    ASSUME TypeOK, Counts, Counts', CloseControl \/ NetBreak
    PROVE  Lowered
<1>1. UNCHANGED <<client, server, c2s, s2c>> /\ nReply' = nReply
  BY DEF CloseControl, NetBreak, server, socket
<1>2. ClientLeft' = ClientLeft /\ ServerLeft' = ServerLeft /\ FramesLeft' = FramesLeft
  BY <1>1, SameClient, SameServer, SameFrames DEF client, pumps, server
<1>3. WorldLeft' < WorldLeft
  <2>1. CASE CloseControl
    BY <1>1, <2>1, ControlCloses DEF CloseControl
  <2>2. CASE NetBreak
    <3>1. MaxSend - nSent \in Nat /\ MaxReply - nReply \in Nat
      BY LimitsAssumption DEF TypeOK
    <3>2. (IF ctrl THEN 1 ELSE 0) \in Nat
      OBVIOUS
    <3>3. UNCHANGED <<nSent, nReply, ctrl>> /\ ~broken /\ broken'
      BY <1>1, <2>2 DEF NetBreak, app
    <3> QED
      BY <3>1, <3>2, <3>3 DEF WorldLeft
  <2> QED
    BY <2>1, <2>2
<1> QED
  BY <1>2, <1>3 DEF Lowered, Left, Counts

(* The main goroutine only goes on, and returns from anywhere. *)
LEMMA MainLowers ==
    ASSUME TypeOK, WaitInv, Counts, Counts', ClientMain
    PROVE  Lowered
<1>1. UNCHANGED server /\ ServerLeft' = ServerLeft /\ UNCHANGED <<nSent, nReply, broken>>
  BY SameServer
     DEF ClientMain, ClientListen, ClientDial, ClientHeader, ClientReply, ClientReturn, server, socket
<1>2. WorldLeft' <= WorldLeft
  <2>1. ctrl' = ctrl \/ ctrl' = FALSE
    BY DEF ClientMain, ClientListen, ClientDial, ClientHeader, ClientReply, ClientReturn, Return
  <2>2. CASE ctrl' = ctrl
    BY <1>1, <2>2, SameWorld DEF Counts
  <2>3. CASE ctrl' = FALSE
    BY <1>1, <2>3, ControlCloses
  <2> QED
    BY <2>1, <2>2, <2>3
<1>3. CASE ClientListen \/ ClientDial \/ ClientReturn
  <2>1. /\ UNCHANGED <<up, down, watch, c2s, s2c>>
        /\ \/ cst = "listen" /\ cst' \in {"dial", "done"}
           \/ cst = "dial" /\ cst' \in {"header", "done"}
           \/ cst = "run" /\ cst' = "done"
    BY <1>3 DEF ClientListen, ClientDial, ClientReturn, Return, pumps
  <2>2. MainLeft' < MainLeft
    BY <2>1 DEF MainLeft
  <2>3. UpLeft' = UpLeft /\ DownLeft' = DownLeft /\ WatchLeft' = WatchLeft
    BY <2>1 DEF UpLeft, DownLeft, WatchLeft
  <2>4. ClientLeft' < ClientLeft /\ FramesLeft' = FramesLeft
    BY <2>1, <2>2, <2>3, SameFrames DEF ClientLeft, Counts
  <2>5. ClientLeft' + FramesLeft' < ClientLeft + FramesLeft
    BY <2>4 DEF Counts
  <2> QED
    BY <1>1, <1>2, <2>5, ClientLowers
<1>4. CASE ClientHeader
  <2>1. /\ UNCHANGED <<up, down, watch, s2c>> /\ cst = "header"
        /\ \/ c2s' = Append(c2s, "request") /\ cst' = "reply"
           \/ cst' = "done" /\ c2s' = c2s
    BY <1>4 DEF ClientHeader, Return, pumps
  <2>2. \/ FramesUp' = FramesUp + 1 /\ MainLeft = 4 /\ MainLeft' = 2
        \/ FramesUp' = FramesUp /\ MainLeft = 4 /\ MainLeft' = 0
    BY <2>1, FramePut, SameFrames DEF MainLeft, C2S
  <2>3. MainLeft' + FramesUp' < MainLeft + FramesUp
    BY <2>2 DEF Counts
  <2>4. UpLeft' = UpLeft /\ DownLeft' = DownLeft /\ WatchLeft' = WatchLeft /\ FramesDown' = FramesDown
    BY <2>1, SameFrames DEF UpLeft, DownLeft, WatchLeft
  <2>5. ClientLeft' + FramesLeft' < ClientLeft + FramesLeft
    BY <2>3, <2>4 DEF ClientLeft, FramesLeft, Counts
  <2> QED
    BY <1>1, <1>2, <2>5, ClientLowers
<1>5. CASE ClientReply
  <2>1. /\ cst = "reply" /\ cst' \in {"run", "done"} /\ c2s' = c2s
        /\ s2c' = s2c \/ (s2c # <<>> /\ s2c' = Tail(s2c))
        /\ \/ up' = "read" /\ down' = "read" /\ watch' = "read"
           \/ UNCHANGED <<up, down, watch>>
    BY <1>5 DEF ClientReply, Return
  <2>2. up = "none" /\ down = "none" /\ watch = "none"
    BY <2>1 DEF WaitInv, ClientInv
  <2>3. UpLeft' = UpLeft /\ DownLeft' = DownLeft /\ WatchLeft' = WatchLeft
    BY <2>1, <2>2 DEF UpLeft, DownLeft, WatchLeft
  <2>4. MainLeft' < MainLeft
    BY <2>1 DEF MainLeft
  <2>5. FramesUp' = FramesUp /\ (FramesDown' = FramesDown \/ FramesDown' = FramesDown - 1)
    BY <2>1, FrameTaken, SameFrames
  <2> QED
    <3>1. ClientLeft' < ClientLeft
      BY <2>3, <2>4 DEF ClientLeft, Counts
    <3>2. FramesLeft' <= FramesLeft
      BY <2>5 DEF FramesLeft, Counts
    <3>3. ClientLeft' + FramesLeft' < ClientLeft + FramesLeft
      BY <3>1, <3>2 DEF Counts
    <3> QED
      BY <1>1, <1>2, <3>3, ClientLowers
<1> QED
  BY <1>3, <1>4, <1>5 DEF ClientMain

(* Pump 1: of a datagram there is the frame left, at most. *)
LEMMA UpLowers ==
    ASSUME TypeOK, Counts, Counts', Up \/ UpTimeout \/ \E src \in Srcs : UpRead(src)
    PROVE  Lowered
<1>1. UNCHANGED <<ctrl, nReply, broken, cst, down, watch, server, s2c>>
  BY DEF Up, UpSend, UpClosed, UpTimeout, UpRead, app, server, socket
<1>2. /\ MainLeft' = MainLeft /\ DownLeft' = DownLeft /\ WatchLeft' = WatchLeft
      /\ ServerLeft' = ServerLeft
  BY <1>1, SameServer DEF MainLeft, DownLeft, WatchLeft, server
<1>3. CASE UpClosed \/ UpTimeout
  <2>1. up = "read" /\ up' = "done" /\ UNCHANGED <<nSent, c2s>>
    BY <1>3 DEF UpClosed, UpTimeout, UpEnds, app
  <2>2. UpLeft' < UpLeft /\ WorldLeft' = WorldLeft /\ FramesLeft' = FramesLeft
    BY <1>1, <2>1, SameWorld, SameFrames DEF UpLeft
  <2>3. ClientLeft' < ClientLeft
    BY <1>2, <2>2 DEF ClientLeft, Counts
  <2> QED
    BY <1>2, <2>2, <2>3 DEF Lowered, Left, Counts
<1>4. ASSUME NEW src \in Srcs, UpRead(src)
      PROVE  Lowered
  <2>1. /\ up = "read" /\ up' \in {"read", "send"} /\ nSent' = nSent + 1 /\ c2s' = c2s
    BY <1>4 DEF UpRead
  <2>2. UpLeft' <= UpLeft + 2 /\ FramesLeft' = FramesLeft
    BY <1>1, <2>1, SameFrames DEF UpLeft
  <2>3. WorldLeft' = WorldLeft - 3
    <3>1. MaxSend \in Int /\ nSent \in Int /\ MaxReply - nReply \in Nat
      BY LimitsAssumption DEF TypeOK
    <3>2. (IF ctrl THEN 1 ELSE 0) \in Nat /\ (IF broken THEN 0 ELSE 1) \in Nat
      OBVIOUS
    <3> QED
      BY <1>1, <2>1, <3>1, <3>2 DEF WorldLeft
  <2>4. ClientLeft' <= ClientLeft + 2
    BY <1>2, <2>2 DEF ClientLeft, Counts
  <2> QED
    BY <1>2, <2>2, <2>3, <2>4 DEF Lowered, Left, Counts
<1>5. CASE UpSend
  <2>1. /\ up = "send" /\ nSent' = nSent
        /\ \/ up' = "read" /\ c2s' = Append(c2s, upMsg.to)
           \/ up' = "done" /\ c2s' = c2s
    BY <1>5 DEF UpSend, UpEnds, app
  <2>2. \/ FramesUp' = FramesUp + 1 /\ UpLeft = 3 /\ UpLeft' = 1
        \/ FramesUp' = FramesUp /\ UpLeft = 3 /\ UpLeft' = 0
    BY <2>1, FramePut, SameFrames DEF TypeOK, UpLeft, C2S
  <2>3. UpLeft' + FramesUp' < UpLeft + FramesUp
    BY <2>2 DEF Counts
  <2>4. WorldLeft' = WorldLeft
    BY <1>1, <2>1, SameWorld
  <2>5. FramesDown' = FramesDown
    BY <1>1, SameFrames
  <2>6. ClientLeft' + FramesLeft' < ClientLeft + FramesLeft
    BY <1>2, <2>3, <2>5 DEF ClientLeft, FramesLeft, Counts
  <2>7. WorldLeft' <= WorldLeft
    BY <2>4 DEF Counts
  <2> QED
    BY <1>2, <2>6, <2>7, ClientLowers
<1> QED
  BY <1>3, <1>4, <1>5 DEF Up

(* Pump 2 takes two units for a frame and is left with one datagram. *)
LEMMA DownLowers ==
    ASSUME TypeOK, Counts, Counts', Down \/ WatchEnds
    PROVE  Lowered
<1>1. /\ UNCHANGED <<app, cst, up, server, c2s, broken>> /\ nReply' = nReply
  BY DEF Down, DownRead, DownFail, DownSend, WatchEnds, server, socket
<1>2. /\ WorldLeft' = WorldLeft /\ WorldLeft' <= WorldLeft
      /\ MainLeft' = MainLeft /\ UpLeft' = UpLeft
      /\ ServerLeft' = ServerLeft
  BY <1>1, SameWorld, SameServer DEF MainLeft, UpLeft, server, app, Counts
<1>a. ASSUME FramesLeft' = FramesLeft,
             DownLeft' + WatchLeft' < DownLeft + WatchLeft
      PROVE  Lowered
  <2>1. ClientLeft' < ClientLeft
    BY <1>2, <1>a DEF ClientLeft, Counts
  <2>2. ClientLeft' + FramesLeft' < ClientLeft + FramesLeft
    BY <1>a, <2>1 DEF Counts
  <2> QED
    BY <1>2, <2>2, ClientLowers
<1>3. CASE DownRead
  <2>1. down = "read" /\ down' \in {"send", "done"} /\ watch' = watch
        /\ s2c # <<>> /\ s2c' = Tail(s2c)
    BY <1>3 DEF DownRead, DownEnds
  <2>2. DownLeft' <= DownLeft + 1 /\ WatchLeft' = WatchLeft
    BY <2>1 DEF DownLeft, WatchLeft
  <2>3. FramesLeft' = FramesLeft - 2
    <3>1. FramesUp' = FramesUp /\ FramesDown' = FramesDown - 1
      BY <1>1, <2>1, FrameTaken, SameFrames
    <3> QED
      BY <3>1 DEF FramesLeft, Counts
  <2>4. ClientLeft' <= ClientLeft + 1
    BY <1>2, <2>2 DEF ClientLeft, Counts
  <2>5. ClientLeft' + FramesLeft' < ClientLeft + FramesLeft
    BY <2>3, <2>4 DEF Counts
  <2> QED
    BY <1>2, <2>5, ClientLowers
<1>4. CASE DownFail \/ DownSend
  <2>1. /\ \/ down = "read" /\ down' = "done"
           \/ down = "send" /\ down' \in {"read", "done"}
        /\ UNCHANGED <<watch, s2c>>
    BY <1>4 DEF DownFail, DownSend, DownEnds
  <2>2. DownLeft' < DownLeft /\ WatchLeft' = WatchLeft /\ FramesLeft' = FramesLeft
    BY <1>1, <2>1, SameFrames DEF DownLeft, WatchLeft
  <2>3. DownLeft' + WatchLeft' < DownLeft + WatchLeft
    BY <2>2 DEF Counts
  <2> QED
    BY <1>a, <2>2, <2>3
<1>5. CASE WatchEnds
  <2>1. watch = "read" /\ watch' = "done" /\ UNCHANGED <<down, s2c>>
    BY <1>5 DEF WatchEnds
  <2>2. WatchLeft' < WatchLeft /\ DownLeft' = DownLeft /\ FramesLeft' = FramesLeft
    BY <1>1, <2>1, SameFrames DEF DownLeft, WatchLeft
  <2>3. DownLeft' + WatchLeft' < DownLeft + WatchLeft
    BY <2>2 DEF Counts
  <2> QED
    BY <1>a, <2>2, <2>3
<1> QED
  BY <1>3, <1>4, <1>5 DEF Down

(* The server's goroutine: two frames of its own, and one frame less to     *)
(* forward each round.                                                      *)
LEMMA ServerLowers ==
    ASSUME TypeOK, SocketInv, Counts, Counts', Server
    PROVE  Lowered
<1>1. UNCHANGED <<app, client, nReply, broken>>
  BY DEF Server, ServerRequest, ServerRequestFail, ServerTunnel, ServerListen, ServerForward,
         ServerReadEnd, ServerJoin, socket
<1>2. WorldLeft' = WorldLeft /\ ClientLeft' = ClientLeft
  BY <1>1, SameWorld, SameClient DEF app, client, pumps
<1>a. ASSUME IngressLeft' = IngressLeft, FramesUp' <= FramesUp,
             \/ HandlerLeft' + 2 * FramesDown' < HandlerLeft + 2 * FramesDown
             \/ /\ HandlerLeft' <= HandlerLeft /\ FramesDown' = FramesDown
                /\ FramesUp' < FramesUp
      PROVE  Lowered
  <2>1. HandlerLeft' + FramesUp' + 2 * FramesDown' < HandlerLeft + FramesUp + 2 * FramesDown
    BY <1>a DEF Counts
  <2>2. ServerLeft' + FramesLeft' < ServerLeft + FramesLeft
    BY <1>a, <2>1 DEF ServerLeft, FramesLeft, Counts
  <2> QED
    BY <1>2, <2>2, HandlerLowers
<1>3. /\ s2c' = s2c => FramesDown' = FramesDown
      /\ s2c' = Append(s2c, "error") \/ s2c' = Append(s2c, "tunnel")
            => FramesDown' = FramesDown + 1
  BY FramePut, SameFrames DEF S2C
<1>4. CASE ServerRequest
  <2>1. /\ sst = "request" /\ ingress' = ingress /\ c2s # <<>> /\ c2s' = Tail(c2s)
        /\ \/ sst' = "tunnel" /\ s2c' = s2c
           \/ sst' = "done" /\ s2c' = Append(s2c, "error")
    BY <1>4 DEF ServerRequest
  <2>2. IngressLeft' = IngressLeft /\ FramesUp' <= FramesUp
    <3>1. IngressLeft' = IngressLeft /\ FramesUp' = FramesUp - 1
      BY <2>1, FrameTaken DEF IngressLeft
    <3> QED
      BY <3>1 DEF Counts
  <2>3. HandlerLeft' + 2 * FramesDown' < HandlerLeft + 2 * FramesDown
    <3>1. \/ HandlerLeft = 7 /\ HandlerLeft' = 6 /\ FramesDown' = FramesDown
          \/ HandlerLeft = 7 /\ HandlerLeft' = 0 /\ FramesDown' = FramesDown + 1
      BY <1>3, <2>1 DEF HandlerLeft
    <3> QED
      BY <3>1 DEF Counts
  <2> QED
    BY <1>a, <2>2, <2>3
<1>5. CASE ServerTunnel
  <2>1. /\ sst = "tunnel" /\ UNCHANGED <<ingress, c2s>>
        /\ \/ sst' = "listen" /\ s2c' = Append(s2c, "tunnel")
           \/ sst' = "done" /\ s2c' = s2c
    BY <1>5 DEF ServerTunnel
  <2>2. IngressLeft' = IngressLeft /\ FramesUp' <= FramesUp
    <3>1. IngressLeft' = IngressLeft /\ FramesUp' = FramesUp
      BY <2>1, SameFrames DEF IngressLeft
    <3> QED
      BY <3>1 DEF Counts
  <2>3. HandlerLeft' + 2 * FramesDown' < HandlerLeft + 2 * FramesDown
    <3>1. \/ HandlerLeft = 6 /\ HandlerLeft' = 3 /\ FramesDown' = FramesDown + 1
          \/ HandlerLeft = 6 /\ HandlerLeft' = 0 /\ FramesDown' = FramesDown
      BY <1>3, <2>1 DEF HandlerLeft
    <3> QED
      BY <3>1 DEF Counts
  <2> QED
    BY <1>a, <2>2, <2>3
<1>6. CASE ServerListen
  <2>1. /\ sst = "listen" /\ c2s' = c2s
        /\ \/ sst' = "run" /\ ingress' = "read" /\ s2c' = s2c
           \/ sst' = "done" /\ s2c' = Append(s2c, "error") /\ ingress' = ingress
           \/ sst' = "done" /\ UNCHANGED <<ingress, s2c>>
    BY <1>6 DEF ServerListen
  <2>2. ingress = "none"
    BY <2>1 DEF SocketInv
  <2>3. IngressLeft' = IngressLeft /\ FramesUp' <= FramesUp
    <3>1. IngressLeft' = IngressLeft /\ FramesUp' = FramesUp
      BY <2>1, <2>2, SameFrames DEF IngressLeft
    <3> QED
      BY <3>1 DEF Counts
  <2>4. HandlerLeft' + 2 * FramesDown' < HandlerLeft + 2 * FramesDown
    <3>1. \/ HandlerLeft = 3 /\ HandlerLeft' = 0 /\ FramesDown' = FramesDown + 1
          \/ HandlerLeft = 3 /\ HandlerLeft' \in {0, 2} /\ FramesDown' = FramesDown
      BY <1>3, <2>1 DEF HandlerLeft
    <3> QED
      BY <3>1 DEF Counts
  <2> QED
    BY <1>a, <2>3, <2>4
<1>7. CASE ServerForward
  <2>1. /\ sst = "run" /\ sst' \in {"run", "join"} /\ UNCHANGED <<ingress, s2c>>
        /\ c2s # <<>> /\ c2s' = Tail(c2s)
    BY <1>7 DEF ServerForward
  <2>2. /\ IngressLeft' = IngressLeft /\ HandlerLeft' <= HandlerLeft /\ FramesDown' = FramesDown
    BY <2>1, SameFrames DEF IngressLeft, HandlerLeft
  <2>3. FramesUp' < FramesUp /\ FramesUp' <= FramesUp
    <3>1. FramesUp' = FramesUp - 1
      BY <2>1, FrameTaken
    <3> QED
      BY <3>1 DEF Counts
  <2> QED
    BY <1>a, <2>2, <2>3
<1>8. CASE ServerRequestFail \/ ServerReadEnd \/ ServerJoin
  <2>1. /\ \/ sst = "request" /\ sst' = "done"
           \/ sst = "run" /\ sst' = "join"
           \/ sst = "join" /\ sst' = "done"
        /\ UNCHANGED <<ingress, c2s, s2c>>
    BY <1>8 DEF ServerRequestFail, ServerReadEnd, ServerJoin
  <2>2. /\ IngressLeft' = IngressLeft /\ HandlerLeft' < HandlerLeft
        /\ FramesUp' = FramesUp /\ FramesDown' = FramesDown
    BY <2>1, SameFrames DEF IngressLeft, HandlerLeft
  <2>3. FramesUp' <= FramesUp /\ HandlerLeft' + 2 * FramesDown' < HandlerLeft + 2 * FramesDown
    BY <2>2 DEF Counts
  <2> QED
    BY <1>a, <2>2, <2>3
<1> QED
  BY <1>4, <1>5, <1>6, <1>7, <1>8 DEF Server

(* Of a datagram received there is the frame left, at most, and its way on. *)
LEMMA IngressLowers ==
    ASSUME TypeOK, Counts, Counts',
           \/ Ingress \/ IngressFail
           \/ \E t \in Targets, size \in Size : IngressRead(t, size)
    PROVE  Lowered
<1>1. UNCHANGED <<app, client, sst, c2s, broken>>
  BY DEF Ingress, IngressSend, IngressClosed, IngressFail, IngressRead
<1>2. ClientLeft' = ClientLeft /\ HandlerLeft' = HandlerLeft /\ FramesUp' = FramesUp
  BY <1>1, SameClient, SameFrames DEF client, pumps, HandlerLeft
<1>3. CASE Ingress \/ IngressFail
  <2>1. nReply' = nReply
    BY <1>3 DEF Ingress, IngressSend, IngressClosed, IngressFail, socket
  <2>2. WorldLeft' = WorldLeft
    BY <1>1, <2>1, SameWorld DEF app
  <2>3. \/ /\ ingress = "send"
           /\ \/ ingress' = "read" /\ s2c' = Append(s2c, inMsg.from)
              \/ ingress' = "done" /\ s2c' = s2c
        \/ ingress = "read" /\ ingress' = "done" /\ s2c' = s2c
    BY <1>3 DEF Ingress, IngressSend, IngressClosed, IngressFail
  <2>4. s2c' = Append(s2c, inMsg.from) => FramesDown' = FramesDown + 1
    BY FramePut DEF TypeOK, S2C
  <2>5. IngressLeft' + 2 * FramesDown' < IngressLeft + 2 * FramesDown
    <3>1. \/ IngressLeft' + 3 = IngressLeft /\ FramesDown' = FramesDown + 1
          \/ IngressLeft' < IngressLeft /\ FramesDown' = FramesDown
      BY <2>3, <2>4, SameFrames DEF IngressLeft
    <3> QED
      BY <3>1 DEF Counts
  <2>6. ServerLeft' + FramesLeft' < ServerLeft + FramesLeft
    BY <1>2, <2>5 DEF ServerLeft, FramesLeft, Counts
  <2> QED
    BY <1>2, <2>2, <2>6, HandlerLowers
<1>4. ASSUME NEW t \in Targets, NEW size \in Size, IngressRead(t, size)
      PROVE  Lowered
  <2>1. ingress = "read" /\ ingress' = "send" /\ nReply' = nReply + 1 /\ s2c' = s2c
    BY <1>4 DEF IngressRead
  <2>2. IngressLeft' = IngressLeft + 3 /\ FramesLeft' = FramesLeft
    BY <1>1, <2>1, SameFrames DEF IngressLeft
  <2>3. WorldLeft' = WorldLeft - 4
    <3>1. MaxReply \in Int /\ nReply \in Int /\ MaxSend - nSent \in Nat
      BY LimitsAssumption DEF TypeOK
    <3>2. (IF ctrl THEN 1 ELSE 0) \in Nat /\ (IF broken THEN 0 ELSE 1) \in Nat
      OBVIOUS
    <3> QED
      BY <1>1, <2>1, <3>1, <3>2 DEF WorldLeft, app
  <2>4. ServerLeft' = ServerLeft + 3
    BY <1>2, <2>2 DEF ServerLeft, Counts
  <2> QED
    BY <1>2, <2>2, <2>3, <2>4 DEF Lowered, Left, Counts
<1> QED
  BY <1>3, <1>4

(* For any number of datagrams and any window, every step of an association *)
(* leaves less to do.  With NoWaitingCircle: an association whose           *)
(* goroutines run when they can ends, or is up and idle.                    *)
THEOREM AssociationComesToRest == Spec => AssociationRunsOut
<1>1. TypeOK /\ SocketInv /\ WaitInv /\ Counts /\ Counts' /\ [Next]_vars
        => [Left' \in Nat /\ Left' < Left]_vars
  <2> SUFFICES ASSUME TypeOK, SocketInv, WaitInv, Counts, Counts', Next
               PROVE  Left' \in Nat /\ Left' < Left
    OBVIOUS
  <2>1. Lowered
    BY AppLowers, MainLowers, UpLowers, DownLowers, ServerLowers, IngressLowers DEF Next
  <2>2. Left' \in Nat
    BY DEF Left, Counts
  <2> QED
    BY <2>1, <2>2 DEF Lowered
<1> QED
  BY <1>1, Counted, UdpTypes, Sockets, Waits, PTL DEF Spec, AssociationRunsOut
=============================================================================
