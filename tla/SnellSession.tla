---------------------------- MODULE SnellSession ----------------------------
(***************************************************************************)
(* One TCP connection between the snell client and the snell server, and   *)
(* the CONNECT sessions it carries one after the other.                    *)
(*                                                                         *)
(* Client side: DialTCP's WriteHeader, handleSocksConnect's Relay with its *)
(* two pumps, PoolConn.Close with its drain, Pool.put and the next         *)
(* GetContext.  Server side: the handleConn loop, handleRequest, handleTCP *)
(* with its dial, its Relay, the lazy response and the reuse epilogue.     *)
(*                                                                         *)
(* A v4 frame is a record: its type, the session it belongs to and its     *)
(* number: of payload, and of the epilogue's zero chunk behind it, its     *)
(* place in that session; a fallback's frames have number 0.  Session and  *)
(* number are the model's bookkeeping: no guard of either endpoint reads   *)
(* the session, nor the number but to tell a lone status byte from payload.*)
(* Payload bytes are assumed never to look like a request or a status byte.*)
(***************************************************************************)
EXTENDS Integers, Sequences

CONSTANTS
    MaxUses,    \* pool.maxUsesPerConn
    MaxUp,      \* bound: payload frames the application sends in a session
    MaxDown     \* bound: payload chunks the destination sends in a session

ASSUME MaxUsesAssumption == MaxUses \in Nat \ {0}
ASSUME BoundsAssumption  == MaxUp \in Nat /\ MaxDown \in Nat

VARIABLES
    reuse,      \* the request carries CommandConnectV2
    wrapped,    \* the client holds a PoolConn, not a bare Snell
    writing,    \* the pumps, of both Relays, that are in a write which has not returned
    cst,        \* client goroutine: header, relay, close, drain, idle, closed
    sess,       \* PoolConn.uses: the session the client is in
    reply,      \* Snell.reply of the client's connection
    cUp, cDown, \* the client's pumps: application -> snell, snell -> application
    cDl, lDl,   \* read deadline passed: on the snell connection, on the local one
    cDesync,    \* a timed-out read consumed part of a frame on the client
    lEOF,       \* the local application has closed its connection
    lSent,      \* payload frames sent in this session by the application
    lGot,       \* payload delivered to the application in this session
    sst,        \* server goroutine: request, dial, relay, finish, zero, drain, closed
    skey,       \* the session the server serves or served last
    sUp, sDown, \* the server's pumps: snell -> destination, destination -> snell
    sDl, uDl,   \* read deadline passed: on the snell connection, on the upstream one
    sDesync,    \* a timed-out read consumed part of a frame on the server
    sent,       \* lazyResponseStream.sent
    zeroSeen,   \* serverReadConn.zeroChunkSeen
    refused,    \* the server answered this session with writeServerError
    uEOF, uErr, \* the destination has closed; a write to it has failed
    uSent,      \* payload chunks the destination has sent
    uRead,      \* ... of which the server's pump has read
    uGot,       \* payload delivered to the destination
    c2s, s2c,   \* frames in flight
    broken      \* the TCP connection has been reset

client == <<cst, sess, reply, cUp, cDown, cDl, lDl, cDesync>>
local  == <<lEOF, lSent, lGot>>
server == <<sst, skey, sUp, sDown, sDl, uDl, sDesync, sent, zeroSeen, refused>>
upstream == <<uEOF, uErr, uSent, uRead, uGot>>
mode   == <<reuse, wrapped>>
vars   == <<mode, writing, client, local, server, upstream, c2s, s2c, broken>>

Frame(t, k, i) == [t |-> t, k |-> k, i |-> i]
Item(f) == <<f.k, f.i>>

Pumps == {"cUp", "cDown", "sUp", "sDown"}
C2SType == {"header", "data", "zero"}
S2CType == {"tunnel", "data", "error", "zero"}

TypeOK ==
    /\ reuse \in BOOLEAN /\ wrapped \in BOOLEAN /\ writing \subseteq Pumps
    /\ cst \in {"header", "relay", "close", "drain", "idle", "closed"}
    /\ sess \in Nat /\ reply \in BOOLEAN
    /\ cUp \in {"run", "done"} /\ cDown \in {"run", "done"}
    /\ cDl \in BOOLEAN /\ lDl \in BOOLEAN /\ cDesync \in BOOLEAN
    /\ lEOF \in BOOLEAN /\ lSent \in 0..MaxUp /\ lGot \in Seq(Nat \X Nat)
    /\ sst \in {"request", "dial", "relay", "finish", "zero", "drain", "closed"}
    /\ skey \in Nat
    /\ sUp \in {"run", "done"} /\ sDown \in {"run", "done"}
    /\ sDl \in BOOLEAN /\ uDl \in BOOLEAN /\ sDesync \in BOOLEAN
    /\ sent \in BOOLEAN /\ zeroSeen \in BOOLEAN /\ refused \in BOOLEAN
    /\ uEOF \in BOOLEAN /\ uErr \in BOOLEAN
    /\ uSent \in 0..MaxDown /\ uRead \in 0..MaxDown /\ uGot \in Seq(Nat \X Nat)
    /\ c2s \in Seq([t : C2SType, k : Nat, i : Nat])
    /\ s2c \in Seq([t : S2CType, k : Nat, i : Nat])
    /\ broken \in BOOLEAN

(* dialFresh has returned: a new TCP connection, no header written yet.    *)
(* (reuse, wrapped): from the pool's factory; DialTCP's own dialFresh with *)
(* Reuse configured; the same without Reuse.                               *)
Init ==
    /\ reuse \in BOOLEAN /\ wrapped \in BOOLEAN /\ (wrapped => reuse)
    /\ cst = "header" /\ sess = 1 /\ reply = FALSE
    /\ cUp = "done" /\ cDown = "done" /\ cDl = FALSE /\ lDl = FALSE /\ cDesync = FALSE
    /\ lEOF = FALSE /\ lSent = 0 /\ lGot = <<>>
    /\ sst = "request" /\ skey = 0 /\ sUp = "done" /\ sDown = "done"
    /\ sDl = FALSE /\ uDl = FALSE /\ sDesync = FALSE
    /\ sent = FALSE /\ zeroSeen = FALSE /\ refused = FALSE
    /\ uEOF = FALSE /\ uErr = FALSE /\ uSent = 0 /\ uRead = 0 /\ uGot = <<>>
    /\ c2s = <<>> /\ s2c = <<>> /\ broken = FALSE /\ writing = {}

cClosed == cst = "closed"
sClosed == sst = "closed"

(* A write reaches the peer's queue unless the connection is reset; it can *)
(* report an error once the connection is reset or the peer has closed.    *)
(* What is in flight may fill the buffers on the way: a write may return at*)
(* any time, and is sure to only when nothing is in the way, or with an    *)
(* error.  No deadline reaches a write (relay.go sets those of reads).     *)
Queued(ch, fs) == IF broken THEN ch ELSE ch \o fs
ClientWriteFails == broken \/ sClosed
ServerWriteFails == broken \/ cClosed
DrainStarves == sst = "drain" /\ sDesync /\ Len(c2s) = 1
ClientFree == c2s = <<>> \/ DrainStarves \/ ClientWriteFails
ServerFree == s2c = <<>> \/ ServerWriteFails
(* A read can fail once the connection is reset or the peer has closed     *)
(* (a close with unread input resets the connection).                      *)
ClientReadFails == broken \/ sClosed
ServerReadFails == broken \/ cClosed

-----------------------------------------------------------------------------
(* The client *)

(* DialTCP: WriteHeader on the connection; an error closes it (PoolConn.Close *)
(* fails its CloseWrite the same way) and DialTCP turns to another one.      *)
ClientWriteHeader ==
    /\ cst = "header"
    /\ \/ /\ c2s' = Queued(c2s, <<Frame("header", sess, 0)>>)
          /\ cst' = "relay" /\ cUp' = "run" /\ cDown' = "run"
       \/ /\ ClientWriteFails
          /\ cst' = "closed"
          /\ UNCHANGED <<c2s, cUp, cDown>>
    /\ UNCHANGED <<mode, writing, sess, reply, cDl, lDl, cDesync, local, server, upstream, s2c, broken>>

(* Mutant: the snell read deadline is not set when the pump ends. *)
ClientUpEndsSilently == cUp' = "done" /\ UNCHANGED cDl

(* Relay's main goroutine copies application -> snell, and sets the snell   *)
(* connection's read deadline when it ends.                                 *)
ClientUpEnds == cUp' = "done" /\ cDl' = TRUE

(* A payload is read and its write begins, or fails at once. *)
ClientUpCopy ==
    /\ cst = "relay" /\ cUp = "run" /\ "cUp" \notin writing
    /\ ~lEOF /\ ~lDl /\ lSent < MaxUp
    /\ lSent' = lSent + 1
    /\ \/ /\ c2s' = Queued(c2s, <<Frame("data", sess, lSent + 1)>>)
          /\ writing' = writing \cup {"cUp"}
          /\ UNCHANGED <<cUp, cDl>>
       \/ ClientWriteFails /\ ClientUpEnds /\ UNCHANGED <<c2s, writing>>
    /\ UNCHANGED <<mode, cst, sess, reply, cDown, lDl, cDesync, lEOF, lGot, server, upstream, s2c, broken>>

(* The write of the last payload returns. *)
ClientUpReturn ==
    /\ cst = "relay" /\ cUp = "run" /\ "cUp" \in writing
    /\ writing' = writing \ {"cUp"}
    /\ \/ UNCHANGED <<cUp, cDl>>
       \/ ClientWriteFails /\ ClientUpEnds
    /\ UNCHANGED <<mode, cst, sess, reply, cDown, lDl, cDesync, local, server, upstream, c2s, s2c, broken>>

ClientUpStop ==
    /\ cst = "relay" /\ cUp = "run" /\ "cUp" \notin writing
    /\ lEOF \/ lDl
    /\ ClientUpEnds
    /\ UNCHANGED <<mode, writing, cst, sess, reply, cDown, lDl, cDesync, local, server, upstream, c2s, s2c, broken>>

(* Snell.Read on frame f, with ReadReply first when the status byte is due. *)
ReadOutcome(f) ==
    IF f.t = "zero" THEN "zero"
    ELSE IF reply THEN "data"
    ELSE IF f.t = "tunnel" THEN (IF f.i = 0 THEN "status" ELSE "data")
    ELSE "err"

(* ReadReply marks the status byte as read before it looks at it. *)
ReplyAfter(f) == reply \/ f.t # "zero"

(* Relay's other goroutine copies snell -> application, and sets the local  *)
(* connection's read deadline when it ends: on the server's zero chunk, on  *)
(* a server error, when the application no longer accepts data.             *)
ClientDownEnds == cDown' = "done" /\ lDl' = TRUE

ClientDownCopy ==
    /\ cst = "relay" /\ cDown = "run" /\ "cDown" \notin writing
    /\ ~cDesync /\ s2c # <<>>
    /\ LET f == Head(s2c) IN
       /\ reply' = ReplyAfter(f)
       /\ \/ /\ ReadOutcome(f) = "data"
             /\ \/ /\ lGot' = Append(lGot, Item(f))
                   /\ writing' = writing \cup {"cDown"}
                   /\ UNCHANGED <<cDown, lDl>>
                \/ lEOF /\ ClientDownEnds /\ UNCHANGED <<lGot, writing>>
          \/ /\ ReadOutcome(f) = "status"
             /\ UNCHANGED <<lGot, writing, cDown, lDl>>
          \/ /\ ReadOutcome(f) \in {"zero", "err"}
             /\ ClientDownEnds
             /\ UNCHANGED <<lGot, writing>>
    /\ s2c' = Tail(s2c)
    /\ UNCHANGED <<mode, cst, sess, cUp, cDl, cDesync, lEOF, lSent, server, upstream, c2s, broken>>

(* The application takes the last payload, or refuses it. *)
ClientDownReturn ==
    /\ cst = "relay" /\ cDown = "run" /\ "cDown" \in writing
    /\ writing' = writing \ {"cDown"}
    /\ \/ UNCHANGED <<cDown, lDl>>
       \/ lEOF /\ ClientDownEnds
    /\ UNCHANGED <<mode, cst, sess, reply, cUp, cDl, cDesync, local, server, upstream, c2s, s2c, broken>>

(* The read deadline passes, perhaps after io.ReadFull has consumed part of *)
(* a frame that is still arriving; or the connection fails.                 *)
ClientDownStop ==
    /\ cst = "relay" /\ cDown = "run" /\ "cDown" \notin writing
    /\ \/ cDl /\ cDesync' \in (IF s2c = <<>> THEN {cDesync} ELSE {cDesync, TRUE})
       \/ ClientReadFails /\ UNCHANGED cDesync
    /\ ClientDownEnds
    /\ UNCHANGED <<mode, writing, cst, sess, reply, cUp, cDl, local, server, upstream, c2s, s2c, broken>>

(* Both pumps have ended: Relay returns and the deferred Close runs. *)
ClientJoin ==
    /\ cst = "relay" /\ cUp = "done" /\ cDown = "done"
    /\ cst' = "close"
    /\ UNCHANGED <<mode, writing, sess, reply, cUp, cDown, cDl, lDl, cDesync, local, server, upstream, c2s, s2c, broken>>

(* PoolConn.Close: CloseWrite, then drainPendingForReuse arms its deadline. *)
(* The Close of a bare Snell closes the TCP connection.                     *)
ClientClose ==
    /\ cst = "close"
    /\ \/ /\ wrapped
          /\ c2s' = Queued(c2s, <<Frame("zero", sess, 0)>>)
          /\ cst' = "drain" /\ cDl' = FALSE
       \/ /\ ~wrapped \/ ClientWriteFails
          /\ cst' = "closed"
          /\ UNCHANGED <<c2s, cDl>>
    /\ UNCHANGED <<mode, writing, sess, reply, cUp, cDown, lDl, cDesync, local, server, upstream, s2c, broken>>

(* Mutant: the use cap admits one session too many. *)
PutStatesOffByOne(uses) == IF uses > MaxUses THEN {"closed"} ELSE {"idle", "closed"}

(* Pool.put: a connection at its use cap is closed, and so is one the full  *)
(* pool has no room for.                                                    *)
PutStates(uses) == IF uses >= MaxUses THEN {"closed"} ELSE {"idle", "closed"}

(* Mutant: the drain takes a server error for the end of the session. *)
ClientDrainIgnoresErr ==
    /\ cst = "drain"
    /\ ~cDesync /\ s2c # <<>>
    /\ LET f == Head(s2c) IN
       \/ /\ ReadOutcome(f) \in {"data", "status"}
          /\ reply' = ReplyAfter(f)
          /\ UNCHANGED cst
       \/ /\ ReadOutcome(f) = "zero"
          /\ reply' = FALSE
          /\ cst' \in PutStates(sess)
       \/ /\ ReadOutcome(f) = "err"
          /\ reply' = FALSE
          /\ cst' \in PutStates(sess)
    /\ s2c' = Tail(s2c)
    /\ UNCHANGED <<mode, writing, sess, cUp, cDown, cDl, lDl, cDesync, local, server, upstream, c2s, broken>>

(* One read of the drain loop: the server's zero chunk returns the          *)
(* connection to the pool, any error closes it.                             *)
ClientDrainRead ==
    /\ cst = "drain"
    /\ ~cDesync /\ s2c # <<>>
    /\ LET f == Head(s2c) IN
       \/ /\ ReadOutcome(f) \in {"data", "status"}
          /\ reply' = ReplyAfter(f)
          /\ UNCHANGED cst
       \/ /\ ReadOutcome(f) = "zero"
          /\ reply' = FALSE
          /\ cst' \in PutStates(sess)
       \/ /\ ReadOutcome(f) = "err"
          /\ reply' = ReplyAfter(f)
          /\ cst' = "closed"
    /\ s2c' = Tail(s2c)
    /\ UNCHANGED <<mode, writing, sess, cUp, cDown, cDl, lDl, cDesync, local, server, upstream, c2s, broken>>

(* The drain's 500 ms pass, the stream no longer decrypts, or a read fails. *)
ClientDrainFail ==
    /\ cst = "drain"
    /\ cst' = "closed"
    /\ UNCHANGED <<mode, writing, sess, reply, cUp, cDown, cDl, lDl, cDesync, local, server, upstream, c2s, s2c, broken>>

(* Pool.GetContext hands the idle connection to the next DialTCP. *)
ClientTake ==
    /\ cst = "idle"
    /\ cst' = "header" /\ sess' = sess + 1
    /\ lDl' = FALSE /\ lEOF' = FALSE /\ lSent' = 0 /\ lGot' = <<>>
    /\ UNCHANGED <<mode, writing, reply, cUp, cDown, cDl, cDesync, server, upstream, c2s, s2c, broken>>

(* takeIdle finds the idle connection too old and closes it. *)
ClientExpire ==
    /\ cst = "idle"
    /\ cst' = "closed"
    /\ UNCHANGED <<mode, writing, sess, reply, cUp, cDown, cDl, lDl, cDesync, local, server, upstream, c2s, s2c, broken>>

LocalClose ==
    /\ cst = "relay" /\ ~lEOF
    /\ lEOF' = TRUE
    /\ UNCHANGED <<mode, writing, client, lSent, lGot, server, upstream, c2s, s2c, broken>>

-----------------------------------------------------------------------------
(* The server *)

(* Mutant: the upstream connection of the last request is kept. *)
ServerRequestKeepsUpstream ==
    /\ sst = "request"
    /\ ~sDesync /\ c2s # <<>>
    /\ \/ /\ Head(c2s).t = "header"
          /\ sst' = "dial" /\ skey' = Head(c2s).k /\ refused' = FALSE
       \/ sst' = "closed" /\ UNCHANGED <<skey, refused>>
    /\ c2s' = Tail(c2s)
    /\ UNCHANGED <<mode, writing, client, local, upstream, sUp, sDown, sDl, uDl, sDesync, sent, zeroSeen, s2c, broken>>

(* handleRequest on the next frame.  Anything but a request ends the        *)
(* connection: ErrZeroChunk, or a payload byte that is no protocol version; *)
(* so does a request the server does not serve (an empty host, a ping, an   *)
(* unknown command).                                                        *)
ServerRequest ==
    /\ sst = "request"
    /\ ~sDesync /\ c2s # <<>>
    /\ \/ /\ Head(c2s).t = "header"
          /\ sst' = "dial" /\ skey' = Head(c2s).k /\ refused' = FALSE
          /\ uEOF' = FALSE /\ uErr' = FALSE /\ uSent' = 0 /\ uRead' = 0 /\ uGot' = <<>>
       \/ sst' = "closed" /\ UNCHANGED <<skey, refused, upstream>>
    /\ c2s' = Tail(c2s)
    /\ UNCHANGED <<mode, writing, client, local, sUp, sDown, sDl, uDl, sDesync, sent, zeroSeen, s2c, broken>>

ServerRequestFail ==
    /\ sst = "request"
    /\ ServerReadFails
    /\ sst' = "closed"
    /\ UNCHANGED <<mode, writing, client, local, skey, sUp, sDown, sDl, uDl, sDesync, sent, zeroSeen, refused, upstream, c2s, s2c, broken>>

(* handleTCP: the destination is reached and Relay starts. *)
ServerDialOk ==
    /\ sst = "dial"
    /\ sst' = "relay" /\ sUp' = "run" /\ sDown' = "run" /\ uDl' = FALSE
    /\ sent' = FALSE /\ zeroSeen' = FALSE
    /\ UNCHANGED <<mode, writing, client, local, skey, sDl, sDesync, refused, upstream, c2s, s2c, broken>>

(* Mutant: the dial is tried again after the error was reported. *)
ServerDialFailRetries ==
    /\ sst = "dial"
    /\ refused' = TRUE
    /\ \/ s2c' = Queued(s2c, <<Frame("error", skey, 0)>>) /\ UNCHANGED sst
       \/ ServerWriteFails /\ sst' = "closed" /\ UNCHANGED s2c
    /\ UNCHANGED <<mode, writing, client, local, skey, sUp, sDown, sDl, uDl, sDesync, sent, zeroSeen, upstream, c2s, broken>>

(* handleTCP: the dial fails; the error is reported, and in reuse mode the  *)
(* next request is read at once.                                            *)
ServerDialFail ==
    /\ sst = "dial"
    /\ refused' = TRUE
    /\ \/ /\ s2c' = Queued(s2c, <<Frame("error", skey, 0)>>)
          /\ sst' = IF reuse THEN "request" ELSE "closed"
       \/ /\ ServerWriteFails
          /\ sst' = "closed"
          /\ UNCHANGED s2c
    /\ UNCHANGED <<mode, writing, client, local, skey, sUp, sDown, sDl, uDl, sDesync, sent, zeroSeen, upstream, c2s, broken>>

(* Mutant: the upstream read deadline is not set when the pump ends. *)
ServerUpEndsSilently == sUp' = "done" /\ UNCHANGED uDl

(* Relay's main goroutine copies snell -> destination through               *)
(* serverReadConn, which turns the zero chunk into EOF; when it ends it     *)
(* sets the upstream connection's read deadline.                            *)
ServerUpEnds == sUp' = "done" /\ uDl' = TRUE

ServerUpCopy ==
    /\ sst = "relay" /\ sUp = "run" /\ "sUp" \notin writing
    /\ ~sDesync /\ c2s # <<>>
    /\ IF Head(c2s).t = "zero"
       THEN zeroSeen' = TRUE /\ ServerUpEnds /\ UNCHANGED <<uGot, uErr, writing>>
       ELSE /\ UNCHANGED zeroSeen
            /\ \/ /\ uGot' = Append(uGot, Item(Head(c2s)))
                  /\ writing' = writing \cup {"sUp"}
                  /\ UNCHANGED <<sUp, uDl, uErr>>
               \/ uEOF /\ uErr' = TRUE /\ ServerUpEnds /\ UNCHANGED <<uGot, writing>>
    /\ c2s' = Tail(c2s)
    /\ UNCHANGED <<mode, client, local, sst, skey, sDown, sDl, sDesync, sent, refused, uEOF, uSent, uRead, s2c, broken>>

(* The destination takes the last payload, or refuses it. *)
ServerUpReturn ==
    /\ sst = "relay" /\ sUp = "run" /\ "sUp" \in writing
    /\ writing' = writing \ {"sUp"}
    /\ \/ UNCHANGED <<uErr, sUp, uDl>>
       \/ uEOF /\ uErr' = TRUE /\ ServerUpEnds
    /\ UNCHANGED <<mode, client, local, sst, skey, sDown, sDl, sDesync, sent, zeroSeen, refused, uEOF, uSent, uRead, uGot, c2s, s2c, broken>>

ServerUpStop ==
    /\ sst = "relay" /\ sUp = "run" /\ "sUp" \notin writing
    /\ \/ sDl /\ sDesync' \in (IF c2s = <<>> THEN {sDesync} ELSE {sDesync, TRUE})
       \/ ServerReadFails /\ UNCHANGED sDesync
    /\ ServerUpEnds
    /\ UNCHANGED <<mode, writing, client, local, sst, skey, sDown, sDl, sent, zeroSeen, refused, upstream, c2s, s2c, broken>>

(* Mutant: the snell read deadline is not set when the pump ends. *)
ServerDownEndsSilently == sDown' = "done" /\ UNCHANGED sDl

(* Relay's other goroutine copies destination -> snell through              *)
(* lazyResponseStream, which puts the status byte in front of the first     *)
(* chunk; when it ends it sets the snell connection's read deadline.        *)
ServerDownEnds == sDown' = "done" /\ sDl' = TRUE

(* lazyResponseStream.Write of payload, and of nothing (the zero chunk).    *)
LazyData(i) == <<Frame(IF sent THEN "data" ELSE "tunnel", skey, i)>>
LazyZero(i) == IF sent THEN <<Frame("zero", skey, i)>>
                       ELSE <<Frame("tunnel", skey, 0), Frame("zero", skey, i)>>

ServerDownCopy ==
    /\ sst = "relay" /\ sDown = "run" /\ "sDown" \notin writing
    /\ ~uDl /\ uRead < uSent
    /\ uRead' = uRead + 1 /\ sent' = TRUE
    /\ \/ /\ s2c' = Queued(s2c, LazyData(uRead + 1))
          /\ writing' = writing \cup {"sDown"}
          /\ UNCHANGED <<sDown, sDl>>
       \/ ServerWriteFails /\ ServerDownEnds /\ UNCHANGED <<s2c, writing>>
    /\ UNCHANGED <<mode, client, local, sst, skey, sUp, uDl, sDesync, zeroSeen, refused, uEOF, uErr, uSent, uGot, c2s, broken>>

(* The write of the last chunk returns. *)
ServerDownReturn ==
    /\ sst = "relay" /\ sDown = "run" /\ "sDown" \in writing
    /\ writing' = writing \ {"sDown"}
    /\ \/ UNCHANGED <<sDown, sDl>>
       \/ ServerWriteFails /\ ServerDownEnds
    /\ UNCHANGED <<mode, client, local, sst, skey, sUp, uDl, sDesync, sent, zeroSeen, refused, upstream, c2s, s2c, broken>>

(* Mutant: the destination's close ends the pump before its data is read. *)
ServerDownStopEarly ==
    /\ sst = "relay" /\ sDown = "run" /\ "sDown" \notin writing
    /\ uDl \/ uEOF
    /\ ServerDownEnds
    /\ UNCHANGED <<mode, writing, client, local, sst, skey, sUp, uDl, sDesync, sent, zeroSeen, refused, upstream, c2s, s2c, broken>>

(* The destination has closed and all it sent is read, or the deadline      *)
(* passes, whatever is still unread.                                        *)
ServerDownStop ==
    /\ sst = "relay" /\ sDown = "run" /\ "sDown" \notin writing
    /\ uDl \/ (uEOF /\ uRead = uSent)
    /\ ServerDownEnds
    /\ UNCHANGED <<mode, writing, client, local, sst, skey, sUp, uDl, sDesync, sent, zeroSeen, refused, upstream, c2s, s2c, broken>>

ServerJoin ==
    /\ sst = "relay" /\ sUp = "done" /\ sDown = "done"
    /\ sst' = "finish"
    /\ UNCHANGED <<mode, writing, client, local, skey, sUp, sDown, sDl, uDl, sDesync, sent, zeroSeen, refused, upstream, c2s, s2c, broken>>

(* handleTCP after Relay: the fallback response when nothing was ever       *)
(* written, which is followed by its own zero chunk.                        *)
ServerFinish ==
    /\ sst = "finish"
    /\ sent' = TRUE
    /\ \/ /\ s2c' = IF sent THEN s2c ELSE Queued(s2c, LazyZero(0))
          /\ sst' = IF reuse THEN "zero" ELSE "closed"
       \/ /\ ~sent /\ ServerWriteFails
          /\ sst' = "closed"
          /\ UNCHANGED s2c
    /\ UNCHANGED <<mode, writing, client, local, skey, sUp, sDown, sDl, uDl, sDesync, zeroSeen, refused, upstream, c2s, broken>>

(* Mutant: the epilogue does not wait for the client's zero chunk. *)
ServerZeroNoDrain ==
    /\ sst = "zero"
    /\ sDl' = FALSE
    /\ \/ /\ s2c' = Queued(s2c, LazyZero(uRead + 1))
          /\ sst' = "request"
       \/ /\ ServerWriteFails
          /\ sst' = "closed"
          /\ UNCHANGED s2c
    /\ UNCHANGED <<mode, writing, client, local, skey, sUp, sDown, uDl, sDesync, sent, zeroSeen, refused, upstream, c2s, broken>>

(* Reuse epilogue: the deadline is reset and the zero chunk is written. *)
ServerZero ==
    /\ sst = "zero"
    /\ sDl' = FALSE
    /\ \/ /\ s2c' = Queued(s2c, LazyZero(uRead + 1))
          /\ sst' = IF zeroSeen THEN "request" ELSE "drain"
       \/ /\ ServerWriteFails
          /\ sst' = "closed"
          /\ UNCHANGED s2c
    /\ UNCHANGED <<mode, writing, client, local, skey, sUp, sDown, uDl, sDesync, sent, zeroSeen, refused, upstream, c2s, broken>>

(* Reuse epilogue: what the client still sends is dropped up to its zero    *)
(* chunk.                                                                   *)
ServerDrain ==
    /\ sst = "drain"
    /\ ~sDesync /\ c2s # <<>>
    /\ IF Head(c2s).t = "zero"
       THEN zeroSeen' = TRUE /\ sst' = "request"
       ELSE UNCHANGED <<zeroSeen, sst>>
    /\ c2s' = Tail(c2s)
    /\ UNCHANGED <<mode, writing, client, local, skey, sUp, sDown, sDl, uDl, sDesync, sent, refused, upstream, s2c, broken>>

(* The drain takes TCP's EOF for the zero chunk; it gives up on any other   *)
(* error, and on a stream that no longer decrypts.  For that it needs the   *)
(* bytes of a whole header: what is left of a cut frame may be fewer, and   *)
(* io.ReadFull holds them till another frame comes (DrainStarves).          *)
ServerDrainFail ==
    /\ sst = "drain"
    /\ \/ cClosed /\ c2s = <<>> /\ sst' = "request"
       \/ ServerReadFails /\ sst' = "closed"
       \/ sDesync /\ c2s # <<>> /\ sst' = "closed"
    /\ UNCHANGED <<mode, writing, client, local, skey, sUp, sDown, sDl, uDl, sDesync, sent, zeroSeen, refused, upstream, c2s, s2c, broken>>

UpstreamSend ==
    /\ sst = "relay" /\ ~uEOF /\ uSent < MaxDown
    /\ uSent' = uSent + 1
    /\ UNCHANGED <<mode, writing, client, local, server, uEOF, uErr, uRead, uGot, c2s, s2c, broken>>

UpstreamClose ==
    /\ sst = "relay" /\ ~uEOF
    /\ uEOF' = TRUE
    /\ UNCHANGED <<mode, writing, client, local, server, uErr, uSent, uRead, uGot, c2s, s2c, broken>>

(* The TCP connection is reset: both ends see errors from now on. *)
NetBreak ==
    /\ ~broken /\ ~cClosed /\ ~sClosed
    /\ broken' = TRUE
    /\ UNCHANGED <<mode, writing, client, local, server, upstream, c2s, s2c>>

-----------------------------------------------------------------------------
ClientMain == ClientWriteHeader \/ ClientJoin \/ ClientClose \/ ClientDrainRead \/ ClientDrainFail
ClientUp   == ClientUpCopy \/ ClientUpReturn \/ ClientUpStop
ClientDown == ClientDownCopy \/ ClientDownReturn \/ ClientDownStop
ServerMain == ServerRequest \/ ServerRequestFail \/ ServerDialOk \/ ServerDialFail
              \/ ServerJoin \/ ServerFinish \/ ServerZero \/ ServerDrain \/ ServerDrainFail
ServerUp   == ServerUpCopy \/ ServerUpReturn \/ ServerUpStop
ServerDown == ServerDownCopy \/ ServerDownReturn \/ ServerDownStop
Environment == LocalClose \/ UpstreamSend \/ UpstreamClose \/ NetBreak
               \/ ClientTake \/ ClientExpire

Next == ClientMain \/ ClientUp \/ ClientDown
        \/ ServerMain \/ ServerUp \/ ServerDown \/ Environment

Spec == Init /\ [][Next]_vars

(* Where a main goroutine writes.                                           *)
ClientWrites == cst = "header" \/ (cst = "close" /\ wrapped)
ServerWrites == sst \in {"dial", "zero"} \/ (sst = "finish" /\ ~sent)

(* Every goroutine that can run runs, a read that can return returns, and a *)
(* write does when the way to the peer is free.  The application and the    *)
(* destination may never send and never close, but take what they are sent, *)
(* or are gone: nothing in the code stops a write to one that does neither. *)
(* The pool may keep an idle connection.                                    *)
Fairness ==
    /\ WF_vars((ClientWrites => ClientFree) /\ ClientMain)
    /\ WF_vars(ClientUpStop \/ (ClientFree /\ ClientUpReturn))
    /\ WF_vars(ClientDown)
    /\ WF_vars((ServerWrites => ServerFree) /\ (DrainStarves => ServerReadFails) /\ ServerMain)
    /\ WF_vars(ServerUp)
    /\ WF_vars(ServerDownCopy \/ ServerDownStop \/ (ServerFree /\ ServerDownReturn))

FairSpec == Spec /\ Fairness

-----------------------------------------------------------------------------
(* What the application receives in a session is a prefix of what the       *)
(* destination sent in that same session: no reply of an earlier session on *)
(* the reused connection reaches it (Snell.Read after PoolConn.Close's      *)
(* drain and Pool.put's use cap).                                           *)
AppSeesOwnSession == \A j \in 1..Len(lGot) : lGot[j] = <<sess, j>>

(* The other direction: the destination of a session receives a prefix of   *)
(* what the application sent in it, never bytes a previous session left on  *)
(* the connection (handleTCP's drain), nor a request header.                *)
DestSeesOwnSession == \A j \in 1..Len(uGot) : uGot[j] = <<skey, j>>

(* A pooled connection is in sync, expects a status byte, and carries at    *)
(* most one leftover frame, a zero chunk of the session that just ended     *)
(* (PoolConn.Close, drainPendingForReuse).  The server did not refuse that  *)
(* session, so the unread half of it is never taken for the next request.   *)
PooledClean ==
    cst = "idle" =>
        /\ ~(refused /\ skey = sess)
        /\ ~cDesync /\ ~reply /\ ~cDl
        /\ Len(s2c) <= 1
        /\ \A n \in 1..Len(s2c) : s2c[n] = Frame("zero", sess, 1)

(* After a session that was not refused the server reads its next request   *)
(* from a clean frame boundary: the stream decrypts and the next frame is   *)
(* the header of the session after the one it served (handleTCP's reuse     *)
(* epilogue).                                                               *)
RequestBoundaryUnlessRefused ==
    sst = "request" /\ ~refused /\ c2s # <<>> =>
        /\ ~sDesync
        /\ Head(c2s) = Frame("header", skey + 1, 0)

(* If the application sees the end of the stream while it has not closed,   *)
(* and the destination accepted all that was written to it, then it has     *)
(* received everything the destination sent: no deadline of either Relay    *)
(* cut the response short.                                                  *)
ReadsOwnZero ==
    /\ cst = "relay" /\ cDown = "run" /\ cDown' = "done"
    /\ s2c # <<>> /\ s2c' = Tail(s2c)
    /\ Head(s2c).t = "zero" /\ Head(s2c).k = sess
ResponseComplete == [][ReadsOwnZero /\ ~lEOF /\ ~uErr => Len(lGot) = uSent]_vars

(* What the goroutines of the two ends need for their next step. *)
ClientMoves ==
    \/ cst = "drain"
    \/ cst \in {"header", "close"} /\ (ClientWrites => ClientFree)
    \/ /\ cst = "relay"
       /\ \/ cUp = "done" /\ cDown = "done"
          \/ cUp = "run" /\ "cUp" \in writing /\ ClientFree
          \/ cUp = "run" /\ "cUp" \notin writing /\ (lEOF \/ lDl)
          \/ cDown = "run" /\ "cDown" \in writing /\ lEOF
          \/ cDown = "run" /\ "cDown" \notin writing /\ (cDl \/ ClientReadFails \/ (~cDesync /\ s2c # <<>>))
ServerMoves ==
    \/ sst \in {"dial", "finish", "zero"} /\ (ServerWrites => ServerFree)
    \/ sst \in {"request", "drain"} /\ (ServerReadFails \/ (~sDesync /\ c2s # <<>>))
    \/ sst = "drain" /\ sDesync /\ Len(c2s) > 1
    \/ /\ sst = "relay"
       /\ \/ sUp = "done" /\ sDown = "done"
          \/ sUp = "run" /\ "sUp" \in writing /\ uEOF
          \/ sUp = "run" /\ "sUp" \notin writing /\ (sDl \/ ServerReadFails \/ (~sDesync /\ c2s # <<>>))
          \/ sDown = "run" /\ "sDown" \in writing /\ ServerFree
          \/ sDown = "run" /\ "sDown" \notin writing /\ (uDl \/ uEOF \/ uRead < uSent)

(* A session both of whose outer ends are open and silent, and a connection *)
(* in the pool whose server waits for the next request, for the rest of a   *)
(* frame it has lost part of, or has gone.                                  *)
QuietTunnel ==
    /\ cst = "relay" /\ sst = "relay" /\ sess = skey
    /\ {cUp, cDown, sUp, sDown} = {"run"} /\ writing = {}
    /\ c2s = <<>> /\ s2c = <<>> /\ ~lEOF /\ ~uEOF
Parked ==
    /\ cst = "idle"
    /\ \/ sst = "closed"
       \/ sst = "request" /\ c2s = <<>>
       \/ DrainStarves

(* A pump waits for the application, or for the destination, to read. *)
AppOwesRead  == "cDown" \in writing /\ ~lEOF
DestOwesRead == "sUp" \in writing /\ ~uEOF

(* Each end sits in a write to the other, and neither reads: both have lost *)
(* the pump that did, and no deadline reaches the writes, although          *)
(* relay.go:16-18 says of Relay that the first side to finish forces the    *)
(* other to stop.                                                           *)
ClientBackedUp ==
    ~ClientFree /\ (ClientWrites \/ (cst = "relay" /\ "cUp" \in writing /\ cDown = "done"))
ServerBackedUp ==
    ~ServerFree /\ (ServerWrites \/ (sst = "relay" /\ "sDown" \in writing /\ sUp = "done"))
BackedUp == ClientBackedUp /\ ServerBackedUp

(* Client and server wait on each other in one way only, each in a write to *)
(* an end that no longer reads.  Otherwise, through two Relays, two         *)
(* half-closes, a fallback response, a refusal or a drain without deadline, *)
(* one of the two has a step of its own free, unless both have ended or     *)
(* only the application, the destination or the pool can act.               *)
SessionNotStuck ==
    \/ ClientMoves \/ ServerMoves
    \/ QuietTunnel \/ Parked \/ (cClosed /\ sClosed)
    \/ AppOwesRead \/ DestOwesRead \/ BackedUp

(* Once the destination of a running session has closed, the client's       *)
(* session ends, whether or not the application ever sends or closes, as    *)
(* long as it takes what it is sent, and unless the two ends stay backed up.*)
DestinationEndsSession ==
    <>[]BackedUp \/ ((sst = "relay" /\ uEOF /\ skey = sess) ~> (cst \in {"idle", "closed"}))

(* Once the application has closed, the session ends on the client, as long *)
(* as the destination takes what it is sent, and unless the two ends stay   *)
(* backed up.                                                               *)
AppEndsSession ==
    <>[]BackedUp \/ ((cst = "relay" /\ lEOF) ~> (cst \in {"idle", "closed"}))

(* Once the client has closed the connection, the server's goroutine ends   *)
(* and its upstream connection is released, as long as the destination      *)
(* takes what it is sent.                                                   *)
ServerReleased == (cst = "closed") ~> (sst = "closed")

(* What is left to do on a connection: sessions, the client's way through   *)
(* the current one, its pumps' work and the events that may befall it, what *)
(* is in flight to the server, the server's way, its pumps' work, what is   *)
(* in flight to the client, and the writes still to return.  Each counts    *)
(* for more than all that follow.                                           *)
Count(b) == IF b THEN 1 ELSE 0
ClientPlace ==
    CASE cst = "header" -> 5 [] cst = "relay" -> 4 [] cst = "close" -> 3
      [] cst = "drain" -> 2 [] cst = "idle" -> 1 [] cst = "closed" -> 0
ClientWork ==
    (MaxUp - lSent) + Count(~lEOF) + Count(~broken) + Count(cUp = "run") + Count(cDown = "run")
ServerPlace ==
    CASE sst = "dial" -> 6 [] sst = "relay" -> 5 [] sst = "finish" -> 4 [] sst = "zero" -> 3
      [] sst = "drain" -> 2 [] sst = "request" -> 1 [] sst = "closed" -> 0
ServerWork ==
    (MaxDown - uSent) + (MaxDown - uRead) + Count(~uEOF) + Count(sUp = "run") + Count(sDown = "run")
WritesLeft ==
    Count("cUp" \in writing) + Count("cDown" \in writing) + Count("sUp" \in writing) + Count("sDown" \in writing)
Left == <<MaxUses - sess, ClientPlace, ClientWork, Len(c2s), ServerPlace, ServerWork, Len(s2c), WritesLeft>>
Parts == 1..8

(* For any finite traffic the connection comes to rest: every step, of any  *)
(* goroutine or of the environment, leaves less to do than before, so no    *)
(* two loops (handleConn's, Relay's, the drains, the pool's reuse) keep     *)
(* each other going.  With SessionNotStuck it comes to rest only where      *)
(* nobody but the application, the destination or the pool can act, or      *)
(* where the two ends are backed up.                                        *)
StepsRunOut ==
    [][/\ Left' \in [Parts -> Nat]
       /\ \E n \in Parts : Left'[n] < Left[n] /\ \A m \in 1..n - 1 : Left'[m] <= Left[m]]_vars

(* The connection implements the abstract tunnel: sessions in order, each   *)
(* begun once by the server, at most MaxUses of them, payload delivered in  *)
(* order and only inside its session.                                       *)
Tunnel == INSTANCE SnellTunnel WITH open <- cst = "relay"
ImplementsTunnel == Tunnel!Spec

-----------------------------------------------------------------------------
(* README.md:303-306: the pool "drains the server's half-close zero chunk   *)
(* before putting a connection back so the next reuse starts on a clean     *)
(* frame boundary": the first frame a session reads is one of its own.  It  *)
(* is not when the application closes before the destination has sent a     *)
(* byte: Relay's deadline ends the server's read of it with nothing written,*)
(* the fallback's zero chunk ends the drain, and the epilogue's is left.    *)
ReuseOnCleanBoundary == cst = "relay" /\ s2c # <<>> => Head(s2c).k = sess
=============================================================================
