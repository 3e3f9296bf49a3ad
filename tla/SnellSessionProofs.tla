------------------------- MODULE SnellSessionProofs -------------------------
(***************************************************************************)
(* Proofs about SnellSession, for every amount of payload.  The types      *)
(* hold for every use cap.  What the sessions of one connection promise    *)
(* each other holds for the cap of the code, two: with three, the second   *)
(* zero chunk behind a fallback response can end a later session's drain   *)
(* before that session's own frames are read.                              *)
(***************************************************************************)
EXTENDS SnellSession, SequenceTheorems, TLAPS

C2SFrame == [t : C2SType, k : Nat, i : Nat]
S2CFrame == [t : S2CType, k : Nat, i : Nat]

Payload == Nat \X Nat

(* Besides which pumps write, the type invariant has four parts: the       *)
(* queues, what was delivered, the places and counters of the goroutines,  *)
(* and the flags.                                                          *)
FlightType == c2s \in Seq(C2SFrame) /\ s2c \in Seq(S2CFrame)
GotType == lGot \in Seq(Payload) /\ uGot \in Seq(Payload)
PlaceType ==
    /\ cst \in {"header", "relay", "close", "drain", "idle", "closed"}
    /\ sess \in Nat
    /\ cUp \in {"run", "done"} /\ cDown \in {"run", "done"}
    /\ lSent \in 0..MaxUp
    /\ sst \in {"request", "dial", "relay", "finish", "zero", "drain", "closed"}
    /\ skey \in Nat
    /\ sUp \in {"run", "done"} /\ sDown \in {"run", "done"}
    /\ uSent \in 0..MaxDown /\ uRead \in 0..MaxDown
FlagType ==
    /\ reuse \in BOOLEAN /\ wrapped \in BOOLEAN /\ reply \in BOOLEAN
    /\ cDl \in BOOLEAN /\ lDl \in BOOLEAN /\ cDesync \in BOOLEAN /\ lEOF \in BOOLEAN
    /\ sDl \in BOOLEAN /\ uDl \in BOOLEAN /\ sDesync \in BOOLEAN
    /\ sent \in BOOLEAN /\ zeroSeen \in BOOLEAN /\ refused \in BOOLEAN
    /\ uEOF \in BOOLEAN /\ uErr \in BOOLEAN /\ broken \in BOOLEAN

LEMMA TypeParts ==
    TypeOK <=> writing \subseteq Pumps /\ PlaceType /\ FlagType /\ FlightType /\ GotType
  BY DEF TypeOK, PlaceType, FlagType, FlightType, GotType, C2SFrame, S2CFrame, Payload

LEMMA SameParts ==
    /\ UNCHANGED mode => UNCHANGED <<reuse, wrapped>>
    /\ UNCHANGED client => UNCHANGED <<cst, sess, reply, cUp, cDown, cDl, lDl, cDesync>>
    /\ UNCHANGED local => UNCHANGED <<lEOF, lSent, lGot>>
    /\ UNCHANGED server =>
         UNCHANGED <<sst, skey, sUp, sDown, sDl, uDl, sDesync, sent, zeroSeen, refused>>
    /\ UNCHANGED upstream => UNCHANGED <<uEOF, uErr, uSent, uRead, uGot>>
  BY DEF mode, client, local, server, upstream

-----------------------------------------------------------------------------
(* What is put in flight, and what is taken from it. *)
LEMMA QueuedType ==
    ASSUME NEW S, NEW ch \in Seq(S), NEW fs \in Seq(S)
    PROVE  Queued(ch, fs) \in Seq(S)
  BY ConcatProperties DEF Queued

LEMMA QueuedC2S ==
    ASSUME FlightType, NEW t \in C2SType, NEW k \in Nat, NEW i \in Nat
    PROVE  Queued(c2s, <<Frame(t, k, i)>>) \in Seq(C2SFrame)
<1>1. Frame(t, k, i) \in C2SFrame
  BY DEF Frame, C2SFrame
<1>2. <<Frame(t, k, i)>> \in Seq(C2SFrame)
  BY <1>1
<1> QED
  BY <1>2, QueuedType DEF FlightType

LEMMA S2CFrameType ==
    ASSUME NEW t \in S2CType, NEW k \in Nat, NEW i \in Nat
    PROVE  <<Frame(t, k, i)>> \in Seq(S2CFrame)
<1>1. Frame(t, k, i) \in S2CFrame
  BY DEF Frame, S2CFrame
<1> QED
  BY <1>1

LEMMA LazyDataType ==
    ASSUME skey \in Nat, NEW i \in Nat
    PROVE  LazyData(i) \in Seq(S2CFrame)
  BY S2CFrameType DEF LazyData, S2CType

LEMMA LazyZeroType ==
    ASSUME skey \in Nat, NEW i \in Nat
    PROVE  LazyZero(i) \in Seq(S2CFrame)
<1>1. <<Frame("zero", skey, i)>> \in Seq(S2CFrame)
  BY S2CFrameType DEF S2CType
<1>2. Frame("tunnel", skey, 0) \in S2CFrame /\ Frame("zero", skey, i) \in S2CFrame
  BY DEF Frame, S2CFrame, S2CType
<1>3. <<Frame("tunnel", skey, 0), Frame("zero", skey, i)>> \in Seq(S2CFrame)
  BY <1>2
<1> QED
  BY <1>1, <1>3 DEF LazyZero

LEMMA HeadC2S ==
    ASSUME FlightType, c2s # <<>>
    PROVE  /\ Head(c2s).t \in C2SType /\ Head(c2s).k \in Nat /\ Head(c2s).i \in Nat
           /\ Tail(c2s) \in Seq(C2SFrame)
<1>1. Head(c2s) \in C2SFrame /\ Tail(c2s) \in Seq(C2SFrame)
  BY HeadTailProperties DEF FlightType
<1> QED
  BY <1>1 DEF C2SFrame

LEMMA HeadS2C ==
    ASSUME FlightType, s2c # <<>>
    PROVE  /\ Head(s2c).t \in S2CType /\ Head(s2c).k \in Nat /\ Head(s2c).i \in Nat
           /\ Tail(s2c) \in Seq(S2CFrame)
<1>1. Head(s2c) \in S2CFrame /\ Tail(s2c) \in Seq(S2CFrame)
  BY HeadTailProperties DEF FlightType
<1> QED
  BY <1>1 DEF S2CFrame

LEMMA ItemType ==
    ASSUME NEW f, f.k \in Nat, f.i \in Nat
    PROVE  Item(f) \in Payload
  BY DEF Item, Payload

-----------------------------------------------------------------------------
LEMMA TypeInit == Init => TypeOK
<1> SUFFICES ASSUME Init PROVE PlaceType /\ FlagType /\ FlightType /\ GotType
  BY TypeParts DEF Init
<1>1. PlaceType
  BY BoundsAssumption DEF Init, PlaceType
<1>2. FlagType
  BY DEF Init, FlagType
<1>3. FlightType /\ GotType
  BY EmptySeq DEF Init, FlightType, GotType
<1> QED
  BY <1>1, <1>2, <1>3

(* The ways a pump ends: with the copy that fails, with a read that has no  *)
(* more to give, and with a write that fails after it had begun.  What no   *)
(* session depends on is which writes have returned: the rest changes with  *)
(* none that returns well.                                                  *)
rest == <<mode, client, local, server, upstream, c2s, s2c, broken>>

ClientUpHalts ==
    /\ cst = "relay" /\ cUp = "run"
    /\ ClientUpEnds
    /\ UNCHANGED <<mode, cst, sess, reply, cDown, lDl, cDesync, local, server, upstream, c2s, s2c, broken>>

ClientDownHalts ==
    /\ cst = "relay" /\ cDown = "run"
    /\ cDesync' \in (IF s2c = <<>> THEN {cDesync} ELSE {cDesync, TRUE})
    /\ ClientDownEnds
    /\ UNCHANGED <<mode, cst, sess, reply, cUp, cDl, local, server, upstream, c2s, s2c, broken>>

ServerUpRefused ==
    /\ sst = "relay" /\ sUp = "run"
    /\ uEOF /\ uErr' = TRUE /\ ServerUpEnds
    /\ UNCHANGED <<mode, client, local, sst, skey, sDown, sDl, sDesync, sent, zeroSeen, refused, uEOF, uSent, uRead, uGot, c2s, s2c, broken>>

ServerDownHalts ==
    /\ sst = "relay" /\ sDown = "run"
    /\ uDl \/ (uEOF /\ uRead = uSent) \/ ServerWriteFails
    /\ ServerDownEnds
    /\ UNCHANGED <<mode, client, local, sst, skey, sUp, uDl, sDesync, sent, zeroSeen, refused, upstream, c2s, s2c, broken>>

Action ==
    \/ ClientUpHalts \/ ClientDownHalts \/ ClientJoin \/ ClientDrainFail
    \/ ClientExpire \/ LocalClose \/ ServerRequestFail \/ ServerDialOk
    \/ ServerUpStop \/ ServerDownHalts \/ ServerJoin \/ ServerDrainFail
    \/ UpstreamSend \/ UpstreamClose \/ NetBreak \/ ClientWriteHeader
    \/ ClientUpCopy \/ ClientDownCopy \/ ClientClose \/ ClientDrainRead
    \/ ClientTake \/ ServerRequest \/ ServerDialFail \/ ServerUpCopy
    \/ ServerDownCopy \/ ServerFinish \/ ServerZero \/ ServerDrain
    \/ ServerUpRefused

(* A write that returns well. *)
Returns == \E p \in writing : writing' = writing \ {p} /\ UNCHANGED rest

LEMMA NextCases == Next => Action \/ Returns
<1> SUFFICES ASSUME Next PROVE Action \/ Returns
  OBVIOUS
<1>1. CASE ClientUpStop
  BY <1>1 DEF ClientUpStop, ClientUpHalts, Action
<1>2. CASE ClientUpReturn
  <2>1. CASE UNCHANGED <<cUp, cDl>>
    BY <1>2, <2>1, SameParts DEF ClientUpReturn, Returns, rest, client
  <2>2. CASE ClientUpEnds
    BY <1>2, <2>2 DEF ClientUpReturn, ClientUpHalts, Action
  <2> QED
    BY <1>2, <2>1, <2>2 DEF ClientUpReturn
<1>3. CASE ClientDownStop
  BY <1>3 DEF ClientDownStop, ClientDownHalts, Action
<1>4. CASE ClientDownReturn
  <2>1. CASE UNCHANGED <<cDown, lDl>>
    BY <1>4, <2>1, SameParts DEF ClientDownReturn, Returns, rest, client
  <2>2. CASE ClientDownEnds
    BY <1>4, <2>2 DEF ClientDownReturn, ClientDownHalts, Action
  <2> QED
    BY <1>4, <2>1, <2>2 DEF ClientDownReturn
<1>5. CASE ServerUpReturn
  <2>1. CASE UNCHANGED <<uErr, sUp, uDl>>
    BY <1>5, <2>1, SameParts DEF ServerUpReturn, Returns, rest, server, upstream
  <2>2. CASE uEOF /\ uErr' = TRUE /\ ServerUpEnds
    BY <1>5, <2>2 DEF ServerUpReturn, ServerUpRefused, Action
  <2> QED
    BY <1>5, <2>1, <2>2 DEF ServerUpReturn
<1>6. CASE ServerDownStop
  BY <1>6 DEF ServerDownStop, ServerDownHalts, Action
<1>7. CASE ServerDownReturn
  <2>1. CASE UNCHANGED <<sDown, sDl>>
    BY <1>7, <2>1, SameParts DEF ServerDownReturn, Returns, rest, server
  <2>2. CASE ServerWriteFails /\ ServerDownEnds
    BY <1>7, <2>2 DEF ServerDownReturn, ServerDownHalts, Action
  <2> QED
    BY <1>7, <2>1, <2>2 DEF ServerDownReturn
<1> QED
  BY <1>1, <1>2, <1>3, <1>4, <1>5, <1>6, <1>7
  DEF Next, Action, ClientMain, ClientUp, ClientDown, ServerMain, ServerUp, ServerDown, Environment

(* A pump writes while it copies, and ends with its write returned.         *)
LEMMA WritingStep == writing \subseteq Pumps /\ Next => writing' \subseteq Pumps
<1> SUFFICES ASSUME writing \subseteq Pumps, Next PROVE writing' \subseteq Pumps
  OBVIOUS
<1> USE DEF Pumps
<1>1. CASE ClientUpCopy \/ ClientDownCopy \/ ServerUpCopy \/ ServerDownCopy
  BY <1>1 DEF ClientUpCopy, ClientDownCopy, ServerUpCopy, ServerDownCopy
<1>2. CASE ClientUpReturn \/ ClientDownReturn \/ ServerUpReturn \/ ServerDownReturn
  BY <1>2 DEF ClientUpReturn, ClientDownReturn, ServerUpReturn, ServerDownReturn
<1>3. CASE ClientUpStop \/ ClientDownStop \/ ServerUpStop \/ ServerDownStop
  BY <1>3 DEF ClientUpStop, ClientDownStop, ServerUpStop, ServerDownStop
<1>4. CASE ClientMain
  BY <1>4 DEF ClientMain, ClientWriteHeader, ClientJoin, ClientClose, ClientDrainRead, ClientDrainFail
<1>5. CASE ServerMain
  BY <1>5 DEF ServerMain, ServerRequest, ServerRequestFail, ServerDialOk, ServerDialFail,
      ServerJoin, ServerFinish, ServerZero, ServerDrain, ServerDrainFail
<1>6. CASE Environment
  BY <1>6 DEF Environment, LocalClose, UpstreamSend, UpstreamClose, NetBreak, ClientTake, ClientExpire
<1> QED
  BY <1>1, <1>2, <1>3, <1>4, <1>5, <1>6 DEF Next, ClientUp, ClientDown, ServerUp, ServerDown

LEMMA PlaceStep == PlaceType /\ FlightType /\ Action => PlaceType'
<1> SUFFICES ASSUME PlaceType, FlightType, Action PROVE PlaceType'
  OBVIOUS
<1> USE SameParts, BoundsAssumption DEF PlaceType
<1>1. CASE ClientUpHalts
  BY <1>1 DEF ClientUpHalts, ClientUpEnds
<1>2. CASE ClientDownHalts
  BY <1>2 DEF ClientDownHalts, ClientDownEnds
<1>3. CASE ClientJoin
  BY <1>3 DEF ClientJoin
<1>4. CASE ClientDrainFail
  BY <1>4 DEF ClientDrainFail
<1>5. CASE ClientExpire
  BY <1>5 DEF ClientExpire
<1>6. CASE LocalClose
  BY <1>6 DEF LocalClose
<1>7. CASE ServerRequestFail
  BY <1>7 DEF ServerRequestFail
<1>8. CASE ServerDialOk
  BY <1>8 DEF ServerDialOk
<1>9. CASE ServerUpStop
  BY <1>9 DEF ServerUpStop, ServerUpEnds
<1>10. CASE ServerDownHalts
  BY <1>10 DEF ServerDownHalts, ServerDownEnds
<1>11. CASE ServerJoin
  BY <1>11 DEF ServerJoin
<1>12. CASE ServerDrainFail
  BY <1>12 DEF ServerDrainFail
<1>13. CASE UpstreamSend
  BY <1>13 DEF UpstreamSend
<1>14. CASE UpstreamClose
  BY <1>14 DEF UpstreamClose
<1>15. CASE NetBreak
  BY <1>15 DEF NetBreak
<1>16. CASE ClientWriteHeader
  BY <1>16 DEF ClientWriteHeader
<1>17. CASE ClientUpCopy
  BY <1>17 DEF ClientUpCopy, ClientUpEnds
<1>18. CASE ClientDownCopy
  BY <1>18 DEF ClientDownCopy, ClientDownEnds
<1>19. CASE ClientClose
  BY <1>19 DEF ClientClose
<1>20. CASE ClientDrainRead
  <2>1. PutStates(sess) \subseteq {"idle", "closed"}
    BY DEF PutStates
  <2>2. cst' \in {"drain", "idle", "closed"}
    BY <1>20, <2>1 DEF ClientDrainRead
  <2>3. UNCHANGED <<sess, cUp, cDown, lSent, sst, skey, sUp, sDown, uSent, uRead>>
    BY <1>20 DEF ClientDrainRead
  <2> QED
    BY <2>2, <2>3
<1>21. CASE ClientTake
  BY <1>21 DEF ClientTake
<1>22. CASE ServerRequest
  BY SMTT(30), <1>22, HeadC2S DEF ServerRequest
<1>23. CASE ServerDialFail
  BY <1>23 DEF ServerDialFail
<1>24. CASE ServerUpCopy
  BY <1>24 DEF ServerUpCopy, ServerUpEnds
<1>25. CASE ServerDownCopy
  BY <1>25 DEF ServerDownCopy, ServerDownEnds
<1>26. CASE ServerFinish
  BY <1>26 DEF ServerFinish
<1>27. CASE ServerZero
  BY <1>27 DEF ServerZero
<1>28. CASE ServerDrain
  BY <1>28 DEF ServerDrain
<1>29. CASE ServerUpRefused
  BY <1>29 DEF ServerUpRefused, ServerUpEnds
<1> QED
  BY <1>1, <1>2, <1>3, <1>4, <1>5, <1>6, <1>7, <1>8, <1>9, <1>10, <1>11, <1>12,
     <1>13, <1>14, <1>15, <1>16, <1>17, <1>18, <1>19, <1>20, <1>21, <1>22, <1>23,
     <1>24, <1>25, <1>26, <1>27, <1>28, <1>29 DEF Action

LEMMA FlagStep == FlagType /\ Action => FlagType'
<1> SUFFICES ASSUME FlagType, Action PROVE FlagType'
  OBVIOUS
<1> USE SameParts DEF FlagType
<1>1. CASE ClientUpHalts
  BY <1>1 DEF ClientUpHalts, ClientUpEnds
<1>2. CASE ClientDownHalts
  <2>1. UNCHANGED <<reuse, wrapped, reply, cDl, lEOF, sDl, uDl, sDesync, sent, zeroSeen, refused, uEOF, uErr, broken>>
    BY <1>2 DEF ClientDownHalts, ClientDownEnds
  <2>2. lDl' \in BOOLEAN
    BY <1>2 DEF ClientDownHalts, ClientDownEnds
  <2>3. cDesync' \in BOOLEAN
    BY <1>2 DEF ClientDownHalts, ClientDownEnds
  <2> QED
    BY <2>1, <2>2, <2>3
<1>3. CASE ClientJoin
  BY <1>3 DEF ClientJoin
<1>4. CASE ClientDrainFail
  BY <1>4 DEF ClientDrainFail
<1>5. CASE ClientExpire
  BY <1>5 DEF ClientExpire
<1>6. CASE LocalClose
  BY <1>6 DEF LocalClose
<1>7. CASE ServerRequestFail
  BY <1>7 DEF ServerRequestFail
<1>8. CASE ServerDialOk
  <2>1. UNCHANGED <<reuse, wrapped, reply, cDl, lDl, cDesync, lEOF, sDl, sDesync, refused, uEOF, uErr, broken>>
    BY <1>8 DEF ServerDialOk
  <2>2. sent' \in BOOLEAN
    BY <1>8 DEF ServerDialOk
  <2>3. zeroSeen' \in BOOLEAN
    BY <1>8 DEF ServerDialOk
  <2>4. uDl' \in BOOLEAN
    BY <1>8 DEF ServerDialOk
  <2> QED
    BY <2>1, <2>2, <2>3, <2>4
<1>9. CASE ServerUpStop
  <2>1. UNCHANGED <<reuse, wrapped, reply, cDl, lDl, cDesync, lEOF, sDl, sent, zeroSeen, refused, uEOF, uErr, broken>>
    BY <1>9 DEF ServerUpStop, ServerUpEnds
  <2>2. sDesync' \in BOOLEAN
    BY <1>9 DEF ServerUpStop, ServerUpEnds
  <2>3. uDl' \in BOOLEAN
    BY <1>9 DEF ServerUpStop, ServerUpEnds
  <2> QED
    BY <2>1, <2>2, <2>3
<1>10. CASE ServerDownHalts
  BY <1>10 DEF ServerDownHalts, ServerDownEnds
<1>11. CASE ServerJoin
  BY <1>11 DEF ServerJoin
<1>12. CASE ServerDrainFail
  BY <1>12 DEF ServerDrainFail
<1>13. CASE UpstreamSend
  BY <1>13 DEF UpstreamSend
<1>14. CASE UpstreamClose
  BY <1>14 DEF UpstreamClose
<1>15. CASE NetBreak
  BY <1>15 DEF NetBreak
<1>16. CASE ClientWriteHeader
  BY <1>16 DEF ClientWriteHeader
<1>17. CASE ClientUpCopy
  <2>1. UNCHANGED <<reuse, wrapped, reply, lDl, cDesync, lEOF, sDl, uDl, sDesync, sent, zeroSeen, refused, uEOF, uErr, broken>>
    BY <1>17 DEF ClientUpCopy, ClientUpEnds
  <2>2. cDl' \in BOOLEAN
    BY <1>17 DEF ClientUpCopy, ClientUpEnds
  <2> QED
    BY <2>1, <2>2
<1>18. CASE ClientDownCopy
  <2>1. UNCHANGED <<reuse, wrapped, cDl, cDesync, lEOF, sDl, uDl, sDesync, sent, zeroSeen, refused, uEOF, uErr, broken>>
    BY <1>18 DEF ClientDownCopy, ClientDownEnds
  <2>2. reply' \in BOOLEAN
    BY <1>18 DEF ClientDownCopy, ClientDownEnds, ReplyAfter
  <2>3. lDl' \in BOOLEAN
    BY <1>18 DEF ClientDownCopy, ClientDownEnds
  <2> QED
    BY <2>1, <2>2, <2>3
<1>19. CASE ClientClose
  <2>1. UNCHANGED <<reuse, wrapped, reply, lDl, cDesync, lEOF, sDl, uDl, sDesync, sent, zeroSeen, refused, uEOF, uErr, broken>>
    BY <1>19 DEF ClientClose
  <2>2. cDl' \in BOOLEAN
    BY <1>19 DEF ClientClose
  <2> QED
    BY <2>1, <2>2
<1>20. CASE ClientDrainRead
  <2>1. UNCHANGED <<reuse, wrapped, cDl, lDl, cDesync, lEOF, sDl, uDl, sDesync, sent, zeroSeen, refused, uEOF, uErr, broken>>
    BY <1>20 DEF ClientDrainRead
  <2>2. reply' \in BOOLEAN
    BY <1>20 DEF ClientDrainRead, ReplyAfter
  <2> QED
    BY <2>1, <2>2
<1>21. CASE ClientTake
  <2>1. UNCHANGED <<reuse, wrapped, reply, cDl, cDesync, sDl, uDl, sDesync, sent, zeroSeen, refused, uEOF, uErr, broken>>
    BY <1>21 DEF ClientTake
  <2>2. lDl' \in BOOLEAN
    BY <1>21 DEF ClientTake
  <2>3. lEOF' \in BOOLEAN
    BY <1>21 DEF ClientTake
  <2> QED
    BY <2>1, <2>2, <2>3
<1>22. CASE ServerRequest
  <2>1. UNCHANGED <<reuse, wrapped, reply, cDl, lDl, cDesync, lEOF, sDl, uDl, sDesync, sent, zeroSeen, broken>>
    BY <1>22 DEF ServerRequest
  <2>2. refused' \in BOOLEAN
    BY <1>22 DEF ServerRequest
  <2>3. uEOF' \in BOOLEAN
    BY <1>22 DEF ServerRequest
  <2>4. uErr' \in BOOLEAN
    BY <1>22 DEF ServerRequest
  <2> QED
    BY <2>1, <2>2, <2>3, <2>4
<1>23. CASE ServerDialFail
  BY <1>23 DEF ServerDialFail
<1>24. CASE ServerUpCopy
  <2>1. UNCHANGED <<reuse, wrapped, reply, cDl, lDl, cDesync, lEOF, sDl, sDesync, sent, refused, uEOF, broken>>
    BY <1>24 DEF ServerUpCopy, ServerUpEnds
  <2>2. zeroSeen' \in BOOLEAN
    BY <1>24 DEF ServerUpCopy, ServerUpEnds
  <2>3. uDl' \in BOOLEAN
    BY <1>24 DEF ServerUpCopy, ServerUpEnds
  <2>4. uErr' \in BOOLEAN
    BY <1>24 DEF ServerUpCopy, ServerUpEnds
  <2> QED
    BY <2>1, <2>2, <2>3, <2>4
<1>25. CASE ServerDownCopy
  <2>1. UNCHANGED <<reuse, wrapped, reply, cDl, lDl, cDesync, lEOF, uDl, sDesync, zeroSeen, refused, uEOF, uErr, broken>>
    BY <1>25 DEF ServerDownCopy, ServerDownEnds
  <2>2. sent' \in BOOLEAN
    BY <1>25 DEF ServerDownCopy, ServerDownEnds
  <2>3. sDl' \in BOOLEAN
    BY <1>25 DEF ServerDownCopy, ServerDownEnds
  <2> QED
    BY <2>1, <2>2, <2>3
<1>26. CASE ServerFinish
  BY <1>26 DEF ServerFinish
<1>27. CASE ServerZero
  <2>1. UNCHANGED <<reuse, wrapped, reply, cDl, lDl, cDesync, lEOF, uDl, sDesync, sent, zeroSeen, refused, uEOF, uErr, broken>>
    BY <1>27 DEF ServerZero
  <2>2. sDl' \in BOOLEAN
    BY <1>27 DEF ServerZero
  <2> QED
    BY <2>1, <2>2
<1>28. CASE ServerDrain
  <2>1. UNCHANGED <<reuse, wrapped, reply, cDl, lDl, cDesync, lEOF, sDl, uDl, sDesync, sent, refused, uEOF, uErr, broken>>
    BY <1>28 DEF ServerDrain
  <2>2. zeroSeen' \in BOOLEAN
    BY <1>28 DEF ServerDrain
  <2> QED
    BY <2>1, <2>2
<1>29. CASE ServerUpRefused
  BY <1>29 DEF ServerUpRefused, ServerUpEnds
<1> QED
  BY <1>1, <1>2, <1>3, <1>4, <1>5, <1>6, <1>7, <1>8, <1>9, <1>10, <1>11, <1>12,
     <1>13, <1>14, <1>15, <1>16, <1>17, <1>18, <1>19, <1>20, <1>21, <1>22, <1>23,
     <1>24, <1>25, <1>26, <1>27, <1>28, <1>29 DEF Action

(* Steps that put nothing in flight, take nothing from it and deliver       *)
(* nothing.                                                                 *)
Quiet == ClientUpHalts \/ ClientDownHalts \/ ClientJoin \/ ClientDrainFail \/ ClientExpire
         \/ LocalClose \/ ServerRequestFail \/ ServerDialOk \/ ServerUpStop
         \/ ServerDownHalts \/ ServerJoin \/ ServerDrainFail \/ UpstreamSend
         \/ UpstreamClose \/ NetBreak \/ ServerUpRefused

LEMMA QuietFlight == Quiet => UNCHANGED <<c2s, s2c, lGot, uGot>>
  BY SameParts
  DEF Quiet, ClientUpHalts, ClientDownHalts, ClientJoin, ClientDrainFail, ClientExpire,
      LocalClose, ServerRequestFail, ServerDialOk, ServerUpStop, ServerDownHalts,
      ServerJoin, ServerDrainFail, UpstreamSend, UpstreamClose, NetBreak, ServerUpRefused

LEMMA FlightStep == PlaceType /\ FlightType /\ Action => FlightType'
<1> SUFFICES ASSUME PlaceType, FlightType, Action PROVE FlightType'
  OBVIOUS
<1> USE DEF FlightType
<1>a. sess \in Nat /\ skey \in Nat /\ lSent + 1 \in Nat /\ uRead + 1 \in Nat
  BY BoundsAssumption DEF PlaceType
<1>1. CASE Quiet
  BY <1>1, QuietFlight
<1>2. CASE ClientWriteHeader
  BY <1>2, <1>a, QueuedC2S DEF ClientWriteHeader, C2SType
<1>3. CASE ClientUpCopy
  BY <1>3, <1>a, QueuedC2S DEF ClientUpCopy, C2SType
<1>4. CASE ClientClose
  BY <1>4, <1>a, QueuedC2S DEF ClientClose, C2SType
<1>5. CASE ClientDownCopy
  BY <1>5, HeadS2C DEF ClientDownCopy
<1>6. CASE ClientDrainRead
  BY <1>6, HeadS2C DEF ClientDrainRead
<1>7. CASE ClientTake
  BY <1>7 DEF ClientTake
<1>8. CASE ServerRequest
  BY <1>8, HeadC2S DEF ServerRequest
<1>9. CASE ServerDialFail
  <2>1. <<Frame("error", skey, 0)>> \in Seq(S2CFrame)
    BY <1>a, S2CFrameType DEF S2CType
  <2> QED
    BY <1>9, <2>1, QueuedType DEF ServerDialFail
<1>10. CASE ServerUpCopy
  BY <1>10, HeadC2S DEF ServerUpCopy
<1>11. CASE ServerDownCopy
  <2>1. LazyData(uRead + 1) \in Seq(S2CFrame)
    BY <1>a, LazyDataType
  <2> QED
    BY <1>11, <2>1, QueuedType DEF ServerDownCopy
<1>12. CASE ServerFinish
  BY <1>12, <1>a, LazyZeroType, QueuedType DEF ServerFinish
<1>13. CASE ServerZero
  BY <1>13, <1>a, LazyZeroType, QueuedType DEF ServerZero
<1>14. CASE ServerDrain
  BY <1>14, HeadC2S DEF ServerDrain
<1> QED
  BY <1>1, <1>2, <1>3, <1>4, <1>5, <1>6, <1>7, <1>8, <1>9, <1>10, <1>11, <1>12, <1>13, <1>14
  DEF Action, Quiet

LEMMA GotStep == FlightType /\ GotType /\ Action => GotType'
<1> SUFFICES ASSUME FlightType, GotType, Action PROVE GotType'
  OBVIOUS
<1> USE SameParts, EmptySeq DEF GotType
<1>1. CASE Quiet
  BY <1>1, QuietFlight
<1>2. CASE ClientWriteHeader \/ ClientUpCopy \/ ClientClose \/ ClientDrainRead
  BY <1>2 DEF ClientWriteHeader, ClientUpCopy, ClientClose, ClientDrainRead
<1>3. CASE ClientDownCopy
  <2>1. Item(Head(s2c)) \in Payload /\ UNCHANGED uGot
    BY <1>3, HeadS2C, ItemType DEF ClientDownCopy
  <2>2. lGot' = Append(lGot, Item(Head(s2c))) \/ lGot' = lGot
    BY <1>3 DEF ClientDownCopy
  <2> QED
    BY <2>1, <2>2, AppendProperties
<1>4. CASE ClientTake
  BY <1>4 DEF ClientTake
<1>5. CASE ServerRequest
  <2>1. (uGot' = <<>> \/ uGot' = uGot) /\ UNCHANGED lGot
    BY <1>5 DEF ServerRequest
  <2> QED
    BY <2>1
<1>6. CASE ServerUpCopy
  <2>1. Item(Head(c2s)) \in Payload /\ UNCHANGED lGot
    BY <1>6, HeadC2S, ItemType DEF ServerUpCopy
  <2>2. uGot' = Append(uGot, Item(Head(c2s))) \/ uGot' = uGot
    BY <1>6 DEF ServerUpCopy
  <2> QED
    BY SMTT(30), <2>1, <2>2, AppendProperties
<1>7. CASE ServerDialFail \/ ServerDownCopy \/ ServerFinish \/ ServerZero \/ ServerDrain
  BY <1>7 DEF ServerDialFail, ServerDownCopy, ServerFinish, ServerZero, ServerDrain
<1> QED
  BY <1>1, <1>2, <1>3, <1>4, <1>5, <1>6, <1>7 DEF Action, Quiet

LEMMA RestReturns == Returns \/ UNCHANGED vars => UNCHANGED rest
  BY DEF Returns, vars, rest

LEMMA TypeRest ==
    PlaceType /\ FlagType /\ FlightType /\ GotType /\ UNCHANGED rest
      => PlaceType' /\ FlagType' /\ FlightType' /\ GotType'
  BY SameParts DEF rest, PlaceType, FlagType, FlightType, GotType

LEMMA TypeStep == TypeOK /\ [Next]_vars => TypeOK'
<1> SUFFICES ASSUME writing \subseteq Pumps, PlaceType, FlagType, FlightType, GotType, [Next]_vars
             PROVE  writing' \subseteq Pumps /\ PlaceType' /\ FlagType' /\ FlightType' /\ GotType'
  BY TypeParts DEF TypeOK, PlaceType, FlagType, FlightType, GotType, C2SFrame, S2CFrame, Payload
<1>1. CASE Next
  <2>1. writing' \subseteq Pumps
    BY <1>1, WritingStep
  <2>2. CASE Action
    BY <2>1, <2>2, PlaceStep, FlagStep, FlightStep, GotStep
  <2>3. CASE Returns
    BY <2>1, <2>3, TypeRest DEF Returns
  <2> QED
    BY <1>1, <2>2, <2>3, NextCases
<1>2. CASE UNCHANGED vars
  <2>1. UNCHANGED writing /\ UNCHANGED rest
    BY <1>2 DEF vars, rest
  <2> QED
    BY <2>1, TypeRest
<1> QED
  BY <1>1, <1>2

(* Whatever the interleaving, a frame in flight is of a type its direction  *)
(* knows, the status byte, the deadlines and the pumps are in a defined     *)
(* state, and what was delivered is payload of some session                 *)
(* (handleSocksConnect, PoolConn.Close, handleTCP).                         *)
THEOREM TypeCorrect == Spec => []TypeOK
  BY TypeInit, TypeStep, PTL DEF Spec

-----------------------------------------------------------------------------
(* The frame that may come behind f, client to server *)
Follows(f, g) ==
    IF f.t = "zero" THEN g = Frame("header", f.k + 1, 0)
    ELSE g = Frame("data", f.k, f.i + 1) \/ g = Frame("zero", f.k, 0)

(* What the client may write next *)
Writes ==
    CASE cst = "header" -> {Frame("header", sess, 0)}
      [] cst = "relay" /\ cUp = "run" -> {Frame("data", sess, lSent + 1), Frame("zero", sess, 0)}
      [] cst = "relay" /\ cUp = "done" -> {Frame("zero", sess, 0)}
      [] cst = "close" -> {Frame("zero", sess, 0)}
      [] cst \in {"drain", "idle"} -> {Frame("header", sess + 1, 0)}
      [] cst = "closed" -> {}

(* The server may read f next. *)
AtBoundary == IF sst = "request" THEN ~refused ELSE sst # "dial" /\ zeroSeen
Awaits(f) ==
    IF AtBoundary THEN f = Frame("header", skey + 1, 0)
    ELSE IF sst = "dial" \/ (sst = "relay" /\ sUp = "run")
    THEN f = Frame("data", skey, Len(uGot) + 1) \/ f = Frame("zero", skey, 0)
    ELSE f.t \in {"data", "zero"} /\ f.k = skey

(* f may be put behind what is in flight.                                   *)
Fits(f) == IF c2s = <<>> THEN sst = "closed" \/ Awaits(f) ELSE Follows(c2s[Len(c2s)], f)

Requests ==
    /\ \A n \in 1..Len(c2s) - 1 : Follows(c2s[n], c2s[n + 1])
    /\ sst # "closed" /\ c2s # <<>> => Awaits(Head(c2s))
    /\ ~broken => \A f \in Writes : Fits(f)
    /\ \A n \in 1..Len(c2s) :
         /\ c2s[n].k <= sess
         /\ c2s[n].k = sess => /\ c2s[n].t = "data" => c2s[n].i <= lSent
                               /\ c2s[n].t = "zero" => cst \in {"drain", "idle", "closed"}

ServerInv ==
    /\ uRead <= uSent
    /\ sst \in {"request", "dial", "drain"} => ~sDl
    /\ sst = "dial" => uGot = <<>> /\ uRead = 0 /\ ~uErr /\ ~refused
    /\ sst = "relay" => /\ ~refused
                        /\ sUp = "run" => ~zeroSeen /\ ~sDesync /\ ~uErr /\ ~uDl
                        /\ sDown = "run" => ~sDl
                        /\ sent <=> uRead > 0
    /\ sst \in {"finish", "zero", "drain"} => ~refused
    /\ sst = "finish" => (sent <=> uRead > 0)
    /\ sst = "zero" => sent
    /\ sst = "drain" => ~zeroSeen
    /\ sDesync /\ sst # "closed" => /\ c2s # <<>> /\ ~zeroSeen
                                    /\ sst \in {"relay", "finish", "zero", "drain"}

(* Why the pump from the destination stopped. *)
Complete == (uEOF /\ uRead = uSent) \/ uErr \/ zeroSeen
StopInv ==
    /\ sst = "relay" /\ uDl => uErr \/ zeroSeen \/ sDown = "done" \/ broken \/ cClosed
    /\ (sst = "relay" /\ sDown = "done") \/ sst \in {"finish", "zero"}
         => Complete \/ broken \/ cClosed

SessionInv ==
    /\ skey <= sess /\ sess <= skey + 1
    /\ sess = skey + 1 => sst \in {"zero", "drain", "request", "closed"}
    /\ skey = 0 => sst \in {"request", "closed"}
    /\ sess \in 1..MaxUses
    /\ cst = "idle" => /\ sess < MaxUses /\ skey = sess /\ ~refused
                       /\ sst \in {"zero", "drain", "request", "closed"}
    /\ zeroSeen /\ ~refused /\ sst # "dial" /\ skey = sess => cst \in {"drain", "idle", "closed"}

ClientInv ==
    /\ cst \in {"idle", "header"} => ~cDesync /\ ~reply /\ ~cDl
    /\ cst = "header" => lGot = <<>> /\ lSent = 0
    /\ cst = "drain" => ~cDl
    /\ cst = "relay" /\ cDown = "run" /\ ~reply => lGot = <<>>

(* The frame that may come behind f, server to client *)
Starts(k) == {Frame("tunnel", k, 0), Frame("tunnel", k, 1), Frame("error", k, 0)}
Answers(f, g) ==
    /\ f.t # "error"
    /\ f.t \in {"tunnel", "data"} /\ f.i = 0 => g = Frame("zero", f.k, 0)
    /\ f.t \in {"tunnel", "data"} /\ f.i > 0 =>
          g = Frame("data", f.k, f.i + 1) \/ g = Frame("zero", f.k, f.i + 1)
    /\ f.t = "zero" /\ f.i = 0 => g = Frame("zero", f.k, 1)
    /\ f.t = "zero" /\ f.i > 0 => g \in Starts(f.k + 1)

Replies ==
    CASE sst = "request" /\ refused -> {}
      [] sst \in {"request", "drain"} /\ ~refused -> Starts(skey + 1)
      [] sst = "dial" -> Starts(skey)
      [] sst = "relay" /\ sDown = "run" /\ ~sent -> {Frame("tunnel", skey, 1), Frame("tunnel", skey, 0)}
      [] sst = "relay" /\ sDown = "run" /\ sent ->
            {Frame("data", skey, uRead + 1), Frame("zero", skey, uRead + 1)}
      [] sst \in {"relay", "finish"} /\ (sst = "relay" => sDown = "done") /\ ~sent -> {Frame("tunnel", skey, 0)}
      [] sst \in {"relay", "finish"} /\ (sst = "relay" => sDown = "done") /\ sent -> {Frame("zero", skey, uRead + 1)}
      [] sst = "zero" -> {Frame("zero", skey, uRead + 1)}
      [] OTHER -> {}

(* The client may read f next. *)
Expects(f) ==
    CASE cst = "idle" -> f = Frame("zero", sess, 1) \/ f \in Starts(sess + 1)
      [] cst = "header" \/ (cst = "relay" /\ cDown = "run" /\ ~reply) ->
            f = Frame("zero", sess - 1, 1) \/ f \in Starts(sess)
      [] cst = "relay" /\ cDown = "run" /\ reply /\ lGot = <<>> -> f = Frame("zero", sess, 0)
      [] cst = "relay" /\ cDown = "run" /\ reply /\ lGot # <<>> ->
            f = Frame("data", sess, Len(lGot) + 1) \/ f = Frame("zero", sess, Len(lGot) + 1)
      [] OTHER -> TRUE

(* What is known of a frame of the session the server serves              *)
Known(f) ==
    /\ 0 < f.k /\ f.k <= skey
    /\ f.k = skey =>
         /\ sst # "dial"
         /\ f.t = "error" <=> refused
         /\ f.t \in {"tunnel", "data"} => f.i <= uRead
         /\ f.t = "zero" => /\ sst \in {"zero", "request", "drain", "closed"}
                            /\ f.i = IF f.i = 0 THEN uRead ELSE uRead + 1
                            /\ Complete

Responses ==
    cst # "closed" =>
    /\ \A n \in 1..Len(s2c) - 1 : Answers(s2c[n], s2c[n + 1])
    /\ s2c # <<>> => Expects(Head(s2c))
    /\ ~broken => \A f \in Replies : IF s2c = <<>> THEN Expects(f) ELSE Answers(s2c[Len(s2c)], f)
    /\ \A n \in 1..Len(s2c) : Known(s2c[n])

IInv == /\ PlaceType /\ FlagType /\ FlightType /\ GotType
        /\ AppSeesOwnSession /\ DestSeesOwnSession
        /\ Requests /\ ServerInv /\ StopInv /\ SessionInv /\ ClientInv /\ Responses

LEMMA FrameFields ==
    ASSUME NEW t, NEW k, NEW i
    PROVE  Frame(t, k, i).t = t /\ Frame(t, k, i).k = k /\ Frame(t, k, i).i = i
  BY DEF Frame

-----------------------------------------------------------------------------
(* The client's steps and the destination's leave the server where it is.   *)
LEMMA ServerRests ==
    ASSUME IInv, UNCHANGED server, UNCHANGED <<uErr, uRead, uGot>>,
           c2s # <<>> => c2s' # <<>>, uSent' = uSent \/ uSent' = uSent + 1
    PROVE  ServerInv'
<1>1. uRead \in Nat /\ uSent \in Nat /\ uRead <= uSent
  BY BoundsAssumption DEF IInv, ServerInv, PlaceType
<1>2. uRead' <= uSent'
  BY <1>1
<1> QED
  BY <1>2, SameParts DEF IInv, ServerInv

LEMMA C2SGrows ==
    ASSUME FlightType, NEW t \in C2SType, NEW k \in Nat, NEW i \in Nat, c2s # <<>>
    PROVE  Queued(c2s, <<Frame(t, k, i)>>) # <<>>
<1>1. Frame(t, k, i) \in C2SFrame
  BY DEF Frame, C2SFrame
<1> QED
  BY <1>1 DEF Queued, FlightType

LEMMA ServerStep == IInv /\ Action => ServerInv'
<1> SUFFICES ASSUME IInv, Action PROVE ServerInv'
  OBVIOUS
<1> USE SameParts
<1>a. /\ FlightType /\ sess \in Nat /\ lSent + 1 \in Nat /\ 0 \in Nat
      /\ "header" \in C2SType /\ "data" \in C2SType /\ "zero" \in C2SType
  BY BoundsAssumption DEF IInv, PlaceType, C2SType
<1>1. CASE ClientWriteHeader
  <2>1. UNCHANGED server /\ UNCHANGED <<uErr, uSent, uRead, uGot>>
    BY <1>1 DEF ClientWriteHeader
  <2>2. c2s # <<>> => c2s' # <<>>
    BY <1>1, <1>a, C2SGrows DEF ClientWriteHeader
  <2> QED
    BY <2>1, <2>2, ServerRests
<1>2. CASE ClientUpCopy
  <2>1. UNCHANGED server /\ UNCHANGED <<uErr, uSent, uRead, uGot>>
    BY <1>2 DEF ClientUpCopy
  <2>2. c2s # <<>> => c2s' # <<>>
    BY <1>2, <1>a, C2SGrows DEF ClientUpCopy
  <2> QED
    BY <2>1, <2>2, ServerRests
<1>3. CASE ClientUpHalts
  BY <1>3, ServerRests DEF ClientUpHalts, ClientUpEnds, upstream, local
<1>4. CASE ClientDownCopy
  BY <1>4, ServerRests DEF ClientDownCopy, ClientDownEnds, upstream, local
<1>5. CASE ClientDownHalts
  BY <1>5, ServerRests DEF ClientDownHalts, ClientDownEnds, upstream, local
<1>6. CASE ClientJoin
  BY <1>6, ServerRests DEF ClientJoin, upstream, local
<1>7. CASE ClientClose
  <2>1. UNCHANGED server /\ UNCHANGED <<uErr, uSent, uRead, uGot>>
    BY <1>7 DEF ClientClose
  <2>2. c2s # <<>> => c2s' # <<>>
    BY <1>7, <1>a, C2SGrows DEF ClientClose
  <2> QED
    BY <2>1, <2>2, ServerRests
<1>8. CASE ClientDrainRead
  BY <1>8, ServerRests DEF ClientDrainRead, upstream, local
<1>9. CASE ClientDrainFail
  BY <1>9, ServerRests DEF ClientDrainFail, upstream, local
<1>10. CASE ClientTake
  BY <1>10, ServerRests DEF ClientTake, upstream, local
<1>11. CASE ClientExpire
  BY <1>11, ServerRests DEF ClientExpire, upstream, local
<1>12. CASE LocalClose
  BY <1>12, ServerRests DEF LocalClose, upstream, local
<1>13. CASE UpstreamSend
  BY <1>13, ServerRests DEF UpstreamSend, upstream, local
<1>14. CASE UpstreamClose
  BY <1>14, ServerRests DEF UpstreamClose, upstream, local
<1>15. CASE NetBreak
  BY <1>15, ServerRests DEF NetBreak, upstream, local
<1>16. CASE ServerRequest
  BY <1>16 DEF ServerRequest, IInv, ServerInv
<1>17. CASE ServerRequestFail
  BY <1>17 DEF ServerRequestFail, IInv, ServerInv
<1>18. CASE ServerDialOk
  <2>1. /\ sst = "dial" /\ sst' = "relay" /\ sUp' = "run" /\ ~uDl' /\ ~sent' /\ ~zeroSeen'
        /\ UNCHANGED <<sDl, sDesync, refused, uErr, uSent, uRead>>
    BY <1>18 DEF ServerDialOk
  <2>2. uRead = 0 /\ uRead <= uSent /\ ~uErr /\ ~refused /\ ~sDl /\ ~sDesync
    BY <2>1 DEF IInv, ServerInv
  <2> QED
    BY <2>1, <2>2 DEF ServerInv
<1>19. CASE ServerDialFail
  BY <1>19 DEF ServerDialFail, IInv, ServerInv
<1>20. CASE ServerUpCopy
  BY <1>20 DEF ServerUpCopy, ServerUpEnds, IInv, ServerInv
<1>21. CASE ServerUpStop
  <2>1. /\ sst = "relay" /\ sUp = "run" /\ sUp' = "done"
        /\ UNCHANGED <<sst, skey, sDown, sDl, sent, zeroSeen, refused, uErr, uSent, uRead, uGot, c2s>>
        /\ c2s = <<>> => sDesync' = sDesync
    BY <1>21 DEF ServerUpStop, ServerUpEnds
  <2>2. ~zeroSeen /\ ~sDesync
    BY <2>1 DEF IInv, ServerInv
  <2>3. sDesync' => c2s' # <<>> /\ ~zeroSeen' /\ sst' = "relay"
    BY <2>1, <2>2
  <2>4. sst' = "relay" /\ ~refused' /\ (sDown' = "run" => ~sDl')
    BY <2>1 DEF IInv, ServerInv
  <2>5. (sent' <=> uRead' > 0) /\ uRead' <= uSent'
    BY <2>1 DEF IInv, ServerInv
  <2> QED
    BY <2>1, <2>3, <2>4, <2>5 DEF ServerInv
<1>22. CASE ServerDownCopy
  BY <1>22 DEF ServerDownCopy, ServerDownEnds, IInv, ServerInv, PlaceType
<1>23. CASE ServerDownHalts
  BY <1>23 DEF ServerDownHalts, ServerDownEnds, IInv, ServerInv
<1>24. CASE ServerJoin
  BY <1>24 DEF ServerJoin, IInv, ServerInv
<1>25. CASE ServerFinish
  BY <1>25 DEF ServerFinish, IInv, ServerInv
<1>26. CASE ServerZero
  BY <1>26 DEF ServerZero, IInv, ServerInv
<1>27. CASE ServerDrain
  BY <1>27 DEF ServerDrain, IInv, ServerInv
<1>28. CASE ServerDrainFail
  BY <1>28 DEF ServerDrainFail, IInv, ServerInv
<1>29. CASE ServerUpRefused
  BY <1>29 DEF ServerUpRefused, ServerUpEnds, IInv, ServerInv
<1> QED
  BY <1>1, <1>2, <1>3, <1>4, <1>5, <1>6, <1>7, <1>8, <1>9, <1>10, <1>11, <1>12,
     <1>13, <1>14, <1>15, <1>16, <1>17, <1>18, <1>19, <1>20, <1>21, <1>22, <1>23,
     <1>24, <1>25, <1>26, <1>27, <1>28, <1>29 DEF Action

(* Why a pump stopped stays true when only the client moves.                *)
LEMMA StopRests ==
    ASSUME IInv, UNCHANGED server, UNCHANGED upstream, UNCHANGED broken,
           cst' = cst \/ ~cClosed
    PROVE  StopInv'
  BY SameParts DEF IInv, StopInv, Complete, cClosed

LEMMA StopStep == IInv /\ Action => StopInv'
<1> SUFFICES ASSUME IInv, Action PROVE StopInv'
  OBVIOUS
<1> USE SameParts
<1>1. CASE ClientWriteHeader
  BY <1>1, StopRests DEF ClientWriteHeader, cClosed
<1>2. CASE ClientUpCopy
  BY <1>2, StopRests DEF ClientUpCopy, ClientUpEnds
<1>3. CASE ClientUpHalts
  BY <1>3, StopRests DEF ClientUpHalts, ClientUpEnds
<1>4. CASE ClientDownCopy
  BY <1>4, StopRests DEF ClientDownCopy, ClientDownEnds
<1>5. CASE ClientDownHalts
  BY <1>5, StopRests DEF ClientDownHalts, ClientDownEnds
<1>6. CASE ClientJoin
  BY <1>6, StopRests DEF ClientJoin, cClosed
<1>7. CASE ClientClose
  BY <1>7, StopRests DEF ClientClose, cClosed
<1>8. CASE ClientDrainRead
  BY <1>8, StopRests DEF ClientDrainRead, cClosed
<1>9. CASE ClientDrainFail
  BY <1>9, StopRests DEF ClientDrainFail, cClosed
<1>10. CASE ClientTake
  BY <1>10, StopRests DEF ClientTake, cClosed
<1>11. CASE ClientExpire
  BY <1>11, StopRests DEF ClientExpire, cClosed
<1>12. CASE LocalClose
  BY <1>12, StopRests DEF LocalClose
<1>13. CASE ServerRequest
  BY <1>13 DEF ServerRequest, StopInv
<1>14. CASE ServerRequestFail
  BY <1>14 DEF ServerRequestFail, StopInv, ServerReadFails
<1>15. CASE ServerDialOk
  BY <1>15 DEF ServerDialOk, StopInv
<1>16. CASE ServerDialFail
  BY <1>16 DEF ServerDialFail, StopInv, ServerWriteFails
<1>17. CASE ServerUpCopy
  BY <1>17 DEF ServerUpCopy, ServerUpEnds, IInv, StopInv, Complete, cClosed
<1>18. CASE ServerUpStop
  <2>1. /\ sst = "relay" /\ (sDl \/ broken \/ cClosed)
        /\ UNCHANGED <<sst, sDown, uEOF, uErr, uRead, uSent, zeroSeen, broken, cst>>
    BY <1>18 DEF ServerUpStop, ServerReadFails
  <2>2. sDown = "done" \/ broken \/ cClosed
    BY <2>1 DEF IInv, ServerInv, PlaceType
  <2> QED
    BY <2>1, <2>2 DEF IInv, StopInv, Complete, cClosed
<1>19. CASE ServerDownCopy
  BY <1>19 DEF ServerDownCopy, ServerDownEnds, StopInv, cClosed, ServerWriteFails
<1>20. CASE ServerDownHalts
  BY <1>20 DEF ServerDownHalts, ServerDownEnds, ServerWriteFails, IInv, StopInv, Complete, cClosed
<1>21. CASE ServerJoin
  BY <1>21 DEF ServerJoin, IInv, StopInv, Complete, cClosed
<1>22. CASE ServerFinish
  BY <1>22 DEF ServerFinish, IInv, StopInv, Complete, cClosed, ServerWriteFails
<1>23. CASE ServerZero
  BY <1>23 DEF ServerZero, StopInv, ServerWriteFails
<1>24. CASE ServerDrain
  BY <1>24 DEF ServerDrain, StopInv
<1>25. CASE ServerDrainFail
  BY <1>25 DEF ServerDrainFail, StopInv, ServerReadFails
<1>26. CASE UpstreamSend
  BY <1>26 DEF UpstreamSend, IInv, StopInv, Complete, cClosed
<1>27. CASE UpstreamClose
  BY <1>27 DEF UpstreamClose, IInv, StopInv, Complete, cClosed
<1>28. CASE NetBreak
  BY <1>28 DEF NetBreak, StopInv
<1>29. CASE ServerUpRefused
  BY <1>29 DEF ServerUpRefused, ServerUpEnds, IInv, StopInv, Complete, cClosed
<1> QED
  BY <1>1, <1>2, <1>3, <1>4, <1>5, <1>6, <1>7, <1>8, <1>9, <1>10, <1>11, <1>12,
     <1>13, <1>14, <1>15, <1>16, <1>17, <1>18, <1>19, <1>20, <1>21, <1>22, <1>23,
     <1>24, <1>25, <1>26, <1>27, <1>28, <1>29 DEF Action

-----------------------------------------------------------------------------
(* What either end reads next *)
LEMMA NextRequest ==
    ASSUME IInv, c2s # <<>>
    PROVE  LET f == Head(c2s)
           IN /\ f \in C2SFrame /\ f.t \in C2SType /\ f.k \in Nat /\ f.i \in Nat
              /\ sst # "closed" => Awaits(f)
              /\ f.k <= sess
              /\ f.k = sess => /\ f.t = "data" => f.i <= lSent
                               /\ f.t = "zero" => cst \in {"drain", "idle", "closed"}
<1>1. c2s \in Seq(C2SFrame) /\ 1 \in 1..Len(c2s) /\ Head(c2s) = c2s[1]
  BY DEF IInv, FlightType
<1>2. Head(c2s) \in C2SFrame
  BY <1>1
<1>3. /\ c2s[1].k <= sess
      /\ c2s[1].k = sess => /\ c2s[1].t = "data" => c2s[1].i <= lSent
                            /\ c2s[1].t = "zero" => cst \in {"drain", "idle", "closed"}
  BY <1>1 DEF IInv, Requests
<1>4. sst # "closed" => Awaits(Head(c2s))
  BY DEF IInv, Requests
<1>5. Head(c2s).t \in C2SType /\ Head(c2s).k \in Nat /\ Head(c2s).i \in Nat
  BY <1>2 DEF C2SFrame
<1>6. /\ Head(c2s).k <= sess
      /\ Head(c2s).k = sess => /\ Head(c2s).t = "data" => Head(c2s).i <= lSent
                               /\ Head(c2s).t = "zero" => cst \in {"drain", "idle", "closed"}
  BY <1>1, <1>3
<1> QED
  BY <1>2, <1>4, <1>5, <1>6

LEMMA NextReply ==
    ASSUME IInv, s2c # <<>>, ~cClosed
    PROVE  LET f == Head(s2c)
           IN /\ f \in S2CFrame /\ f.t \in S2CType /\ f.k \in Nat /\ f.i \in Nat
              /\ Expects(f) /\ Known(f)
<1>1. s2c \in Seq(S2CFrame) /\ 1 \in 1..Len(s2c) /\ Head(s2c) = s2c[1]
  BY DEF IInv, FlightType
<1>2. Head(s2c) \in S2CFrame
  BY <1>1
<1>3. Known(Head(s2c)) /\ Expects(Head(s2c))
  BY <1>1 DEF IInv, Responses, cClosed
<1> QED
  BY <1>2, <1>3 DEF S2CFrame

(* ... and with it which sessions the two ends are in                       *)
LEMMA SessionStep == ASSUME MaxUses <= 2 PROVE IInv /\ Action => SessionInv'
<1> SUFFICES ASSUME IInv, Action PROVE SessionInv'
  OBVIOUS
<1> USE SameParts
<1>1. CASE ClientWriteHeader
  BY <1>1 DEF ClientWriteHeader, IInv, SessionInv
<1>2. CASE ClientUpCopy
  BY <1>2 DEF ClientUpCopy, ClientUpEnds, IInv, SessionInv
<1>3. CASE ClientUpHalts
  BY <1>3 DEF ClientUpHalts, ClientUpEnds, IInv, SessionInv
<1>4. CASE ClientDownCopy
  BY <1>4 DEF ClientDownCopy, ClientDownEnds, IInv, SessionInv
<1>5. CASE ClientDownHalts
  BY <1>5 DEF ClientDownHalts, ClientDownEnds, IInv, SessionInv
<1>6. CASE ClientJoin
  BY <1>6 DEF ClientJoin, IInv, SessionInv
<1>7. CASE ClientClose
  BY <1>7 DEF ClientClose, IInv, SessionInv
<1>8. CASE ClientDrainRead
  <2>1. /\ cst = "drain" /\ s2c # <<>> /\ UNCHANGED <<sess, sst, skey, zeroSeen, refused>>
        /\ cst' \in {"drain", "idle", "closed"}
        /\ cst' = "idle" => Head(s2c).t = "zero" /\ sess < MaxUses
    BY <1>8, MaxUsesAssumption DEF ClientDrainRead, ReadOutcome, PutStates, IInv, PlaceType
  <2>2. CASE cst' = "idle"
    <3>1. /\ Head(s2c).k \in Nat /\ 0 < Head(s2c).k /\ Head(s2c).k <= skey
          /\ Head(s2c).k = skey => ~refused /\ sst \in {"zero", "request", "drain", "closed"}
      BY <2>1, <2>2, NextReply DEF cClosed, Known
    <3>2. sess = 1 /\ skey = 1
      BY <2>1, <2>2, <3>1, MaxUsesAssumption DEF IInv, SessionInv, PlaceType
    <3> QED
      BY <2>1, <2>2, <3>1, <3>2 DEF IInv, SessionInv
  <2>3. CASE cst' # "idle"
    BY <2>1, <2>3 DEF IInv, SessionInv
  <2> QED
    BY <2>2, <2>3
<1>9. CASE ClientDrainFail
  BY <1>9 DEF ClientDrainFail, IInv, SessionInv
<1>10. CASE ClientTake
  BY <1>10, MaxUsesAssumption DEF ClientTake, IInv, SessionInv
<1>11. CASE ClientExpire
  BY <1>11 DEF ClientExpire, IInv, SessionInv
<1>12. CASE LocalClose
  BY <1>12 DEF LocalClose, IInv, SessionInv
<1>13. CASE ServerRequest
  <2>1. CASE sst' = "dial"
    <3>1. /\ sst = "request" /\ c2s # <<>> /\ Head(c2s).t = "header" /\ sst' = "dial" /\ skey' = Head(c2s).k /\ ~refused'
          /\ UNCHANGED <<cst, sess, zeroSeen>>
      BY <1>13, <2>1 DEF ServerRequest
    <3>2. /\ Head(c2s).k \in Nat /\ Head(c2s).k <= sess
          /\ Head(c2s).k = skey + 1
      BY <3>1, NextRequest, FrameFields DEF Awaits, AtBoundary
    <3> QED
      BY <3>1, <3>2 DEF IInv, SessionInv, PlaceType
  <2>2. CASE sst' # "dial"
    BY <1>13, <2>2 DEF ServerRequest, IInv, SessionInv
  <2> QED
    BY <2>1, <2>2
<1>14. CASE ServerRequestFail
  BY <1>14 DEF ServerRequestFail, IInv, SessionInv
<1>15. CASE ServerDialOk
  BY <1>15 DEF ServerDialOk, IInv, SessionInv
<1>16. CASE ServerDialFail
  BY <1>16 DEF ServerDialFail, IInv, SessionInv
<1>17. CASE ServerUpCopy
  <2>1. Head(c2s).k = skey
    BY <1>17, NextRequest, FrameFields DEF ServerUpCopy, Awaits, AtBoundary, IInv, ServerInv
  <2> QED
    BY <1>17, <2>1, NextRequest DEF ServerUpCopy, ServerUpEnds, IInv, SessionInv
<1>18. CASE ServerUpStop
  BY <1>18 DEF ServerUpStop, ServerUpEnds, IInv, SessionInv
<1>19. CASE ServerDownCopy
  BY <1>19 DEF ServerDownCopy, ServerDownEnds, IInv, SessionInv
<1>20. CASE ServerDownHalts
  BY <1>20 DEF ServerDownHalts, ServerDownEnds, IInv, SessionInv
<1>21. CASE ServerJoin
  BY <1>21 DEF ServerJoin, IInv, SessionInv
<1>22. CASE ServerFinish
  BY <1>22 DEF ServerFinish, IInv, SessionInv
<1>23. CASE ServerZero
  BY <1>23 DEF ServerZero, IInv, SessionInv
<1>24. CASE ServerDrain
  <2>1. Head(c2s).k = skey
    BY <1>24, NextRequest, FrameFields DEF ServerDrain, Awaits, AtBoundary, IInv, ServerInv
  <2> QED
    BY <1>24, <2>1, NextRequest DEF ServerDrain, IInv, SessionInv
<1>25. CASE ServerDrainFail
  BY <1>25 DEF ServerDrainFail, IInv, SessionInv
<1>26. CASE UpstreamSend
  BY <1>26 DEF UpstreamSend, IInv, SessionInv
<1>27. CASE UpstreamClose
  BY <1>27 DEF UpstreamClose, IInv, SessionInv
<1>28. CASE NetBreak
  BY <1>28 DEF NetBreak, IInv, SessionInv
<1>29. CASE ServerUpRefused
  BY <1>29 DEF ServerUpRefused, ServerUpEnds, IInv, SessionInv
<1> QED
  BY <1>1, <1>2, <1>3, <1>4, <1>5, <1>6, <1>7, <1>8, <1>9, <1>10, <1>11, <1>12,
     <1>13, <1>14, <1>15, <1>16, <1>17, <1>18, <1>19, <1>20, <1>21, <1>22, <1>23,
     <1>24, <1>25, <1>26, <1>27, <1>28, <1>29 DEF Action

-----------------------------------------------------------------------------
(* What the server reads when a session begins, and what the drain of the   *)
(* client reads when it ends, decide which sessions the two ends are in.    *)

LEMMA ClientStep == IInv /\ Action => ClientInv'
<1> SUFFICES ASSUME IInv, Action PROVE ClientInv'
  OBVIOUS
<1> USE SameParts
<1>1. CASE ClientWriteHeader
  BY <1>1 DEF ClientWriteHeader, IInv, ClientInv
<1>2. CASE ClientUpCopy
  BY <1>2 DEF ClientUpCopy, ClientUpEnds, IInv, ClientInv
<1>3. CASE ClientUpHalts
  BY <1>3 DEF ClientUpHalts, ClientUpEnds, IInv, ClientInv
<1>4. CASE ClientDownCopy
  BY <1>4 DEF ClientDownCopy, ClientDownEnds, ClientInv, ReplyAfter, ReadOutcome
<1>5. CASE ClientDownHalts
  BY <1>5 DEF ClientDownHalts, ClientDownEnds, ClientInv
<1>6. CASE ClientJoin
  BY <1>6 DEF ClientJoin, ClientInv
<1>7. CASE ClientClose
  BY <1>7 DEF ClientClose, ClientInv
<1>8. CASE ClientDrainRead
  BY <1>8 DEF ClientDrainRead, IInv, ClientInv, ReplyAfter, ReadOutcome, PutStates
<1>9. CASE ClientDrainFail
  BY <1>9 DEF ClientDrainFail, ClientInv
<1>10. CASE ClientTake
  BY <1>10 DEF ClientTake, IInv, ClientInv
<1>11. CASE ClientExpire
  BY <1>11 DEF ClientExpire, ClientInv
<1>12. CASE LocalClose
  BY <1>12 DEF LocalClose, IInv, ClientInv
<1>13. CASE ServerRequest
  BY <1>13 DEF ServerRequest, IInv, ClientInv, local
<1>14. CASE ServerRequestFail
  BY <1>14 DEF ServerRequestFail, IInv, ClientInv, local
<1>15. CASE ServerDialOk
  BY <1>15 DEF ServerDialOk, IInv, ClientInv, local
<1>16. CASE ServerDialFail
  BY <1>16 DEF ServerDialFail, IInv, ClientInv, local
<1>17. CASE ServerUpCopy
  BY <1>17 DEF ServerUpCopy, ServerUpEnds, IInv, ClientInv, local
<1>18. CASE ServerUpStop
  BY <1>18 DEF ServerUpStop, ServerUpEnds, IInv, ClientInv, local
<1>19. CASE ServerDownCopy
  BY <1>19 DEF ServerDownCopy, ServerDownEnds, IInv, ClientInv, local
<1>20. CASE ServerDownHalts
  BY <1>20 DEF ServerDownHalts, ServerDownEnds, IInv, ClientInv, local
<1>21. CASE ServerJoin
  BY <1>21 DEF ServerJoin, IInv, ClientInv, local
<1>22. CASE ServerFinish
  BY <1>22 DEF ServerFinish, IInv, ClientInv, local
<1>23. CASE ServerZero
  BY <1>23 DEF ServerZero, IInv, ClientInv, local
<1>24. CASE ServerDrain
  BY <1>24 DEF ServerDrain, IInv, ClientInv, local
<1>25. CASE ServerDrainFail
  BY <1>25 DEF ServerDrainFail, IInv, ClientInv, local
<1>26. CASE UpstreamSend
  BY <1>26 DEF UpstreamSend, IInv, ClientInv, local
<1>27. CASE UpstreamClose
  BY <1>27 DEF UpstreamClose, IInv, ClientInv, local
<1>28. CASE NetBreak
  BY <1>28 DEF NetBreak, IInv, ClientInv, local
<1>29. CASE ServerUpRefused
  BY <1>29 DEF ServerUpRefused, ServerUpEnds, IInv, ClientInv, local
<1> QED
  BY <1>1, <1>2, <1>3, <1>4, <1>5, <1>6, <1>7, <1>8, <1>9, <1>10, <1>11, <1>12,
     <1>13, <1>14, <1>15, <1>16, <1>17, <1>18, <1>19, <1>20, <1>21, <1>22, <1>23,
     <1>24, <1>25, <1>26, <1>27, <1>28, <1>29 DEF Action

-----------------------------------------------------------------------------
(* Queues *)

LEMMA QueueTail ==
    ASSUME NEW S, NEW w \in Seq(S), w # <<>>, NEW x, x = Tail(w)
    PROVE  /\ x \in Seq(S) /\ Len(x) = Len(w) - 1 /\ Head(w) = w[1]
           /\ \A n \in 1..Len(x) : x[n] = w[n + 1]
           /\ x # <<>> => Head(x) = x[1] /\ Len(x) > 0
           /\ x = <<>> => Len(w) = 1
<1>1. x \in Seq(S) /\ Len(x) = Len(w) - 1 /\ Head(w) = w[1] /\ Len(w) \in Nat /\ Len(w) > 0
  OBVIOUS
<1>2. \A n \in 1..Len(x) : x[n] = w[n + 1]
  BY <1>1
<1>3. x # <<>> => Head(x) = x[1] /\ Len(x) > 0
  BY <1>1
<1>4. x = <<>> => Len(w) = 1
  <2>1. x = <<>> => Len(x) = 0
    BY EmptySeq
  <2> QED
    BY <1>1, <2>1
<1> QED
  BY <1>1, <1>2, <1>3, <1>4

(* The requests in flight *)

LEMMA WritesType == IInv => Writes \subseteq C2SFrame
<1> SUFFICES ASSUME IInv PROVE Writes \subseteq C2SFrame
  OBVIOUS
<1>1. /\ sess \in Nat /\ sess + 1 \in Nat /\ lSent + 1 \in Nat
      /\ cst \in {"header", "relay", "close", "drain", "idle", "closed"} /\ cUp \in {"run", "done"}
  BY BoundsAssumption DEF IInv, PlaceType
<1>2. \A t \in C2SType, k \in Nat, i \in Nat : Frame(t, k, i) \in C2SFrame
  BY DEF Frame, C2SFrame
<1> QED
  BY <1>1, <1>2 DEF Writes, C2SType

(* Nothing is put in flight or taken from it. *)
LEMMA RequestsRest ==
    ASSUME IInv, UNCHANGED c2s, broken => broken',
           broken' \/ \A f \in Writes' : f \in Writes,
           \A f \in C2SFrame : sst = "closed" \/ Awaits(f) => sst' = "closed" \/ Awaits(f)',
           sess \in Nat, sess' \in Nat, sess <= sess',
           sess' = sess =>
               /\ lSent \in Nat /\ lSent' \in Nat /\ lSent <= lSent'
               /\ cst \in {"drain", "idle", "closed"} => cst' \in {"drain", "idle", "closed"}
    PROVE  Requests'
<1>1. c2s \in Seq(C2SFrame)
  BY DEF IInv, FlightType
<1>2. \A n \in 1..Len(c2s) : c2s[n] \in C2SFrame /\ c2s[n].k \in Nat /\ c2s[n].i \in Nat
  <2>1. SUFFICES ASSUME NEW n \in 1..Len(c2s)
                 PROVE  c2s[n] \in C2SFrame /\ c2s[n].k \in Nat /\ c2s[n].i \in Nat
    OBVIOUS
  <2>2. c2s[n] \in C2SFrame
    BY <1>1
  <2> QED
    BY <2>2 DEF C2SFrame
<1>3. \A n \in 1..Len(c2s') - 1 : Follows(c2s'[n], c2s'[n + 1])
  BY DEF IInv, Requests
<1>4. sst' # "closed" /\ c2s' # <<>> => Awaits(Head(c2s))'
  <2>1. c2s # <<>> => Head(c2s) \in C2SFrame
    BY <1>1
  <2> QED
    BY <2>1 DEF IInv, Requests, Awaits, AtBoundary
<1>5. ~broken' => \A f \in Writes' : Fits(f)'
  <2>1. SUFFICES ASSUME ~broken', NEW f \in Writes' PROVE Fits(f)'
    OBVIOUS
  <2>2. f \in Writes
    BY <2>1
  <2>3. f \in C2SFrame /\ Fits(f)
    BY <2>1, <2>2, WritesType DEF IInv, Requests
  <2> QED
    BY <2>3 DEF Fits, Awaits, AtBoundary
<1>6. ASSUME NEW n \in 1..Len(c2s')
      PROVE  /\ c2s'[n].k <= sess'
             /\ c2s'[n].k = sess' => /\ c2s'[n].t = "data" => c2s'[n].i <= lSent'
                                     /\ c2s'[n].t = "zero" => cst' \in {"drain", "idle", "closed"}
  <2>1. /\ c2s[n].k <= sess /\ c2s[n].k \in Nat /\ c2s[n].i \in Nat
        /\ c2s[n].k = sess => /\ c2s[n].t = "data" => c2s[n].i <= lSent
                              /\ c2s[n].t = "zero" => cst \in {"drain", "idle", "closed"}
    BY <1>2 DEF IInv, Requests
  <2> QED
    BY <2>1
<1> QED
  BY <1>3, <1>4, <1>5, <1>6 DEF Requests

(* The client puts f in flight. *)
LEMMA RequestsPut ==
    ASSUME IInv, NEW f \in C2SFrame, f \in Writes, ~broken, c2s' = c2s \o <<f>>,
           UNCHANGED <<server, uGot, sess>>,
           \A g \in Writes' : Follows(f, g),
           lSent' \in Nat, lSent <= lSent', lSent \in Nat,
           cst \in {"drain", "idle", "closed"} => cst' \in {"drain", "idle", "closed"},
           f.k <= sess,
           f.k = sess => /\ f.t = "data" => f.i <= lSent'
                         /\ f.t = "zero" => cst' \in {"drain", "idle", "closed"}
    PROVE  Requests'
<1>1. c2s \in Seq(C2SFrame) /\ Len(c2s) \in Nat
  BY DEF IInv, FlightType
<1>2. /\ c2s' \in Seq(C2SFrame) /\ Len(c2s') = Len(c2s) + 1 /\ c2s' # <<>>
      /\ c2s'[Len(c2s')] = f
      /\ \A n \in 1..Len(c2s) : c2s'[n] = c2s[n]
      /\ Head(c2s') = IF c2s = <<>> THEN f ELSE Head(c2s)
  BY <1>1
<1>3. Fits(f)
  BY DEF IInv, Requests
<1>4. \A n \in 1..Len(c2s') - 1 : Follows(c2s'[n], c2s'[n + 1])
  <2>1. SUFFICES ASSUME NEW n \in 1..Len(c2s) PROVE Follows(c2s'[n], c2s'[n + 1])
    BY <1>1, <1>2
  <2>2. CASE n = Len(c2s)
    BY <1>1, <1>2, <1>3, <2>2 DEF Fits
  <2>3. CASE n # Len(c2s)
    <3>1. n \in 1..Len(c2s) - 1 /\ n + 1 \in 1..Len(c2s)
      BY <1>1, <2>3
    <3> QED
      BY <1>2, <3>1 DEF IInv, Requests
  <2> QED
    BY <2>2, <2>3
<1>5. sst' # "closed" => Awaits(Head(c2s))'
  <2>1. sst # "closed" => Awaits(Head(c2s'))
    BY <1>2, <1>3 DEF IInv, Requests, Fits
  <2> QED
    BY <2>1, SameParts DEF Awaits, AtBoundary
<1>6. \A g \in Writes' : Fits(g)'
  BY <1>2 DEF Fits
<1>7. ASSUME NEW n \in 1..Len(c2s')
      PROVE  /\ c2s'[n].k <= sess'
             /\ c2s'[n].k = sess' => /\ c2s'[n].t = "data" => c2s'[n].i <= lSent'
                                     /\ c2s'[n].t = "zero" => cst' \in {"drain", "idle", "closed"}
  <2>1. CASE n = Len(c2s')
    BY <1>2, <2>1
  <2>2. CASE n # Len(c2s')
    <3>1. n \in 1..Len(c2s) /\ c2s[n] \in C2SFrame /\ c2s'[n] = c2s[n]
      BY <1>1, <1>2, <2>2
    <3>2. /\ c2s[n].k <= sess /\ c2s[n].k \in Nat /\ c2s[n].i \in Nat
          /\ c2s[n].k = sess => /\ c2s[n].t = "data" => c2s[n].i <= lSent
                                /\ c2s[n].t = "zero" => cst \in {"drain", "idle", "closed"}
      BY <3>1 DEF IInv, Requests, C2SFrame
    <3> QED
      BY <3>1, <3>2
  <2> QED
    BY <2>1, <2>2
<1> QED
  BY <1>4, <1>5, <1>6, <1>7 DEF Requests

(* The server takes the first frame. *)
LEMMA RequestsTake ==
    ASSUME IInv, c2s # <<>>, c2s' = Tail(c2s), UNCHANGED <<client, lSent, broken>>,
           \A g \in C2SFrame : Follows(Head(c2s), g) => sst' = "closed" \/ Awaits(g)'
    PROVE  Requests'
<1>1. c2s \in Seq(C2SFrame) /\ Len(c2s) \in Nat /\ Len(c2s) > 0
  BY DEF IInv, FlightType
<1>2. /\ c2s' \in Seq(C2SFrame) /\ Len(c2s') = Len(c2s) - 1 /\ Head(c2s) = c2s[1]
      /\ \A n \in 1..Len(c2s') : c2s'[n] = c2s[n + 1]
      /\ c2s' # <<>> => Head(c2s') = c2s'[1] /\ Len(c2s') > 0
      /\ c2s' = <<>> => Len(c2s) = 1
  BY <1>1, QueueTail
<1>3. \A n \in 1..Len(c2s') - 1 : Follows(c2s'[n], c2s'[n + 1])
  <2>1. SUFFICES ASSUME NEW n \in 1..Len(c2s') - 1 PROVE Follows(c2s'[n], c2s'[n + 1])
    OBVIOUS
  <2>2. /\ n \in 1..Len(c2s') /\ n + 1 \in 1..Len(c2s') /\ n + 1 \in 1..Len(c2s) - 1
    BY <1>1, <1>2
  <2>3. Follows(c2s[n + 1], c2s[(n + 1) + 1])
    BY <2>2 DEF IInv, Requests
  <2> QED
    BY <1>2, <2>2, <2>3
<1>4. sst' # "closed" /\ c2s' # <<>> => Awaits(Head(c2s))'
  <2>1. SUFFICES ASSUME c2s' # <<>>, sst' # "closed" PROVE Awaits(Head(c2s))'
    OBVIOUS
  <2>2. Head(c2s') = c2s[2] /\ c2s[2] \in C2SFrame /\ 1 \in 1..Len(c2s) - 1
    BY <1>1, <1>2, <2>1
  <2>3. Follows(Head(c2s), c2s[1 + 1])
    BY <1>2, <2>2 DEF IInv, Requests
  <2> QED
    BY <2>1, <2>2, <2>3 DEF Awaits, AtBoundary
<1>5. ~broken' => \A f \in Writes' : Fits(f)'
  <2>1. SUFFICES ASSUME ~broken', NEW f \in Writes' PROVE Fits(f)'
    OBVIOUS
  <2>2. f \in Writes
    BY SameParts DEF Writes
  <2>3. f \in C2SFrame /\ Follows(c2s[Len(c2s)], f)
    BY <2>1, <2>2, WritesType DEF IInv, Requests, Fits
  <2>4. CASE c2s' = <<>>
    <3>1. Follows(Head(c2s), f)
      BY <1>2, <2>3, <2>4
    <3> QED
      BY <2>3, <2>4, <3>1 DEF Fits, Awaits, AtBoundary
  <2>5. CASE c2s' # <<>>
    <3>1. c2s'[Len(c2s')] = c2s[Len(c2s)]
      BY <1>1, <1>2, <2>5
    <3> QED
      BY <2>3, <2>5, <3>1 DEF Fits
  <2> QED
    BY <2>4, <2>5
<1>6. ASSUME NEW n \in 1..Len(c2s')
      PROVE  /\ c2s'[n].k <= sess'
             /\ c2s'[n].k = sess' => /\ c2s'[n].t = "data" => c2s'[n].i <= lSent'
                                     /\ c2s'[n].t = "zero" => cst' \in {"drain", "idle", "closed"}
  <2>1. n + 1 \in 1..Len(c2s) /\ c2s'[n] = c2s[n + 1]
    BY <1>1, <1>2
  <2> QED
    BY <2>1, SameParts DEF IInv, Requests
<1> QED
  BY <1>3, <1>4, <1>5, <1>6 DEF Requests

LEMMA RequestsStep == IInv /\ Action => Requests'
<1> SUFFICES ASSUME IInv, Action PROVE Requests'
  OBVIOUS
<1> USE SameParts
<1>a. /\ PlaceType /\ FlagType /\ sess \in Nat /\ skey \in Nat /\ lSent \in Nat /\ lSent + 1 \in Nat
      /\ \A t \in C2SType, k \in Nat, i \in Nat : Frame(t, k, i) \in C2SFrame
  BY BoundsAssumption DEF IInv, PlaceType, Frame, C2SFrame
<1>b. ASSUME UNCHANGED <<server, uGot>>
      PROVE  \A f \in C2SFrame : sst = "closed" \/ Awaits(f) => sst' = "closed" \/ Awaits(f)'
  BY <1>b DEF Awaits, AtBoundary
<1>1. CASE ClientWriteHeader
  <2>1. cst = "header" /\ lSent = 0 /\ UNCHANGED <<server, uGot, sess, lSent, broken>>
    BY <1>1 DEF ClientWriteHeader, IInv, ClientInv
  <2>2. CASE cst' = "relay"
    <3> DEFINE f == Frame("header", sess, 0)
    <3>1. f.t = "header" /\ f.k = sess /\ f.i = 0 /\ f \in C2SFrame
      BY <1>a, FrameFields DEF C2SType
    <3>2. cUp' = "run" /\ c2s' = Queued(c2s, <<f>>)
      BY <1>1, <2>2 DEF ClientWriteHeader
    <3>3. f \in Writes /\ \A g \in Writes' : Follows(f, g)
      BY <2>1, <2>2, <3>1, <3>2 DEF Writes, Follows
    <3> HIDE DEF f
    <3>4. CASE broken
      BY <1>a, <1>b, <2>1, <3>2, <3>4, RequestsRest DEF Queued
    <3>5. CASE ~broken
      BY <1>a, <2>1, <2>2, <3>1, <3>2, <3>3, <3>5, RequestsPut DEF Queued
    <3> QED
      BY <3>4, <3>5
  <2>3. CASE cst' = "closed"
    <3>1. UNCHANGED c2s /\ Writes' = {}
      BY <1>1, <2>3 DEF ClientWriteHeader, Writes
    <3> QED
      BY <1>a, <1>b, <2>1, <2>3, <3>1, RequestsRest
  <2> QED
    BY <1>1, <2>2, <2>3 DEF ClientWriteHeader
<1>2. CASE ClientUpCopy
  <2>1. /\ cst = "relay" /\ cUp = "run" /\ lSent' = lSent + 1 /\ lSent <= lSent'
        /\ UNCHANGED <<server, uGot, cst, sess, broken>>
    BY <1>2, <1>a DEF ClientUpCopy
  <2>2. CASE UNCHANGED c2s /\ cUp' = "done"
    <3>1. \A f \in Writes' : f \in Writes
      BY <2>1, <2>2 DEF Writes
    <3> QED
      BY <1>a, <1>b, <2>1, <2>2, <3>1, RequestsRest
  <2>3. CASE c2s' = Queued(c2s, <<Frame("data", sess, lSent + 1)>>) /\ UNCHANGED cUp
    <3> DEFINE f == Frame("data", sess, lSent + 1)
    <3>1. f.t = "data" /\ f.k = sess /\ f.i = lSent + 1 /\ f \in C2SFrame
      BY <1>a, FrameFields DEF C2SType
    <3>2. f \in Writes /\ \A g \in Writes' : Follows(f, g)
      BY <2>1, <2>3, <3>1 DEF Writes, Follows
    <3>3. c2s' = Queued(c2s, <<f>>)
      BY <2>3
    <3> HIDE DEF f
    <3>4. CASE broken
      BY <1>a, <1>b, <2>1, <3>3, <3>4, RequestsRest DEF Queued
    <3>5. CASE ~broken
      BY <1>a, <2>1, <3>1, <3>2, <3>3, <3>5, RequestsPut DEF Queued
    <3> QED
      BY <3>4, <3>5
  <2> QED
    BY <1>2, <2>2, <2>3 DEF ClientUpCopy, ClientUpEnds
<1>3. CASE ClientClose
  <2>1. cst = "close" /\ UNCHANGED <<server, uGot, sess, lSent, broken>>
    BY <1>3 DEF ClientClose
  <2>2. CASE cst' = "drain"
    <3> DEFINE f == Frame("zero", sess, 0)
    <3>1. f.t = "zero" /\ f.k = sess /\ f.i = 0 /\ f \in C2SFrame
      BY <1>a, FrameFields DEF C2SType
    <3>2. c2s' = Queued(c2s, <<f>>)
      BY <1>3, <2>2 DEF ClientClose
    <3>3. f \in Writes /\ \A g \in Writes' : Follows(f, g)
      BY <2>1, <2>2, <3>1 DEF Writes, Follows
    <3> HIDE DEF f
    <3>4. CASE broken
      BY <1>a, <1>b, <2>1, <2>2, <3>2, <3>4, RequestsRest DEF Queued
    <3>5. CASE ~broken
      BY <1>a, <2>1, <2>2, <3>1, <3>2, <3>3, <3>5, RequestsPut DEF Queued
    <3> QED
      BY <3>4, <3>5
  <2>3. CASE cst' = "closed"
    <3>1. UNCHANGED c2s /\ Writes' = {}
      BY <1>3, <2>3 DEF ClientClose, Writes
    <3> QED
      BY <1>a, <1>b, <2>1, <2>3, <3>1, RequestsRest
  <2> QED
    BY <1>3, <2>2, <2>3 DEF ClientClose
<1>4. CASE ClientUpHalts
  <2>1. UNCHANGED <<server, uGot, sess, lSent, c2s, broken>>
    BY <1>4 DEF ClientUpHalts
  <2>2. cst \in {"drain", "idle", "closed"} => cst' \in {"drain", "idle", "closed"}
    BY <1>4 DEF ClientUpHalts
  <2>3. \A f \in Writes' : f \in Writes
    BY <1>4 DEF ClientUpHalts, ClientUpEnds, Writes
  <2> QED
    BY <1>a, <1>b, <2>1, <2>2, <2>3, RequestsRest
<1>5. CASE ClientDownCopy
  <2>1. UNCHANGED <<server, uGot, sess, lSent, c2s, broken>>
    BY <1>5 DEF ClientDownCopy
  <2>2. cst \in {"drain", "idle", "closed"} => cst' \in {"drain", "idle", "closed"}
    BY <1>5 DEF ClientDownCopy
  <2>3. \A f \in Writes' : f \in Writes
    BY <1>5 DEF ClientDownCopy, ClientDownEnds, Writes
  <2> QED
    BY <1>a, <1>b, <2>1, <2>2, <2>3, RequestsRest
<1>6. CASE ClientDownHalts
  <2>1. UNCHANGED <<server, uGot, sess, lSent, c2s, broken>>
    BY <1>6 DEF ClientDownHalts
  <2>2. cst \in {"drain", "idle", "closed"} => cst' \in {"drain", "idle", "closed"}
    BY <1>6 DEF ClientDownHalts
  <2>3. \A f \in Writes' : f \in Writes
    BY <1>6 DEF ClientDownHalts, ClientDownEnds, Writes
  <2> QED
    BY <1>a, <1>b, <2>1, <2>2, <2>3, RequestsRest
<1>7. CASE ClientJoin
  <2>1. UNCHANGED <<server, uGot, sess, lSent, c2s, broken>>
    BY <1>7 DEF ClientJoin
  <2>2. cst \in {"drain", "idle", "closed"} => cst' \in {"drain", "idle", "closed"}
    BY <1>7 DEF ClientJoin
  <2>3. \A f \in Writes' : f \in Writes
    BY <1>7 DEF ClientJoin, Writes
  <2> QED
    BY <1>a, <1>b, <2>1, <2>2, <2>3, RequestsRest
<1>8. CASE ClientDrainFail
  <2>1. UNCHANGED <<server, uGot, sess, lSent, c2s, broken>>
    BY <1>8 DEF ClientDrainFail
  <2>2. cst \in {"drain", "idle", "closed"} => cst' \in {"drain", "idle", "closed"}
    BY <1>8 DEF ClientDrainFail
  <2>3. \A f \in Writes' : f \in Writes
    BY <1>8 DEF ClientDrainFail, Writes
  <2> QED
    BY <1>a, <1>b, <2>1, <2>2, <2>3, RequestsRest
<1>9. CASE ClientExpire
  <2>1. UNCHANGED <<server, uGot, sess, lSent, c2s, broken>>
    BY <1>9 DEF ClientExpire
  <2>2. cst \in {"drain", "idle", "closed"} => cst' \in {"drain", "idle", "closed"}
    BY <1>9 DEF ClientExpire
  <2>3. \A f \in Writes' : f \in Writes
    BY <1>9 DEF ClientExpire, Writes
  <2> QED
    BY <1>a, <1>b, <2>1, <2>2, <2>3, RequestsRest
<1>10. CASE LocalClose
  <2>1. UNCHANGED <<server, uGot, sess, lSent, c2s, broken>>
    BY <1>10 DEF LocalClose
  <2>2. cst \in {"drain", "idle", "closed"} => cst' \in {"drain", "idle", "closed"}
    BY <1>10 DEF LocalClose
  <2>3. \A f \in Writes' : f \in Writes
    BY <1>10 DEF LocalClose, Writes
  <2> QED
    BY <1>a, <1>b, <2>1, <2>2, <2>3, RequestsRest
<1>11. CASE ClientDrainRead
  <2>1. /\ UNCHANGED <<server, uGot, sess, lSent, c2s, broken>>
        /\ cst = "drain" /\ cst' \in {"drain", "idle", "closed"}
    BY <1>11 DEF ClientDrainRead, PutStates
  <2>2. \A f \in Writes' : f \in Writes
    BY <2>1 DEF Writes
  <2> QED
    BY <1>a, <1>b, <2>1, <2>2, RequestsRest
<1>12. CASE ClientTake
  <2>1. /\ UNCHANGED <<server, uGot, c2s, broken>> /\ sess' = sess + 1
        /\ cst = "idle" /\ cst' = "header"
    BY <1>12 DEF ClientTake
  <2>2. \A f \in Writes' : f \in Writes
    BY <2>1 DEF Writes
  <2> QED
    BY <1>a, <1>b, <2>1, <2>2, RequestsRest
<1>13. CASE ServerRequest
  <2>1. c2s # <<>> /\ c2s' = Tail(c2s) /\ UNCHANGED <<client, lSent, broken>> /\ sst # "closed"
    BY <1>13 DEF ServerRequest
  <2>2. Awaits(Head(c2s)) /\ Head(c2s).i \in Nat
    BY <2>1, NextRequest
  <2>3. ASSUME NEW g \in C2SFrame, Follows(Head(c2s), g)
        PROVE  sst' = "closed" \/ Awaits(g)'
    <3>1. CASE sst' = "dial"
      <4>1. Head(c2s).t = "header" /\ sst' = "dial" /\ skey' = Head(c2s).k /\ uGot' = <<>>
        BY <1>13, <3>1 DEF ServerRequest
      <4>2. Head(c2s).i = 0
        BY <1>13, <2>2, <4>1, FrameFields DEF ServerRequest, Awaits, AtBoundary
      <4>3. g = Frame("data", skey', Len(uGot') + 1) \/ g = Frame("zero", skey', 0)
        BY <2>3, <4>1, <4>2 DEF Follows
      <4> QED
        BY <4>1, <4>3 DEF Awaits, AtBoundary
    <3>2. CASE sst' # "dial"
      BY <1>13, <3>2 DEF ServerRequest
    <3> QED
      BY <3>1, <3>2
  <2> QED
    BY <2>1, <2>3, RequestsTake
<1>14. CASE ServerUpCopy
  <2>1. c2s # <<>> /\ c2s' = Tail(c2s) /\ UNCHANGED <<client, lSent, broken>> /\ sst # "closed"
    BY <1>14 DEF ServerUpCopy
  <2>2. Awaits(Head(c2s)) /\ Head(c2s).i \in Nat
    BY <2>1, NextRequest
  <2>3. ASSUME NEW g \in C2SFrame, Follows(Head(c2s), g)
        PROVE  sst' = "closed" \/ Awaits(g)'
    <3>1. /\ sst = "relay" /\ sUp = "run" /\ sst' = "relay" /\ ~zeroSeen /\ UNCHANGED skey
          /\ uGot \in Seq(Payload)
      BY <1>14 DEF ServerUpCopy, IInv, ServerInv, GotType
    <3>2. Head(c2s) = Frame("data", skey, Len(uGot) + 1) \/ Head(c2s) = Frame("zero", skey, 0)
      BY <2>2, <3>1 DEF Awaits, AtBoundary
    <3>3. CASE Head(c2s).t = "zero"
      <4>1. zeroSeen' /\ Head(c2s).k = skey
        BY <1>14, <3>2, <3>3, FrameFields DEF ServerUpCopy
      <4>2. g = Frame("header", skey + 1, 0)
        BY <2>3, <3>3, <4>1 DEF Follows
      <4> QED
        BY <3>1, <4>1, <4>2 DEF Awaits, AtBoundary
    <3>4. CASE Head(c2s).t # "zero"
      <4>1. Head(c2s).k = skey /\ Head(c2s).i = Len(uGot) + 1 /\ ~zeroSeen'
        BY <1>14, <3>1, <3>2, <3>4, FrameFields DEF ServerUpCopy
      <4>2. g = Frame("data", skey, Len(uGot) + 1 + 1) \/ g = Frame("zero", skey, 0)
        BY <2>3, <3>4, <4>1 DEF Follows
      <4>3. CASE sUp' = "done"
        BY <3>1, <4>1, <4>2, <4>3, FrameFields DEF Awaits, AtBoundary
      <4>4. CASE sUp' # "done"
        <5>1. uGot' = Append(uGot, Item(Head(c2s))) /\ sUp' = "run"
          BY <1>14, <3>1, <3>4, <4>4 DEF ServerUpCopy, ServerUpEnds
        <5>2. Len(uGot') = Len(uGot) + 1
          BY <3>1, <5>1, HeadC2S, ItemType, <2>1 DEF IInv
        <5> QED
          BY <3>1, <4>1, <4>2, <5>1, <5>2 DEF Awaits, AtBoundary
      <4> QED
        BY <4>3, <4>4
    <3> QED
      BY <3>3, <3>4
  <2> QED
    BY <2>1, <2>3, RequestsTake
<1>15. CASE ServerDrain
  <2>1. c2s # <<>> /\ c2s' = Tail(c2s) /\ UNCHANGED <<client, lSent, broken>> /\ sst # "closed"
    BY <1>15 DEF ServerDrain
  <2>2. Awaits(Head(c2s)) /\ Head(c2s).i \in Nat
    BY <2>1, NextRequest
  <2>3. ASSUME NEW g \in C2SFrame, Follows(Head(c2s), g)
        PROVE  sst' = "closed" \/ Awaits(g)'
    <3>1. sst = "drain" /\ ~zeroSeen /\ ~refused /\ UNCHANGED <<skey, refused>>
      BY <1>15 DEF ServerDrain, IInv, ServerInv
    <3>2. Head(c2s).k = skey
      BY <2>2, <3>1 DEF Awaits, AtBoundary
    <3>3. CASE Head(c2s).t = "zero"
      <4>1. sst' = "request"
        BY <1>15, <3>3 DEF ServerDrain
      <4> QED
        BY <2>3, <3>1, <3>2, <3>3, <4>1 DEF Follows, Awaits, AtBoundary
    <3>4. CASE Head(c2s).t # "zero"
      <4>1. sst' = "drain" /\ ~zeroSeen'
        BY <1>15, <3>1, <3>4 DEF ServerDrain
      <4> QED
        BY <2>3, <3>1, <3>2, <3>4, <4>1, FrameFields DEF Follows, Awaits, AtBoundary
    <3> QED
      BY <3>3, <3>4
  <2> QED
    BY <2>1, <2>3, RequestsTake
<1>16. CASE ServerRequestFail
  <2>1. UNCHANGED <<client, lSent, c2s>> /\ (broken => broken')
    BY <1>16 DEF ServerRequestFail, local
  <2>2. ASSUME NEW f \in C2SFrame, sst = "closed" \/ Awaits(f)
        PROVE  sst' = "closed" \/ Awaits(f)'
    BY <1>16, <2>2, FrameFields DEF ServerRequestFail, Awaits, AtBoundary
  <2>3. \A f \in Writes' : f \in Writes
    BY <2>1 DEF Writes
  <2> QED
    BY <1>a, <2>1, <2>2, <2>3, RequestsRest
<1>17. CASE ServerDialOk
  <2>1. UNCHANGED <<client, lSent, c2s>> /\ (broken => broken')
    BY <1>17 DEF ServerDialOk, local
  <2>2. ASSUME NEW f \in C2SFrame, sst = "closed" \/ Awaits(f)
        PROVE  sst' = "closed" \/ Awaits(f)'
    BY <1>17, <2>2, FrameFields DEF ServerDialOk, Awaits, AtBoundary
  <2>3. \A f \in Writes' : f \in Writes
    BY <2>1 DEF Writes
  <2> QED
    BY <1>a, <2>1, <2>2, <2>3, RequestsRest
<1>18. CASE ServerDialFail
  <2>1. UNCHANGED <<client, lSent, c2s>> /\ (broken => broken')
    BY <1>18 DEF ServerDialFail, local
  <2>2. ASSUME NEW f \in C2SFrame, sst = "closed" \/ Awaits(f)
        PROVE  sst' = "closed" \/ Awaits(f)'
    BY <1>18, <2>2, FrameFields DEF ServerDialFail, Awaits, AtBoundary
  <2>3. \A f \in Writes' : f \in Writes
    BY <2>1 DEF Writes
  <2> QED
    BY <1>a, <2>1, <2>2, <2>3, RequestsRest
<1>19. CASE ServerUpStop
  <2>1. UNCHANGED <<client, lSent, c2s>> /\ (broken => broken')
    BY <1>19 DEF ServerUpStop, local
  <2>2. ASSUME NEW f \in C2SFrame, sst = "closed" \/ Awaits(f)
        PROVE  sst' = "closed" \/ Awaits(f)'
    BY <1>19, <2>2, FrameFields DEF ServerUpStop, ServerUpEnds, Awaits, AtBoundary
  <2>3. \A f \in Writes' : f \in Writes
    BY <2>1 DEF Writes
  <2> QED
    BY <1>a, <2>1, <2>2, <2>3, RequestsRest
<1>20. CASE ServerDownCopy
  <2>1. UNCHANGED <<client, lSent, c2s>> /\ (broken => broken')
    BY <1>20 DEF ServerDownCopy, local
  <2>2. ASSUME NEW f \in C2SFrame, sst = "closed" \/ Awaits(f)
        PROVE  sst' = "closed" \/ Awaits(f)'
    BY <1>20, <2>2, FrameFields DEF ServerDownCopy, ServerDownEnds, Awaits, AtBoundary
  <2>3. \A f \in Writes' : f \in Writes
    BY <2>1 DEF Writes
  <2> QED
    BY <1>a, <2>1, <2>2, <2>3, RequestsRest
<1>21. CASE ServerDownHalts
  <2>1. UNCHANGED <<client, lSent, c2s>> /\ (broken => broken')
    BY <1>21 DEF ServerDownHalts, local
  <2>2. ASSUME NEW f \in C2SFrame, sst = "closed" \/ Awaits(f)
        PROVE  sst' = "closed" \/ Awaits(f)'
    BY <1>21, <2>2, FrameFields DEF ServerDownHalts, ServerDownEnds, Awaits, AtBoundary
  <2>3. \A f \in Writes' : f \in Writes
    BY <2>1 DEF Writes
  <2> QED
    BY <1>a, <2>1, <2>2, <2>3, RequestsRest
<1>22. CASE ServerJoin
  <2>1. UNCHANGED <<client, lSent, c2s>> /\ (broken => broken')
    BY <1>22 DEF ServerJoin, local
  <2>2. ASSUME NEW f \in C2SFrame, sst = "closed" \/ Awaits(f)
        PROVE  sst' = "closed" \/ Awaits(f)'
    BY <1>22, <2>2, FrameFields DEF ServerJoin, Awaits, AtBoundary
  <2>3. \A f \in Writes' : f \in Writes
    BY <2>1 DEF Writes
  <2> QED
    BY <1>a, <2>1, <2>2, <2>3, RequestsRest
<1>23. CASE ServerFinish
  <2>1. UNCHANGED <<client, lSent, c2s>> /\ (broken => broken')
    BY <1>23 DEF ServerFinish, local
  <2>2. ASSUME NEW f \in C2SFrame, sst = "closed" \/ Awaits(f)
        PROVE  sst' = "closed" \/ Awaits(f)'
    BY <1>23, <2>2, FrameFields DEF ServerFinish, Awaits, AtBoundary
  <2>3. \A f \in Writes' : f \in Writes
    BY <2>1 DEF Writes
  <2> QED
    BY <1>a, <2>1, <2>2, <2>3, RequestsRest
<1>24. CASE ServerZero
  <2>1. UNCHANGED <<client, lSent, c2s>> /\ (broken => broken')
    BY <1>24 DEF ServerZero, local
  <2>2. ASSUME NEW f \in C2SFrame, sst = "closed" \/ Awaits(f)
        PROVE  sst' = "closed" \/ Awaits(f)'
    BY <1>24, <2>2, FrameFields DEF ServerZero, Awaits, AtBoundary, IInv, ServerInv
  <2>3. \A f \in Writes' : f \in Writes
    BY <2>1 DEF Writes
  <2> QED
    BY <1>a, <2>1, <2>2, <2>3, RequestsRest
<1>25. CASE ServerDrainFail
  <2>1. UNCHANGED <<client, lSent, c2s, broken>> /\ sst = "drain"
    BY <1>25 DEF ServerDrainFail
  <2>2. CASE sst' = "closed"
    <3>1. \A f \in Writes' : f \in Writes
      BY <2>1 DEF Writes
    <3> QED
      BY <1>a, <2>1, <2>2, <3>1, RequestsRest
  <2>3. CASE sst' # "closed"
    <3>1. c2s' = <<>> /\ cst' = "closed"
      BY <1>25, <2>1, <2>3 DEF ServerDrainFail, cClosed
    <3>2. Writes' = {} /\ Len(c2s') = 0
      BY <3>1 DEF Writes
    <3> QED
      BY <3>1, <3>2 DEF Requests
  <2> QED
    BY <2>2, <2>3
<1>26. CASE UpstreamSend
  <2>1. UNCHANGED <<client, lSent, c2s>> /\ (broken => broken')
    BY <1>26 DEF UpstreamSend, local
  <2>2. ASSUME NEW f \in C2SFrame, sst = "closed" \/ Awaits(f)
        PROVE  sst' = "closed" \/ Awaits(f)'
    BY <1>26, <2>2, FrameFields DEF UpstreamSend, Awaits, AtBoundary
  <2>3. \A f \in Writes' : f \in Writes
    BY <2>1 DEF Writes
  <2> QED
    BY <1>a, <2>1, <2>2, <2>3, RequestsRest
<1>27. CASE UpstreamClose
  <2>1. UNCHANGED <<client, lSent, c2s>> /\ (broken => broken')
    BY <1>27 DEF UpstreamClose, local
  <2>2. ASSUME NEW f \in C2SFrame, sst = "closed" \/ Awaits(f)
        PROVE  sst' = "closed" \/ Awaits(f)'
    BY <1>27, <2>2, FrameFields DEF UpstreamClose, Awaits, AtBoundary
  <2>3. \A f \in Writes' : f \in Writes
    BY <2>1 DEF Writes
  <2> QED
    BY <1>a, <2>1, <2>2, <2>3, RequestsRest
<1>28. CASE NetBreak
  <2>1. UNCHANGED <<client, lSent, c2s>> /\ (broken => broken')
    BY <1>28 DEF NetBreak, local
  <2>2. ASSUME NEW f \in C2SFrame, sst = "closed" \/ Awaits(f)
        PROVE  sst' = "closed" \/ Awaits(f)'
    BY <1>28, <2>2, FrameFields DEF NetBreak, Awaits, AtBoundary
  <2>3. \A f \in Writes' : f \in Writes
    BY <2>1 DEF Writes
  <2> QED
    BY <1>a, <2>1, <2>2, <2>3, RequestsRest
<1>29. CASE ServerUpRefused
  <2>1. UNCHANGED <<client, lSent, c2s>> /\ (broken => broken')
    BY <1>29 DEF ServerUpRefused, local
  <2>2. ASSUME NEW f \in C2SFrame, sst = "closed" \/ Awaits(f)
        PROVE  sst' = "closed" \/ Awaits(f)'
    BY <1>29, <2>2, FrameFields DEF ServerUpRefused, ServerUpEnds, Awaits, AtBoundary
  <2>3. \A f \in Writes' : f \in Writes
    BY <2>1 DEF Writes
  <2> QED
    BY <1>a, <2>1, <2>2, <2>3, RequestsRest
<1> QED
  BY <1>1, <1>2, <1>3, <1>4, <1>5, <1>6, <1>7, <1>8, <1>9, <1>10, <1>11, <1>12,
     <1>13, <1>14, <1>15, <1>16, <1>17, <1>18, <1>19, <1>20, <1>21, <1>22, <1>23,
     <1>24, <1>25, <1>26, <1>27, <1>28, <1>29 DEF Action

-----------------------------------------------------------------------------
(* The responses in flight *)

LEMMA RepliesType == IInv => Replies \subseteq S2CFrame
<1> SUFFICES ASSUME IInv PROVE Replies \subseteq S2CFrame
  OBVIOUS
<1>1. skey \in Nat /\ skey + 1 \in Nat /\ uRead + 1 \in Nat
  BY BoundsAssumption DEF IInv, PlaceType
<1>2. \A t \in S2CType, k \in Nat, i \in Nat : Frame(t, k, i) \in S2CFrame
  BY DEF Frame, S2CFrame
<1> QED
  BY <1>1, <1>2 DEF Replies, Starts, S2CType

LEMMA S2CPlaces ==
    ASSUME IInv
    PROVE  /\ s2c \in Seq(S2CFrame) /\ Len(s2c) \in Nat
           /\ \A n \in 1..Len(s2c) : s2c[n] \in S2CFrame
           /\ s2c # <<>> => /\ Len(s2c) > 0 /\ Head(s2c) = s2c[1] /\ Head(s2c) \in S2CFrame
                            /\ s2c[Len(s2c)] \in S2CFrame
<1>1. s2c \in Seq(S2CFrame)
  BY DEF IInv, FlightType
<1>2. s2c # <<>> => Len(s2c) > 0
  BY <1>1
<1> QED
  BY <1>1, <1>2

(* Nothing is put in flight or taken from it. *)
LEMMA ResponsesRest ==
    ASSUME IInv, UNCHANGED s2c, broken => broken',
           cst' # "closed" =>
             /\ cst # "closed"
             /\ broken' \/ \A f \in Replies' : f \in Replies
             /\ \A f \in S2CFrame : Expects(f) => Expects(f)'
             /\ \A f \in S2CFrame : Known(f) => Known(f)'
    PROVE  Responses'
<1> SUFFICES ASSUME cst' # "closed" PROVE Responses'
  BY DEF Responses
<1>1. /\ s2c \in Seq(S2CFrame) /\ Len(s2c) \in Nat
      /\ \A n \in 1..Len(s2c) : s2c[n] \in S2CFrame
      /\ s2c # <<>> => Head(s2c) \in S2CFrame
  BY S2CPlaces
<1>2. \A n \in 1..Len(s2c') - 1 : Answers(s2c'[n], s2c'[n + 1])
  BY DEF IInv, Responses
<1>3. s2c' # <<>> => Expects(Head(s2c))'
  <2>1. SUFFICES ASSUME s2c # <<>>, NEW h, h = Head(s2c) PROVE Expects(h)'
    BY DEF Expects
  <2>2. h \in S2CFrame /\ Expects(h)
    BY <1>1, <2>1 DEF IInv, Responses
  <2> QED
    BY <2>2
<1>4. ASSUME ~broken', NEW f \in Replies'
      PROVE  IF s2c' = <<>> THEN Expects(f)' ELSE Answers(s2c'[Len(s2c')], f)
  <2>1. f \in Replies /\ f \in S2CFrame
    BY <1>4, RepliesType
  <2> QED
    BY <1>4, <2>1 DEF IInv, Responses
<1>5. ASSUME NEW n \in 1..Len(s2c') PROVE Known(s2c[n])'
  <2>1. PICK g : g = s2c[n]
    OBVIOUS
  <2>2. g \in S2CFrame /\ Known(g)
    BY <1>1, <1>5, <2>1 DEF IInv, Responses
  <2>3. Known(g)'
    BY <2>2
  <2> QED
    BY <2>1, <2>3 DEF Known, Complete
<1> QED
  BY <1>2, <1>3, <1>4, <1>5 DEF Responses, Expects

(* The server puts fs in flight. *)
LEMMA ResponsesPut ==
    ASSUME IInv, NEW fs \in Seq(S2CFrame), fs # <<>>, fs[1] \in Replies, ~broken,
           s2c' = s2c \o fs, UNCHANGED <<client, lGot>>,
           \A n \in 1..Len(fs) - 1 : Answers(fs[n], fs[n + 1]),
           \A g \in Replies' : Answers(fs[Len(fs)], g),
           cst # "closed" => /\ \A g \in S2CFrame : Known(g) => Known(g)'
                             /\ \A n \in 1..Len(fs) : Known(fs[n])'
    PROVE  Responses'
<1> SUFFICES ASSUME cst # "closed" PROVE Responses'
  BY SameParts DEF Responses
<1>1. /\ s2c \in Seq(S2CFrame) /\ Len(s2c) \in Nat /\ Len(fs) \in Nat /\ Len(fs) > 0
      /\ s2c # <<>> => Len(s2c) > 0 /\ Head(s2c) = s2c[1]
      /\ s2c = <<>> => Len(s2c) = 0
  BY S2CPlaces, EmptySeq
<1>2. /\ s2c' \in Seq(S2CFrame) /\ Len(s2c') = Len(s2c) + Len(fs) /\ s2c' # <<>>
      /\ \A n \in 1..Len(s2c) : s2c'[n] = s2c[n]
      /\ \A n \in 1..Len(fs) : s2c'[Len(s2c) + n] = fs[n]
      /\ Head(s2c') = s2c'[1]
  BY <1>1
<1>3. IF s2c = <<>> THEN Expects(fs[1]) ELSE Answers(s2c[Len(s2c)], fs[1])
  BY DEF IInv, Responses
<1>4. \A n \in 1..Len(s2c') - 1 : Answers(s2c'[n], s2c'[n + 1])
  <2>1. SUFFICES ASSUME NEW n \in 1..Len(s2c') - 1 PROVE Answers(s2c'[n], s2c'[n + 1])
    OBVIOUS
  <2>2. CASE n = Len(s2c)
    <3>1. s2c'[n] = s2c[n] /\ s2c'[n + 1] = fs[1] /\ s2c # <<>>
      BY <1>1, <1>2, <2>1, <2>2
    <3> QED
      BY <1>3, <2>2, <3>1
  <2>3. CASE n < Len(s2c)
    <3>1. n \in 1..Len(s2c) - 1 /\ n + 1 \in 1..Len(s2c) /\ n \in 1..Len(s2c)
      BY <1>1, <2>1, <2>3
    <3>2. Answers(s2c[n], s2c[n + 1])
      BY <3>1 DEF IInv, Responses
    <3> QED
      BY <1>2, <3>1, <3>2
  <2>4. CASE n > Len(s2c)
    <3>1. PICK j \in 1..Len(fs) - 1 : n = Len(s2c) + j
      <4>1. n - Len(s2c) \in 1..Len(fs) - 1 /\ n = Len(s2c) + (n - Len(s2c))
        BY <1>1, <1>2, <2>1, <2>4
      <4> QED
        BY <4>1
    <3>2. n + 1 = Len(s2c) + (j + 1) /\ j \in 1..Len(fs) /\ j + 1 \in 1..Len(fs)
      BY <1>1, <3>1
    <3>3. s2c'[n] = fs[j] /\ s2c'[n + 1] = fs[j + 1]
      BY <1>2, <3>1, <3>2
    <3> QED
      BY <3>1, <3>3
  <2> QED
    BY <1>1, <2>1, <2>2, <2>3, <2>4
<1>5. ASSUME NEW h, h = Head(s2c') PROVE Expects(h)'
  <2>1. Expects(h)
    <3>1. CASE s2c = <<>>
      BY <1>1, <1>2, <1>3, <1>5, <3>1
    <3>2. CASE s2c # <<>>
      <4>1. h = Head(s2c)
        BY <1>1, <1>2, <1>5, <3>2
      <4> QED
        BY <3>2, <4>1 DEF IInv, Responses
    <3> QED
      BY <3>1, <3>2
  <2> QED
    BY <2>1, SameParts DEF Expects
<1>6. ASSUME NEW g \in Replies' PROVE Answers(s2c'[Len(s2c')], g)
  <2>1. s2c'[Len(s2c')] = fs[Len(fs)]
    BY <1>1, <1>2
  <2> QED
    BY <1>6, <2>1
<1>7. ASSUME NEW n \in 1..Len(s2c'), NEW g, g = s2c'[n] PROVE Known(g)'
  <2>1. CASE n <= Len(s2c)
    <3>1. n \in 1..Len(s2c)
      BY <1>1, <1>2, <1>7, <2>1
    <3>2. g = s2c[n] /\ g \in S2CFrame
      BY <1>1, <1>2, <1>7, <3>1
    <3>3. Known(g)
      BY <3>1, <3>2 DEF IInv, Responses
    <3> QED
      BY <3>2, <3>3
  <2>2. CASE n > Len(s2c)
    <3>1. PICK j \in 1..Len(fs) : n = Len(s2c) + j
      <4>1. n - Len(s2c) \in 1..Len(fs) /\ n = Len(s2c) + (n - Len(s2c))
        BY <1>1, <1>2, <1>7, <2>2
      <4> QED
        BY <4>1
    <3>2. g = fs[j]
      BY <1>2, <1>7, <3>1
    <3> QED
      BY <3>1, <3>2
  <2> QED
    BY <1>1, <1>7, <2>1, <2>2
<1>8. \A n \in 1..Len(s2c') : Known(s2c[n])'
  BY <1>7 DEF Known, Complete
<1>9. Expects(Head(s2c))'
  BY <1>5 DEF Expects
<1> QED
  BY <1>2, <1>4, <1>6, <1>8, <1>9 DEF Responses

(* The server puts the one frame f in flight. *)
LEMMA ResponsesPutOne ==
    ASSUME IInv, NEW f \in S2CFrame, f \in Replies, ~broken,
           s2c' = s2c \o <<f>>, UNCHANGED <<client, lGot>>,
           \A g \in Replies' : Answers(f, g),
           cst # "closed" => (\A g \in S2CFrame : Known(g) => Known(g)') /\ Known(f)'
    PROVE  Responses'
<1> DEFINE fs == <<f>>
<1>1. fs \in Seq(S2CFrame) /\ fs # <<>> /\ Len(fs) = 1 /\ fs[1] = f
  OBVIOUS
<1>2. \A n \in 1..Len(fs) - 1 : Answers(fs[n], fs[n + 1])
  BY <1>1
<1>3. \A n \in 1..Len(fs) : fs[n] = f
  BY <1>1
<1>4. cst # "closed" => \A n \in 1..Len(fs) : Known(fs[n])'
  BY <1>3
<1>5. s2c' = s2c \o fs
  OBVIOUS
<1> HIDE DEF fs
<1> QED
  BY <1>1, <1>2, <1>4, <1>5, ResponsesPut

(* The client takes the first frame. *)
LEMMA ResponsesTake ==
    ASSUME IInv, s2c # <<>>, s2c' = Tail(s2c), UNCHANGED <<server, upstream, broken>>, ~cClosed,
           cst' # "closed" => \A g \in S2CFrame : Answers(Head(s2c), g) => Expects(g)'
    PROVE  Responses'
<1> SUFFICES ASSUME cst' # "closed" PROVE Responses'
  BY DEF Responses
<1>1. s2c \in Seq(S2CFrame) /\ Len(s2c) \in Nat /\ Len(s2c) > 0
  BY S2CPlaces
<1>2. /\ s2c' \in Seq(S2CFrame) /\ Len(s2c') = Len(s2c) - 1 /\ Head(s2c) = s2c[1]
      /\ \A n \in 1..Len(s2c') : s2c'[n] = s2c[n + 1]
      /\ s2c' # <<>> => Head(s2c') = s2c'[1] /\ Len(s2c') > 0
      /\ s2c' = <<>> => Len(s2c) = 1
  BY <1>1, QueueTail
<1>3. \A n \in 1..Len(s2c') - 1 : Answers(s2c'[n], s2c'[n + 1])
  <2>1. SUFFICES ASSUME NEW n \in 1..Len(s2c') - 1 PROVE Answers(s2c'[n], s2c'[n + 1])
    OBVIOUS
  <2>2. /\ n \in 1..Len(s2c') /\ n + 1 \in 1..Len(s2c') /\ n + 1 \in 1..Len(s2c) - 1
    BY <1>1, <1>2
  <2>3. Answers(s2c[n + 1], s2c[(n + 1) + 1])
    BY <2>2 DEF IInv, Responses, cClosed
  <2> QED
    BY <1>2, <2>2, <2>3
<1>4. s2c' # <<>> => Expects(Head(s2c))'
  <2>1. SUFFICES ASSUME s2c' # <<>>, NEW g, g = Head(s2c') PROVE Expects(g)'
    BY DEF Expects
  <2>2. g = s2c[2] /\ g \in S2CFrame /\ 1 \in 1..Len(s2c) - 1
    BY <1>1, <1>2, <2>1
  <2>3. Answers(Head(s2c), s2c[1 + 1])
    BY <1>2, <2>2 DEF IInv, Responses, cClosed
  <2> QED
    BY <2>2, <2>3
<1>5. ASSUME ~broken', NEW f \in Replies'
      PROVE  IF s2c' = <<>> THEN Expects(f)' ELSE Answers(s2c'[Len(s2c')], f)
  <2>1. f \in Replies
    BY <1>5, SameParts DEF Replies
  <2>2. f \in S2CFrame /\ Answers(s2c[Len(s2c)], f)
    BY <1>5, <2>1, RepliesType DEF IInv, Responses, cClosed
  <2>3. CASE s2c' = <<>>
    BY <1>2, <2>2, <2>3
  <2>4. CASE s2c' # <<>>
    <3>1. s2c'[Len(s2c')] = s2c[Len(s2c)]
      BY <1>1, <1>2, <2>4
    <3> QED
      BY <2>2, <2>4, <3>1
  <2> QED
    BY <2>3, <2>4
<1>6. ASSUME NEW n \in 1..Len(s2c') PROVE Known(s2c[n])'
  <2>1. PICK g : g = s2c'[n]
    OBVIOUS
  <2>2. n + 1 \in 1..Len(s2c) /\ g = s2c[n + 1]
    BY <1>1, <1>2, <1>6, <2>1
  <2>3. Known(g)
    BY <2>2 DEF IInv, Responses, cClosed
  <2>4. Known(g)'
    BY <2>3, SameParts DEF Known, Complete
  <2> QED
    BY <2>1, <2>4 DEF Known, Complete
<1> QED
  BY <1>3, <1>4, <1>5, <1>6 DEF Responses, Expects

LEMMA ResponsesStep == ASSUME MaxUses <= 2 PROVE IInv /\ Action => Responses'
<1> SUFFICES ASSUME IInv, Action PROVE Responses'
  OBVIOUS
<1> USE SameParts
<1>a. /\ PlaceType /\ FlagType /\ sess \in Nat /\ skey \in Nat /\ uRead \in Nat /\ uRead + 1 \in Nat
      /\ \A t \in S2CType, k \in Nat, i \in Nat : Frame(t, k, i) \in S2CFrame
      /\ \A f \in S2CFrame : f.t \in S2CType /\ f.k \in Nat /\ f.i \in Nat
  BY BoundsAssumption DEF IInv, PlaceType, Frame, S2CFrame
<1>b. ASSUME UNCHANGED <<server, upstream>>
      PROVE  /\ \A f \in Replies' : f \in Replies
             /\ \A f \in S2CFrame : Known(f) => Known(f)'
  BY <1>b DEF Replies, Known, Complete
<1>c. ASSUME UNCHANGED <<client, lGot>>
      PROVE  \A f \in S2CFrame : Expects(f) => Expects(f)'
  BY <1>c DEF Expects
<1>1. CASE ClientWriteHeader
  <2>1. UNCHANGED <<server, upstream, s2c, broken>> /\ (cst' # "closed" => cst # "closed")
    BY <1>1 DEF ClientWriteHeader
  <2>2. ASSUME cst' # "closed", NEW f \in S2CFrame, Expects(f) PROVE Expects(f)'
    BY <1>1, <1>a, <2>2 DEF ClientWriteHeader, Expects, IInv, ClientInv
  <2> QED
    BY <1>b, <2>1, <2>2, ResponsesRest
<1>2. CASE ClientUpCopy
  <2>1. UNCHANGED <<server, upstream, s2c, broken>> /\ (cst' # "closed" => cst # "closed")
    BY <1>2 DEF ClientUpCopy
  <2>2. ASSUME cst' # "closed", NEW f \in S2CFrame, Expects(f) PROVE Expects(f)'
    BY <1>2, <1>a, <2>2 DEF ClientUpCopy, ClientUpEnds, Expects
  <2> QED
    BY <1>b, <2>1, <2>2, ResponsesRest
<1>3. CASE ClientUpHalts
  <2>1. UNCHANGED <<server, upstream, s2c, broken>> /\ (cst' # "closed" => cst # "closed")
    BY <1>3 DEF ClientUpHalts
  <2>2. ASSUME cst' # "closed", NEW f \in S2CFrame, Expects(f) PROVE Expects(f)'
    BY <1>3, <1>a, <2>2 DEF ClientUpHalts, ClientUpEnds, Expects
  <2> QED
    BY <1>b, <2>1, <2>2, ResponsesRest
<1>4. CASE ClientDownHalts
  <2>1. UNCHANGED <<server, upstream, s2c, broken>> /\ (cst' # "closed" => cst # "closed")
    BY <1>4 DEF ClientDownHalts
  <2>2. ASSUME cst' # "closed", NEW f \in S2CFrame, Expects(f) PROVE Expects(f)'
    BY <1>4, <1>a, <2>2 DEF ClientDownHalts, ClientDownEnds, Expects
  <2> QED
    BY <1>b, <2>1, <2>2, ResponsesRest
<1>5. CASE ClientJoin
  <2>1. UNCHANGED <<server, upstream, s2c, broken>> /\ (cst' # "closed" => cst # "closed")
    BY <1>5 DEF ClientJoin
  <2>2. ASSUME cst' # "closed", NEW f \in S2CFrame, Expects(f) PROVE Expects(f)'
    BY <1>5, <1>a, <2>2 DEF ClientJoin, Expects
  <2> QED
    BY <1>b, <2>1, <2>2, ResponsesRest
<1>6. CASE ClientClose
  <2>1. UNCHANGED <<server, upstream, s2c, broken>> /\ (cst' # "closed" => cst # "closed")
    BY <1>6 DEF ClientClose
  <2>2. ASSUME cst' # "closed", NEW f \in S2CFrame, Expects(f) PROVE Expects(f)'
    BY <1>6, <1>a, <2>2 DEF ClientClose, Expects
  <2> QED
    BY <1>b, <2>1, <2>2, ResponsesRest
<1>7. CASE ClientDrainFail
  <2>1. UNCHANGED <<server, upstream, s2c, broken>> /\ (cst' # "closed" => cst # "closed")
    BY <1>7 DEF ClientDrainFail
  <2>2. ASSUME cst' # "closed", NEW f \in S2CFrame, Expects(f) PROVE Expects(f)'
    BY <1>7, <1>a, <2>2 DEF ClientDrainFail, Expects
  <2> QED
    BY <1>b, <2>1, <2>2, ResponsesRest
<1>8. CASE ClientTake
  <2>1. UNCHANGED <<server, upstream, s2c, broken>> /\ (cst' # "closed" => cst # "closed")
    BY <1>8 DEF ClientTake
  <2>2. ASSUME cst' # "closed", NEW f \in S2CFrame, Expects(f) PROVE Expects(f)'
    BY <1>8, <1>a, <2>2 DEF ClientTake, Expects
  <2> QED
    BY <1>b, <2>1, <2>2, ResponsesRest
<1>9. CASE ClientExpire
  <2>1. UNCHANGED <<server, upstream, s2c, broken>> /\ (cst' # "closed" => cst # "closed")
    BY <1>9 DEF ClientExpire
  <2>2. ASSUME cst' # "closed", NEW f \in S2CFrame, Expects(f) PROVE Expects(f)'
    BY <1>9, <1>a, <2>2 DEF ClientExpire, Expects
  <2> QED
    BY <1>b, <2>1, <2>2, ResponsesRest
<1>10. CASE LocalClose
  <2>1. UNCHANGED <<server, upstream, s2c, broken>> /\ (cst' # "closed" => cst # "closed")
    BY <1>10 DEF LocalClose
  <2>2. ASSUME cst' # "closed", NEW f \in S2CFrame, Expects(f) PROVE Expects(f)'
    BY <1>10, <1>a, <2>2 DEF LocalClose, Expects
  <2> QED
    BY <1>b, <2>1, <2>2, ResponsesRest
<1>11. CASE ServerRequestFail
  <2>1. UNCHANGED <<client, lGot, s2c>> /\ (broken => broken')
    BY <1>11 DEF ServerRequestFail, local
  <2>2. \A f \in Replies' : f \in Replies
    BY <1>11 DEF ServerRequestFail, Replies, Starts
  <2>3. ASSUME NEW f \in S2CFrame, Known(f) PROVE Known(f)'
    BY <1>11, <1>a, <2>3 DEF ServerRequestFail, Known, Complete
  <2> QED
    BY <1>c, <2>1, <2>2, <2>3, ResponsesRest
<1>12. CASE ServerDialOk
  <2>1. UNCHANGED <<client, lGot, s2c>> /\ (broken => broken')
    BY <1>12 DEF ServerDialOk, local
  <2>2. \A f \in Replies' : f \in Replies
    BY <1>12 DEF ServerDialOk, Replies, Starts
  <2>3. ASSUME NEW f \in S2CFrame, Known(f) PROVE Known(f)'
    BY <1>12, <1>a, <2>3 DEF ServerDialOk, Known
  <2> QED
    BY <1>c, <2>1, <2>2, <2>3, ResponsesRest
<1>13. CASE ServerUpCopy
  <2>1. UNCHANGED <<client, lGot, s2c>> /\ (broken => broken')
    BY <1>13 DEF ServerUpCopy, local
  <2>2. \A f \in Replies' : f \in Replies
    BY <1>13 DEF ServerUpCopy, ServerUpEnds, Replies, Starts
  <2>3. ASSUME NEW f \in S2CFrame, Known(f) PROVE Known(f)'
    BY <1>13, <1>a, <2>3 DEF ServerUpCopy, ServerUpEnds, Known
  <2> QED
    BY <1>c, <2>1, <2>2, <2>3, ResponsesRest
<1>14. CASE ServerUpStop
  <2>1. UNCHANGED <<client, lGot, s2c>> /\ (broken => broken')
    BY <1>14 DEF ServerUpStop, local
  <2>2. \A f \in Replies' : f \in Replies
    BY <1>14 DEF ServerUpStop, ServerUpEnds, Replies, Starts
  <2>3. ASSUME NEW f \in S2CFrame, Known(f) PROVE Known(f)'
    BY <1>14, <1>a, <2>3 DEF ServerUpStop, ServerUpEnds, Known
  <2> QED
    BY <1>c, <2>1, <2>2, <2>3, ResponsesRest
<1>15. CASE ServerDownHalts
  <2>1. UNCHANGED <<client, lGot, s2c>> /\ (broken => broken')
    BY <1>15 DEF ServerDownHalts, local
  <2>2. \A f \in Replies' : f \in Replies
    BY <1>15 DEF ServerDownHalts, ServerDownEnds, Replies, Starts
  <2>3. ASSUME NEW f \in S2CFrame, Known(f) PROVE Known(f)'
    BY <1>15, <1>a, <2>3 DEF ServerDownHalts, ServerDownEnds, Known
  <2> QED
    BY <1>c, <2>1, <2>2, <2>3, ResponsesRest
<1>16. CASE ServerJoin
  <2>1. UNCHANGED <<client, lGot, s2c>> /\ (broken => broken')
    BY <1>16 DEF ServerJoin, local
  <2>2. \A f \in Replies' : f \in Replies
    BY <1>16 DEF ServerJoin, Replies, Starts
  <2>3. ASSUME NEW f \in S2CFrame, Known(f) PROVE Known(f)'
    BY <1>16, <1>a, <2>3 DEF ServerJoin, Known
  <2> QED
    BY <1>c, <2>1, <2>2, <2>3, ResponsesRest
<1>17. CASE ServerDrain
  <2>1. UNCHANGED <<client, lGot, s2c>> /\ (broken => broken')
    BY <1>17 DEF ServerDrain, local
  <2>2. \A f \in Replies' : f \in Replies
    BY <1>17 DEF ServerDrain, Replies, Starts
  <2>3. ASSUME NEW f \in S2CFrame, Known(f) PROVE Known(f)'
    BY <1>17, <1>a, <2>3 DEF ServerDrain, Known, Complete
  <2> QED
    BY <1>c, <2>1, <2>2, <2>3, ResponsesRest
<1>18. CASE ServerDrainFail
  <2>1. UNCHANGED <<client, lGot, s2c>> /\ (broken => broken')
    BY <1>18 DEF ServerDrainFail, local
  <2>2. \A f \in Replies' : f \in Replies
    BY <1>18 DEF ServerDrainFail, Replies, Starts
  <2>3. ASSUME NEW f \in S2CFrame, Known(f) PROVE Known(f)'
    BY <1>18, <1>a, <2>3 DEF ServerDrainFail, Known, Complete
  <2> QED
    BY <1>c, <2>1, <2>2, <2>3, ResponsesRest
<1>19. CASE UpstreamSend
  <2>1. UNCHANGED <<client, lGot, s2c>> /\ (broken => broken')
    BY <1>19 DEF UpstreamSend, local
  <2>2. \A f \in Replies' : f \in Replies
    BY <1>19 DEF UpstreamSend, Replies, Starts
  <2>3. ASSUME NEW f \in S2CFrame, Known(f) PROVE Known(f)'
    BY <1>19, <1>a, <2>3 DEF UpstreamSend, Known
  <2> QED
    BY <1>c, <2>1, <2>2, <2>3, ResponsesRest
<1>20. CASE UpstreamClose
  <2>1. UNCHANGED <<client, lGot, s2c>> /\ (broken => broken')
    BY <1>20 DEF UpstreamClose, local
  <2>2. \A f \in Replies' : f \in Replies
    BY <1>20 DEF UpstreamClose, Replies, Starts
  <2>3. ASSUME NEW f \in S2CFrame, Known(f) PROVE Known(f)'
    BY <1>20, <1>a, <2>3 DEF UpstreamClose, Known
  <2> QED
    BY <1>c, <2>1, <2>2, <2>3, ResponsesRest
<1>21. CASE NetBreak
  <2>1. UNCHANGED <<client, lGot, s2c>> /\ (broken => broken')
    BY <1>21 DEF NetBreak, local
  <2>2. \A f \in Replies' : f \in Replies
    BY <1>21 DEF NetBreak, Replies, Starts
  <2>3. ASSUME NEW f \in S2CFrame, Known(f) PROVE Known(f)'
    BY <1>21, <1>a, <2>3 DEF NetBreak, Known, Complete
  <2> QED
    BY <1>c, <2>1, <2>2, <2>3, ResponsesRest
<1>22. CASE ServerRequest
  <2>1. UNCHANGED <<client, lGot, s2c, broken>> /\ c2s # <<>> /\ sst = "request"
    BY <1>22 DEF ServerRequest, local
  <2>2. Awaits(Head(c2s))
    BY <2>1, NextRequest
  <2>3. CASE sst' = "dial"
    <3>1. sst' = "dial" /\ ~refused' /\ skey' = skey + 1 /\ ~refused
      BY <1>22, <2>1, <2>2, <2>3, FrameFields DEF ServerRequest, Awaits, AtBoundary
    <3>2. \A f \in Replies' : f \in Replies
      BY <2>1, <3>1 DEF Replies
    <3>3. \A f \in S2CFrame : Known(f) => Known(f)'
      BY <1>a, <3>1 DEF Known
    <3> QED
      BY <1>c, <2>1, <3>2, <3>3, ResponsesRest
  <2>4. CASE sst' # "dial"
    <3>1. sst' = "closed" /\ UNCHANGED <<skey, refused, upstream, zeroSeen>>
      BY <1>22, <2>4 DEF ServerRequest
    <3>2. \A f \in Replies' : f \in Replies
      BY <3>1 DEF Replies
    <3>3. \A f \in S2CFrame : Known(f) => Known(f)'
      BY <1>a, <3>1 DEF Known, Complete
    <3> QED
      BY <1>c, <2>1, <3>2, <3>3, ResponsesRest
  <2> QED
    BY <2>3, <2>4
<1>23. CASE ServerDialFail
  <2>1. /\ UNCHANGED <<client, lGot, broken, skey, upstream, zeroSeen>> /\ sst = "dial" /\ refused'
        /\ sst' \in {"request", "closed"}
        /\ s2c' = Queued(s2c, <<Frame("error", skey, 0)>>) \/ UNCHANGED s2c
    BY <1>23 DEF ServerDialFail, local
  <2>2. Replies' = {}
    BY <2>1 DEF Replies
  <2>3. ASSUME NEW f \in S2CFrame, Known(f) PROVE Known(f)'
    BY <1>a, <2>1, <2>3 DEF Known
  <2>4. CASE UNCHANGED s2c
    BY <1>c, <2>1, <2>2, <2>3, <2>4, ResponsesRest
  <2>5. CASE s2c' # s2c
    <3>1. PICK f : f = Frame("error", skey, 0)
      OBVIOUS
    <3>2. f \in S2CFrame /\ f.t = "error" /\ f.k = skey /\ f.i = 0
      BY <1>a, <3>1, FrameFields DEF S2CType
    <3>3. f \in Replies
      BY <2>1, <3>1 DEF Replies, Starts
    <3>4. ~broken /\ s2c' = s2c \o <<f>>
      BY <2>1, <2>5, <3>1 DEF Queued
    <3>5. Known(f)'
      BY <1>a, <2>1, <3>2 DEF Known, IInv, SessionInv
    <3> QED
      BY <2>1, <2>2, <2>3, <3>2, <3>3, <3>4, <3>5, ResponsesPutOne
  <2> QED
    BY <2>4, <2>5
<1>24. CASE ServerDownCopy
  <2>1. /\ UNCHANGED <<client, lGot, broken, sst, skey, zeroSeen, refused, uEOF, uErr, uSent>>
        /\ sst = "relay" /\ sDown = "run" /\ uRead' = uRead + 1 /\ sent'
        /\ \/ s2c' = Queued(s2c, LazyData(uRead + 1)) /\ UNCHANGED sDown
           \/ ServerWriteFails /\ UNCHANGED s2c
    BY <1>24 DEF ServerDownCopy, local
  <2>2. ASSUME NEW f \in S2CFrame, Known(f) PROVE Known(f)'
    BY <1>a, <2>1, <2>2 DEF Known
  <2>3. CASE UNCHANGED s2c /\ (broken \/ cClosed)
    BY <1>c, <2>1, <2>2, <2>3, ResponsesRest DEF cClosed
  <2>4. CASE ~broken /\ s2c' = Queued(s2c, LazyData(uRead + 1)) /\ UNCHANGED sDown
    <3>1. PICK f : f = Frame(IF sent THEN "data" ELSE "tunnel", skey, uRead + 1)
      OBVIOUS
    <3>2. /\ f \in S2CFrame /\ f.t = (IF sent THEN "data" ELSE "tunnel")
          /\ f.k = skey /\ f.i = uRead + 1
      BY <1>a, <3>1, FrameFields DEF S2CType
    <3>3. f \in Replies
      <4>1. sent <=> uRead > 0
        BY <2>1 DEF IInv, ServerInv
      <4> QED
        BY <1>a, <2>1, <3>1, <4>1 DEF Replies, Starts
    <3>4. s2c' = s2c \o <<f>>
      BY <2>4, <3>1 DEF Queued, LazyData
    <3>5. Known(f)'
      <4>1. 0 < skey /\ ~refused
        BY <1>a, <2>1 DEF IInv, SessionInv, ServerInv
      <4> QED
        BY <1>a, <2>1, <3>2, <4>1 DEF Known
    <3>6. \A g \in Replies' : Answers(f, g)
      <4>1. sDown' = "run" /\ sst' = "relay"
        BY <2>1, <2>4
      <4>2. \A g \in Replies' : g = Frame("data", skey, uRead + 2) \/ g = Frame("zero", skey, uRead + 2)
        BY <1>a, <2>1, <4>1 DEF Replies
      <4> QED
        BY <1>a, <3>2, <4>2 DEF Answers
    <3> QED
      BY <2>1, <2>2, <2>4, <3>2, <3>3, <3>4, <3>5, <3>6, ResponsesPutOne
  <2>5. CASE broken /\ s2c' = Queued(s2c, LazyData(uRead + 1))
    BY <2>3, <2>5 DEF Queued
  <2> QED
    BY <2>1, <2>3, <2>4, <2>5 DEF ServerWriteFails
<1>25. CASE ServerFinish
  <2>1. /\ UNCHANGED <<client, lGot, broken, skey, zeroSeen, refused, upstream>>
        /\ sst = "finish" /\ sst' \in {"zero", "closed"} /\ sent' /\ ~refused
        /\ sent <=> uRead > 0
    BY <1>25 DEF ServerFinish, local, IInv, ServerInv
  <2>2. ASSUME NEW f \in S2CFrame, Known(f) PROVE Known(f)'
    BY <1>a, <2>1, <2>2 DEF Known
  <2>3. CASE UNCHANGED s2c /\ sst' = "closed"
    <3>1. Replies' = {}
      BY <2>3 DEF Replies
    <3> QED
      BY <1>c, <2>1, <2>2, <2>3, <3>1, ResponsesRest
  <2>4. CASE UNCHANGED s2c /\ (sent \/ broken)
    <3>1. sent => \A g \in Replies' : g \in Replies
      BY <2>1 DEF Replies
    <3> QED
      BY <1>c, <2>1, <2>2, <2>4, <3>1, ResponsesRest
  <2>5. CASE ~sent /\ ~broken /\ s2c' = Queued(s2c, LazyZero(0))
    <3>1. uRead = 0
      BY <1>a, <2>1, <2>5
    <3>2. PICK fs : fs = LazyZero(0)
      OBVIOUS
    <3>3. PICK f, g : f = Frame("tunnel", skey, 0) /\ g = Frame("zero", skey, 0)
      OBVIOUS
    <3>4. /\ f \in S2CFrame /\ f.t = "tunnel" /\ f.k = skey /\ f.i = 0
          /\ g \in S2CFrame /\ g.t = "zero" /\ g.k = skey /\ g.i = 0
      BY <1>a, <3>3, FrameFields DEF S2CType
    <3>5. fs = <<f, g>>
      BY <2>5, <3>2, <3>3 DEF LazyZero
    <3>6. fs \in Seq(S2CFrame) /\ Len(fs) = 2 /\ fs[1] = f /\ fs[2] = g /\ fs # <<>>
      BY <3>4, <3>5
    <3>7. f \in Replies
      BY <2>1, <2>5, <3>3 DEF Replies
    <3>8. s2c' = s2c \o fs
      BY <2>5, <3>2 DEF Queued
    <3>9. Answers(f, g)
      BY <3>3, <3>4 DEF Answers
    <3>10. \A n \in 1..Len(fs) - 1 : Answers(fs[n], fs[n + 1])
      BY <3>6, <3>9
    <3>11. \A h \in Replies' : Answers(fs[Len(fs)], h)
      <4>1. \A h \in Replies' : h = Frame("zero", skey, 1)
        BY <2>1, <3>1 DEF Replies
      <4>2. \A h \in Replies' : Answers(g, h)
        BY <3>4, <4>1 DEF Answers
      <4> QED
        BY <3>6, <4>2
    <3>12. ASSUME cst # "closed" PROVE \A n \in 1..Len(fs) : Known(fs[n])'
      <4>1. 0 < skey
        BY <1>a, <2>1 DEF IInv, SessionInv
      <4>2. Complete
        BY <2>1, <2>5, <3>12 DEF IInv, StopInv, cClosed
      <4>3. Known(f)'
        BY <1>a, <2>1, <3>1, <3>4, <4>1 DEF Known
      <4>4. Known(g)'
        BY <1>a, <2>1, <3>1, <3>4, <4>1, <4>2 DEF Known, Complete
      <4>5. ASSUME NEW n \in 1..Len(fs), NEW h, h = fs[n] PROVE Known(h)'
        <5>1. h = f \/ h = g
          BY <3>6, <4>5
        <5> QED
          BY <4>3, <4>4, <5>1
      <4> QED
        BY <4>5
    <3> QED
      BY <2>1, <2>2, <2>5, <3>6, <3>7, <3>8, <3>10, <3>11, <3>12, ResponsesPut
  <2> QED
    BY <1>25, <2>3, <2>4, <2>5 DEF ServerFinish, Queued
<1>26. CASE ServerZero
  <2>1. /\ UNCHANGED <<client, lGot, broken, skey, zeroSeen, refused, upstream>>
        /\ sst = "zero" /\ sst' \in {"request", "drain", "closed"} /\ sent /\ ~refused
    BY <1>26 DEF ServerZero, local, IInv, ServerInv
  <2>2. ASSUME NEW f \in S2CFrame, Known(f) PROVE Known(f)'
    BY <1>a, <2>1, <2>2 DEF Known, Complete
  <2>3. CASE UNCHANGED s2c /\ sst' = "closed"
    <3>1. Replies' = {}
      BY <2>3 DEF Replies
    <3> QED
      BY <1>c, <2>1, <2>2, <2>3, <3>1, ResponsesRest
  <2>4. CASE UNCHANGED s2c /\ broken
    BY <1>c, <2>1, <2>2, <2>4, ResponsesRest
  <2>5. CASE ~broken /\ s2c' = Queued(s2c, LazyZero(uRead + 1)) /\ sst' # "closed"
    <3>1. PICK f : f = Frame("zero", skey, uRead + 1)
      OBVIOUS
    <3>2. f \in S2CFrame /\ f.t = "zero" /\ f.k = skey /\ f.i = uRead + 1
      BY <1>a, <3>1, FrameFields DEF S2CType
    <3>3. f \in Replies
      BY <2>1, <3>1 DEF Replies
    <3>4. s2c' = s2c \o <<f>>
      BY <2>1, <2>5, <3>1 DEF Queued, LazyZero
    <3>5. ASSUME cst # "closed" PROVE Known(f)'
      <4>1. 0 < skey
        BY <1>a, <2>1 DEF IInv, SessionInv
      <4>2. Complete
        BY <2>1, <2>5, <3>5 DEF IInv, StopInv, cClosed
      <4> QED
        BY <1>a, <2>1, <3>2, <4>1, <4>2 DEF Known, Complete
    <3>6. \A g \in Replies' : Answers(f, g)
      <4>1. Replies' = Starts(skey + 1)
        BY <2>1, <2>5 DEF Replies
      <4> QED
        BY <1>a, <3>2, <4>1 DEF Answers
    <3> QED
      BY <2>1, <2>2, <2>5, <3>2, <3>3, <3>4, <3>5, <3>6, ResponsesPutOne
  <2> QED
    BY <1>26, <2>3, <2>4, <2>5 DEF ServerZero, Queued
<1>27. CASE ClientDownCopy
  <2>1. /\ s2c # <<>> /\ s2c' = Tail(s2c) /\ UNCHANGED <<server, upstream, broken>> /\ ~cClosed
        /\ cst = "relay" /\ cst' = "relay" /\ cDown = "run" /\ UNCHANGED sess
    BY <1>27 DEF ClientDownCopy, cClosed
  <2>2. PICK f : f = Head(s2c)
    OBVIOUS
  <2>3. /\ f \in S2CFrame /\ f.t \in S2CType /\ f.k \in Nat /\ f.i \in Nat
        /\ Expects(f)
    BY <2>1, <2>2, NextReply
  <2>4. ~reply => lGot = <<>>
    BY <2>1 DEF IInv, ClientInv
  <2>5. reply' = ReplyAfter(f) /\ (cDown' = "run" => ReadOutcome(f) \in {"data", "status"})
    BY <1>27, <2>2 DEF ClientDownCopy, ClientDownEnds
  <2>6. cDown' = "run" =>
          lGot' = IF ReadOutcome(f) = "data" THEN Append(lGot, Item(f)) ELSE lGot
    BY <1>27, <2>2 DEF ClientDownCopy, ClientDownEnds
  <2>7. lGot \in Seq(Payload) /\ Item(f) \in Payload /\ Len(lGot) \in Nat
    BY <2>3, ItemType DEF IInv, GotType, Item, Payload
  <2>8. ASSUME cDown' = "run", NEW g \in S2CFrame, Answers(f, g) PROVE Expects(g)'
    <3>1. f.t # "zero" /\ reply' /\ (reply \/ f.t = "tunnel")
      BY <2>3, <2>5, <2>8 DEF ReplyAfter, ReadOutcome, S2CType
    <3>2. CASE reply /\ lGot = <<>>
      BY <2>1, <2>3, <3>1, <3>2, FrameFields DEF Expects
    <3>3. CASE reply /\ lGot # <<>>
      <4>1. f = Frame("data", sess, Len(lGot) + 1)
        BY <2>1, <2>3, <3>1, <3>3, FrameFields DEF Expects
      <4>2. lGot' = Append(lGot, Item(f))
        BY <2>6, <2>8, <3>1, <3>3 DEF ReadOutcome
      <4>3. lGot' # <<>> /\ Len(lGot') = Len(lGot) + 1
        BY <2>7, <4>2
      <4>4. g = Frame("data", sess, Len(lGot') + 1) \/ g = Frame("zero", sess, Len(lGot') + 1)
        BY <2>7, <2>8, <4>1, <4>3, FrameFields DEF Answers
      <4> QED
        BY <2>1, <2>8, <3>1, <4>3, <4>4 DEF Expects
    <3>4. CASE ~reply
      <4>1. lGot = <<>> /\ f.t = "tunnel"
        BY <2>4, <3>1, <3>4
      <4>2. f.k = sess /\ f.i \in {0, 1}
        BY <2>1, <2>3, <3>4, <4>1, FrameFields DEF Expects, Starts
      <4>3. CASE f.i = 0
        <5>1. lGot' = <<>> /\ g = Frame("zero", sess, 0)
          BY <2>6, <2>8, <3>4, <4>1, <4>2, <4>3 DEF ReadOutcome, Answers
        <5> QED
          BY <2>1, <2>8, <3>1, <5>1 DEF Expects
      <4>4. CASE f.i = 1
        <5>1. lGot' = Append(lGot, Item(f))
          BY <2>6, <2>8, <3>4, <4>1, <4>4 DEF ReadOutcome
        <5>2. lGot' # <<>> /\ Len(lGot') = 1
          BY <2>7, <4>1, <5>1
        <5>3. g = Frame("data", sess, 2) \/ g = Frame("zero", sess, 2)
          BY <2>8, <4>1, <4>2, <4>4 DEF Answers
        <5> QED
          BY <2>1, <2>8, <3>1, <5>2, <5>3 DEF Expects
      <4> QED
        BY <4>2, <4>3, <4>4
    <3> QED
      BY <3>2, <3>3, <3>4
  <2>9. ASSUME cDown' # "run", NEW g PROVE Expects(g)'
    BY <2>1, <2>9 DEF Expects
  <2> QED
    BY <2>1, <2>2, <2>8, <2>9, ResponsesTake
<1>28. CASE ClientDrainRead
  <2>1. /\ s2c # <<>> /\ s2c' = Tail(s2c) /\ UNCHANGED <<server, upstream, broken>> /\ ~cClosed
        /\ cst = "drain" /\ cst' \in {"drain", "idle", "closed"} /\ UNCHANGED sess
    BY <1>28 DEF ClientDrainRead, cClosed, PutStates
  <2>2. PICK f : f = Head(s2c)
    OBVIOUS
  <2>3. /\ f \in S2CFrame /\ f.t \in S2CType /\ f.k \in Nat /\ f.i \in Nat
        /\ Known(f)
    BY <2>1, <2>2, NextReply
  <2>4. ASSUME cst' = "idle", NEW g \in S2CFrame, Answers(f, g) PROVE Expects(g)'
    <3>1. f.t = "zero"
      BY <1>28, <2>2, <2>4 DEF ClientDrainRead, ReadOutcome
    <3>2. SessionInv' /\ UNCHANGED skey
      BY <2>1, SessionStep
    <3>3. sess = 1 /\ skey = 1
      BY <1>a, <2>1, <2>4, <3>2, MaxUsesAssumption DEF SessionInv
    <3>4. f.k = sess
      BY <2>3, <3>3 DEF Known
    <3>5. g = Frame("zero", sess, 1) \/ g \in Starts(sess + 1)
      BY <2>3, <2>4, <3>1, <3>4 DEF Answers
    <3> QED
      BY <2>1, <2>4, <3>5 DEF Expects, Starts
  <2>5. ASSUME cst' # "idle", cst' # "closed", NEW g PROVE Expects(g)'
    BY <2>1, <2>5 DEF Expects
  <2> QED
    BY <2>1, <2>2, <2>4, <2>5, ResponsesTake
<1>29. CASE ServerUpRefused
  <2>1. UNCHANGED <<client, lGot, s2c>> /\ (broken => broken')
    BY <1>29 DEF ServerUpRefused, local
  <2>2. \A f \in Replies' : f \in Replies
    BY <1>29 DEF ServerUpRefused, ServerUpEnds, Replies, Starts
  <2>3. ASSUME NEW f \in S2CFrame, Known(f) PROVE Known(f)'
    BY <1>29, <1>a, <2>3 DEF ServerUpRefused, ServerUpEnds, Known, Complete
  <2> QED
    BY <1>c, <2>1, <2>2, <2>3, ResponsesRest
<1> QED
  BY <1>1, <1>2, <1>3, <1>4, <1>5, <1>6, <1>7, <1>8, <1>9, <1>10, <1>11, <1>12,
     <1>13, <1>14, <1>15, <1>16, <1>17, <1>18, <1>19, <1>20, <1>21, <1>22, <1>23,
     <1>24, <1>25, <1>26, <1>27, <1>28, <1>29 DEF Action

-----------------------------------------------------------------------------
(* What reaches the application and the destination *)

LEMMA DestReads ==
    ASSUME IInv, ServerUpCopy, uGot' # uGot
    PROVE  /\ uGot' = Append(uGot, <<skey, Len(uGot) + 1>>)
           /\ skey = sess /\ Len(uGot) < lSent
<1>1. /\ sst = "relay" /\ sUp = "run" /\ c2s # <<>> /\ ~zeroSeen /\ Head(c2s).t # "zero"
      /\ uGot' = Append(uGot, Item(Head(c2s)))
  BY DEF ServerUpCopy, IInv, ServerInv
<1>2. /\ Awaits(Head(c2s))
      /\ Head(c2s).k = sess => (Head(c2s).t = "data" => Head(c2s).i <= lSent)
  BY <1>1, NextRequest DEF IInv, PlaceType
<1>3. Head(c2s) = Frame("data", skey, Len(uGot) + 1)
  BY <1>1, <1>2, FrameFields DEF Awaits, AtBoundary
<1>4. Item(Head(c2s)) = <<skey, Len(uGot) + 1>>
  BY <1>3, FrameFields DEF Item
<1>5. skey = sess
  BY <1>1 DEF IInv, SessionInv, PlaceType
<1>6. Len(uGot) + 1 <= lSent /\ Len(uGot) \in Nat /\ lSent \in Nat
  BY <1>2, <1>3, <1>5, FrameFields, BoundsAssumption DEF IInv, GotType, PlaceType
<1> QED
  BY <1>1, <1>4, <1>5, <1>6

LEMMA AppReads ==
    ASSUME IInv, ClientDownCopy, lGot' # lGot
    PROVE  /\ lGot' = Append(lGot, <<sess, Len(lGot) + 1>>)
           /\ skey = sess /\ Len(lGot) < uSent
<1>1. /\ cst = "relay" /\ cDown = "run" /\ s2c # <<>> /\ ~cClosed
      /\ ReadOutcome(Head(s2c)) = "data" /\ lGot' = Append(lGot, Item(Head(s2c)))
  BY DEF ClientDownCopy, cClosed
<1>2. PICK f : f = Head(s2c)
  OBVIOUS
<1>3. f.t \in S2CType /\ f.k \in Nat /\ f.i \in Nat /\ Expects(f) /\ Known(f)
  BY <1>1, <1>2, NextReply
<1>4. Len(lGot) \in Nat /\ (lGot = <<>> => Len(lGot) = 0) /\ (~reply => lGot = <<>>)
  BY <1>1, EmptySeq DEF IInv, GotType, ClientInv
<1>5. f.k = sess /\ f.i = Len(lGot) + 1 /\ f.t \in {"tunnel", "data"}
  <2>1. CASE reply /\ lGot = <<>>
    BY <1>1, <1>2, <1>3, <2>1, FrameFields DEF Expects, ReadOutcome
  <2>2. CASE reply /\ lGot # <<>>
    BY <1>1, <1>2, <1>3, <2>2, FrameFields DEF Expects, ReadOutcome
  <2>3. CASE ~reply
    <3>1. f.t = "tunnel" /\ f.i # 0
      BY <1>1, <1>2, <2>3 DEF ReadOutcome
    <3>2. f \in Starts(sess)
      BY <1>1, <1>3, <2>3, <3>1, FrameFields DEF Expects
    <3> QED
      BY <1>4, <2>3, <3>1, <3>2, FrameFields DEF Starts
  <2> QED
    BY <1>4, <2>1, <2>2, <2>3
<1>6. skey = sess
  BY <1>3, <1>5 DEF Known, IInv, SessionInv, PlaceType
<1>7. Len(lGot) + 1 <= uSent /\ uSent \in Nat
  BY <1>3, <1>4, <1>5, <1>6, BoundsAssumption DEF Known, IInv, ServerInv, PlaceType
<1>8. Item(f) = <<sess, Len(lGot) + 1>>
  BY <1>5 DEF Item
<1> QED
  BY <1>1, <1>2, <1>4, <1>6, <1>7, <1>8

LEMMA GotGrows ==
    ASSUME NEW w \in Seq(Payload), NEW k \in Nat, \A j \in 1..Len(w) : w[j] = <<k, j>>,
           NEW x, x = Append(w, <<k, Len(w) + 1>>)
    PROVE  \A j \in 1..Len(x) : x[j] = <<k, j>>
<1>1. <<k, Len(w) + 1>> \in Payload /\ Len(w) \in Nat
  BY DEF Payload
<1>2. /\ Len(x) = Len(w) + 1 /\ x[Len(w) + 1] = <<k, Len(w) + 1>>
      /\ \A j \in 1..Len(w) : x[j] = w[j]
  BY <1>1
<1> SUFFICES ASSUME NEW j \in 1..Len(x) PROVE x[j] = <<k, j>>
  OBVIOUS
<1>3. CASE j = Len(w) + 1
  BY <1>2, <1>3
<1>4. CASE j # Len(w) + 1
  BY <1>1, <1>2, <1>4
<1> QED
  BY <1>3, <1>4

(* Every other step leaves both alone. *)
Silent == ClientWriteHeader \/ ClientUpCopy \/ ClientUpHalts
          \/ ClientDownHalts \/ ClientJoin \/ ClientClose
          \/ ClientDrainRead \/ ClientDrainFail \/ ClientExpire
          \/ LocalClose \/ ServerRequestFail \/ ServerDialOk
          \/ ServerDialFail \/ ServerUpStop \/ ServerDownCopy
          \/ ServerDownHalts \/ ServerJoin \/ ServerFinish
          \/ ServerZero \/ ServerDrain \/ ServerDrainFail
          \/ UpstreamSend \/ UpstreamClose \/ NetBreak \/ ServerUpRefused

LEMMA SilentGot == Silent => UNCHANGED <<lGot, uGot, sess, skey>>
  BY SameParts
  DEF Silent, ClientWriteHeader, ClientUpCopy, ClientUpHalts,
      ClientDownHalts, ClientJoin, ClientClose, ClientDrainRead,
      ClientDrainFail, ClientExpire, LocalClose, ServerRequestFail,
      ServerDialOk, ServerDialFail, ServerUpStop, ServerDownCopy,
      ServerDownHalts, ServerJoin, ServerFinish, ServerZero,
      ServerDrain, ServerDrainFail, UpstreamSend, UpstreamClose,
      NetBreak, ServerUpRefused

LEMMA DeliveryStep == IInv /\ Action => AppSeesOwnSession' /\ DestSeesOwnSession'
<1> SUFFICES ASSUME IInv, Action PROVE AppSeesOwnSession' /\ DestSeesOwnSession'
  OBVIOUS
<1> USE SameParts
<1>a. /\ AppSeesOwnSession /\ DestSeesOwnSession
      /\ lGot \in Seq(Payload) /\ uGot \in Seq(Payload) /\ sess \in Nat /\ skey \in Nat
  BY DEF IInv, GotType, PlaceType
<1>1. CASE Silent
  BY <1>a, <1>1, SilentGot DEF AppSeesOwnSession, DestSeesOwnSession
<1>2. CASE ClientDownCopy
  <2>1. UNCHANGED <<uGot, skey, sess>>
    BY <1>2 DEF ClientDownCopy
  <2>2. CASE lGot' = lGot
    BY <1>a, <2>1, <2>2 DEF AppSeesOwnSession, DestSeesOwnSession
  <2>3. CASE lGot' # lGot
    <3>1. \A j \in 1..Len(lGot') : lGot'[j] = <<sess, j>>
      <4>1. lGot' = Append(lGot, <<sess, Len(lGot) + 1>>)
        BY <1>2, <2>3, AppReads
      <4>2. \A j \in 1..Len(lGot) : lGot[j] = <<sess, j>>
        BY <1>a DEF AppSeesOwnSession
      <4> QED
        BY <1>a, <4>1, <4>2, GotGrows
    <3>2. AppSeesOwnSession'
      BY <2>1, <3>1 DEF AppSeesOwnSession
    <3>3. DestSeesOwnSession'
      BY <1>a, <2>1 DEF DestSeesOwnSession
    <3> QED
      BY <3>2, <3>3
  <2> QED
    BY <2>2, <2>3
<1>3. CASE ClientTake
  <2>1. lGot' = <<>> /\ Len(lGot') = 0 /\ UNCHANGED <<uGot, skey>>
    BY <1>3, EmptySeq DEF ClientTake
  <2> QED
    BY <1>a, <2>1 DEF AppSeesOwnSession, DestSeesOwnSession
<1>4. CASE ServerRequest
  <2>1. UNCHANGED <<lGot, sess>>
    BY <1>4 DEF ServerRequest
  <2>2. (uGot' = <<>> /\ Len(uGot') = 0) \/ UNCHANGED <<uGot, skey>>
    BY <1>4, EmptySeq DEF ServerRequest
  <2> QED
    BY <1>a, <2>1, <2>2 DEF AppSeesOwnSession, DestSeesOwnSession
<1>5. CASE ServerUpCopy
  <2>1. UNCHANGED <<lGot, skey, sess>>
    BY <1>5 DEF ServerUpCopy
  <2>2. CASE uGot' = uGot
    BY <1>a, <2>1, <2>2 DEF AppSeesOwnSession, DestSeesOwnSession
  <2>3. CASE uGot' # uGot
    <3>1. \A j \in 1..Len(uGot') : uGot'[j] = <<skey, j>>
      <4>1. uGot' = Append(uGot, <<skey, Len(uGot) + 1>>)
        BY <1>5, <2>3, DestReads
      <4>2. \A j \in 1..Len(uGot) : uGot[j] = <<skey, j>>
        BY <1>a DEF DestSeesOwnSession
      <4> QED
        BY <1>a, <4>1, <4>2, GotGrows
    <3>2. AppSeesOwnSession'
      BY <1>a, <2>1 DEF AppSeesOwnSession
    <3>3. DestSeesOwnSession'
      BY <2>1, <3>1 DEF DestSeesOwnSession
    <3> QED
      BY <3>2, <3>3
  <2> QED
    BY <2>2, <2>3
<1> QED
  BY <1>1, <1>2, <1>3, <1>4, <1>5 DEF Action, Silent

-----------------------------------------------------------------------------
(* The invariant *)

LEMMA InvInit == Init => IInv
<1> SUFFICES ASSUME Init PROVE IInv
  OBVIOUS
<1>1. PlaceType /\ FlagType /\ FlightType /\ GotType
  BY TypeInit, TypeParts
<1>2. /\ sess = 1 /\ skey = 0 /\ cst = "header" /\ sst = "request" /\ c2s = <<>> /\ s2c = <<>>
      /\ Len(c2s) = 0 /\ Len(s2c) = 0 /\ Len(lGot) = 0 /\ Len(uGot) = 0 /\ ~refused /\ ~broken
  BY EmptySeq DEF Init
<1>3. AppSeesOwnSession /\ DestSeesOwnSession
  BY <1>2 DEF AppSeesOwnSession, DestSeesOwnSession
<1>4. Requests
  <2>1. \A f \in Writes : f = Frame("header", 1, 0)
    BY <1>2 DEF Writes
  <2>2. \A f \in Writes : Fits(f)
    BY <1>2, <2>1 DEF Fits, Awaits, AtBoundary
  <2> QED
    BY <1>2, <2>2 DEF Requests
<1>5. Responses
  <2>1. \A f \in Replies : f \in Starts(1)
    BY <1>2 DEF Replies
  <2>2. \A f \in Replies : Expects(f)
    BY <1>2, <2>1 DEF Expects
  <2> QED
    BY <1>2, <2>2 DEF Responses
<1>6. ServerInv /\ StopInv
  BY DEF Init, ServerInv, StopInv
<1>7. SessionInv
  BY MaxUsesAssumption DEF Init, SessionInv
<1>8. ClientInv
  BY DEF Init, ClientInv
<1> QED
  BY <1>1, <1>3, <1>4, <1>5, <1>6, <1>7, <1>8 DEF IInv

LEMMA InvRest == IInv /\ UNCHANGED rest => IInv'
<1> SUFFICES ASSUME IInv, UNCHANGED rest PROVE IInv'
  OBVIOUS
<1>1. /\ UNCHANGED <<reuse, wrapped, cst, sess, reply, cUp, cDown, cDl, lDl, cDesync, lEOF, lSent, lGot>>
      /\ UNCHANGED <<sst, skey, sUp, sDown, sDl, uDl, sDesync, sent, zeroSeen, refused>>
      /\ UNCHANGED <<uEOF, uErr, uSent, uRead, uGot, c2s, s2c, broken>>
  BY SameParts DEF rest
<1>2. PlaceType' /\ FlagType' /\ FlightType' /\ GotType'
  BY <1>1 DEF IInv, PlaceType, FlagType, FlightType, GotType
<1>3. AppSeesOwnSession' /\ DestSeesOwnSession'
  BY <1>1 DEF IInv, AppSeesOwnSession, DestSeesOwnSession
<1>4. Requests'
  <2>1. \A f \in Writes' : f \in Writes
    BY <1>1 DEF Writes
  <2>2. \A f \in C2SFrame : sst = "closed" \/ Awaits(f) => sst' = "closed" \/ Awaits(f)'
    BY <1>1 DEF Awaits, AtBoundary
  <2>3. sess \in Nat /\ lSent \in Nat
    BY BoundsAssumption DEF IInv, PlaceType
  <2> QED
    BY <1>1, <2>1, <2>2, <2>3, RequestsRest
<1>5. Responses'
  <2>1. \A f \in Replies' : f \in Replies
    BY <1>1 DEF Replies
  <2>2. \A f \in S2CFrame : (Expects(f) => Expects(f)') /\ (Known(f) => Known(f)')
    BY <1>1 DEF Expects, Known, Complete
  <2> QED
    BY <1>1, <2>1, <2>2, ResponsesRest
<1>6. ServerInv' /\ StopInv'
  <2>1. ServerInv'
    BY <1>1 DEF IInv, ServerInv
  <2>2. StopInv'
    BY <1>1 DEF IInv, StopInv, Complete, cClosed
  <2> QED
    BY <2>1, <2>2
<1>7. SessionInv' /\ ClientInv'
  BY <1>1 DEF IInv, SessionInv, ClientInv
<1> QED
  BY <1>2, <1>3, <1>4, <1>5, <1>6, <1>7 DEF IInv

LEMMA Inductive == ASSUME MaxUses <= 2 PROVE IInv /\ [Next]_vars => IInv'
<1> SUFFICES ASSUME IInv, [Next]_vars PROVE IInv'
  OBVIOUS
<1>1. CASE Action
  <2>1. Action
    BY <1>1
  <2>2. PlaceType /\ FlagType /\ FlightType /\ GotType
    BY DEF IInv
  <2>3. PlaceType' /\ FlagType' /\ FlightType' /\ GotType'
    BY <2>1, <2>2, PlaceStep, FlagStep, FlightStep, GotStep
  <2>4. AppSeesOwnSession' /\ DestSeesOwnSession' /\ Requests' /\ Responses'
    BY <2>1, DeliveryStep, RequestsStep, ResponsesStep
  <2>5. ServerInv' /\ StopInv' /\ SessionInv' /\ ClientInv'
    BY <2>1, ServerStep, StopStep, SessionStep, ClientStep
  <2> QED
    BY <2>3, <2>4, <2>5 DEF IInv
<1>2. CASE Returns \/ UNCHANGED vars
  BY <1>2, RestReturns, InvRest
<1> QED
  BY <1>1, <1>2, NextCases

-----------------------------------------------------------------------------
(* Every connection, under every use cap of at most two sessions *)
LEMMA Invariance == ASSUME MaxUses <= 2 PROVE Spec => []IInv
<1>1. IInv /\ [Next]_vars => IInv'
  BY Inductive
<1> QED
  BY <1>1, InvInit, PTL DEF Spec

(* With a use cap of two sessions, what the application receives in a       *)
(* session is a prefix of what the destination sent in it, however the      *)
(* session before it ended and whatever of it is still in flight            *)
(* (PoolConn.Close, drainPendingForReuse, pool.go:45).                      *)
THEOREM OwnReplies == ASSUME MaxUses <= 2 PROVE Spec => []AppSeesOwnSession
<1>1. IInv => AppSeesOwnSession
  BY DEF IInv
<1> QED
  BY <1>1, Invariance, PTL

(* The destination of a session receives a prefix of what the application   *)
(* sent in it, never what an earlier session left on the connection         *)
(* (serverReadConn, handleTCP's drain).                                     *)
THEOREM OwnRequests == ASSUME MaxUses <= 2 PROVE Spec => []DestSeesOwnSession
<1>1. IInv => DestSeesOwnSession
  BY DEF IInv
<1> QED
  BY <1>1, Invariance, PTL

(* A connection in the pool is in sync and carries at most the zero chunk   *)
(* that the epilogue writes behind the fallback's (Pool.put).               *)
LEMMA IdleIsClean == IInv => PooledClean
<1> SUFFICES ASSUME IInv, cst = "idle"
             PROVE  /\ ~(refused /\ skey = sess) /\ ~cDesync /\ ~reply /\ ~cDl
                    /\ Len(s2c) <= 1
                    /\ \A n \in 1..Len(s2c) : s2c[n] = Frame("zero", sess, 1)
  BY DEF PooledClean
<1>1. ~refused /\ ~cDesync /\ ~reply /\ ~cDl /\ skey = sess /\ sess \in Nat
  BY DEF IInv, SessionInv, ClientInv, PlaceType
<1>2. /\ s2c \in Seq(S2CFrame) /\ Len(s2c) \in Nat
      /\ \A n \in 1..Len(s2c) : s2c[n] \in S2CFrame
      /\ s2c # <<>> => Len(s2c) > 0 /\ Head(s2c) = s2c[1]
      /\ s2c = <<>> => Len(s2c) = 0
  BY S2CPlaces, EmptySeq
<1>3. \A f \in Starts(sess + 1) : f.k = sess + 1
  BY FrameFields DEF Starts
<1>4. \A n \in 1..Len(s2c) : s2c[n].k <= sess
  BY <1>1 DEF IInv, Responses, Known
<1>5. s2c # <<>> => s2c[1] = Frame("zero", sess, 1)
  <2>1. SUFFICES ASSUME s2c # <<>> PROVE s2c[1] = Frame("zero", sess, 1)
    OBVIOUS
  <2>2. Expects(s2c[1]) /\ s2c[1].k <= sess
    BY <1>2, <1>4, <2>1 DEF IInv, Responses
  <2>3. s2c[1] = Frame("zero", sess, 1) \/ s2c[1] \in Starts(sess + 1)
    BY <2>2 DEF Expects
  <2> QED
    BY <1>1, <1>3, <2>2, <2>3
<1>6. Len(s2c) <= 1
  <2>1. SUFFICES ASSUME Len(s2c) > 1 PROVE FALSE
    BY <1>2
  <2>2. 1 \in 1..Len(s2c) - 1 /\ 2 \in 1..Len(s2c) /\ s2c # <<>>
    BY <1>2, <2>1
  <2>3. Answers(s2c[1], s2c[1 + 1])
    BY <2>2 DEF IInv, Responses
  <2>4. s2c[2] \in Starts(sess + 1)
    BY <1>5, <2>2, <2>3, FrameFields DEF Answers
  <2> QED
    BY <1>1, <1>3, <1>4, <2>2, <2>4
<1>7. \A n \in 1..Len(s2c) : s2c[n] = Frame("zero", sess, 1)
  BY <1>2, <1>5, <1>6
<1> QED
  BY <1>1, <1>6, <1>7

(* With a use cap of two sessions, no connection the pool hands out again   *)
(* holds anything but the leftover the next session's reader skips          *)
(* (PoolConn.Close, Pool.put, GetContext).                                  *)
THEOREM PoolHoldsClean == ASSUME MaxUses <= 2 PROVE Spec => []PooledClean
  BY IdleIsClean, Invariance, PTL

(* After a session that was not refused the server finds the header of the  *)
(* session after it at a boundary the stream decrypts from: nothing of the  *)
(* session before is left over (handleTCP's reuse epilogue).                *)
THEOREM NextRequestInPlace == ASSUME MaxUses <= 2 PROVE Spec => []RequestBoundaryUnlessRefused
<1>1. IInv => RequestBoundaryUnlessRefused
  <2>1. SUFFICES ASSUME IInv, sst = "request", ~refused, c2s # <<>>
                 PROVE  ~sDesync /\ Head(c2s) = Frame("header", skey + 1, 0)
    BY DEF RequestBoundaryUnlessRefused
  <2>2. ~sDesync
    BY <2>1 DEF IInv, ServerInv
  <2>3. Awaits(Head(c2s))
    BY <2>1, NextRequest
  <2> QED
    BY <2>1, <2>2, <2>3 DEF Awaits, AtBoundary
<1> QED
  BY <1>1, Invariance, PTL

(* When the application sees the end of a session it has not closed, and    *)
(* the destination took all that was written to it, the application has     *)
(* everything the destination sent: neither Relay's deadline has cut the    *)
(* response short (relay.go, lazyResponseStream, serverReadConn).           *)
THEOREM ResponsesWhole == ASSUME MaxUses <= 2 PROVE Spec => ResponseComplete
<1>1. IInv => [ReadsOwnZero /\ ~lEOF /\ ~uErr => Len(lGot) = uSent]_vars
  <2>1. SUFFICES ASSUME IInv, ReadsOwnZero, ~uErr PROVE Len(lGot) = uSent
    OBVIOUS
  <2>2. PICK f : f = Head(s2c)
    OBVIOUS
  <2>3. /\ cst = "relay" /\ cDown = "run" /\ s2c # <<>> /\ ~cClosed
        /\ f.t = "zero" /\ f.k = sess
    BY <2>1, <2>2 DEF ReadsOwnZero, cClosed
  <2>4. f.k \in Nat /\ f.i \in Nat /\ Expects(f) /\ Known(f)
    BY <2>1, <2>2, <2>3, NextReply
  <2>5. /\ Len(lGot) \in Nat /\ (lGot = <<>> <=> Len(lGot) = 0)
        /\ uRead \in Nat /\ uSent \in Nat /\ sess \in Nat /\ skey \in Nat
    BY <2>1, EmptySeq, BoundsAssumption DEF IInv, GotType, PlaceType
  <2>6. skey = sess
    BY <2>1, <2>3, <2>4, <2>5 DEF Known, IInv, SessionInv
  <2>7. /\ ~refused /\ sst # "dial" /\ Complete
        /\ f.i = IF f.i = 0 THEN uRead ELSE uRead + 1
    BY <2>3, <2>4, <2>6 DEF Known
  <2>8. ~zeroSeen
    BY <2>1, <2>3, <2>6, <2>7 DEF IInv, SessionInv
  <2>9. uRead = uSent
    BY <2>1, <2>7, <2>8 DEF Complete
  <2>10. reply
    BY <2>3, <2>4, <2>5, FrameFields DEF Expects, Starts
  <2>11. CASE lGot = <<>>
    BY <2>3, <2>4, <2>5, <2>7, <2>9, <2>10, <2>11, FrameFields DEF Expects
  <2>12. CASE lGot # <<>>
    BY <2>3, <2>4, <2>5, <2>7, <2>9, <2>10, <2>12, FrameFields DEF Expects
  <2> QED
    BY <2>11, <2>12
<1> QED
  BY <1>1, Invariance, PTL DEF ResponseComplete

-----------------------------------------------------------------------------
(* The connection is a tunnel *)

LEMMA TunnelInit == Init => Tunnel!Init
  BY DEF Init, Tunnel!Init

LEMMA TunnelStep == IInv /\ Action => [Tunnel!Next]_(Tunnel!vars)
<1> SUFFICES ASSUME IInv, Action PROVE [Tunnel!Next]_(Tunnel!vars)
  OBVIOUS
<1> USE SameParts
<1>a. sess \in Nat /\ skey \in Nat
  BY DEF IInv, PlaceType
<1>1. CASE ClientWriteHeader
  <2>1. UNCHANGED <<sess, skey, lSent, lGot, uSent, uGot>> /\ cst = "header"
    BY <1>1 DEF ClientWriteHeader
  <2>2. CASE cst' = "relay"
    BY <2>1, <2>2 DEF Tunnel!Next, Tunnel!Attach
  <2>3. CASE cst' = "closed"
    BY <2>1, <2>3 DEF Tunnel!vars
  <2> QED
    BY <1>1, <2>2, <2>3 DEF ClientWriteHeader
<1>2. CASE ClientJoin
  <2>1. UNCHANGED <<sess, skey, lSent, lGot, uSent, uGot>> /\ cst = "relay" /\ cst' = "close"
    BY <1>2 DEF ClientJoin
  <2> QED
    BY <2>1 DEF Tunnel!Next, Tunnel!Detach
<1>3. CASE ClientTake
  <2>1. /\ UNCHANGED <<skey, uSent, uGot>> /\ cst = "idle" /\ cst' = "header"
        /\ sess' = sess + 1 /\ lSent' = 0 /\ lGot' = <<>>
    BY <1>3 DEF ClientTake
  <2>2. sess < MaxUses
    BY <2>1 DEF IInv, SessionInv
  <2> QED
    BY <2>1, <2>2 DEF Tunnel!Next, Tunnel!NextSession
<1>4. CASE ServerRequest
  <2>1. UNCHANGED <<cst, sess, lSent, lGot>> /\ c2s # <<>> /\ sst = "request"
    BY <1>4 DEF ServerRequest
  <2>2. CASE sst' = "dial"
    <3>1. Head(c2s).t = "header" /\ skey' = Head(c2s).k /\ uSent' = 0 /\ uGot' = <<>>
      BY <1>4, <2>2 DEF ServerRequest
    <3>2. Head(c2s).k = skey + 1 /\ Head(c2s).k <= sess
      BY <2>1, <3>1, NextRequest, FrameFields DEF Awaits, AtBoundary
    <3>3. skey < sess /\ skey' = sess
      BY <1>a, <3>1, <3>2 DEF IInv, SessionInv
    <3> QED
      BY <2>1, <3>1, <3>3 DEF Tunnel!Next, Tunnel!Accept
  <2>3. CASE sst' # "dial"
    <3>1. UNCHANGED <<skey, uSent, uGot>>
      BY <1>4, <2>3 DEF ServerRequest
    <3> QED
      BY <2>1, <3>1 DEF Tunnel!vars
  <2> QED
    BY <2>2, <2>3
<1>5. CASE ClientUpCopy
  <2>1. /\ UNCHANGED <<cst, sess, skey, lGot, uSent, uGot>> /\ cst = "relay"
        /\ lSent' = lSent + 1
    BY <1>5 DEF ClientUpCopy
  <2> QED
    BY <2>1 DEF Tunnel!Next, Tunnel!AppSend
<1>6. CASE UpstreamSend
  <2>1. /\ UNCHANGED <<cst, sess, skey, lSent, lGot, uGot>> /\ sst = "relay"
        /\ uSent' = uSent + 1
    BY <1>6 DEF UpstreamSend
  <2>2. skey > 0
    BY <1>a, <2>1 DEF IInv, SessionInv
  <2> QED
    BY <2>1, <2>2 DEF Tunnel!Next, Tunnel!DestSend
<1>7. CASE ServerUpCopy
  <2>1. UNCHANGED <<cst, sess, skey, lSent, lGot, uSent>>
    BY <1>7 DEF ServerUpCopy
  <2>2. CASE uGot' = uGot
    BY <2>1, <2>2 DEF Tunnel!vars
  <2>3. CASE uGot' # uGot
    BY <1>7, <2>1, <2>3, DestReads DEF Tunnel!Next, Tunnel!DeliverToDest
  <2> QED
    BY <2>2, <2>3
<1>8. CASE ClientDownCopy
  <2>1. UNCHANGED <<cst, sess, skey, lSent, uSent, uGot>> /\ cst = "relay"
    BY <1>8 DEF ClientDownCopy
  <2>2. CASE lGot' = lGot
    BY <2>1, <2>2 DEF Tunnel!vars
  <2>3. CASE lGot' # lGot
    BY <1>8, <2>1, <2>3, AppReads DEF Tunnel!Next, Tunnel!DeliverToApp
  <2> QED
    BY <2>2, <2>3
<1>9. CASE ClientUpHalts \/ ClientDownHalts \/ ClientClose
            \/ ClientDrainRead \/ ClientDrainFail \/ ClientExpire
            \/ LocalClose \/ ServerRequestFail \/ ServerDialOk
            \/ ServerDialFail \/ ServerUpStop \/ ServerDownCopy
            \/ ServerDownHalts \/ ServerJoin \/ ServerFinish \/ ServerZero
            \/ ServerDrain \/ ServerDrainFail \/ UpstreamClose \/ NetBreak \/ ServerUpRefused
  <2>1. UNCHANGED <<sess, skey, lSent, lGot, uSent, uGot>> /\ ((cst = "relay") <=> (cst' = "relay"))
    BY <1>9
    DEF ClientUpHalts, ClientDownHalts, ClientClose, ClientDrainRead,
        ClientDrainFail, ClientExpire, LocalClose, ServerRequestFail,
        ServerDialOk, ServerDialFail, ServerUpStop, ServerDownCopy,
        ServerDownHalts, ServerJoin, ServerFinish, ServerZero,
        ServerDrain, ServerDrainFail, UpstreamClose, NetBreak,
        ServerUpRefused, PutStates
  <2> QED
    BY <2>1 DEF Tunnel!vars
<1> QED
  BY <1>1, <1>2, <1>3, <1>4, <1>5, <1>6, <1>7, <1>8, <1>9 DEF Action

(* The detailed connection implements the abstract one: sessions come one   *)
(* after the other, at most MaxUses of them, the server begins each once,   *)
(* and payload is delivered in order, only while both ends are in its       *)
(* session, and only when it was sent (SnellTunnel).                        *)
THEOREM Refinement == ASSUME MaxUses <= 2 PROVE Spec => ImplementsTunnel
<1>1. IInv /\ [Next]_vars => [Tunnel!Next]_(Tunnel!vars)
  <2>1. SUFFICES ASSUME IInv, [Next]_vars PROVE [Tunnel!Next]_(Tunnel!vars)
    OBVIOUS
  <2>2. CASE Action
    BY <2>1, <2>2, TunnelStep
  <2>3. CASE UNCHANGED rest
    BY <2>3, SameParts DEF rest, Tunnel!vars
  <2> QED
    BY <2>1, <2>2, <2>3, NextCases, RestReturns
<1> QED
  BY <1>1, TunnelInit, Invariance, PTL DEF Spec, ImplementsTunnel, Tunnel!Spec

-----------------------------------------------------------------------------
(* Nobody waits for somebody who waits *)

(* A pump that ends leaves a deadline that ends the other one, and the      *)
(* client's reader is in sync as long as its pump reads.                    *)
Wakes ==
    /\ cst = "relay" /\ cUp = "done" => cDl
    /\ cst = "relay" /\ cDown = "done" => lDl
    /\ cst = "relay" /\ cDown = "run" => ~cDesync
    /\ sst = "relay" /\ sUp = "done" => uDl
    /\ sst = "relay" /\ sDown = "done" => sDl

(* Before the client has written its header, nothing of the session is      *)
(* under way, and a refusal stays in flight until the client has read it.   *)
Unanswered ==
    /\ cst = "header" => skey < sess /\ \A n \in 1..Len(c2s) : c2s[n].k < sess
    /\ cst = "relay" /\ cDown = "run" /\ ~broken /\ sst = "request" /\ refused /\ skey = sess
         => s2c # <<>>

LEMMA WakesInit == Init => Wakes
  BY DEF Init, Wakes

LEMMA WakesStep == IInv /\ Wakes /\ Action => Wakes'
<1> SUFFICES ASSUME PlaceType, ClientInv, Wakes, Action PROVE Wakes'
  BY DEF IInv
<1> USE SameParts DEF Wakes
<1>1. CASE ClientUpHalts
  BY <1>1 DEF ClientUpHalts, ClientUpEnds
<1>2. CASE ClientDownHalts
  BY <1>2 DEF ClientDownHalts, ClientDownEnds
<1>3. CASE ClientJoin
  BY <1>3 DEF ClientJoin
<1>4. CASE ClientDrainFail
  BY <1>4 DEF ClientDrainFail
<1>5. CASE ClientExpire
  BY <1>5 DEF ClientExpire
<1>6. CASE LocalClose
  BY <1>6 DEF LocalClose
<1>7. CASE ServerRequestFail
  BY <1>7 DEF ServerRequestFail
<1>8. CASE ServerDialOk
  BY <1>8 DEF ServerDialOk
<1>9. CASE ServerUpStop
  BY <1>9 DEF ServerUpStop, ServerUpEnds
<1>10. CASE ServerDownHalts
  BY <1>10 DEF ServerDownHalts, ServerDownEnds
<1>11. CASE ServerJoin
  BY <1>11 DEF ServerJoin
<1>12. CASE ServerDrainFail
  BY <1>12 DEF ServerDrainFail
<1>13. CASE UpstreamSend
  BY <1>13 DEF UpstreamSend
<1>14. CASE UpstreamClose
  BY <1>14 DEF UpstreamClose
<1>15. CASE NetBreak
  BY <1>15 DEF NetBreak
<1>16. CASE ClientWriteHeader
  BY <1>16 DEF ClientWriteHeader, ClientInv
<1>17. CASE ClientUpCopy
  BY <1>17 DEF ClientUpCopy, ClientUpEnds
<1>18. CASE ClientDownCopy
  BY <1>18 DEF ClientDownCopy, ClientDownEnds
<1>19. CASE ClientClose
  BY <1>19 DEF ClientClose
<1>20. CASE ClientDrainRead
  BY <1>20 DEF ClientDrainRead, PutStates
<1>21. CASE ClientTake
  BY <1>21 DEF ClientTake
<1>22. CASE ServerRequest
  BY <1>22 DEF ServerRequest
<1>23. CASE ServerDialFail
  BY <1>23 DEF ServerDialFail
<1>24. CASE ServerUpCopy
  BY <1>24 DEF ServerUpCopy, ServerUpEnds
<1>25. CASE ServerDownCopy
  BY <1>25 DEF ServerDownCopy, ServerDownEnds
<1>26. CASE ServerFinish
  BY <1>26 DEF ServerFinish
<1>27. CASE ServerZero
  BY <1>27 DEF ServerZero
<1>28. CASE ServerDrain
  BY <1>28 DEF ServerDrain
<1>29. CASE ServerUpRefused
  BY <1>29 DEF ServerUpRefused, ServerUpEnds
<1> QED
  BY <1>1, <1>2, <1>3, <1>4, <1>5, <1>6, <1>7, <1>8, <1>9, <1>10, <1>11, <1>12,
     <1>13, <1>14, <1>15, <1>16, <1>17, <1>18, <1>19, <1>20, <1>21, <1>22, <1>23,
     <1>24, <1>25, <1>26, <1>27, <1>28, <1>29 DEF Action

LEMMA UnansweredInit == Init => Unanswered
<1>1. Init => sess = 1 /\ skey = 0 /\ cst = "header" /\ Len(c2s) = 0
  BY EmptySeq DEF Init
<1> QED
  BY <1>1 DEF Unanswered

(* What the server adds does not empty the queue. *)
LEMMA S2CGrows ==
    ASSUME NEW ch \in Seq(S2CFrame), NEW fs \in Seq(S2CFrame),
           ch # <<>> \/ (~broken /\ fs # <<>>)
    PROVE  Queued(ch, fs) # <<>>
<1>1. CASE broken
  BY <1>1 DEF Queued
<1>2. CASE ~broken
  <2>1. Len(ch) + Len(fs) > 0 /\ Len(ch \o fs) = Len(ch) + Len(fs)
    BY <1>2, EmptySeq
  <2>2. ch \o fs # <<>>
    BY <2>1, EmptySeq
  <2> QED
    BY <1>2, <2>2 DEF Queued
<1> QED
  BY <1>1, <1>2

(* A client that reads while its session stands refused reads a frame that  *)
(* ends its pump: the refusal, or the zero chunk of the session before.     *)
LEMMA RefusalEnds ==
    ASSUME IInv, ClientDownCopy, refused, skey = sess
    PROVE  cDown' = "done"
<1>1. /\ cst = "relay" /\ cDown = "run" /\ s2c # <<>> /\ ~cClosed
      /\ ReadOutcome(Head(s2c)) \in {"zero", "err"} => cDown' = "done"
  BY DEF ClientDownCopy, ClientDownEnds, cClosed, ReadOutcome
<1>2. PICK f : f = Head(s2c)
  OBVIOUS
<1>3. f.t \in S2CType /\ f.k \in Nat /\ Expects(f) /\ Known(f)
  BY <1>1, <1>2, NextReply
<1>4. f.k = sess => f.t = "error"
  BY <1>3 DEF Known
<1>5. CASE reply
  <2>1. f.k = sess /\ f.t \in {"zero", "data"}
    BY <1>1, <1>3, <1>5, FrameFields DEF Expects
  <2> QED
    BY <1>4, <2>1
<1>6. CASE ~reply
  <2>1. f = Frame("zero", sess - 1, 1) \/ f \in Starts(sess)
    BY <1>1, <1>3, <1>6 DEF Expects
  <2>2. f.t \in {"zero", "error"}
    BY <1>4, <2>1, FrameFields DEF Starts
  <2> QED
    BY <1>1, <1>2, <1>6, <2>2 DEF ReadOutcome
<1> QED
  BY <1>5, <1>6

(* The client before its header: what the server takes is older.            *)
LEMMA BeforeHeader ==
    ASSUME IInv, Unanswered, Action, cst' = "header"
    PROVE  skey' < sess' /\ \A n \in 1..Len(c2s') : c2s'[n].k < sess'
<1> USE SameParts
<1>a. /\ c2s \in Seq(C2SFrame) /\ sess \in Nat /\ skey \in Nat
      /\ \A n \in 1..Len(c2s) : c2s[n].k \in Nat /\ c2s[n].k <= sess
  <2>1. c2s \in Seq(C2SFrame) /\ sess \in Nat /\ skey \in Nat
    BY DEF IInv, FlightType, PlaceType
  <2>2. \A n \in 1..Len(c2s) : c2s[n] \in C2SFrame
    BY <2>1
  <2> QED
    BY <2>1, <2>2 DEF IInv, Requests, C2SFrame
<1>1. CASE ClientTake
  <2>1. sess' = sess + 1 /\ cst = "idle" /\ UNCHANGED <<skey, c2s>>
    BY <1>1 DEF ClientTake
  <2>2. skey = sess
    BY <2>1 DEF IInv, SessionInv
  <2> QED
    BY <1>a, <2>1, <2>2
<1>2. CASE ~ClientTake
  <2>1. cst = "header" /\ sess' = sess /\ broken \in BOOLEAN
    <3>1. PutStates(sess) \subseteq {"idle", "closed"}
      BY DEF PutStates
    <3> QED
      BY <1>2, <3>1
      DEF Action, ClientUpHalts, ClientDownHalts, ClientJoin, ClientDrainFail, ClientExpire,
          LocalClose, ServerRequestFail, ServerDialOk, ServerUpStop, ServerDownHalts, ServerJoin,
          ServerDrainFail, UpstreamSend, UpstreamClose, NetBreak, ClientWriteHeader, ClientUpCopy,
          ClientDownCopy, ClientClose, ClientDrainRead, ServerRequest, ServerDialFail,
          ServerUpCopy, ServerDownCopy, ServerFinish, ServerZero, ServerDrain, ServerUpRefused, IInv, FlagType
  <2>2. skey < sess /\ \A n \in 1..Len(c2s) : c2s[n].k < sess
    BY <2>1 DEF Unanswered
  <2>3. c2s' = c2s \/ (c2s # <<>> /\ c2s' = Tail(c2s))
    BY <2>1, <1>2
    DEF Action, ClientUpHalts, ClientDownHalts, ClientJoin, ClientDrainFail, ClientExpire,
        LocalClose, ServerRequestFail, ServerDialOk, ServerUpStop, ServerDownHalts, ServerJoin,
        ServerDrainFail, UpstreamSend, UpstreamClose, NetBreak, ClientWriteHeader, ClientUpCopy,
        ClientDownCopy, ClientClose, ClientDrainRead, ServerRequest, ServerDialFail,
        ServerUpCopy, ServerDownCopy, ServerFinish, ServerZero, ServerDrain, ServerUpRefused
  <2>4. skey' = skey \/ (c2s # <<>> /\ skey' = Head(c2s).k)
    BY <1>2
    DEF Action, ClientUpHalts, ClientDownHalts, ClientJoin, ClientDrainFail, ClientExpire,
        LocalClose, ServerRequestFail, ServerDialOk, ServerUpStop, ServerDownHalts, ServerJoin,
        ServerDrainFail, UpstreamSend, UpstreamClose, NetBreak, ClientWriteHeader, ClientUpCopy,
        ClientDownCopy, ClientClose, ClientDrainRead, ServerRequest, ServerDialFail,
        ServerUpCopy, ServerDownCopy, ServerFinish, ServerZero, ServerDrain, ServerUpRefused
  <2>5. c2s # <<>> => Head(c2s) = c2s[1] /\ 1 \in 1..Len(c2s)
    BY <1>a
  <2>6. skey' < sess'
    BY <2>1, <2>2, <2>4, <2>5
  <2>7. \A n \in 1..Len(c2s') : c2s'[n].k < sess'
    <3>1. CASE c2s' = c2s
      BY <2>1, <2>2, <3>1
    <3>2. CASE c2s # <<>> /\ c2s' = Tail(c2s)
      <4>1. Len(c2s') = Len(c2s) - 1 /\ \A n \in 1..Len(c2s') : c2s'[n] = c2s[n + 1]
        BY <1>a, <3>2, QueueTail
      <4>2. \A n \in 1..Len(c2s') : n + 1 \in 1..Len(c2s)
        BY <1>a, <4>1
      <4> QED
        BY <2>1, <2>2, <4>1, <4>2
    <3> QED
      BY <2>3, <3>1, <3>2
  <2> QED
    BY <2>6, <2>7
<1> QED
  BY <1>1, <1>2

(* A refusal that stands was put in flight, and only the client takes it.   *)
LEMMA StandingRefusal ==
    ASSUME IInv, Unanswered, Action,
           cst' = "relay", cDown' = "run", ~broken', sst' = "request", refused', skey' = sess'
    PROVE  s2c' # <<>>
<1> USE SameParts
<1>a. /\ FlightType /\ PlaceType /\ s2c \in Seq(S2CFrame) /\ skey \in Nat
      /\ sst = "zero" => ~refused
      /\ sst = "drain" => ~refused
  BY DEF IInv, FlightType, PlaceType, ServerInv
<1>1. CASE ServerDialFail
  <2>1. <<Frame("error", skey, 0)>> \in Seq(S2CFrame) /\ <<Frame("error", skey, 0)>> # <<>>
    BY <1>a, S2CFrameType DEF S2CType
  <2>2. s2c' = Queued(s2c, <<Frame("error", skey, 0)>>) /\ ~broken
    BY <1>1 DEF ServerDialFail
  <2> QED
    BY <1>a, <2>1, <2>2, S2CGrows
<1>2. CASE ClientWriteHeader
  <2>1. cst = "header" /\ UNCHANGED <<skey, sess>>
    BY <1>2 DEF ClientWriteHeader
  <2>2. skey < sess
    BY <2>1 DEF Unanswered
  <2>3. sess = skey
    BY <2>1
  <2> QED
    BY <1>a, <2>2, <2>3
<1>3. CASE ClientDownCopy
  <2>1. refused /\ skey = sess
    BY <1>3 DEF ClientDownCopy
  <2> QED
    BY <1>3, <2>1, RefusalEnds
<1>4. CASE ServerZero
  BY <1>4, <1>a DEF ServerZero
<1>5. CASE ServerDrain \/ ServerDrainFail
  BY <1>5, <1>a DEF ServerDrain, ServerDrainFail
<1>6. CASE ServerDownCopy \/ ServerFinish \/ ServerRequest \/ ClientDrainRead \/ ClientTake
  <2>1. PutStates(sess) \subseteq {"idle", "closed"}
    BY DEF PutStates
  <2> QED
    BY <1>6, <2>1 DEF ServerDownCopy, ServerFinish, ServerRequest, ClientDrainRead, ClientTake
<1>7. CASE \/ ClientUpHalts \/ ClientUpCopy \/ ServerUpStop \/ ServerDownHalts \/ ServerUpCopy
           \/ LocalClose \/ UpstreamSend \/ UpstreamClose \/ NetBreak \/ ServerUpRefused
  <2>1. UNCHANGED <<s2c, skey, sess, cst, cDown, sst, refused>>
    BY <1>7
    DEF ClientUpHalts, ClientUpCopy, ClientUpEnds, ServerUpStop, ServerUpEnds, ServerDownHalts,
        ServerDownEnds, ServerUpCopy, ServerUpRefused, LocalClose, UpstreamSend, UpstreamClose, NetBreak
  <2>2. ~broken
    BY <1>7
    DEF ClientUpHalts, ClientUpCopy, ServerUpStop, ServerDownHalts, ServerUpCopy, LocalClose,
        UpstreamSend, UpstreamClose, NetBreak, ServerUpRefused
  <2> QED
    BY <2>1, <2>2 DEF Unanswered
<1>8. CASE ClientClose \/ ClientJoin \/ ClientDrainFail \/ ClientExpire \/ ClientDownHalts
  BY <1>8 DEF ClientClose, ClientJoin, ClientDrainFail, ClientExpire, ClientDownHalts, ClientDownEnds
<1>9. CASE ServerRequestFail \/ ServerDialOk \/ ServerJoin
  BY <1>9 DEF ServerRequestFail, ServerDialOk, ServerJoin
<1> QED
  BY <1>1, <1>2, <1>3, <1>4, <1>5, <1>6, <1>7, <1>8, <1>9 DEF Action

LEMMA UnansweredStep == IInv /\ Unanswered /\ Action => Unanswered'
  BY BeforeHeader, StandingRefusal DEF Unanswered

LEMMA WaitInvariance == ASSUME MaxUses <= 2 PROVE Spec => [](IInv /\ Wakes /\ Unanswered)
<1>1. IInv /\ Wakes /\ Unanswered /\ [Next]_vars => Wakes' /\ Unanswered'
  <2>1. SUFFICES ASSUME IInv, Wakes, Unanswered, [Next]_vars PROVE Wakes' /\ Unanswered'
    OBVIOUS
  <2>2. CASE Action
    BY <2>1, <2>2, WakesStep, UnansweredStep
  <2>3. CASE UNCHANGED rest
    BY <2>1, <2>3, SameParts DEF rest, Wakes, Unanswered
  <2> QED
    BY <2>1, <2>2, <2>3, NextCases, RestReturns
<1> QED
  BY <1>1, WakesInit, UnansweredInit, Invariance, PTL DEF Spec

-----------------------------------------------------------------------------
(* An end that has nothing to do *)

(* A client whose pumps only listen: neither its application nor the server *)
(* has sent anything, or the write of what the application sent waits.      *)
ClientListens ==
    /\ cst = "relay" /\ cUp = "run" /\ cDown = "run" /\ "cDown" \notin writing
    /\ s2c = <<>> /\ ~broken /\ ~sClosed
    /\ "cUp" \in writing => ~ClientFree
    /\ "cUp" \notin writing => ~lEOF

(* A server that only listens, to the client and in Relay to the destination. *)
ServerListens ==
    /\ ~broken /\ ~cClosed
    /\ \/ DrainStarves
       \/ sst \in {"request", "drain"} /\ c2s = <<>>
       \/ /\ sst = "relay" /\ sUp = "run" /\ sDown = "run" /\ "sUp" \notin writing
          /\ c2s = <<>>
          /\ "sDown" \in writing => ~ServerFree
          /\ "sDown" \notin writing => ~uEOF

LEMMA ClientWaits ==
    ASSUME IInv, Wakes, ~ClientMoves, ~AppOwesRead
    PROVE  cClosed \/ cst = "idle" \/ ClientBackedUp \/ ClientListens
<1>a. /\ cst \in {"header", "relay", "close", "drain", "idle", "closed"}
      /\ cUp \in {"run", "done"} /\ cDown \in {"run", "done"}
  BY DEF IInv, PlaceType
<1>1. CASE cst \in {"header", "close"}
  BY <1>1 DEF ClientMoves, ClientBackedUp
<1>2. CASE cst = "drain"
  BY <1>2 DEF ClientMoves
<1>3. CASE cst = "relay"
  <2>1. CASE cUp = "done"
    <3>1. cDown = "run" /\ cDl
      BY <1>a, <1>3, <2>1 DEF ClientMoves, Wakes
    <3> QED
      BY <1>3, <3>1 DEF ClientMoves, AppOwesRead
  <2>2. CASE cUp = "run" /\ cDown = "done"
    <3>1. lDl /\ "cUp" \in writing /\ ~ClientFree
      BY <1>3, <2>2 DEF ClientMoves, Wakes
    <3> QED
      BY <1>3, <2>2, <3>1 DEF ClientBackedUp
  <2>3. CASE cUp = "run" /\ cDown = "run"
    <3>1. "cDown" \notin writing
      BY <1>3, <2>3 DEF ClientMoves, AppOwesRead
    <3>2. s2c = <<>> /\ ~broken /\ ~sClosed
      BY <1>3, <2>3, <3>1 DEF ClientMoves, ClientReadFails, Wakes
    <3>3. ("cUp" \in writing => ~ClientFree) /\ ("cUp" \notin writing => ~lEOF)
      BY <1>3, <2>3 DEF ClientMoves
    <3> QED
      BY <1>3, <2>3, <3>1, <3>2, <3>3 DEF ClientListens
  <2> QED
    BY <1>a, <2>1, <2>2, <2>3
<1> QED
  BY <1>a, <1>1, <1>2, <1>3 DEF cClosed

LEMMA ServerWaits ==
    ASSUME IInv, Wakes, ~ServerMoves, ~DestOwesRead
    PROVE  sClosed \/ ServerBackedUp \/ ServerListens
<1>a. /\ sst \in {"request", "dial", "relay", "finish", "zero", "drain", "closed"}
      /\ sUp \in {"run", "done"} /\ sDown \in {"run", "done"}
      /\ sDesync /\ sst # "closed" => /\ c2s # <<>>
                                      /\ sst \in {"relay", "finish", "zero", "drain"}
      /\ sst = "relay" /\ sUp = "run" => ~zeroSeen /\ ~sDesync
  BY DEF IInv, PlaceType, ServerInv
<1>b. Len(c2s) \in Nat /\ (c2s # <<>> => Len(c2s) > 0)
  BY EmptySeq DEF IInv, FlightType
<1>1. CASE sst \in {"dial", "finish", "zero"}
  BY <1>1 DEF ServerMoves, ServerBackedUp
<1>2. CASE sst = "request"
  <2>1. ~broken /\ ~cClosed /\ c2s = <<>>
    BY <1>a, <1>2 DEF ServerMoves, ServerReadFails
  <2> QED
    BY <1>2, <2>1 DEF ServerListens
<1>3. CASE sst = "drain"
  <2>1. ~broken /\ ~cClosed /\ (sDesync \/ c2s = <<>>)
    BY <1>3, Zenon DEF ServerMoves, ServerReadFails
  <2>3. sDesync => ~(Len(c2s) > 1)
    BY <1>3, Zenon DEF ServerMoves
  <2>2. sDesync => DrainStarves
    BY <1>a, <1>b, <1>3, <2>3 DEF DrainStarves
  <2> QED
    BY <1>3, <2>1, <2>2 DEF ServerListens
<1>4. CASE sst = "relay"
  <2>1. CASE sUp = "done"
    <3>1. sDown = "run" /\ uDl
      BY <1>a, <1>4, <2>1 DEF ServerMoves, Wakes
    <3>2. "sDown" \in writing /\ ~ServerFree
      BY <1>4, <3>1 DEF ServerMoves
    <3> QED
      BY <1>4, <2>1, <3>2 DEF ServerBackedUp
  <2>2. CASE sUp = "run"
    <3>1. "sUp" \notin writing
      BY <1>4, <2>2 DEF ServerMoves, DestOwesRead
    <3>2. ~sDl /\ ~broken /\ ~cClosed /\ c2s = <<>>
      BY <1>a, <1>4, <2>2, <3>1 DEF ServerMoves, ServerReadFails
    <3>3. sDown = "run"
      BY <1>a, <1>4, <3>2 DEF Wakes
    <3>4. ("sDown" \in writing => ~ServerFree) /\ ("sDown" \notin writing => ~uEOF)
      BY <1>4, <3>3 DEF ServerMoves
    <3> QED
      BY <1>4, <2>2, <3>1, <3>2, <3>3, <3>4 DEF ServerListens
  <2> QED
    BY <1>a, <2>1, <2>2
<1> QED
  BY <1>a, <1>1, <1>2, <1>3, <1>4 DEF sClosed

(* With nothing in flight to the server, what the client may write next is  *)
(* what the server waits for.                                               *)
LEMMA NextWrite ==
    ASSUME IInv, ~broken, c2s = <<>>, ~sClosed
    PROVE  \A f \in Writes : Awaits(f)
  BY DEF IInv, Requests, Fits, sClosed

(* A client that listens is not past the session the server drains: it has  *)
(* not read what ended it.                                                  *)
LEMMA DrainBehind ==
    ASSUME IInv, ClientListens, sst = "drain", sess = skey
    PROVE  FALSE
<1>1. ~refused /\ skey \in Nat
  BY DEF IInv, ServerInv, PlaceType
<1>2. cst = "relay" /\ cDown = "run" /\ s2c = <<>> /\ ~broken
  BY DEF ClientListens
<1>3. Frame("error", skey + 1, 0) \in Replies
  BY <1>1 DEF Replies, Starts
<1>4. Expects(Frame("error", skey + 1, 0))
  BY <1>2, <1>3 DEF IInv, Responses
<1>5. CASE reply
  BY <1>2, <1>4, <1>5, FrameFields DEF Expects
<1>6. CASE ~reply
  <2>1. skey + 1 = sess
    BY <1>2, <1>4, <1>6, FrameFields DEF Expects, Starts
  <2> QED
    BY <1>1, <2>1
<1> QED
  BY <1>5, <1>6

(* A server that holds part of a frame in its drain holds part of the       *)
(* session's payload, or of its zero chunk; behind the former the client    *)
(* would still write to that session.                                       *)
LEMMA ListensBeforeDrain ==
    ASSUME IInv, ClientListens, DrainStarves
    PROVE  FALSE
<1>1. cst = "relay" /\ cUp = "run" /\ ~broken
  BY DEF ClientListens
<1>2. sst = "drain" /\ Len(c2s) = 1 /\ c2s # <<>> /\ Head(c2s) = c2s[1] /\ ~zeroSeen
  BY EmptySeq DEF DrainStarves, IInv, FlightType, ServerInv
<1>3. Head(c2s).t \in {"data", "zero"} /\ Head(c2s).k = skey
  <2>1. Awaits(Head(c2s))
    BY <1>2, NextRequest
  <2> QED
    BY <1>2, <2>1 DEF Awaits, AtBoundary
<1>4. Follows(Head(c2s), Frame("zero", sess, 0))
  <2>1. Frame("zero", sess, 0) \in Writes
    BY <1>1 DEF Writes
  <2>2. Fits(Frame("zero", sess, 0))
    BY <1>1, <2>1 DEF IInv, Requests
  <2> QED
    BY <1>2, <2>2 DEF Fits
<1>5. sess = skey
  BY <1>3, <1>4, FrameFields DEF Follows
<1> QED
  BY <1>2, <1>5, DrainBehind

(* A client that relays and a server that waits, both listening, are in the *)
(* same session, and the server is not past it.                             *)
LEMMA BothListen ==
    ASSUME writing \subseteq Pumps, IInv, Unanswered, ClientListens, ServerListens
    PROVE  QuietTunnel
<1>1. /\ cst = "relay" /\ cUp = "run" /\ cDown = "run" /\ s2c = <<>> /\ ~broken /\ ~sClosed
      /\ "cDown" \notin writing /\ ~DrainStarves
  BY ListensBeforeDrain DEF ClientListens
<1>2. /\ c2s = <<>> /\ sst \in {"request", "drain", "relay"}
      /\ sst = "relay" => /\ sUp = "run" /\ sDown = "run" /\ "sUp" \notin writing
                          /\ "sDown" \in writing => ~ServerFree
                          /\ "sDown" \notin writing => ~uEOF
  BY <1>1 DEF ServerListens
<1>3. "cUp" \notin writing /\ ~lEOF
  BY <1>2 DEF ClientListens, ClientFree
<1>4. sst = "relay" => "sDown" \notin writing /\ ~uEOF
  BY <1>1, <1>2 DEF ServerFree
<1>5. Awaits(Frame("zero", sess, 0))
  <2>1. Frame("zero", sess, 0) \in Writes
    BY <1>1 DEF Writes
  <2> QED
    BY <1>1, <1>2, <2>1, NextWrite
<1>6. ~AtBoundary /\ sess = skey
  <2>1. ~AtBoundary
    BY <1>5, FrameFields DEF Awaits
  <2> QED
    BY <1>5, <2>1, FrameFields DEF Awaits
<1>7. sst # "request"
  BY <1>1, <1>6 DEF Unanswered, AtBoundary
<1>8. sst # "drain"
  BY <1>6, DrainBehind
<1>9. sst = "relay" /\ writing = {}
  BY <1>1, <1>2, <1>3, <1>4, <1>7, <1>8 DEF Pumps
<1> QED
  BY <1>1, <1>2, <1>3, <1>4, <1>6, <1>9 DEF QuietTunnel

(* What is left on a pooled connection has room behind it for nothing the   *)
(* epilogue still writes: the server is past it, and never backed up.       *)
LEMMA PoolTakesNoWrite ==
    ASSUME IInv, cst = "idle"
    PROVE  ~ServerBackedUp
<1>1. SUFFICES ASSUME ServerBackedUp PROVE FALSE
  OBVIOUS
<1>2. sst \in {"zero", "drain", "request", "closed"} /\ skey = sess /\ sess \in Nat
  BY DEF IInv, SessionInv, PlaceType
<1>3. sst = "zero" /\ s2c # <<>> /\ ~broken
  BY <1>1, <1>2 DEF ServerBackedUp, ServerWrites, ServerFree, ServerWriteFails
<1>4. Len(s2c) \in Nat /\ Len(s2c) > 0 /\ PooledClean
  BY <1>3, S2CPlaces, IdleIsClean
<1>5. s2c[Len(s2c)] = Frame("zero", sess, 1)
  BY <1>4 DEF PooledClean
<1>6. Frame("zero", skey, uRead + 1) \in Replies
  BY <1>3 DEF Replies
<1>7. Answers(s2c[Len(s2c)], Frame("zero", skey, uRead + 1))
  BY <1>3, <1>6 DEF IInv, Responses
<1>8. Frame("zero", skey, uRead + 1) \in Starts(sess + 1)
  BY <1>5, <1>7, FrameFields DEF Answers
<1> QED
  BY <1>2, <1>8, FrameFields DEF Starts

LEMMA PoolWaits ==
    ASSUME IInv, cst = "idle", sClosed \/ ServerListens
    PROVE  Parked
<1>1. CASE sClosed \/ DrainStarves
  BY <1>1 DEF Parked, sClosed
<1>2. CASE ~sClosed /\ ~DrainStarves
  <2>1. sst \in {"zero", "drain", "request", "closed"}
    BY DEF IInv, SessionInv
  <2>2. c2s = <<>> /\ ~broken /\ sst \in {"request", "drain"}
    BY <1>2, <2>1 DEF ServerListens
  <2>3. sst # "drain"
    <3>1. SUFFICES ASSUME sst = "drain" PROVE FALSE
      OBVIOUS
    <3>2. Frame("header", sess + 1, 0) \in Writes
      BY DEF Writes
    <3>3. Awaits(Frame("header", sess + 1, 0))
      BY <1>2, <2>2, <3>2, NextWrite
    <3>4. ~zeroSeen
      BY <3>1 DEF IInv, ServerInv
    <3> QED
      BY <3>1, <3>3, <3>4, FrameFields DEF Awaits, AtBoundary
  <2> QED
    BY <2>2, <2>3 DEF Parked
<1> QED
  BY <1>1, <1>2

(* Client and server wait on each other in one way only: each in a write to *)
(* an end that no longer reads.  Two Relays, two half-closes, the fallback  *)
(* response, a refusal and a drain without a deadline leave no other way,   *)
(* whatever was reset, refused or cut off, as long as the application and   *)
(* the destination take what they are sent or are gone (Relay, handleTCP's  *)
(* epilogue, PoolConn.Close).                                               *)
THEOREM NeitherEndWaits == ASSUME MaxUses <= 2 PROVE Spec => []SessionNotStuck
<1>1. TypeOK /\ IInv /\ Wakes /\ Unanswered => SessionNotStuck
  <2>1. SUFFICES ASSUME writing \subseteq Pumps, IInv, Wakes, Unanswered,
                        ~ClientMoves, ~ServerMoves, ~AppOwesRead, ~DestOwesRead
                 PROVE  QuietTunnel \/ Parked \/ (cClosed /\ sClosed) \/ BackedUp
    BY TypeParts DEF SessionNotStuck
  <2>2. sClosed \/ ServerBackedUp \/ ServerListens
    BY <2>1, ServerWaits
  <2>3. CASE cClosed
    <3>1. ~ServerBackedUp /\ ~ServerListens
      BY <2>3 DEF ServerBackedUp, ServerFree, ServerWriteFails, ServerListens
    <3> QED
      BY <2>2, <2>3, <3>1
  <2>4. CASE cst = "idle"
    BY <2>1, <2>2, <2>4, PoolTakesNoWrite, PoolWaits
  <2>5. CASE ClientBackedUp
    <3>1. c2s # <<>> /\ ~DrainStarves /\ ~sClosed
      BY <2>5 DEF ClientBackedUp, ClientFree, ClientWriteFails
    <3>2. ~ServerListens
      BY <3>1 DEF ServerListens
    <3> QED
      BY <2>2, <2>5, <3>1, <3>2 DEF BackedUp
  <2>6. CASE ClientListens
    <3>1. ~sClosed /\ ~ServerBackedUp
      BY <2>6 DEF ClientListens, ServerBackedUp, ServerFree
    <3> QED
      BY <2>1, <2>2, <2>6, <3>1, BothListen
  <2> QED
    BY <2>1, <2>3, <2>4, <2>5, <2>6, ClientWaits
<1> QED
  BY <1>1, TypeCorrect, WaitInvariance, PTL

-----------------------------------------------------------------------------
(* Nothing goes on for ever *)

(* A connection that may be used again is below its cap, whatever the cap.  *)
UsesInv ==
    /\ sess \in 1..MaxUses
    /\ cst = "idle" => sess < MaxUses

LEMMA UsesStep == UsesInv /\ Action => UsesInv'
<1> SUFFICES ASSUME UsesInv, Action PROVE UsesInv'
  OBVIOUS
<1> USE SameParts, MaxUsesAssumption DEF UsesInv
<1>1. CASE ClientTake
  BY <1>1 DEF ClientTake
<1>2. CASE ClientDrainRead
  <2>1. cst' = "idle" => sess < MaxUses
    BY <1>2 DEF ClientDrainRead, PutStates
  <2> QED
    BY <1>2, <2>1 DEF ClientDrainRead
<1>3. CASE ~ClientTake /\ ~ClientDrainRead
  <2>1. sess' = sess /\ (cst' = "idle" => cst = "idle")
    BY <1>3
    DEF Action, ClientUpHalts, ClientDownHalts, ClientJoin, ClientDrainFail, ClientExpire,
        LocalClose, ServerRequestFail, ServerDialOk, ServerUpStop, ServerDownHalts, ServerJoin,
        ServerDrainFail, UpstreamSend, UpstreamClose, NetBreak, ClientWriteHeader, ClientUpCopy,
        ClientDownCopy, ClientClose, ServerRequest, ServerDialFail,
        ServerUpCopy, ServerDownCopy, ServerFinish, ServerZero, ServerDrain, ServerUpRefused
  <2> QED
    BY <2>1
<1> QED
  BY <1>1, <1>2, <1>3

(* What is left to do is counted in natural numbers.                        *)
Counts ==
    /\ MaxUses - sess \in Nat /\ ClientPlace \in Nat /\ ClientWork \in Nat
    /\ Len(c2s) \in Nat /\ ServerPlace \in Nat /\ ServerWork \in Nat /\ Len(s2c) \in Nat
    /\ WritesLeft \in Nat

LEMMA Counted == PlaceType /\ FlightType /\ UsesInv => Counts
<1> SUFFICES ASSUME PlaceType, FlightType, UsesInv PROVE Counts
  OBVIOUS
<1>1. MaxUses - sess \in Nat
  BY MaxUsesAssumption DEF UsesInv
<1>2. ClientPlace \in Nat /\ ServerPlace \in Nat
  BY DEF PlaceType, ClientPlace, ServerPlace
<1>4. ClientWork \in Nat
  <2>1. MaxUp - lSent \in Nat
    BY BoundsAssumption DEF PlaceType
  <2>2. Count(~lEOF) \in Nat /\ Count(~broken) \in Nat /\ Count(cUp = "run") \in Nat /\ Count(cDown = "run") \in Nat
    BY DEF Count
  <2> QED
    BY <2>1, <2>2 DEF ClientWork
<1>5. ServerWork \in Nat
  <2>1. MaxDown - uSent \in Nat /\ MaxDown - uRead \in Nat
    BY BoundsAssumption DEF PlaceType
  <2>2. Count(~uEOF) \in Nat /\ Count(sUp = "run") \in Nat /\ Count(sDown = "run") \in Nat
    BY DEF Count
  <2> QED
    BY <2>1, <2>2 DEF ServerWork
<1>6. Len(c2s) \in Nat /\ Len(s2c) \in Nat
  BY DEF FlightType
<1>7. WritesLeft \in Nat
  BY DEF WritesLeft, Count
<1> QED
  BY <1>1, <1>2, <1>4, <1>5, <1>6, <1>7 DEF Counts

LEMMA LeftParts ==
    /\ Left[1] = MaxUses - sess /\ Left[2] = ClientPlace /\ Left[3] = ClientWork
    /\ Left[4] = Len(c2s) /\ Left[5] = ServerPlace /\ Left[6] = ServerWork /\ Left[7] = Len(s2c)
    /\ Left[8] = WritesLeft
    /\ Left = [n \in Parts |-> Left[n]]
  BY DEF Left, Parts

(* A step lowers what is left if it lowers one count and leaves those in    *)
(* front of it alone.                                                       *)
Lowered ==
    \/ MaxUses - sess' < MaxUses - sess
    \/ sess' = sess /\ \/ ClientPlace' < ClientPlace
                       \/ ClientPlace' = ClientPlace /\ ClientWork' < ClientWork
                       \/ /\ ClientPlace' = ClientPlace /\ ClientWork' = ClientWork
                          /\ \/ Len(c2s') < Len(c2s)
                             \/ Len(c2s') = Len(c2s) /\ ServerPlace' < ServerPlace
                             \/ /\ Len(c2s') = Len(c2s) /\ ServerPlace' = ServerPlace
                                /\ \/ ServerWork' < ServerWork
                                   \/ ServerWork' = ServerWork /\ Len(s2c') < Len(s2c)
                                   \/ /\ ServerWork' = ServerWork /\ Len(s2c') = Len(s2c)
                                      /\ WritesLeft' < WritesLeft

LEMMA CountedLeft ==
    Counts => \A n \in Parts : Left[n] \in Nat
<1> SUFFICES ASSUME Counts, NEW n \in Parts PROVE Left[n] \in Nat
  OBVIOUS
<1>1. n \in {1, 2, 3, 4, 5, 6, 7, 8}
  BY DEF Parts
<1> QED
  BY <1>1, LeftParts DEF Counts

LEMMA LoweredAt ==
    ASSUME Counts, Left' \in [Parts -> Nat], NEW k \in Parts, Left'[k] < Left[k],
           \A m \in 1..k - 1 : Left'[m] = Left[m]
    PROVE  /\ Left' \in [Parts -> Nat]
           /\ \E n \in Parts : Left'[n] < Left[n] /\ \A m \in 1..n - 1 : Left'[m] <= Left[m]
<1>1. ASSUME NEW m \in 1..k - 1 PROVE Left'[m] <= Left[m]
  <2>1. m \in Parts
    BY DEF Parts
  <2>2. Left[m] \in Nat /\ Left'[m] = Left[m]
    BY <2>1, CountedLeft
  <2> QED
    BY <2>2
<1> QED
  BY <1>1

LEMMA LoweredLeft ==
    ASSUME Counts, Counts', Lowered
    PROVE  /\ Left' \in [Parts -> Nat]
           /\ \E n \in Parts : Left'[n] < Left[n] /\ \A m \in 1..n - 1 : Left'[m] <= Left[m]
<1>1. /\ MaxUses - sess \in Nat /\ ClientPlace \in Nat /\ ClientWork \in Nat
      /\ Len(c2s) \in Nat /\ ServerPlace \in Nat /\ ServerWork \in Nat /\ Len(s2c) \in Nat
      /\ WritesLeft \in Nat
  BY DEF Counts
<1>2. /\ MaxUses - sess' \in Nat /\ ClientPlace' \in Nat /\ ClientWork' \in Nat
      /\ Len(c2s') \in Nat /\ ServerPlace' \in Nat /\ ServerWork' \in Nat /\ Len(s2c') \in Nat
      /\ WritesLeft' \in Nat
  BY DEF Counts
<1>3. /\ Left'[1] = MaxUses - sess' /\ Left'[2] = ClientPlace' /\ Left'[3] = ClientWork'
      /\ Left'[4] = Len(c2s') /\ Left'[5] = ServerPlace' /\ Left'[6] = ServerWork'
      /\ Left'[7] = Len(s2c') /\ Left'[8] = WritesLeft' /\ Left' = [n \in Parts |-> Left'[n]]
  BY DEF Left, Parts
<1>4. Left' \in [Parts -> Nat]
  BY <1>2, <1>3 DEF Parts
<1>5. CASE MaxUses - sess' < MaxUses - sess
  <2>1. Left'[1] < Left[1]
    BY <1>3, <1>5, LeftParts
  <2>2. 1 \in Parts /\ \A m \in 1..1 - 1 : FALSE
    BY DEF Parts
  <2>3. \A m \in 1..1 - 1 : Left'[m] = Left[m]
    BY <2>2
  <2> QED
    BY <1>4, <2>1, <2>2, <2>3, LoweredAt
<1>6. CASE sess' = sess /\ ClientPlace' < ClientPlace
  <2>1. /\ Left'[2] < Left[2]
        /\ Left'[1] = Left[1]
    BY <1>3, <1>6, LeftParts
  <2>2. 2 \in Parts /\ \A m \in 1..2 - 1 : m = 1
    BY DEF Parts
  <2>3. \A m \in 1..2 - 1 : Left'[m] = Left[m]
    BY <2>1, <2>2
  <2> QED
    BY <1>4, <2>1, <2>2, <2>3, LoweredAt
<1>7. CASE /\ sess' = sess /\ ClientPlace' = ClientPlace /\ ClientWork' < ClientWork
  <2>1. /\ Left'[3] < Left[3]
        /\ Left'[1] = Left[1] /\ Left'[2] = Left[2]
    BY <1>3, <1>7, LeftParts
  <2>2. 3 \in Parts /\ \A m \in 1..3 - 1 : m = 1 \/ m = 2
    BY DEF Parts
  <2>3. \A m \in 1..3 - 1 : Left'[m] = Left[m]
    BY <2>1, <2>2
  <2> QED
    BY <1>4, <2>1, <2>2, <2>3, LoweredAt
<1>8. CASE /\ sess' = sess /\ ClientPlace' = ClientPlace /\ ClientWork' = ClientWork
           /\ Len(c2s') < Len(c2s)
  <2>1. /\ Left'[4] < Left[4]
        /\ Left'[1] = Left[1] /\ Left'[2] = Left[2] /\ Left'[3] = Left[3]
    BY <1>3, <1>8, LeftParts
  <2>2. 4 \in Parts /\ \A m \in 1..4 - 1 : m = 1 \/ m = 2 \/ m = 3
    BY DEF Parts
  <2>3. \A m \in 1..4 - 1 : Left'[m] = Left[m]
    BY <2>1, <2>2
  <2> QED
    BY <1>4, <2>1, <2>2, <2>3, LoweredAt
<1>9. CASE /\ sess' = sess /\ ClientPlace' = ClientPlace /\ ClientWork' = ClientWork
           /\ Len(c2s') = Len(c2s) /\ ServerPlace' < ServerPlace
  <2>1. /\ Left'[5] < Left[5]
        /\ Left'[1] = Left[1] /\ Left'[2] = Left[2] /\ Left'[3] = Left[3]
        /\ Left'[4] = Left[4]
    BY <1>3, <1>9, LeftParts
  <2>2. 5 \in Parts /\ \A m \in 1..5 - 1 : m = 1 \/ m = 2 \/ m = 3 \/ m = 4
    BY DEF Parts
  <2>3. \A m \in 1..5 - 1 : Left'[m] = Left[m]
    BY <2>1, <2>2
  <2> QED
    BY <1>4, <2>1, <2>2, <2>3, LoweredAt
<1>10. CASE /\ sess' = sess /\ ClientPlace' = ClientPlace /\ ClientWork' = ClientWork
            /\ Len(c2s') = Len(c2s) /\ ServerPlace' = ServerPlace /\ ServerWork' < ServerWork
  <2>1. /\ Left'[6] < Left[6]
        /\ Left'[1] = Left[1] /\ Left'[2] = Left[2] /\ Left'[3] = Left[3]
        /\ Left'[4] = Left[4] /\ Left'[5] = Left[5]
    BY <1>3, <1>10, LeftParts
  <2>2. 6 \in Parts /\ \A m \in 1..6 - 1 : m = 1 \/ m = 2 \/ m = 3 \/ m = 4 \/ m = 5
    BY DEF Parts
  <2>3. \A m \in 1..6 - 1 : Left'[m] = Left[m]
    BY <2>1, <2>2
  <2> QED
    BY <1>4, <2>1, <2>2, <2>3, LoweredAt
<1>11. CASE /\ sess' = sess /\ ClientPlace' = ClientPlace /\ ClientWork' = ClientWork
            /\ Len(c2s') = Len(c2s) /\ ServerPlace' = ServerPlace /\ ServerWork' = ServerWork
            /\ Len(s2c') < Len(s2c)
  <2>1. /\ Left'[7] < Left[7]
        /\ Left'[1] = Left[1] /\ Left'[2] = Left[2] /\ Left'[3] = Left[3]
        /\ Left'[4] = Left[4] /\ Left'[5] = Left[5] /\ Left'[6] = Left[6]
    BY <1>3, <1>11, LeftParts
  <2>2. 7 \in Parts /\ \A m \in 1..7 - 1 : m = 1 \/ m = 2 \/ m = 3 \/ m = 4 \/ m = 5 \/ m = 6
    BY DEF Parts
  <2>3. \A m \in 1..7 - 1 : Left'[m] = Left[m]
    BY <2>1, <2>2
  <2> QED
    BY <1>4, <2>1, <2>2, <2>3, LoweredAt
<1>12. CASE /\ sess' = sess /\ ClientPlace' = ClientPlace /\ ClientWork' = ClientWork
            /\ Len(c2s') = Len(c2s) /\ ServerPlace' = ServerPlace /\ ServerWork' = ServerWork
            /\ Len(s2c') = Len(s2c) /\ WritesLeft' < WritesLeft
  <2>1. /\ Left'[8] < Left[8]
        /\ Left'[1] = Left[1] /\ Left'[2] = Left[2] /\ Left'[3] = Left[3]
        /\ Left'[4] = Left[4] /\ Left'[5] = Left[5] /\ Left'[6] = Left[6] /\ Left'[7] = Left[7]
    BY <1>3, <1>12, LeftParts
  <2>2. 8 \in Parts /\ \A m \in 1..8 - 1 : m = 1 \/ m = 2 \/ m = 3 \/ m = 4 \/ m = 5 \/ m = 6 \/ m = 7
    BY DEF Parts
  <2>3. \A m \in 1..8 - 1 : Left'[m] = Left[m]
    BY <2>1, <2>2
  <2> QED
    BY <1>4, <2>1, <2>2, <2>3, LoweredAt
<1> QED
  BY <1>5, <1>6, <1>7, <1>8, <1>9, <1>10, <1>11, <1>12 DEF Lowered

LEMMA C2STaken == FlightType /\ c2s # <<>> => Len(Tail(c2s)) < Len(c2s)
  BY DEF FlightType

LEMMA S2CTaken == FlightType /\ s2c # <<>> => Len(Tail(s2c)) < Len(s2c)
  BY DEF FlightType

LEMMA EveryStepLowers == PlaceType /\ FlagType /\ FlightType /\ UsesInv /\ Action => Lowered
<1> SUFFICES ASSUME PlaceType, FlagType, FlightType, UsesInv, Action PROVE Lowered
  OBVIOUS
<1> USE SameParts, BoundsAssumption, MaxUsesAssumption DEF PlaceType, Lowered
<1>1. CASE ClientUpHalts
  BY SMTT(30), <1>1 DEF ClientUpHalts, ClientUpEnds, ClientPlace, ClientWork, Count
<1>2. CASE ClientDownHalts
  BY SMTT(30), <1>2 DEF ClientDownHalts, ClientDownEnds, ClientPlace, ClientWork, Count
<1>3. CASE ClientJoin
  BY <1>3 DEF ClientJoin, ClientPlace
<1>4. CASE ClientDrainFail
  BY <1>4 DEF ClientDrainFail, ClientPlace
<1>5. CASE ClientExpire
  BY <1>5 DEF ClientExpire, ClientPlace
<1>6. CASE LocalClose
  BY SMTT(30), <1>6 DEF LocalClose, ClientPlace, ClientWork, Count
<1>7. CASE ServerRequestFail
  BY <1>7 DEF ServerRequestFail, ClientPlace, ClientWork, ServerPlace
<1>8. CASE ServerDialOk
  BY <1>8 DEF ServerDialOk, ClientPlace, ClientWork, ServerPlace
<1>9. CASE ServerUpStop
  <2>1. /\ sUp = "run" /\ sUp' = "done"
        /\ UNCHANGED <<client, local, sst, skey, sDown, uEOF, uSent, uRead, c2s, broken>>
    BY <1>9 DEF ServerUpStop, ServerUpEnds
  <2>2. UNCHANGED <<ClientPlace, ClientWork, ServerPlace>>
    BY <2>1 DEF ClientPlace, ClientWork, ServerPlace
  <2>3. ServerWork' < ServerWork
    BY <2>1 DEF ServerWork, Count
  <2> QED
    BY <2>1, <2>2, <2>3
<1>10. CASE ServerDownHalts
  <2>1. /\ sDown = "run" /\ sDown' = "done"
        /\ UNCHANGED <<client, local, sst, skey, sUp, uEOF, uSent, uRead, c2s, broken>>
    BY <1>10 DEF ServerDownHalts, ServerDownEnds
  <2>2. UNCHANGED <<ClientPlace, ClientWork, ServerPlace>>
    BY <2>1 DEF ClientPlace, ClientWork, ServerPlace
  <2>3. ServerWork' < ServerWork
    BY <2>1 DEF ServerWork, Count
  <2> QED
    BY <2>1, <2>2, <2>3
<1>11. CASE ServerJoin
  BY <1>11 DEF ServerJoin, ClientPlace, ClientWork, ServerPlace
<1>12. CASE ServerDrainFail
  BY <1>12 DEF ServerDrainFail, ClientPlace, ClientWork, ServerPlace
<1>13. CASE UpstreamSend
  <2>1. /\ uSent' = uSent + 1 /\ uSent \in Nat /\ uRead \in Nat
        /\ UNCHANGED <<client, local, server, uEOF, uRead, c2s, s2c, broken>>
    BY <1>13 DEF UpstreamSend
  <2>2. UNCHANGED <<ClientPlace, ClientWork, ServerPlace>>
    BY <2>1 DEF ClientPlace, ClientWork, ServerPlace
  <2>3. ServerWork' < ServerWork
    BY <2>1 DEF ServerWork, Count
  <2> QED
    BY <2>1, <2>2, <2>3
<1>14. CASE UpstreamClose
  <2>1. /\ ~uEOF /\ uEOF'
        /\ UNCHANGED <<client, local, server, uSent, uRead, c2s, broken>>
    BY <1>14 DEF UpstreamClose
  <2>2. UNCHANGED <<ClientPlace, ClientWork, ServerPlace>>
    BY <2>1 DEF ClientPlace, ClientWork, ServerPlace
  <2>3. ServerWork' < ServerWork
    BY <2>1 DEF ServerWork, Count
  <2> QED
    BY <2>1, <2>2, <2>3
<1>15. CASE NetBreak
  <2>1. ~broken /\ broken' /\ UNCHANGED <<client, local>>
    BY <1>15 DEF NetBreak
  <2>2. UNCHANGED ClientPlace
    BY <2>1 DEF ClientPlace
  <2>3. ClientWork' < ClientWork
    BY <2>1 DEF ClientWork, Count
  <2> QED
    BY <2>1, <2>2, <2>3
<1>16. CASE ClientWriteHeader
  BY <1>16 DEF ClientWriteHeader, ClientPlace
<1>17. CASE ClientUpCopy
  <2>1. /\ lSent' = lSent + 1 /\ lSent \in Nat
        /\ cUp = "run" /\ (cUp' = cUp \/ cUp' = "done")
        /\ UNCHANGED <<cst, sess, cDown, lEOF, broken>>
    BY <1>17 DEF ClientUpCopy, ClientUpEnds
  <2>2. UNCHANGED ClientPlace
    BY <2>1 DEF ClientPlace
  <2>3. ClientWork' < ClientWork
    BY <2>1 DEF ClientWork, Count
  <2> QED
    BY <2>1, <2>2, <2>3
<1>18. CASE ClientClose
  BY <1>18 DEF ClientClose, ClientPlace
<1>19. CASE ClientTake
  BY <1>19 DEF ClientTake
<1>20. CASE ServerDialFail
  BY SMTT(30), <1>20 DEF ServerDialFail, ClientPlace, ClientWork, ServerPlace
<1>21. CASE ServerDownCopy
  <2>1. /\ uRead' = uRead + 1 /\ uSent \in Nat /\ uRead \in Nat
        /\ sDown = "run" /\ (sDown' = sDown \/ sDown' = "done")
        /\ UNCHANGED <<client, local, sst, skey, sUp, uEOF, uSent, c2s, broken>>
    BY <1>21 DEF ServerDownCopy, ServerDownEnds
  <2>2. UNCHANGED <<ClientPlace, ClientWork, ServerPlace>>
    BY <2>1 DEF ClientPlace, ClientWork, ServerPlace
  <2>3. ServerWork' < ServerWork
    BY <2>1 DEF ServerWork, Count
  <2> QED
    BY <2>1, <2>2, <2>3
<1>22. CASE ServerFinish
  BY SMTT(30), <1>22 DEF ServerFinish, ClientPlace, ClientWork, ServerPlace
<1>23. CASE ServerZero
  BY SMTT(30), <1>23 DEF ServerZero, ClientPlace, ClientWork, ServerPlace
<1>24. CASE ClientDownCopy
  <2>1. /\ Len(s2c') < Len(s2c)
        /\ cDown = "run" /\ (cDown' = cDown \/ cDown' = "done")
        /\ UNCHANGED <<cst, sess, cUp, lEOF, lSent, server, upstream, c2s, broken>>
    BY <1>24, S2CTaken DEF ClientDownCopy, ClientDownEnds
  <2>2. UNCHANGED <<ClientPlace, ServerPlace, ServerWork>>
    BY <2>1 DEF ClientPlace, ServerPlace, ServerWork
  <2>3. ClientWork' = ClientWork \/ ClientWork' < ClientWork
    BY <2>1 DEF ClientWork, Count
  <2> QED
    BY <2>1, <2>2, <2>3
<1>25. CASE ClientDrainRead
  <2>1. /\ Len(s2c') < Len(s2c)
        /\ cst = "drain" /\ cst' \in {"drain", "idle", "closed"}
        /\ UNCHANGED <<sess, cUp, cDown, local, server, upstream, c2s, broken>>
    BY <1>25, S2CTaken DEF ClientDrainRead, PutStates
  <2>2. UNCHANGED <<ClientWork, ServerPlace, ServerWork>>
    BY <2>1 DEF ClientWork, ServerPlace, ServerWork
  <2>3. ClientPlace' = ClientPlace \/ ClientPlace' < ClientPlace
    BY <2>1 DEF ClientPlace
  <2> QED
    BY <2>1, <2>2, <2>3
<1>26. CASE ServerRequest \/ ServerUpCopy \/ ServerDrain
  <2>1. /\ Len(c2s') < Len(c2s)
        /\ UNCHANGED <<client, local, broken>>
    BY <1>26, C2STaken DEF ServerRequest, ServerUpCopy, ServerDrain
  <2>2. UNCHANGED <<ClientPlace, ClientWork>>
    BY <2>1 DEF ClientPlace, ClientWork
  <2> QED
    BY <2>1, <2>2
<1>27. CASE ServerUpRefused
  <2>1. /\ sUp = "run" /\ sUp' = "done"
        /\ UNCHANGED <<client, local, sst, skey, sDown, uEOF, uSent, uRead, c2s, broken>>
    BY <1>27 DEF ServerUpRefused, ServerUpEnds
  <2>2. UNCHANGED <<ClientPlace, ClientWork, ServerPlace>>
    BY <2>1 DEF ClientPlace, ClientWork, ServerPlace
  <2>3. ServerWork' < ServerWork
    BY <2>1 DEF ServerWork, Count
  <2> QED
    BY <2>1, <2>2, <2>3
<1> QED
  BY <1>1, <1>2, <1>3, <1>4, <1>5, <1>6, <1>7, <1>8, <1>9, <1>10, <1>11, <1>12,
     <1>13, <1>14, <1>15, <1>16, <1>17, <1>18, <1>19, <1>20, <1>21, <1>22, <1>23,
     <1>24, <1>25, <1>26, <1>27 DEF Action

LEMMA EveryReturnLowers == writing \subseteq Pumps /\ Returns => Lowered
<1> SUFFICES ASSUME writing \subseteq Pumps, NEW p \in writing, writing' = writing \ {p}, UNCHANGED rest
             PROVE  Lowered
  BY DEF Returns
<1>1. WritesLeft' < WritesLeft
  <2>1. p \in {"cUp", "cDown", "sUp", "sDown"}
    BY DEF Pumps
  <2>2. p \in writing /\ p \notin writing' /\ \A q \in Pumps \ {p} : q \in writing' <=> q \in writing
    OBVIOUS
  <2>3. \A q \in Pumps : Count(q \in writing) \in {0, 1} /\ Count(q \in writing') \in {0, 1}
    BY DEF Count
  <2>4. Count(p \in writing) = 1 /\ Count(p \in writing') = 0
    BY <2>2 DEF Count
  <2>5. \A q \in Pumps \ {p} : Count(q \in writing') = Count(q \in writing)
    BY <2>2 DEF Count
  <2> QED
    BY <2>1, <2>3, <2>4, <2>5 DEF WritesLeft, Pumps
<1>2. UNCHANGED <<cst, sess, cUp, cDown, lEOF, lSent, sst, sUp, sDown, uEOF, uSent, uRead, c2s, s2c, broken>>
  BY SameParts DEF rest
<1>3. UNCHANGED <<sess, ClientPlace, ClientWork, ServerPlace, ServerWork, Len(c2s), Len(s2c)>>
  BY <1>2 DEF ClientPlace, ClientWork, ServerPlace, ServerWork
<1> QED
  BY <1>1, <1>3 DEF Lowered

(* A connection makes no more steps than its traffic, its sessions and what *)
(* may befall it account for, whatever the use cap: handleConn's loop, the  *)
(* Relays, the drains and the pool never keep each other going.             *)
THEOREM ComesToRest == Spec => StepsRunOut
<1>1. Init => UsesInv
  BY MaxUsesAssumption DEF Init, UsesInv
<1>2. TypeOK /\ UsesInv /\ [Next]_vars => UsesInv'
  <2>1. UsesInv /\ Action => UsesInv'
    BY UsesStep
  <2>2. UsesInv /\ UNCHANGED rest => UsesInv'
    BY SameParts DEF rest, UsesInv
  <2> QED
    BY <2>1, <2>2, NextCases, RestReturns
<1>3. Spec => [](TypeOK /\ UsesInv)
  BY <1>1, <1>2, TypeCorrect, PTL DEF Spec
<1>4. TypeOK /\ UsesInv => Counts
  BY TypeParts, Counted
<1>5. /\ TypeOK /\ UsesInv /\ Counts /\ Counts' /\ [Next]_vars
      => [/\ Left' \in [Parts -> Nat]
          /\ \E n \in Parts : Left'[n] < Left[n] /\ \A m \in 1..n - 1 : Left'[m] <= Left[m]]_vars
  <2>1. SUFFICES ASSUME writing \subseteq Pumps, PlaceType, FlagType, FlightType, UsesInv,
                        Counts, Counts', Next
                 PROVE  /\ Left' \in [Parts -> Nat]
                        /\ \E n \in Parts :
                              Left'[n] < Left[n] /\ \A m \in 1..n - 1 : Left'[m] <= Left[m]
    BY TypeParts
  <2>2. Lowered
    BY <2>1, NextCases, EveryStepLowers, EveryReturnLowers
  <2> QED
    BY <2>1, <2>2, LoweredLeft
<1> QED
  BY <1>3, <1>4, <1>5, PTL DEF Spec, StepsRunOut
=============================================================================
