-------------------------- MODULE RelayPumpProofs --------------------------
(* utils.Relay for any amount of data and any buffers: no chunk disappears  *)
(* except one whose write failed, and a deadline has the pump that set it.  *)
EXTENDS RelayPump, TLAPS

InHand(s) == IF pump[s] = "write" THEN 1 ELSE 0

Ended(s) == pump[s] \notin {"read", "write"}

(* What a peer sent is unread, in a pump's hand, queued or taken; the chunk *)
(* of a write that failed is missing.                                       *)
Conserved ==
    \A s \in Side :
        \/ sent[s] = unread[s] + InHand(s) + queue[Other(s)] + got[Other(s)]
        \/ /\ Ended(s) /\ (gone[Other(s)] \/ eof[Other(s)])
           /\ sent[s] = unread[s] + 1 + queue[Other(s)] + got[Other(s)]

(* A read deadline was set by the pump of the other direction. *)
DeadlineInv == \A s \in Side : dl[s] => pump[Other(s)] \in {"signal", "done"}

(* The pump that ended first had a reason of its own. *)
EndInv ==
    \A s \in Side : Ended(s) /\ ~Ended(Other(s)) =>
        \/ gone[s] \/ gone[Other(s)] \/ eof[Other(s)]
        \/ eof[s] /\ unread[s] = 0

CallerInv == caller # "relay" => \A s \in Side : pump[s] = "done"

IInv == TypeOK /\ Conserved /\ DeadlineInv /\ EndInv /\ CallerInv /\ ResetSticks

LEMMA SideFacts ==
    /\ \A s \in Side : Other(s) \in Side /\ Other(s) # s /\ Other(Other(s)) = s
    /\ \A s, r \in Side : r = s \/ r = Other(s)
BY DEF Side, Other

-----------------------------------------------------------------------------
LEMMA InitIInv == Init => IInv
BY SideFacts, BoundsAssumption
   DEF Init, IInv, TypeOK, Conserved, Ended, InHand, DeadlineInv, EndInv, CallerInv, ResetSticks

LEMMA PeerSendIInv ==
    ASSUME IInv, NEW s \in Side, PeerSend(s)
    PROVE  IInv'
<1>1. /\ sent' = [sent EXCEPT ![s] = @ + 1]
      /\ unread' = [unread EXCEPT ![s] = @ + 1]
      /\ sent[s] < MaxSend /\ ~eof[s]
      /\ UNCHANGED <<eof, gone, queue, got, dl, pump, caller>>
  BY DEF PeerSend
<1>2. \A r \in Side : /\ sent[r] \in Nat /\ unread[r] \in Nat /\ queue[r] \in Nat
                      /\ got[r] \in Nat /\ sent[r] <= MaxSend /\ InHand(r) \in {0, 1}
  BY BoundsAssumption DEF IInv, TypeOK, InHand
<1>3. unread[s] < MaxSend
  BY <1>1, <1>2, SideFacts, BoundsAssumption DEF IInv, Conserved
<1>4. TypeOK'
  <2>1. sent' \in [Side -> 0..MaxSend] /\ unread' \in [Side -> 0..MaxSend]
    BY <1>1, <1>2, <1>3, BoundsAssumption DEF IInv, TypeOK
  <2> QED
    BY <1>1, <2>1 DEF IInv, TypeOK
<1>5. Conserved'
  <2> SUFFICES ASSUME NEW r \in Side
               PROVE  \/ sent'[r] = unread'[r] + InHand(r) + queue[Other(r)] + got[Other(r)]
                      \/ /\ Ended(r) /\ (gone[Other(r)] \/ eof[Other(r)])
                         /\ sent'[r] = unread'[r] + 1 + queue[Other(r)] + got[Other(r)]
    BY <1>1 DEF Conserved, InHand, Ended
  <2>1. r # s => sent'[r] = sent[r] /\ unread'[r] = unread[r]
    BY <1>1 DEF IInv, TypeOK
  <2>2. r = s => sent'[r] = sent[r] + 1 /\ unread'[r] = unread[r] + 1
    BY <1>1 DEF IInv, TypeOK
  <2>3. \/ sent[r] = unread[r] + InHand(r) + queue[Other(r)] + got[Other(r)]
        \/ /\ Ended(r) /\ (gone[Other(r)] \/ eof[Other(r)])
           /\ sent[r] = unread[r] + 1 + queue[Other(r)] + got[Other(r)]
    BY DEF IInv, Conserved
  <2>4. Other(r) \in Side
    BY SideFacts
  <2>5. CASE r # s
    BY <2>1, <2>3, <2>5
  <2>6. CASE r = s
    BY <1>2, <2>2, <2>3, <2>4, <2>6
  <2> QED
    BY <2>5, <2>6
<1>6. EndInv'
  <2>1. \A r \in Side : r # s => unread'[r] = unread[r]
    BY <1>1 DEF IInv, TypeOK
  <2> QED
    BY <1>1, <2>1 DEF IInv, EndInv, Ended
<1>7. DeadlineInv' /\ CallerInv' /\ ResetSticks'
  BY <1>1 DEF IInv, DeadlineInv, CallerInv, ResetSticks
<1> QED
  BY <1>4, <1>5, <1>6, <1>7 DEF IInv

LEMMA PeerEndIInv ==
    ASSUME IInv, NEW s \in Side, PeerClose(s) \/ PeerReset(s)
    PROVE  IInv'
<1>1. /\ UNCHANGED <<sent, unread, queue, got, dl, pump, caller>>
      /\ \A r \in Side : (eof[r] => eof'[r]) /\ (gone[r] => gone'[r])
      /\ eof' \in [Side -> BOOLEAN] /\ gone' \in [Side -> BOOLEAN]
  BY DEF PeerClose, PeerReset, IInv, TypeOK
<1>2. Conserved'
  BY <1>1, SideFacts DEF IInv, Conserved, InHand, Ended
<1>3. EndInv'
  BY <1>1, SideFacts DEF IInv, EndInv, Ended
<1> QED
  BY <1>1, <1>2, <1>3 DEF IInv, TypeOK, DeadlineInv, CallerInv, ResetSticks

LEMMA PeerTakeIInv ==
    ASSUME IInv, NEW s \in Side, PeerTake(s)
    PROVE  IInv'
<1>1. /\ queue' = [queue EXCEPT ![s] = @ - 1] /\ got' = [got EXCEPT ![s] = @ + 1]
      /\ queue[s] > 0
      /\ UNCHANGED <<sent, eof, gone, unread, dl, pump, caller>>
  BY DEF PeerTake, peers
<1>2. \A r \in Side : /\ sent[r] \in Nat /\ unread[r] \in Nat /\ queue[r] \in Nat
                      /\ got[r] \in Nat /\ sent[r] <= MaxSend /\ queue[r] <= Cap
                      /\ InHand(r) \in {0, 1}
  BY BoundsAssumption DEF IInv, TypeOK, InHand
<1>3. got[s] < MaxSend
  <2>1. sent[Other(s)] >= unread[Other(s)] + queue[s] + got[s]
    BY <1>2, SideFacts DEF IInv, Conserved
  <2> QED
    BY <1>1, <1>2, <2>1, SideFacts, BoundsAssumption
<1>4. TypeOK'
  <2>1. queue' \in [Side -> 0..Cap] /\ got' \in [Side -> 0..MaxSend]
    BY <1>1, <1>2, <1>3, BoundsAssumption DEF IInv, TypeOK
  <2> QED
    BY <1>1, <2>1 DEF IInv, TypeOK
<1>5. \A r \in Side : queue'[r] + got'[r] = queue[r] + got[r]
                      /\ queue'[r] \in Nat /\ got'[r] \in Nat
  BY <1>1, <1>2 DEF IInv, TypeOK
<1>6. Conserved'
  <2> SUFFICES ASSUME NEW r \in Side
               PROVE  \/ sent[r] = unread[r] + InHand(r) + queue'[Other(r)] + got'[Other(r)]
                      \/ /\ Ended(r) /\ (gone[Other(r)] \/ eof[Other(r)])
                         /\ sent[r] = unread[r] + 1 + queue'[Other(r)] + got'[Other(r)]
    BY <1>1 DEF Conserved, InHand, Ended
  <2>1. \/ sent[r] = unread[r] + InHand(r) + queue[Other(r)] + got[Other(r)]
        \/ /\ Ended(r) /\ (gone[Other(r)] \/ eof[Other(r)])
           /\ sent[r] = unread[r] + 1 + queue[Other(r)] + got[Other(r)]
    BY DEF IInv, Conserved
  <2>2. Other(r) \in Side
    BY SideFacts
  <2> QED
    BY <1>2, <1>5, <2>1, <2>2
<1>7. DeadlineInv' /\ EndInv' /\ CallerInv' /\ ResetSticks'
  BY <1>1 DEF IInv, DeadlineInv, EndInv, CallerInv, ResetSticks, Ended
<1> QED
  BY <1>4, <1>6, <1>7 DEF IInv

-----------------------------------------------------------------------------
(* A chunk goes from unread to the pump's hand, and from there to a queue. *)
LEMMA ReadIInv ==
    ASSUME IInv, NEW s \in Side, Read(s)
    PROVE  IInv'
<1>1. /\ unread' = [unread EXCEPT ![s] = @ - 1] /\ unread[s] > 0
      /\ pump[s] = "read" /\ pump' = [pump EXCEPT ![s] = "write"]
      /\ UNCHANGED <<sent, eof, gone, queue, got, dl, caller>>
  BY DEF Read, Goto, peers
<1>2. \A r \in Side : /\ sent[r] \in Nat /\ unread[r] \in Nat /\ queue[r] \in Nat
                      /\ got[r] \in Nat /\ unread[r] <= MaxSend
  BY BoundsAssumption DEF IInv, TypeOK
<1>3. \A r \in Side : r # s => unread'[r] = unread[r] /\ pump'[r] = pump[r]
  BY <1>1 DEF IInv, TypeOK
<1>4. unread'[s] = unread[s] - 1 /\ pump'[s] = "write"
  BY <1>1 DEF IInv, TypeOK
<1>5. TypeOK'
  <2>1. unread' \in [Side -> 0..MaxSend]
    BY <1>1, <1>2, BoundsAssumption DEF IInv, TypeOK
  <2> QED
    BY <1>1, <2>1 DEF IInv, TypeOK
<1>6. Conserved'
  BY <1>1, <1>2, <1>3, <1>4, SideFacts DEF IInv, Conserved, InHand, Ended
<1>7. EndInv'
  BY <1>1, <1>3, <1>4, SideFacts DEF IInv, EndInv, Ended
<1>8. DeadlineInv' /\ CallerInv' /\ ResetSticks'
  BY <1>1, <1>3, <1>4, SideFacts DEF IInv, DeadlineInv, CallerInv, ResetSticks
<1> QED
  BY <1>5, <1>6, <1>7, <1>8 DEF IInv

LEMMA WriteIInv ==
    ASSUME IInv, NEW s \in Side, Write(s)
    PROVE  IInv'
<1> DEFINE o == Other(s)
<1>0. o \in Side /\ o # s /\ Other(o) = s
  BY SideFacts
<1>1. /\ queue' = [queue EXCEPT ![o] = @ + 1] /\ queue[o] < Cap
      /\ pump[s] = "write" /\ pump' = [pump EXCEPT ![s] = "read"]
      /\ UNCHANGED <<sent, eof, gone, unread, got, dl, caller>>
  BY DEF Write, Goto, peers
<1> HIDE DEF o
<1>2. \A r \in Side : /\ sent[r] \in Nat /\ unread[r] \in Nat /\ queue[r] \in Nat
                      /\ got[r] \in Nat
  BY BoundsAssumption DEF IInv, TypeOK
<1>3. \A r \in Side : /\ r # s => pump'[r] = pump[r]
                      /\ r # o => queue'[r] = queue[r]
  BY <1>1 DEF IInv, TypeOK
<1>4. pump'[s] = "read" /\ queue'[o] = queue[o] + 1
  BY <1>0, <1>1 DEF IInv, TypeOK
<1>5. TypeOK'
  <2>1. queue' \in [Side -> 0..Cap]
    BY <1>0, <1>1, <1>2, BoundsAssumption DEF IInv, TypeOK
  <2> QED
    BY <1>1, <2>1 DEF IInv, TypeOK
<1>6. Conserved'
  <2>1. sent'[s] = unread'[s] + InHand(s)' + queue'[o] + got'[o]
    BY <1>0, <1>1, <1>2, <1>4 DEF IInv, Conserved, InHand, Ended, o
  <2>2. \/ sent'[o] = unread'[o] + InHand(o)' + queue'[s] + got'[s]
        \/ /\ Ended(o)' /\ (gone'[s] \/ eof'[s])
           /\ sent'[o] = unread'[o] + 1 + queue'[s] + got'[s]
    BY <1>0, <1>1, <1>3 DEF IInv, Conserved, InHand, Ended
  <2> QED
    BY <1>0, <2>1, <2>2, SideFacts DEF Conserved, o
<1>7. EndInv'
  BY <1>1, <1>3, <1>4, SideFacts DEF IInv, EndInv, Ended
<1>8. DeadlineInv' /\ CallerInv' /\ ResetSticks'
  BY <1>1, <1>3, <1>4, SideFacts DEF IInv, DeadlineInv, CallerInv, ResetSticks
<1> QED
  BY <1>5, <1>6, <1>7, <1>8 DEF IInv

(* A pump ends because its connection or the other one did, or because of   *)
(* the other pump, which then ended before it.                              *)
LEMMA EndIInv ==
    ASSUME IInv, NEW s \in Side, ReadEnd(s) \/ WriteFail(s)
    PROVE  IInv'
<1>1. /\ pump[s] \in {"read", "write"} /\ pump' = [pump EXCEPT ![s] = "ended"]
      /\ UNCHANGED <<sent, eof, gone, unread, queue, got, dl, caller>>
  BY DEF ReadEnd, WriteFail, Goto, peers
<1>2. \A r \in Side : r # s => pump'[r] = pump[r]
  BY <1>1 DEF IInv, TypeOK
<1>3. pump'[s] = "ended"
  BY <1>1 DEF IInv, TypeOK
<1>4. TypeOK'
  BY <1>1 DEF IInv, TypeOK
<1>5. Conserved'
  <2>1. CASE ReadEnd(s)
    BY <1>1, <1>2, <1>3, <2>1, SideFacts DEF ReadEnd, IInv, Conserved, InHand, Ended
  <2>2. CASE WriteFail(s)
    BY <1>1, <1>2, <1>3, <2>2, SideFacts DEF WriteFail, IInv, Conserved, InHand, Ended
  <2> QED
    BY <2>1, <2>2
<1>6. EndInv'
  <2>1. pump[Other(s)] \in {"read", "write"} => ~dl[s]
    BY SideFacts DEF IInv, DeadlineInv
  <2>2. pump[Other(s)] \in {"read", "write"} =>
          \/ gone[s] \/ gone[Other(s)] \/ eof[Other(s)]
          \/ eof[s] /\ unread[s] = 0
    BY <2>1 DEF ReadEnd, WriteFail
  <2> QED
    BY <1>1, <1>2, <1>3, <2>2, SideFacts DEF EndInv, Ended
<1>7. DeadlineInv' /\ CallerInv' /\ ResetSticks'
  BY <1>1, <1>2, <1>3, SideFacts DEF IInv, DeadlineInv, CallerInv, ResetSticks
<1> QED
  BY <1>4, <1>5, <1>6, <1>7 DEF IInv

LEMMA SetDeadlineIInv ==
    ASSUME IInv, NEW s \in Side, SetDeadline(s)
    PROVE  IInv'
<1>1. /\ pump[s] = "ended" /\ pump' = [pump EXCEPT ![s] = "signal"]
      /\ dl' = [dl EXCEPT ![Other(s)] = TRUE]
      /\ UNCHANGED <<sent, eof, gone, unread, queue, got, caller>>
  BY DEF SetDeadline, Goto, peers
<1>2. \A r \in Side : /\ r # s => pump'[r] = pump[r]
                      /\ r # Other(s) => dl'[r] = dl[r]
  BY <1>1 DEF IInv, TypeOK
<1>3. pump'[s] = "signal"
  BY <1>1 DEF IInv, TypeOK
<1>4. TypeOK'
  BY <1>1 DEF IInv, TypeOK
<1>5. Conserved'
  BY <1>1, <1>2, <1>3, SideFacts DEF IInv, Conserved, InHand, Ended
<1>6. EndInv'
  BY <1>1, <1>2, <1>3, SideFacts DEF IInv, EndInv, Ended
<1>7. DeadlineInv'
  BY <1>1, <1>2, <1>3, SideFacts DEF IInv, DeadlineInv
<1>8. CallerInv' /\ ResetSticks'
  BY <1>1 DEF IInv, CallerInv, ResetSticks
<1> QED
  BY <1>4, <1>5, <1>6, <1>7, <1>8 DEF IInv

LEMMA SignalIInv ==
    ASSUME IInv, NEW s \in Side, Signal(s)
    PROVE  IInv'
<1>1. /\ pump[s] = "signal" /\ pump' = [pump EXCEPT ![s] = "done"]
      /\ UNCHANGED <<sent, eof, gone, unread, queue, got, dl, caller>>
  BY DEF Signal, Goto, peers
<1>2. \A r \in Side : r # s => pump'[r] = pump[r]
  BY <1>1 DEF IInv, TypeOK
<1>3. pump'[s] = "done"
  BY <1>1 DEF IInv, TypeOK
<1>4. TypeOK'
  BY <1>1 DEF IInv, TypeOK
<1>5. Conserved'
  BY <1>1, <1>2, <1>3, SideFacts DEF IInv, Conserved, InHand, Ended
<1>6. EndInv'
  BY <1>1, <1>2, <1>3, SideFacts DEF IInv, EndInv, Ended
<1>7. DeadlineInv' /\ CallerInv' /\ ResetSticks'
  BY <1>1, <1>2, <1>3, SideFacts DEF IInv, DeadlineInv, CallerInv, ResetSticks
<1> QED
  BY <1>4, <1>5, <1>6, <1>7 DEF IInv

LEMMA CallerIInv ==
    ASSUME IInv, Return \/ Reset \/ UNCHANGED vars
    PROVE  IInv'
<1>1. CASE Return
  BY <1>1, SideFacts
     DEF Return, peers, IInv, TypeOK, Conserved, InHand, Ended, DeadlineInv, EndInv,
         CallerInv, ResetSticks
<1>2. CASE Reset
  BY <1>2, SideFacts
     DEF Reset, peers, IInv, TypeOK, Conserved, InHand, Ended, DeadlineInv, EndInv,
         CallerInv, ResetSticks
<1>3. CASE UNCHANGED vars
  BY <1>3
     DEF vars, IInv, TypeOK, Conserved, InHand, Ended, DeadlineInv, EndInv,
         CallerInv, ResetSticks
<1> QED
  BY <1>1, <1>2, <1>3

LEMMA Inductive == Spec => []IInv
<1>1. IInv /\ [Next]_vars => IInv'
  BY PeerSendIInv, PeerEndIInv, PeerTakeIInv, ReadIInv, WriteIInv, EndIInv,
     SetDeadlineIInv, SignalIInv, CallerIInv
     DEF Next, Pump, Peer
<1> QED
  BY <1>1, InitIInv, PTL DEF Spec

-----------------------------------------------------------------------------
(* The caller's reset of the read deadlines is the last word. *)
THEOREM DeadlineResetSticks == Spec => []ResetSticks
<1>1. IInv => ResetSticks
  BY DEF IInv
<1> QED
  BY <1>1, Inductive, PTL

(* The direction that ends first has delivered all its source sent, for any *)
(* amount of data and any buffer between the pump and the peer.             *)
THEOREM FirstEndComplete == Spec => []FirstEndIsComplete
<1>1. IInv => FirstEndIsComplete
  <2> SUFFICES ASSUME IInv, NEW s \in Side, Ended(s), ~Ended(Other(s)),
                      ~gone[s], ~gone[Other(s)], ~eof[Other(s)]
               PROVE  sent[s] = queue[Other(s)] + got[Other(s)]
    BY DEF FirstEndIsComplete, Ended
  <2>1. unread[s] = 0
    BY DEF IInv, EndInv
  <2>2. sent[s] = unread[s] + InHand(s) + queue[Other(s)] + got[Other(s)]
    BY DEF IInv, Conserved
  <2>3. InHand(s) = 0
    BY DEF InHand, Ended
  <2>4. queue[Other(s)] \in Nat /\ got[Other(s)] \in Nat
    BY SideFacts, BoundsAssumption DEF IInv, TypeOK
  <2> QED
    BY <2>1, <2>2, <2>3, <2>4
<1> QED
  BY <1>1, Inductive, PTL

(* No queue outgrows its buffer and nothing is delivered twice. *)
THEOREM RelayTypes == Spec => []TypeOK
<1>1. IInv => TypeOK
  BY DEF IInv
<1> QED
  BY <1>1, Inductive, PTL
-----------------------------------------------------------------------------
(* Until the caller resets them, the deadline of a pump that has ended is   *)
(* on the connection the other pump reads.                                  *)
StopInv ==
    caller # "reset" => \A s \in Side : pump[s] \in {"signal", "done"} => dl[Other(s)]

LEMMA InitStop == Init => StopInv
BY DEF Init, StopInv

LEMMA StopStep == TypeOK /\ StopInv /\ [Next]_vars => StopInv'
<1> SUFFICES ASSUME TypeOK, StopInv, [Next]_vars PROVE StopInv'
  OBVIOUS
<1>a. pump \in [Side -> {"read", "write", "ended", "signal", "done"}] /\ dl \in [Side -> BOOLEAN]
  BY DEF TypeOK
<1>1. ASSUME NEW s \in Side, Peer(s) PROVE StopInv'
  BY <1>1 DEF Peer, PeerSend, PeerClose, PeerReset, PeerTake, StopInv
<1>2. ASSUME NEW s \in Side, Read(s) \/ ReadEnd(s) \/ Write(s) \/ WriteFail(s) PROVE StopInv'
  BY <1>2, <1>a DEF Read, ReadEnd, Write, WriteFail, Goto, StopInv
<1>3. ASSUME NEW s \in Side, SetDeadline(s) PROVE StopInv'
  BY <1>3, <1>a, SideFacts DEF SetDeadline, Goto, StopInv
<1>4. ASSUME NEW s \in Side, Signal(s) PROVE StopInv'
  BY <1>4, <1>a DEF Signal, Goto, StopInv
<1>5. CASE Return \/ Reset \/ UNCHANGED vars
  BY <1>5 DEF Return, Reset, vars, StopInv
<1> QED
  BY <1>1, <1>2, <1>3, <1>4, <1>5 DEF Next, Pump

(* Relay never waits on itself: with one direction ended, only a peer that  *)
(* neither reads nor closes can hold the other one, for any buffers.        *)
THEOREM RelayNotStuck == Spec => []OnlyPeerBlocks
<1>1. TypeOK /\ StopInv => OnlyPeerBlocks
  <2> SUFFICES ASSUME TypeOK, StopInv, caller = "relay",
                      NEW s \in Side, pump[s] \notin {"read", "write"}
               PROVE  \/ \E r \in Side : Moves(r) \/ BlockedByPeer(r)
                      \/ \A r \in Side : pump[r] = "done"
    BY DEF OnlyPeerBlocks
  <2> DEFINE o == Other(s)
  <2>1. o \in Side /\ Other(o) = s /\ \A r \in Side : r = s \/ r = o
    BY SideFacts
  <2>2. pump[s] \in {"ended", "signal", "done"}
        /\ pump[o] \in {"read", "write", "ended", "signal", "done"}
    BY <2>1 DEF TypeOK
  <2>3. CASE pump[s] \in {"ended", "signal"} \/ pump[o] \in {"ended", "signal"}
    BY <2>1, <2>3 DEF Moves
  <2>4. CASE pump[s] = "done" /\ pump[o] = "read"
    <3>1. dl[o]
      BY <2>4 DEF StopInv
    <3> QED
      BY <2>1, <2>4, <3>1 DEF Moves
  <2>5. CASE pump[o] = "write"
    <3>1. queue[s] \in 0..Cap /\ Cap \in Nat
      BY BoundsAssumption DEF TypeOK
    <3>2. queue[s] < Cap \/ queue[s] = Cap
      BY <3>1
    <3>3. Moves(o) \/ BlockedByPeer(o)
      BY <2>1, <2>5, <3>2 DEF Moves, BlockedByPeer
    <3> QED
      BY <2>1, <3>3
  <2>6. CASE pump[s] = "done" /\ pump[o] = "done"
    BY <2>1, <2>6
  <2> QED
    BY <2>2, <2>3, <2>4, <2>5, <2>6
<1>2. Spec => []StopInv
  BY InitStop, StopStep, RelayTypes, PTL DEF Spec
<1> QED
  BY <1>1, <1>2, RelayTypes, PTL
-----------------------------------------------------------------------------
(* How much is left to do, side by side. *)
Lowered == Left' \in Nat /\ Left' < Left

LEMMA SideNumbers ==
    ASSUME TypeOK, NEW s \in Side
    PROVE  /\ MaxSend - sent[s] \in Nat /\ unread[s] \in Nat /\ queue[s] \in Nat
           /\ sent[s] \in Int /\ MaxSend \in Int
BY BoundsAssumption DEF TypeOK

LEMMA SideNat ==
    ASSUME TypeOK, TypeOK', NEW s \in Side
    PROVE  SideLeft(s) \in Nat /\ SideLeft(s)' \in Nat
<1>1. PumpLeft(pump[s]) \in Nat /\ PumpLeft(pump'[s]) \in Nat
  BY DEF PumpLeft
<1>2. /\ (IF eof[s] THEN 0 ELSE 1) \in Nat /\ (IF gone[s] THEN 0 ELSE 1) \in Nat
      /\ (IF eof'[s] THEN 0 ELSE 1) \in Nat /\ (IF gone'[s] THEN 0 ELSE 1) \in Nat
  OBVIOUS
<1>3. SideLeft(s) \in Nat
  BY <1>1, <1>2, SideNumbers DEF SideLeft
<1>4. MaxSend - sent'[s] \in Nat /\ unread'[s] \in Nat /\ queue'[s] \in Nat
  BY BoundsAssumption DEF TypeOK
<1>5. SideLeft(s)' \in Nat
  BY <1>1, <1>2, <1>4 DEF SideLeft
<1> QED
  BY <1>3, <1>5

LEMMA LeftBySide ==
    ASSUME TypeOK, TypeOK', NEW s \in Side
    PROVE  /\ Left \in Nat /\ Left' \in Nat
           /\ Left = SideLeft(s) + SideLeft(Other(s)) + CallerLeft
           /\ Left' = SideLeft(s)' + SideLeft(Other(s))' + CallerLeft'
<1>1. /\ SideLeft("left") \in Nat /\ SideLeft("right") \in Nat
      /\ SideLeft("left")' \in Nat /\ SideLeft("right")' \in Nat
  BY SideNat DEF Side
<1>2. CallerLeft \in Nat /\ CallerLeft' \in Nat
  BY DEF CallerLeft
<1>3. \/ s = "left" /\ Other(s) = "right"
      \/ s = "right" /\ Other(s) = "left"
  BY DEF Side, Other
<1> QED
  BY <1>1, <1>2, <1>3 DEF Left

(* A step on behalf of one direction: what one side has more of, the other  *)
(* has less of by more.                                                     *)
LEMMA SidesLower ==
    ASSUME TypeOK, TypeOK', NEW s \in Side, caller' = caller,
           SideLeft(s)' + SideLeft(Other(s))' < SideLeft(s) + SideLeft(Other(s))
    PROVE  Lowered
<1>1. CallerLeft' = CallerLeft /\ CallerLeft \in Nat
  BY DEF CallerLeft
<1>2. /\ Left \in Nat /\ Left = SideLeft(s) + SideLeft(Other(s)) + CallerLeft
      /\ Left' \in Nat /\ Left' = SideLeft(s)' + SideLeft(Other(s))' + CallerLeft'
  BY LeftBySide
<1>3. /\ SideLeft(s) \in Nat /\ SideLeft(Other(s)) \in Nat
      /\ SideLeft(s)' \in Nat /\ SideLeft(Other(s))' \in Nat
  BY SideNat, SideFacts
<1> QED
  BY <1>1, <1>2, <1>3 DEF Lowered

LEMMA OneSideLowers ==
    ASSUME TypeOK, TypeOK', NEW s \in Side, caller' = caller,
           SideLeft(s)' < SideLeft(s), SideLeft(Other(s))' = SideLeft(Other(s))
    PROVE  Lowered
<1>1. /\ SideLeft(s) \in Nat /\ SideLeft(Other(s)) \in Nat /\ SideLeft(s)' \in Nat
  BY SideNat, SideFacts
<1>2. SideLeft(s)' + SideLeft(Other(s))' < SideLeft(s) + SideLeft(Other(s))
  BY <1>1
<1> QED
  BY <1>2, SidesLower

LEMMA PeerLowers ==
    ASSUME TypeOK, TypeOK', NEW s \in Side, Peer(s)
    PROVE  Lowered
<1> DEFINE o == Other(s)
<1>1. o \in Side /\ o # s
  BY SideFacts
<1>2. /\ UNCHANGED <<pump, caller>>
      /\ UNCHANGED <<sent[o], unread[o], eof[o], gone[o], queue[o]>>
  BY <1>1 DEF Peer, PeerSend, PeerClose, PeerReset, PeerTake, peers, TypeOK
<1>3. SideLeft(o)' = SideLeft(o)
  BY <1>1, <1>2 DEF SideLeft
<1>4. /\ MaxSend - sent[s] \in Nat /\ unread[s] \in Nat /\ queue[s] \in Nat
      /\ sent[s] \in Int /\ MaxSend \in Int /\ PumpLeft(pump[s]) \in Nat
  BY SideNumbers DEF PumpLeft
<1>5. SideLeft(s)' < SideLeft(s)
  <2>1. CASE PeerSend(s)
    <3>1. /\ sent'[s] = sent[s] + 1 /\ unread'[s] = unread[s] + 1
          /\ UNCHANGED <<eof, gone, queue, pump>>
      BY <2>1 DEF PeerSend, TypeOK
    <3>2. (IF eof[s] THEN 0 ELSE 1) \in Nat /\ (IF gone[s] THEN 0 ELSE 1) \in Nat
      OBVIOUS
    <3> QED
      BY <1>4, <3>1, <3>2 DEF SideLeft
  <2>2. CASE PeerClose(s)
    <3>1. ~eof[s] /\ eof'[s] /\ UNCHANGED <<sent, unread, gone, queue, pump>>
      BY <2>2 DEF PeerClose, TypeOK
    <3>2. (IF gone[s] THEN 0 ELSE 1) \in Nat
      OBVIOUS
    <3> QED
      BY <1>4, <3>1, <3>2 DEF SideLeft
  <2>3. CASE PeerReset(s)
    <3>1. ~gone[s] /\ gone'[s] /\ UNCHANGED <<sent, unread, eof, queue, pump>>
      BY <2>3 DEF PeerReset, TypeOK
    <3>2. (IF eof[s] THEN 0 ELSE 1) \in Nat
      OBVIOUS
    <3> QED
      BY <1>4, <3>1, <3>2 DEF SideLeft
  <2>4. CASE PeerTake(s)
    <3>1. queue'[s] = queue[s] - 1 /\ UNCHANGED <<sent, unread, eof, gone, pump>>
      BY <2>4 DEF PeerTake, peers, TypeOK
    <3>2. (IF eof[s] THEN 0 ELSE 1) \in Nat /\ (IF gone[s] THEN 0 ELSE 1) \in Nat
      OBVIOUS
    <3> QED
      BY <1>4, <3>1, <3>2 DEF SideLeft
  <2> QED
    BY <2>1, <2>2, <2>3, <2>4 DEF Peer
<1> QED
  BY <1>2, <1>3, <1>5, OneSideLowers

(* A pump goes on with less to read, or nearer its end; what it writes is   *)
(* one more for the other side's peer to take.                              *)
LEMMA PumpLowers ==
    ASSUME TypeOK, TypeOK', NEW s \in Side, Pump(s)
    PROVE  Lowered
<1> DEFINE o == Other(s)
<1>1. o \in Side /\ o # s
  BY SideFacts
<1>2. /\ UNCHANGED <<sent, eof, gone, caller>>
      /\ UNCHANGED <<unread[o], pump[o], queue[s]>>
  BY <1>1 DEF Pump, Read, ReadEnd, Write, WriteFail, SetDeadline, Signal, Goto, peers, TypeOK
<1>3. /\ MaxSend - sent[s] \in Nat /\ unread[s] \in Nat /\ queue[s] \in Nat
      /\ sent[s] \in Int /\ MaxSend \in Int
      /\ (IF eof[s] THEN 0 ELSE 1) \in Nat /\ (IF gone[s] THEN 0 ELSE 1) \in Nat
  BY SideNumbers
<1>4. CASE Write(s)
  <2>1. pump[s] = "write" /\ pump'[s] = "read" /\ unread' = unread
    BY <1>4 DEF Write, Goto, TypeOK
  <2>2. queue'[o] = queue[o] + 1
    BY <1>1, <1>4 DEF Write, TypeOK
  <2>3. SideLeft(s)' + 2 = SideLeft(s)
    BY <1>2, <1>3, <2>1 DEF SideLeft, PumpLeft
  <2>4. /\ MaxSend - sent[o] \in Nat /\ unread[o] \in Nat /\ queue[o] \in Nat
        /\ sent[o] \in Int /\ PumpLeft(pump[o]) \in Nat
        /\ (IF eof[o] THEN 0 ELSE 1) \in Nat /\ (IF gone[o] THEN 0 ELSE 1) \in Nat
    BY <1>1, SideNumbers DEF PumpLeft
  <2>5. SideLeft(o)' = SideLeft(o) + 1
    <3>1. /\ sent'[o] = sent[o] /\ unread'[o] = unread[o] /\ PumpLeft(pump'[o]) = PumpLeft(pump[o])
          /\ eof'[o] = eof[o] /\ gone'[o] = gone[o]
      BY <1>2
    <3> QED
      BY <2>2, <2>4, <3>1 DEF SideLeft
  <2>6. SideLeft(s)' \in Nat /\ SideLeft(s) \in Nat /\ SideLeft(o) \in Nat
    BY <1>1, SideNat
  <2>7. SideLeft(s)' + SideLeft(o)' < SideLeft(s) + SideLeft(o)
    BY <2>3, <2>5, <2>6
  <2> QED
    BY <1>2, <2>7, SidesLower
<1>5. CASE ~Write(s)
  <2>1. queue' = queue
    BY <1>5 DEF Pump, Read, ReadEnd, WriteFail, SetDeadline, Signal
  <2>2. SideLeft(o)' = SideLeft(o)
    BY <1>2, <2>1 DEF SideLeft
  <2>3. \/ /\ pump[s] = "read" /\ pump'[s] = "write" /\ unread'[s] = unread[s] - 1
        \/ /\ unread'[s] = unread[s]
           /\ \/ pump[s] \in {"read", "write"} /\ pump'[s] = "ended"
              \/ pump[s] = "ended" /\ pump'[s] = "signal"
              \/ pump[s] = "signal" /\ pump'[s] = "done"
    BY <1>5 DEF Pump, Read, ReadEnd, WriteFail, SetDeadline, Signal, Goto, TypeOK
  <2>4. \/ /\ PumpLeft(pump'[s]) = PumpLeft(pump[s]) + 2 /\ unread'[s] = unread[s] - 1
        \/ /\ PumpLeft(pump'[s]) < PumpLeft(pump[s]) /\ unread'[s] = unread[s]
    BY <2>3 DEF PumpLeft
  <2>5. PumpLeft(pump[s]) \in Nat /\ PumpLeft(pump'[s]) \in Nat
    BY DEF PumpLeft
  <2>6. SideLeft(s)' < SideLeft(s)
    BY <1>2, <1>3, <2>1, <2>4, <2>5 DEF SideLeft
  <2> QED
    BY <1>2, <2>2, <2>6, OneSideLowers
<1> QED
  BY <1>4, <1>5

LEMMA CallerLowers ==
    ASSUME TypeOK, TypeOK', Return \/ Reset
    PROVE  Lowered
<1>1. UNCHANGED <<sent, unread, eof, gone, queue, pump>>
  BY DEF Return, Reset, peers
<1>2. SideLeft("left")' = SideLeft("left") /\ SideLeft("right")' = SideLeft("right")
  BY <1>1 DEF SideLeft
<1>3. SideLeft("left") \in Nat /\ SideLeft("right") \in Nat
  BY SideNat DEF Side
<1>4. CallerLeft \in Nat /\ CallerLeft' \in Nat /\ CallerLeft' < CallerLeft
  BY DEF Return, Reset, CallerLeft
<1> QED
  BY <1>2, <1>3, <1>4 DEF Lowered, Left

(* For any amount of data and any buffers, a Relay and its peers have less  *)
(* to do after each step: what FirstEndStopsRelay needs besides             *)
(* RelayNotStuck is only that what can move does.                           *)
THEOREM RelayComesToRest == Spec => RelayRunsOut
<1>1. TypeOK /\ TypeOK' /\ [Next]_vars => [Left' \in Nat /\ Left' < Left]_vars
  BY PeerLowers, PumpLowers, CallerLowers DEF Next, Lowered
<1> QED
  BY <1>1, RelayTypes, PTL DEF Spec, RelayRunsOut
=============================================================================
