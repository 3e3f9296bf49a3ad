--------------------------- MODULE QuicFlowProofs ---------------------------
(* The flow table of QUIC proxy mode, for every number of clients, flows    *)
(* and ticks: the sockets that are open are those the table reaches, and    *)
(* each of them has a goroutine that will close it.                         *)
EXTENDS QuicFlow, TLAPS

(* Past its first read the loop holds a packet, and a flow when it needs    *)
(* one; the flow it is about to start was registered under the sender.      *)
LoopInv ==
    /\ loop # "recv" => pkt \in Packet
    /\ loop \in {"forward", "touch", "initial"} => cur \in Flows
    /\ loop = "initial" => addr[cur] = pkt.from

(* A flow that was created, and no other, has its client's address; only    *)
(* such a flow has a reverse relay.                                         *)
AddrInv ==
    \A f \in Flows :
        /\ st[f] = "none" => addr[f] = NoAddr
        /\ st[f] # "none" => addr[f] \in Addrs
        /\ relay[f] # "none" => st[f] # "none"

IInv == TypeOK /\ LoopInv /\ AddrInv /\ OpenIffInTable /\ OpenFlowHasRelay

-----------------------------------------------------------------------------
(* Remove closes the open flows of some addresses, and nothing else. *)
LEMMA RemoveKeeps ==
    ASSUME TypeOK, AddrInv, OpenIffInTable, NEW A \in SUBSET Addrs,
           Remove(A), addr' = addr
    PROVE  /\ table' \in [Addrs -> Flows \cup {NoFlow}]
           /\ st' \in [Flows -> {"none", "open", "closed"}]
           /\ OpenIffInTable'
           /\ \A f \in Flows : st'[f] = "none" <=> st[f] = "none"
           /\ \A f \in Flows : st'[f] = "open" => st[f] = "open" /\ addr[f] \notin A
<1>1. /\ table' = [a \in Addrs |-> IF a \in A THEN NoFlow ELSE table[a]]
      /\ st' = [f \in Flows |-> IF \E a \in A : table[a] = f THEN "closed" ELSE st[f]]
  BY DEF Remove
<1>2. /\ table' \in [Addrs -> Flows \cup {NoFlow}]
      /\ st' \in [Flows -> {"none", "open", "closed"}]
  BY <1>1 DEF TypeOK
<1>3. ASSUME NEW f \in Flows, st'[f] = "open"
      PROVE  /\ st[f] = "open" /\ addr[f] \in Addrs /\ addr[f] \notin A
             /\ table[addr[f]] = f
  <2>1. st[f] = "open" /\ ~ \E a \in A : table[a] = f
    BY <1>1, <1>3
  <2>2. table[addr[f]] = f /\ addr[f] \in Addrs
    BY <2>1 DEF OpenIffInTable, AddrInv
  <2> QED
    BY <2>1, <2>2
<1>4. ASSUME NEW f \in Flows
      PROVE  st'[f] = "none" <=> st[f] = "none"
  <2>1. ASSUME NEW a \in A, table[a] = f
        PROVE  st[f] = "open"
    BY <2>1, NilAssumption DEF OpenIffInTable
  <2> QED
    BY <1>1, <2>1
<1>5. ASSUME NEW a \in Addrs, table'[a] # NoFlow
      PROVE  st'[table'[a]] = "open" /\ addr[table'[a]] = a
  <2>1. a \notin A /\ table'[a] = table[a] /\ table[a] \in Flows
    BY <1>1, <1>5 DEF TypeOK
  <2>2. st[table[a]] = "open" /\ addr[table[a]] = a
    BY <1>5, <2>1 DEF OpenIffInTable
  <2>3. ASSUME NEW b \in A, table[b] = table[a]
        PROVE  FALSE
    <3>1. addr[table[b]] = b
      BY <2>1, <2>3, NilAssumption DEF OpenIffInTable
    <3> QED
      BY <2>1, <2>2, <2>3, <3>1
  <2> QED
    BY <1>1, <2>1, <2>2, <2>3
<1>6. OpenIffInTable'
  <2>1. ASSUME NEW f \in Flows, st'[f] = "open"
        PROVE  table'[addr[f]] = f
    BY <1>1, <1>3, <2>1
  <2> QED
    BY <1>5, <2>1 DEF OpenIffInTable
<1> QED
  BY <1>2, <1>3, <1>4, <1>6

(* A step that removes addresses keeps the invariant if the flows it leaves *)
(* open keep their relays.                                                  *)
LEMMA RemoveIInv ==
    ASSUME IInv, NEW A \in SUBSET Addrs, Remove(A), addr' = addr,
           now' = now, last' = last, doomed' \in SUBSET Addrs,
           reaper' \in {"wait", "sweep"}, pkt' = pkt, cur' = cur,
           loop' = "recv" \/ loop' = loop,
           relay' \in [Flows -> {"none", "read", "touch", "leave", "done"}],
           \A f \in Flows :
             /\ relay'[f] # "none" <=> relay[f] # "none"
             /\ st'[f] = "open" =>
                  \/ relay'[f] \in {"read", "touch", "leave"}
                  \/ loop' = "initial" /\ cur = f
    PROVE  IInv'
<1>1. TypeOK' /\ OpenIffInTable'
  BY RemoveKeeps DEF IInv, TypeOK
<1>2. LoopInv'
  BY DEF IInv, LoopInv
<1>3. AddrInv'
  BY RemoveKeeps DEF IInv, AddrInv
<1>4. OpenFlowHasRelay'
  BY DEF OpenFlowHasRelay
<1> QED
  BY <1>1, <1>2, <1>3, <1>4 DEF IInv

-----------------------------------------------------------------------------
LEMMA InitIInv == Init => IInv
BY NilAssumption, TimeAssumption
   DEF Init, IInv, TypeOK, LoopInv, AddrInv, OpenIffInTable, OpenFlowHasRelay

LEMMA ReceiveIInv ==
    ASSUME IInv, Receive
    PROVE  IInv'
<1>1. pkt' \in Packet /\ pkt'.from \in Addrs
  BY DEF Receive, Packet
<1>2. cur' \in Flows \cup {NoFlow}
  BY <1>1 DEF Receive, IInv, TypeOK
<1>3. loop' \in {"recv", "forward", "dial"} /\ (loop' = "forward" => cur' \in Flows)
  BY <1>2 DEF Receive
<1>4. TypeOK'
  BY <1>1, <1>2, <1>3 DEF Receive, IInv, TypeOK
<1>5. LoopInv'
  BY <1>1, <1>3 DEF LoopInv
<1>6. AddrInv' /\ OpenIffInTable'
  BY DEF Receive, IInv, AddrInv, OpenIffInTable
<1>7. OpenFlowHasRelay'
  BY DEF Receive, IInv, OpenFlowHasRelay
<1> QED
  BY <1>4, <1>5, <1>6, <1>7 DEF IInv

LEMMA ForwardIInv ==
    ASSUME IInv, Forward
    PROVE  IInv'
<1>1. CASE st[cur] = "open" /\ loop' = "touch" /\ UNCHANGED <<table, st>>
  BY <1>1 DEF Forward, IInv, TypeOK, LoopInv, AddrInv, OpenIffInTable, OpenFlowHasRelay
<1>2. CASE Remove({pkt.from}) /\ loop' = "recv"
  <2>1. {pkt.from} \in SUBSET Addrs
    BY DEF Forward, IInv, LoopInv, Packet
  <2>2. \A f \in Flows : st'[f] = "open" => relay[f] \in {"read", "touch", "leave"}
    BY <1>2, <2>1, RemoveKeeps DEF Forward, IInv, OpenFlowHasRelay
  <2> QED
    BY <1>2, <2>1, <2>2, RemoveIInv DEF Forward, IInv, TypeOK
<1> QED
  BY <1>1, <1>2 DEF Forward

LEMMA ForwardTouchIInv ==
    ASSUME IInv, ForwardTouch
    PROVE  IInv'
BY DEF ForwardTouch, Touch, IInv, TypeOK, LoopInv, AddrInv, OpenIffInTable, OpenFlowHasRelay

(* The flow that DialFlow registers replaces one under the same address. *)
LEMMA DialFlowIInv ==
    ASSUME IInv, DialFlow
    PROVE  IInv'
<1>1. CASE loop' = "recv" /\ UNCHANGED <<table, st, addr, last, cur>>
  BY <1>1 DEF DialFlow, IInv, TypeOK, LoopInv, AddrInv, OpenIffInTable, OpenFlowHasRelay
<1>2. ASSUME NEW f \in Flows, st[f] = "none", PutFlow(pkt.from, f),
             addr' = [addr EXCEPT ![f] = pkt.from], Touch(f),
             cur' = f, loop' = "initial"
      PROVE  IInv'
  <2> DEFINE a == pkt.from
  <2>1. a \in Addrs /\ pkt' = pkt /\ pkt \in Packet /\ relay' = relay
    BY DEF DialFlow, IInv, LoopInv, Packet
  <2>2. /\ table' = [table EXCEPT ![a] = f]
        /\ st' = [g \in Flows |-> IF g = f THEN "open"
                                  ELSE IF table[a] = g THEN "closed" ELSE st[g]]
    BY <1>2 DEF PutFlow
  <2>3. last' \in [Flows -> Nat]
    BY <1>2 DEF Touch, IInv, TypeOK
  <2> HIDE DEF a
  <2>4. addr' = [addr EXCEPT ![f] = a]
    BY <1>2 DEF a
  <2>5. TypeOK'
    <3>1. table' \in [Addrs -> Flows \cup {NoFlow}] /\ addr' \in [Flows -> Addrs \cup {NoAddr}]
      BY <2>1, <2>2, <2>4 DEF IInv, TypeOK
    <3>2. st' \in [Flows -> {"none", "open", "closed"}]
      BY <2>2 DEF IInv, TypeOK
    <3> QED
      BY <1>2, <2>3, <3>1, <3>2 DEF DialFlow, IInv, TypeOK
  <2>6. LoopInv'
    BY <1>2, <2>1, <2>4 DEF LoopInv, IInv, TypeOK, a
  <2>7. AddrInv'
    <3>1. ASSUME NEW g \in Flows, g # f
          PROVE  addr'[g] = addr[g] /\ (st'[g] # "none" <=> st[g] # "none")
      <4>1. table[a] = g => st[g] = "open"
        BY <2>1, NilAssumption DEF IInv, OpenIffInTable
      <4> QED
        BY <2>2, <2>4, <3>1, <4>1 DEF IInv, TypeOK
    <3>2. addr'[f] \in Addrs /\ st'[f] = "open"
      BY <2>1, <2>2, <2>4 DEF IInv, TypeOK
    <3> QED
      BY <2>1, <3>1, <3>2 DEF IInv, AddrInv
  <2>8. OpenIffInTable'
    <3>1. ASSUME NEW g \in Flows, st'[g] = "open"
          PROVE  table'[addr'[g]] = g
      <4>1. CASE g = f
        BY <2>1, <2>2, <2>4, <4>1 DEF IInv, TypeOK
      <4>2. CASE g # f
        <5>1. st[g] = "open" /\ table[a] # g /\ addr'[g] = addr[g]
          BY <2>2, <2>4, <3>1, <4>2 DEF IInv, TypeOK
        <5>2. table[addr[g]] = g
          BY <5>1 DEF IInv, OpenIffInTable
        <5>3. addr[g] \in Addrs
          BY <5>1 DEF IInv, AddrInv
        <5> QED
          BY <2>2, <5>1, <5>2, <5>3 DEF IInv, TypeOK
      <4> QED
        BY <4>1, <4>2
    <3>2. ASSUME NEW b \in Addrs, table'[b] # NoFlow
          PROVE  st'[table'[b]] = "open" /\ addr'[table'[b]] = b
      <4>1. CASE b = a
        BY <2>1, <2>2, <2>4, <4>1 DEF IInv, TypeOK
      <4>2. CASE b # a
        <5>1. table'[b] = table[b] /\ table[b] \in Flows
          BY <2>2, <3>2, <4>2 DEF IInv, TypeOK
        <5>2. st[table[b]] = "open" /\ addr[table[b]] = b
          BY <3>2, <5>1 DEF IInv, OpenIffInTable
        <5>3. table[b] # f
          BY <1>2, <5>2
        <5>4. table[a] # table[b]
          BY <2>1, <4>2, <5>1, <5>2, NilAssumption DEF IInv, OpenIffInTable
        <5> QED
          BY <2>2, <2>4, <5>1, <5>2, <5>3, <5>4 DEF IInv, TypeOK
      <4> QED
        BY <4>1, <4>2
    <3> QED
      BY <3>1, <3>2 DEF OpenIffInTable
  <2>9. OpenFlowHasRelay'
    <3>1. ASSUME NEW g \in Flows, g # f, st'[g] = "open"
          PROVE  relay[g] \in {"read", "touch", "leave"}
      BY <2>2, <3>1 DEF DialFlow, IInv, OpenFlowHasRelay
    <3> QED
      BY <1>2, <2>1, <3>1 DEF OpenFlowHasRelay
  <2> QED
    BY <2>5, <2>6, <2>7, <2>8, <2>9 DEF IInv
<1> QED
  BY <1>1, <1>2 DEF DialFlow

(* A flow whose first packet fails is the sender's, so remove closes it. *)
LEMMA InitialIInv ==
    ASSUME IInv, Initial
    PROVE  IInv'
<1>0. cur \in Flows /\ pkt \in Packet /\ addr[cur] = pkt.from
  BY DEF Initial, IInv, LoopInv
<1>1. CASE st[cur] = "open" /\ relay' = [relay EXCEPT ![cur] = "read"] /\ UNCHANGED <<table, st>>
  BY <1>0, <1>1
     DEF Initial, IInv, TypeOK, LoopInv, AddrInv, OpenIffInTable, OpenFlowHasRelay
<1>2. CASE Remove({pkt.from}) /\ UNCHANGED relay
  <2>1. {pkt.from} \in SUBSET Addrs
    BY <1>0 DEF Packet
  <2>2. \A f \in Flows : st'[f] = "open" => st[f] = "open" /\ addr[f] # pkt.from
    BY <1>2, <2>1, RemoveKeeps DEF Initial, IInv
  <2>3. \A f \in Flows : st'[f] = "open" => relay[f] \in {"read", "touch", "leave"}
    BY <1>0, <2>2 DEF IInv, OpenFlowHasRelay
  <2> QED
    BY <1>2, <2>1, <2>3, RemoveIInv DEF Initial, IInv, TypeOK
<1> QED
  BY <1>1, <1>2 DEF Initial

LEMMA RelayRemoveIInv ==
    ASSUME IInv, NEW f \in Flows, RelayRemove(f)
    PROVE  IInv'
<1>1. addr[f] \in Addrs
  BY DEF RelayRemove, IInv, AddrInv
<1>2. {addr[f]} \in SUBSET Addrs
  BY <1>1
<1>3. relay' = [relay EXCEPT ![f] = "done"] /\ relay[f] = "leave"
  BY DEF RelayRemove
<1>4. \A g \in Flows : st'[g] = "open" => st[g] = "open" /\ addr[g] # addr[f]
  BY <1>2, RemoveKeeps DEF RelayRemove, IInv
<1>5. ASSUME NEW g \in Flows
      PROVE  /\ relay'[g] # "none" <=> relay[g] # "none"
             /\ st'[g] = "open" =>
                  \/ relay'[g] \in {"read", "touch", "leave"}
                  \/ loop' = "initial" /\ cur = g
  <2>1. st'[g] = "open" => g # f
    BY <1>4
  <2> QED
    BY <1>3, <1>4, <2>1 DEF RelayRemove, IInv, TypeOK, OpenFlowHasRelay
<1>6. relay' \in [Flows -> {"none", "read", "touch", "leave", "done"}]
  BY <1>3 DEF IInv, TypeOK
<1>7. Remove({addr[f]}) /\ UNCHANGED <<now, addr, last, loop, pkt, cur, reaper, doomed>>
  BY DEF RelayRemove
<1> QED
  BY <1>2, <1>5, <1>6, <1>7, RemoveIInv DEF IInv, TypeOK

LEMMA RelayStepIInv ==
    ASSUME IInv, NEW f \in Flows, RelayCopy(f) \/ RelayTouch(f) \/ RelayFail(f)
    PROVE  IInv'
<1>1. /\ UNCHANGED <<now, table, st, addr, loop, pkt, cur, reaper, doomed>>
      /\ last' \in [Flows -> Nat]
      /\ relay[f] \in {"read", "touch"}
      /\ \E l \in {"read", "touch", "leave"} : relay' = [relay EXCEPT ![f] = l]
  BY DEF RelayCopy, RelayTouch, RelayFail, Touch, IInv, TypeOK
<1> QED
  BY <1>1 DEF IInv, TypeOK, LoopInv, AddrInv, OpenIffInTable, OpenFlowHasRelay

LEMMA ReaperScanIInv ==
    ASSUME IInv, ReaperScan
    PROVE  IInv'
<1>1. doomed' \in SUBSET Addrs
  BY DEF ReaperScan
<1> QED
  BY <1>1 DEF ReaperScan, IInv, TypeOK, LoopInv, AddrInv, OpenIffInTable, OpenFlowHasRelay

LEMMA ReaperSweepIInv ==
    ASSUME IInv, ReaperSweep
    PROVE  IInv'
<1>1. doomed \in SUBSET Addrs
  BY DEF IInv, TypeOK
<1>2. \A f \in Flows : st'[f] = "open" => st[f] = "open"
  BY <1>1, RemoveKeeps DEF ReaperSweep, IInv
<1>3. \A f \in Flows :
        st'[f] = "open" =>
          relay[f] \in {"read", "touch", "leave"} \/ (loop = "initial" /\ cur = f)
  BY <1>2 DEF IInv, OpenFlowHasRelay
<1> QED
  BY <1>1, <1>3, RemoveIInv DEF ReaperSweep, IInv, TypeOK

LEMMA OtherIInv ==
    ASSUME IInv, Tick \/ UNCHANGED vars
    PROVE  IInv'
BY DEF Tick, vars, IInv, TypeOK, LoopInv, AddrInv, OpenIffInTable, OpenFlowHasRelay

LEMMA Inductive == Spec => []IInv
<1>1. IInv /\ [Next]_vars => IInv'
  BY ReceiveIInv, ForwardIInv, ForwardTouchIInv, DialFlowIInv, InitialIInv,
     RelayRemoveIInv, RelayStepIInv, ReaperScanIInv, ReaperSweepIInv, OtherIInv
     DEF Next, Loop, ReverseRelay, Reaper
<1> QED
  BY <1>1, InitIInv, PTL DEF Spec

-----------------------------------------------------------------------------
(* The open upstream sockets are exactly the ones the flow table reaches,   *)
(* under their clients' addresses, however the receive loop, the reverse    *)
(* relays and the reaper interleave.                                        *)
THEOREM TableOwnsSockets == Spec => []OpenIffInTable
<1>1. IInv => OpenIffInTable
  BY DEF IInv
<1> QED
  BY <1>1, Inductive, PTL

(* No open socket is without the goroutine that reads it. *)
THEOREM SocketsAreServed == Spec => []OpenFlowHasRelay
<1>1. IInv => OpenFlowHasRelay
  BY DEF IInv
<1> QED
  BY <1>1, Inductive, PTL

(* The table holds flows only, the reaper's list only addresses. *)
THEOREM QuicTypes == Spec => []TypeOK
<1>1. IInv => TypeOK
  BY DEF IInv
<1> QED
  BY <1>1, Inductive, PTL

-----------------------------------------------------------------------------
(* The refinement of FlowSockets: what its variables are in the proxy. *)
OpenSet == {f \in Flows : st[f] = "open"}
RelayState == [f \in Flows |-> IF relay[f] \in {"none", "done"} THEN relay[f] ELSE "run"]
Starting == IF loop = "initial" THEN cur ELSE NoFlow

LEMMA SocketsInit == Init => Sockets!Init
<1> SUFFICES ASSUME Init PROVE Sockets!Init
  OBVIOUS
<1>1. OpenSet = {} /\ Starting = NoFlow
  BY DEF Init, OpenSet, Starting
<1>2. RelayState = [f \in Flows |-> "none"]
  BY DEF Init, RelayState
<1> QED
  BY <1>1, <1>2 DEF Init, Sockets!Init, OpenSet, RelayState, Starting

LEMMA SocketsSame ==
    ASSUME addr' = addr, OpenSet' = OpenSet, RelayState' = RelayState, Starting' = Starting
    PROVE  UNCHANGED Sockets!vars
BY DEF Sockets!vars, OpenSet, RelayState, Starting

(* flowTable.remove looks clients up in the table; it closes the open       *)
(* sockets of those clients because the table has them all.                 *)
LEMMA RemoveCloses ==
    ASSUME OpenIffInTable, NEW A \in SUBSET Addrs, Remove(A)
    PROVE  OpenSet' = OpenSet \ Sockets!Of(A)
<1>1. st' = [f \in Flows |-> IF \E a \in A : table[a] = f THEN "closed" ELSE st[f]]
  BY DEF Remove
<1>2. ASSUME NEW f \in Flows, st[f] = "open"
      PROVE  (\E a \in A : table[a] = f) <=> addr[f] \in A
  <2>1. ASSUME NEW a \in A, table[a] = f
        PROVE  addr[f] = a
    BY <2>1, NilAssumption DEF OpenIffInTable
  <2>2. table[addr[f]] = f
    BY <1>2 DEF OpenIffInTable
  <2> QED
    BY <2>1, <2>2
<1> QED
  BY <1>1, <1>2 DEF OpenSet, Sockets!Of

LEMMA RemoveDrops ==
    ASSUME IInv, NEW A \in SUBSET Addrs, Remove(A), addr' = addr,
           relay' = relay, Starting' = Starting
    PROVE  Sockets!Drop(A)
<1>1. OpenSet' = OpenSet \ Sockets!Of(A)
  BY RemoveCloses DEF IInv
<1>2. RelayState' = RelayState
  BY DEF RelayState
<1> QED
  BY <1>1, <1>2 DEF Sockets!Drop, OpenSet, RelayState, Starting

LEMMA ForwardSockets ==
    ASSUME IInv, Forward
    PROVE  [Sockets!Next]_(Sockets!vars)
<1>1. Starting' = Starting /\ addr' = addr /\ relay' = relay
  BY DEF Forward, Starting
<1>2. CASE UNCHANGED st
  BY <1>1, <1>2, SocketsSame DEF OpenSet, RelayState
<1>3. CASE Remove({pkt.from})
  <2>1. {pkt.from} \in SUBSET Addrs
    BY DEF Forward, IInv, LoopInv, Packet
  <2> QED
    BY <1>1, <1>3, <2>1, RemoveDrops DEF Sockets!Next
<1> QED
  BY <1>2, <1>3 DEF Forward

(* The flow that put replaces is the open one of the same client. *)
LEMMA DialFlowSockets ==
    ASSUME IInv, DialFlow
    PROVE  [Sockets!Next]_(Sockets!vars)
<1>1. relay' = relay /\ RelayState' = RelayState /\ Starting = NoFlow
  BY DEF DialFlow, RelayState, Starting
<1>2. CASE loop' = "recv" /\ UNCHANGED <<table, st, addr, last, cur>>
  BY <1>1, <1>2, SocketsSame DEF OpenSet, Starting
<1>3. ASSUME NEW f \in Flows, st[f] = "none", PutFlow(pkt.from, f),
             addr' = [addr EXCEPT ![f] = pkt.from], cur' = f, loop' = "initial"
      PROVE  Sockets!Next
  <2>1. PICK a \in Addrs : a = pkt.from
    BY DEF DialFlow, IInv, LoopInv, Packet
  <2>2. addr[f] = NoAddr /\ addr' = [addr EXCEPT ![f] = a] /\ Starting' = f
    BY <1>3, <2>1 DEF IInv, AddrInv, Starting
  <2>3. st' = [g \in Flows |-> IF g = f THEN "open"
                               ELSE IF table[a] = g THEN "closed" ELSE st[g]]
    BY <1>3, <2>1 DEF PutFlow
  <2>4. ASSUME NEW g \in Flows, st[g] = "open"
        PROVE  table[a] = g <=> addr[g] = a
    BY <2>1, <2>4, NilAssumption DEF IInv, OpenIffInTable
  <2>5. OpenSet' = (OpenSet \ Sockets!Of({a})) \cup {f}
    BY <2>3, <2>4 DEF OpenSet, Sockets!Of
  <2>6. Sockets!Establish(f, a)
    BY <1>1, <2>2, <2>5 DEF Sockets!Establish, OpenSet, RelayState, Starting
  <2> QED
    BY <2>6 DEF Sockets!Next
<1> QED
  BY <1>2, <1>3 DEF DialFlow

(* What the loop starts was registered under the sender of the packet it    *)
(* has in hand, so a failed first write closes that flow's client.          *)
LEMMA InitialSockets ==
    ASSUME IInv, Initial
    PROVE  [Sockets!Next]_(Sockets!vars)
<1>1. /\ cur \in Flows /\ addr[cur] = pkt.from /\ {pkt.from} \in SUBSET Addrs
      /\ Starting = cur /\ Starting' = NoFlow /\ addr' = addr /\ cur # NoFlow
  BY NilAssumption DEF Initial, IInv, LoopInv, Packet, Starting
<1>2. CASE st[cur] = "open" /\ relay' = [relay EXCEPT ![cur] = "read"] /\ UNCHANGED st
  <2>1. RelayState' = [RelayState EXCEPT ![cur] = "run"]
    BY <1>1, <1>2 DEF RelayState, IInv, TypeOK
  <2>2. cur \in OpenSet /\ OpenSet' = OpenSet
    BY <1>1, <1>2 DEF OpenSet
  <2>3. Sockets!Serve
    BY <1>1, <2>1, <2>2 DEF Sockets!Serve, OpenSet, RelayState, Starting
  <2> QED
    BY <2>3 DEF Sockets!Next
<1>3. CASE Remove({pkt.from}) /\ UNCHANGED relay
  <2>1. OpenSet' = OpenSet \ Sockets!Of({addr[cur]}) /\ RelayState' = RelayState
    BY <1>1, <1>3, RemoveCloses DEF IInv, RelayState
  <2>2. Sockets!GiveUp
    BY <1>1, <2>1 DEF Sockets!GiveUp, OpenSet, RelayState, Starting
  <2> QED
    BY <2>2 DEF Sockets!Next
<1> QED
  BY <1>2, <1>3 DEF Initial

LEMMA RelayRemoveSockets ==
    ASSUME IInv, NEW f \in Flows, RelayRemove(f)
    PROVE  Sockets!Next
<1>1. addr[f] \in Addrs /\ addr' = addr /\ Starting' = Starting
  BY DEF RelayRemove, IInv, AddrInv, Starting
<1>2. RelayState[f] = "run" /\ RelayState' = [RelayState EXCEPT ![f] = "done"]
  BY DEF RelayRemove, RelayState, IInv, TypeOK
<1>3. OpenSet' = OpenSet \ Sockets!Of({addr[f]})
  <2>1. {addr[f]} \in SUBSET Addrs
    BY <1>1
  <2> QED
    BY <2>1, RemoveCloses DEF RelayRemove, IInv
<1>4. Sockets!Retire(f)
  BY <1>1, <1>2, <1>3 DEF Sockets!Retire, OpenSet, RelayState, Starting
<1> QED
  BY <1>4 DEF Sockets!Next

LEMMA RelayStepSockets ==
    ASSUME IInv, NEW f \in Flows, RelayCopy(f) \/ RelayTouch(f) \/ RelayFail(f)
    PROVE  UNCHANGED Sockets!vars
<1>1. /\ UNCHANGED <<st, addr, loop, cur>>
      /\ relay[f] \in {"read", "touch"}
      /\ \E l \in {"read", "touch", "leave"} : relay' = [relay EXCEPT ![f] = l]
  BY DEF RelayCopy, RelayTouch, RelayFail
<1>2. RelayState' = RelayState
  BY <1>1 DEF RelayState, IInv, TypeOK
<1> QED
  BY <1>1, <1>2, SocketsSame DEF OpenSet, Starting

LEMMA OtherSockets ==
    ASSUME Receive \/ ForwardTouch \/ ReaperScan \/ Tick \/ UNCHANGED vars
    PROVE  UNCHANGED Sockets!vars
<1>1. UNCHANGED <<st, addr, relay>> /\ Starting' = Starting
  BY DEF Receive, ForwardTouch, ReaperScan, Tick, vars, Starting
<1> QED
  BY <1>1, SocketsSame DEF OpenSet, RelayState

(* Every step of the proxy is a step of its sockets' promise, or none. *)
LEMMA SocketsStep == IInv /\ [Next]_vars => [Sockets!Next]_(Sockets!vars)
<1> SUFFICES ASSUME IInv, [Next]_vars PROVE [Sockets!Next]_(Sockets!vars)
  OBVIOUS
<1>1. CASE Loop
  BY <1>1, OtherSockets, ForwardSockets, DialFlowSockets, InitialSockets DEF Loop
<1>2. ASSUME NEW f \in Flows, ReverseRelay(f)
      PROVE  [Sockets!Next]_(Sockets!vars)
  BY <1>2, RelayStepSockets, RelayRemoveSockets DEF ReverseRelay
<1>3. CASE ReaperSweep
  <2>1. doomed \in SUBSET Addrs /\ addr' = addr /\ relay' = relay /\ Starting' = Starting
    BY <1>3 DEF ReaperSweep, IInv, TypeOK, Starting
  <2> QED
    BY <1>3, <2>1, RemoveDrops DEF ReaperSweep, Sockets!Next
<1>4. CASE ReaperScan \/ Tick \/ UNCHANGED vars
  BY <1>4, OtherSockets
<1> QED
  BY <1>1, <1>2, <1>3, <1>4 DEF Next, Reaper

(* The proxy keeps its promise about upstream sockets, whatever the receive *)
(* loop, the relays and the reaper do in between: each is dialed once for   *)
(* one client, replaces the client's last one, and is closed for good by    *)
(* the failed write, the sweep or the ended relay of that client alone.     *)
THEOREM ProxyKeepsSockets == Spec => ImplementsSockets
<1>1. Init => Sockets!Init
  BY SocketsInit
<1>2. IInv /\ [Next]_vars => [Sockets!Next]_(Sockets!vars)
  BY SocketsStep
<1> QED
  BY <1>1, <1>2, Inductive, PTL DEF Spec, ImplementsSockets, Sockets!Spec
=============================================================================
