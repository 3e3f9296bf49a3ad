------------------------------ MODULE QuicFlow ------------------------------
(***************************************************************************)
(* QUIC proxy mode of the server (quic.go): the receive loop of ServeQUIC, *)
(* one quicReverseRelay goroutine per flow, the reaper, and the flow table *)
(* they share.  A packet is its client address and whether it is a snell   *)
(* envelope; what decodes and what does not is the packet's kind.          *)
(***************************************************************************)
EXTENDS Integers, FiniteSets

CONSTANTS
    Addrs,      \* client addresses
    Flows,      \* flows that may be created (bound)
    NoAddr,     \* no client address
    NoFlow,     \* nil
    Idle,       \* quicFlowIdle, in ticks
    MaxTime     \* bound: the clock stops there

ASSUME NilAssumption == NoFlow \notin Flows /\ NoAddr \notin Addrs
ASSUME TimeAssumption == Idle \in Nat /\ MaxTime \in Nat

VARIABLES
    now,        \* the clock
    table,      \* flowTable.m
    st,         \* of a flow: none (not created), open, closed
    addr,       \* of a flow: clientAddr
    last,       \* of a flow: lastActivity
    relay,      \* of a flow: its reverse relay: none, read, touch, leave, done
    loop,       \* receive loop: recv, forward, touch, dial, initial
    pkt,        \* receive loop: the packet read last
    cur,        \* receive loop: the flow variable
    reaper,     \* reaper: wait, sweep
    doomed      \* reaper: the keys its scan collected

vars == <<now, table, st, addr, last, relay, loop, pkt, cur, reaper, doomed>>

Packet == [from : Addrs, envelope : BOOLEAN]
NoPacket == [from |-> NoAddr, envelope |-> FALSE]

TypeOK ==
    /\ now \in Nat
    /\ table \in [Addrs -> Flows \cup {NoFlow}]
    /\ st \in [Flows -> {"none", "open", "closed"}]
    /\ addr \in [Flows -> Addrs \cup {NoAddr}]
    /\ last \in [Flows -> Nat]
    /\ relay \in [Flows -> {"none", "read", "touch", "leave", "done"}]
    /\ loop \in {"recv", "forward", "touch", "dial", "initial"}
    /\ pkt \in Packet \cup {NoPacket}
    /\ cur \in Flows \cup {NoFlow}
    /\ reaper \in {"wait", "sweep"}
    /\ doomed \in SUBSET Addrs

Init ==
    /\ now = 0
    /\ table = [a \in Addrs |-> NoFlow]
    /\ st = [f \in Flows |-> "none"]
    /\ addr = [f \in Flows |-> NoAddr]
    /\ last = [f \in Flows |-> 0]
    /\ relay = [f \in Flows |-> "none"]
    /\ loop = "recv" /\ cur = NoFlow /\ pkt = NoPacket
    /\ reaper = "wait" /\ doomed = {}

-----------------------------------------------------------------------------
(* Mutant: the entries are deleted and their flows left open. *)
RemoveWithoutClose(A) ==
    /\ table' = [a \in Addrs |-> IF a \in A THEN NoFlow ELSE table[a]]
    /\ UNCHANGED st

(* flowTable.remove for the addresses of A, under the table's lock: the     *)
(* entries found there go, and their flows are closed (flow.close is        *)
(* idempotent).                                                             *)
Remove(A) ==
    /\ table' = [a \in Addrs |-> IF a \in A THEN NoFlow ELSE table[a]]
    /\ st' = [f \in Flows |-> IF \E a \in A : table[a] = f THEN "closed" ELSE st[f]]

(* flowTable.put: a flow already there is closed. *)
PutFlow(a, f) ==
    /\ table' = [table EXCEPT ![a] = f]
    /\ st' = [g \in Flows |-> IF g = f THEN "open" ELSE IF table[a] = g THEN "closed" ELSE st[g]]

Touch(f) == last' = [last EXCEPT ![f] = now]

-----------------------------------------------------------------------------
(* ServeQUIC reads a packet and looks its sender up. *)
Receive ==
    /\ loop = "recv"
    /\ pkt' \in Packet
    /\ cur' = table[pkt'.from]
    /\ loop' = IF cur' # NoFlow THEN "forward"
               ELSE IF pkt'.envelope THEN "dial" ELSE "recv"
    /\ UNCHANGED <<now, table, st, addr, last, relay, reaper, doomed>>

(* A known sender: the packet goes upstream as it is. The write fails on a  *)
(* closed socket or an ICMP error; the sender's flow is then removed.       *)
Forward ==
    /\ loop = "forward"
    /\ \/ st[cur] = "open" /\ loop' = "touch" /\ UNCHANGED <<table, st>>
       \/ Remove({pkt.from}) /\ loop' = "recv"
    /\ UNCHANGED <<now, addr, last, relay, pkt, cur, reaper, doomed>>

ForwardTouch ==
    /\ loop = "touch"
    /\ Touch(cur) /\ loop' = "recv"
    /\ UNCHANGED <<now, table, st, addr, relay, pkt, cur, reaper, doomed>>

(* A new sender: the loop waits for the dial, then registers the flow. *)
DialFlow ==
    /\ loop = "dial"
    /\ \/ \E f \in Flows :
            /\ st[f] = "none"
            /\ PutFlow(pkt.from, f)
            /\ addr' = [addr EXCEPT ![f] = pkt.from]
            /\ Touch(f)
            /\ cur' = f /\ loop' = "initial"
       \/ loop' = "recv" /\ UNCHANGED <<table, st, addr, last, cur>>
    /\ UNCHANGED <<now, relay, pkt, reaper, doomed>>

(* Mutant: the flow stays when its first packet could not be sent. *)
InitialKeepsFlow ==
    /\ loop = "initial" /\ loop' = "recv"
    /\ \/ /\ st[cur] = "open"
          /\ relay' = [relay EXCEPT ![cur] = "read"]
          /\ UNCHANGED <<table, st>>
       \/ UNCHANGED <<table, st, relay>>
    /\ UNCHANGED <<now, addr, last, pkt, cur, reaper, doomed>>

(* The unwrapped packet goes upstream and the reverse relay starts, or the  *)
(* write fails and the flow is removed.                                     *)
Initial ==
    /\ loop = "initial" /\ loop' = "recv"
    /\ \/ /\ st[cur] = "open"
          /\ relay' = [relay EXCEPT ![cur] = "read"]
          /\ UNCHANGED <<table, st>>
       \/ Remove({pkt.from}) /\ UNCHANGED relay
    /\ UNCHANGED <<now, addr, last, pkt, cur, reaper, doomed>>

(* quicReverseRelay: a reply is read and written to the client. *)
RelayCopy(f) ==
    /\ relay[f] = "read" /\ st[f] = "open"
    /\ relay' = [relay EXCEPT ![f] = "touch"]
    /\ UNCHANGED <<now, table, st, addr, last, loop, pkt, cur, reaper, doomed>>

(* The activity is recorded; a stopped flow ends the goroutine. *)
RelayTouch(f) ==
    /\ relay[f] = "touch"
    /\ Touch(f)
    /\ relay' = [relay EXCEPT ![f] = IF st[f] = "closed" THEN "leave" ELSE "read"]
    /\ UNCHANGED <<now, table, st, addr, loop, pkt, cur, reaper, doomed>>

(* Mutant: the relay tries again after an error. *)
RelayFailRetries(f) ==
    /\ relay[f] = "read"
    /\ relay' = [relay EXCEPT ![f] = "read"]
    /\ UNCHANGED <<now, table, st, addr, last, loop, pkt, cur, reaper, doomed>>

(* The read times out or fails, or the write to the client fails. *)
RelayFail(f) ==
    /\ relay[f] = "read"
    /\ relay' = [relay EXCEPT ![f] = "leave"]
    /\ UNCHANGED <<now, table, st, addr, last, loop, pkt, cur, reaper, doomed>>

(* The deferred flows.remove(flow.clientAddr). *)
RelayRemove(f) ==
    /\ relay[f] = "leave"
    /\ relay' = [relay EXCEPT ![f] = "done"]
    /\ Remove({addr[f]})
    /\ UNCHANGED <<now, addr, last, loop, pkt, cur, reaper, doomed>>

(* Mutant: the comparison with the cutoff is the wrong way round. *)
ReaperScanReversed ==
    /\ reaper = "wait"
    /\ doomed' = {a \in Addrs : table[a] # NoFlow /\ last[table[a]] > now - Idle}
    /\ doomed' # {}
    /\ reaper' = "sweep"
    /\ UNCHANGED <<now, table, st, addr, last, relay, loop, pkt, cur>>

(* The reaper's scan, under the read lock; no lock is held after it. *)
ReaperScan ==
    /\ reaper = "wait"
    /\ doomed' = {a \in Addrs : table[a] # NoFlow /\ last[table[a]] < now - Idle}
    /\ doomed' # {}
    /\ reaper' = "sweep"
    /\ UNCHANGED <<now, table, st, addr, last, relay, loop, pkt, cur>>

ReaperSweep ==
    /\ reaper = "sweep" /\ reaper' = "wait"
    /\ Remove(doomed) /\ doomed' = {}
    /\ UNCHANGED <<now, addr, last, relay, loop, pkt, cur>>

Tick ==
    /\ now < MaxTime
    /\ now' = now + 1
    /\ UNCHANGED <<table, st, addr, last, relay, loop, pkt, cur, reaper, doomed>>

Loop == Receive \/ Forward \/ ForwardTouch \/ DialFlow \/ Initial
ReverseRelay(f) == RelayCopy(f) \/ RelayTouch(f) \/ RelayFail(f) \/ RelayRemove(f)
Reaper == ReaperScan \/ ReaperSweep

Next == Loop \/ (\E f \in Flows : ReverseRelay(f)) \/ Reaper \/ Tick

Spec == Init /\ [][Next]_vars

(* The receive loop, the reaper and the clock go on. A relay whose socket   *)
(* is closed sees its read fail; one whose socket is open may read on.      *)
Fairness ==
    /\ WF_vars(Forward \/ ForwardTouch \/ DialFlow \/ Initial)
    /\ WF_vars(Reaper) /\ WF_vars(Tick)
    /\ \A f \in Flows :
        /\ WF_vars(RelayTouch(f) \/ RelayRemove(f))
        /\ WF_vars(st[f] = "closed" /\ RelayFail(f))

FairSpec == Spec /\ Fairness

-----------------------------------------------------------------------------
(* The flows with an open upstream socket are exactly those the table       *)
(* reaches, under their own client's address: no socket is out of the       *)
(* reaper's sight, and no packet goes to a socket some other goroutine has  *)
(* closed and forgotten (flowTable.put, remove, reaper; flow.close).        *)
OpenIffInTable ==
    /\ \A f \in Flows : st[f] = "open" => table[addr[f]] = f
    /\ \A a \in Addrs : table[a] # NoFlow => st[table[a]] = "open" /\ addr[table[a]] = a

(* Every open flow has a live reverse relay, except while the receive loop  *)
(* is about to start it.                                                    *)
OpenFlowHasRelay ==
    \A f \in Flows : st[f] = "open" =>
        relay[f] \in {"read", "touch", "leave"} \/ (loop = "initial" /\ cur = f)

(* The reverse relay of a closed flow ends. *)
RelayEnds == \A f \in Flows : (st[f] = "closed") ~> (relay[f] \in {"none", "done"})

(* A flow that stays silent is closed. *)
SilentFlowReaped ==
    \A f \in Flows : (st[f] = "open") ~> (st[f] = "closed" \/ last[f] + Idle >= MaxTime)

(* The proxy keeps what it promises of its upstream sockets: the table      *)
(* finds every open socket of a client (put, remove), the reaper's list may *)
(* be stale and closes no socket of another client, and no order of receive *)
(* loop, relays and reaper leaves a socket that nobody will close.          *)
Sockets == INSTANCE FlowSockets WITH
    owner <- addr,
    open <- {f \in Flows : st[f] = "open"},
    relay <- [f \in Flows |-> IF relay[f] \in {"none", "done"} THEN relay[f] ELSE "run"],
    starting <- IF loop = "initial" THEN cur ELSE NoFlow
ImplementsSockets == Sockets!Spec

-----------------------------------------------------------------------------
(* quic.go:28-30: "Once the (src_ip:src_port) -> target mapping is          *)
(* established, every subsequent UDP packet in either direction is          *)
(* forwarded": a reverse relay that ends takes down its own flow only, and  *)
(* not one established since under the same address.                        *)
RelayRemovesOwnFlow ==
    [][\A f, g \in Flows :
        relay[f] = "leave" /\ relay'[f] = "done" /\ st[g] = "open" /\ st'[g] = "closed"
            => g = f]_vars
=============================================================================
