----------------------------- MODULE RelayPump -----------------------------
(***************************************************************************)
(* utils.Relay: two pumps between two stream connections.  The pump named  *)
(* "left" is Relay's main goroutine and copies left to right; the one      *)
(* named "right" is the goroutine it starts and copies right to left.      *)
(* Unlike in SnellSession a write may block: the queue to a peer is        *)
(* bounded and the peer empties it when it pleases.                        *)
(***************************************************************************)
EXTENDS Integers

CONSTANTS
    Cap,        \* chunks the kernel buffers towards a peer
    MaxSend     \* bound: chunks a peer sends

ASSUME BoundsAssumption == Cap \in Nat \ {0} /\ MaxSend \in Nat

Side == {"left", "right"}
Other(s) == IF s = "left" THEN "right" ELSE "left"

VARIABLES
    sent,       \* of a side: chunks its peer has sent
    unread,     \* of a side: ... that Relay has not read
    eof,        \* of a side: its peer has closed
    gone,       \* of a side: its connection was reset
    queue,      \* of a side: chunks written to it, not yet taken by its peer
    got,        \* of a side: chunks its peer has taken
    dl,         \* of a side: its read deadline has passed
    pump,       \* of a side: the pump that reads it
    caller      \* the caller of Relay: relay, returned, reset

vars == <<sent, unread, eof, gone, queue, got, dl, pump, caller>>
peers == <<sent, eof, gone>>

TypeOK ==
    /\ sent \in [Side -> 0..MaxSend]
    /\ unread \in [Side -> 0..MaxSend]
    /\ eof \in [Side -> BOOLEAN]
    /\ gone \in [Side -> BOOLEAN]
    /\ queue \in [Side -> 0..Cap]
    /\ got \in [Side -> 0..MaxSend]
    /\ dl \in [Side -> BOOLEAN]
    /\ pump \in [Side -> {"read", "write", "ended", "signal", "done"}]
    /\ caller \in {"relay", "returned", "reset"}

Init ==
    /\ sent = [s \in Side |-> 0] /\ unread = [s \in Side |-> 0]
    /\ eof = [s \in Side |-> FALSE] /\ gone = [s \in Side |-> FALSE]
    /\ queue = [s \in Side |-> 0] /\ got = [s \in Side |-> 0]
    /\ dl = [s \in Side |-> FALSE]
    /\ pump = [s \in Side |-> "read"]
    /\ caller = "relay"

Goto(s, l) == pump' = [pump EXCEPT ![s] = l]

-----------------------------------------------------------------------------
(* The peers *)

PeerSend(s) ==
    /\ ~eof[s] /\ ~gone[s] /\ sent[s] < MaxSend
    /\ sent' = [sent EXCEPT ![s] = @ + 1]
    /\ unread' = [unread EXCEPT ![s] = @ + 1]
    /\ UNCHANGED <<eof, gone, queue, got, dl, pump, caller>>

PeerClose(s) ==
    /\ ~eof[s]
    /\ eof' = [eof EXCEPT ![s] = TRUE]
    /\ UNCHANGED <<sent, unread, gone, queue, got, dl, pump, caller>>

PeerReset(s) ==
    /\ ~gone[s]
    /\ gone' = [gone EXCEPT ![s] = TRUE]
    /\ UNCHANGED <<sent, unread, eof, queue, got, dl, pump, caller>>

PeerTake(s) ==
    /\ queue[s] > 0
    /\ queue' = [queue EXCEPT ![s] = @ - 1]
    /\ got' = [got EXCEPT ![s] = @ + 1]
    /\ UNCHANGED <<peers, unread, dl, pump, caller>>

-----------------------------------------------------------------------------
(* io.CopyBuffer reads a chunk; a deadline in the past fails the read even  *)
(* when there is data.                                                      *)
Read(s) ==
    /\ pump[s] = "read" /\ ~dl[s] /\ unread[s] > 0
    /\ unread' = [unread EXCEPT ![s] = @ - 1]
    /\ Goto(s, "write")
    /\ UNCHANGED <<peers, queue, got, dl, caller>>

(* Mutant: the source's close ends the pump before its data is read. *)
ReadEndEarly(s) ==
    /\ pump[s] = "read"
    /\ dl[s] \/ gone[s] \/ eof[s]
    /\ Goto(s, "ended")
    /\ UNCHANGED <<peers, unread, queue, got, dl, caller>>

ReadEnd(s) ==
    /\ pump[s] = "read"
    /\ dl[s] \/ gone[s] \/ (eof[s] /\ unread[s] = 0)
    /\ Goto(s, "ended")
    /\ UNCHANGED <<peers, unread, queue, got, dl, caller>>

(* Mutant: the chunk is still in hand after it was written. *)
WriteKeepsChunk(s) ==
    /\ pump[s] = "write" /\ queue[Other(s)] < Cap
    /\ queue' = [queue EXCEPT ![Other(s)] = @ + 1]
    /\ UNCHANGED <<peers, unread, got, dl, pump, caller>>

(* ... and writes it, waiting for room; no write deadline is ever set. *)
Write(s) ==
    /\ pump[s] = "write" /\ queue[Other(s)] < Cap
    /\ queue' = [queue EXCEPT ![Other(s)] = @ + 1]
    /\ Goto(s, "read")
    /\ UNCHANGED <<peers, unread, got, dl, caller>>

WriteFail(s) ==
    /\ pump[s] = "write"
    /\ gone[Other(s)] \/ eof[Other(s)]
    /\ Goto(s, "ended")
    /\ UNCHANGED <<peers, unread, queue, got, dl, caller>>

(* Mutant: the deadline is set on the connection the pump itself read. *)
SetDeadlineOnSource(s) ==
    /\ pump[s] = "ended"
    /\ dl' = [dl EXCEPT ![s] = TRUE]
    /\ Goto(s, "signal")
    /\ UNCHANGED <<peers, unread, queue, got, caller>>

(* The pump has ended: it stops the other one through the read deadline of  *)
(* the connection the other one reads, then reports to Relay.               *)
SetDeadline(s) ==
    /\ pump[s] = "ended"
    /\ dl' = [dl EXCEPT ![Other(s)] = TRUE]
    /\ Goto(s, "signal")
    /\ UNCHANGED <<peers, unread, queue, got, caller>>

Signal(s) ==
    /\ pump[s] = "signal"
    /\ Goto(s, "done")
    /\ UNCHANGED <<peers, unread, queue, got, dl, caller>>

(* Mutant: Relay returns without waiting for the goroutine it started. *)
ReturnEarly ==
    /\ caller = "relay" /\ pump["left"] = "done"
    /\ caller' = "returned"
    /\ UNCHANGED <<peers, unread, queue, got, dl, pump>>

Return ==
    /\ caller = "relay" /\ \A s \in Side : pump[s] = "done"
    /\ caller' = "returned"
    /\ UNCHANGED <<peers, unread, queue, got, dl, pump>>

(* A caller that reuses the left connection clears its deadline (handleTCP  *)
(* in reuse mode; PoolConn.Close does the same with the other one).         *)
Reset ==
    /\ caller = "returned"
    /\ caller' = "reset" /\ dl' = [s \in Side |-> FALSE]
    /\ UNCHANGED <<peers, unread, queue, got, pump>>

Pump(s) == Read(s) \/ ReadEnd(s) \/ Write(s) \/ WriteFail(s) \/ SetDeadline(s) \/ Signal(s)
Peer(s) == PeerSend(s) \/ PeerClose(s) \/ PeerReset(s) \/ PeerTake(s)

Next == (\E s \in Side : Pump(s) \/ Peer(s)) \/ Return \/ Reset

Spec == Init /\ [][Next]_vars

(* The goroutines run. *)
PumpFairness == (\A s \in Side : WF_vars(Pump(s))) /\ WF_vars(Return)

(* The peers go on reading what they are sent; they owe nothing else. *)
FairSpec == Spec /\ PumpFairness /\ \A s \in Side : WF_vars(PeerTake(s))

-----------------------------------------------------------------------------
(* Once Relay has returned neither goroutine sets a deadline any more: the  *)
(* caller's reset is the last word and the next session on a reused         *)
(* connection does not start with a read that fails.                        *)
ResetSticks == caller = "reset" => \A s \in Side : ~dl[s]

(* The direction that ends first is complete: all its source sent before    *)
(* it closed was written to the destination; only the other direction can   *)
(* be cut short by a deadline.                                              *)
FirstEndIsComplete ==
    \A s \in Side :
        /\ pump[s] \notin {"read", "write"} /\ pump[Other(s)] \in {"read", "write"}
        /\ ~gone[s] /\ ~gone[Other(s)] /\ ~eof[Other(s)]
        => sent[s] = queue[Other(s)] + got[Other(s)]

(* If the peers read what they are sent, Relay returns once one of the two  *)
(* directions has ended. relay.go:16-18 says so without the condition: "The *)
(* first side to finish forces the other to stop by setting an immediate    *)
(* read deadline".                                                          *)
FirstEndStopsRelay ==
    (\E s \in Side : pump[s] \notin {"read", "write"}) ~> (caller # "relay")

(* What pump s needs for its next step, and what can keep it in a write. *)
Moves(s) ==
    \/ pump[s] \in {"ended", "signal"}
    \/ pump[s] = "read" /\ (dl[s] \/ gone[s] \/ eof[s] \/ unread[s] > 0)
    \/ pump[s] = "write" /\ (queue[Other(s)] < Cap \/ gone[Other(s)] \/ eof[Other(s)])
BlockedByPeer(s) ==
    pump[s] = "write" /\ queue[Other(s)] = Cap /\ ~gone[Other(s)] /\ ~eof[Other(s)]

(* Once a direction has ended, the two pumps and the caller never wait on   *)
(* each other: the only thing that can keep Relay is a peer that neither    *)
(* reads nor closes, since the deadline reaches a pump in a read and none   *)
(* reaches one in a write.                                                  *)
OnlyPeerBlocks ==
    caller = "relay" /\ (\E s \in Side : pump[s] \notin {"read", "write"}) =>
        \/ \E s \in Side : Moves(s) \/ BlockedByPeer(s)
        \/ \A s \in Side : pump[s] = "done"

(* What a side can still do, and the caller: a chunk that was sent is to be *)
(* read, written and taken; a pump that ends has its deadline and its       *)
(* signal ahead of it.                                                      *)
PumpLeft(l) ==
    CASE l = "write" -> 5 [] l = "read" -> 3 [] l = "ended" -> 2
      [] l = "signal" -> 1 [] OTHER -> 0
SideLeft(s) ==
    4 * (MaxSend - sent[s]) + 3 * unread[s] + queue[s] + PumpLeft(pump[s])
    + (IF eof[s] THEN 0 ELSE 1) + (IF gone[s] THEN 0 ELSE 1)
CallerLeft == CASE caller = "relay" -> 2 [] caller = "returned" -> 1 [] OTHER -> 0
Left == SideLeft("left") + SideLeft("right") + CallerLeft

(* Relay does not turn in place: every chunk goes through it once, an end   *)
(* or a deadline ends a pump, the two pumps do not wake each other, and so  *)
(* each step, of the peers too, leaves less to do (relay.go's two loops and *)
(* the deadlines with which they stop each other).                          *)
RelayRunsOut == [][Left' \in Nat /\ Left' < Left]_vars
=============================================================================
