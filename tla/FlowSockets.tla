---------------------------- MODULE FlowSockets ----------------------------
(***************************************************************************)
(* What the QUIC proxy promises of its upstream sockets.  A flow gets its  *)
(* socket once, for one client; a client has one open socket at most, a    *)
(* new one taking the place of the old.  A socket is open from then on     *)
(* until it is closed for good, and an open one is being started or has    *)
(* the goroutine that relays its replies; when that goroutine ends, no     *)
(* socket of its client is left open.  The table, the packets, the clock   *)
(* and the reaper's two passes are the proxy's own business.               *)
(***************************************************************************)
EXTENDS Integers

CONSTANTS Addrs, Flows, NoAddr, NoFlow

VARIABLES
    owner,      \* of a flow: its client
    open,       \* the flows with an open socket
    relay,      \* of a flow: its relay goroutine: none, run, done
    starting    \* the flow whose first packet is on its way

vars == <<owner, open, relay, starting>>

Init ==
    /\ owner = [f \in Flows |-> NoAddr]
    /\ open = {}
    /\ relay = [f \in Flows |-> "none"]
    /\ starting = NoFlow

Of(A) == {f \in open : owner[f] \in A}

Establish(f, a) ==
    /\ starting = NoFlow /\ owner[f] = NoAddr
    /\ owner' = [owner EXCEPT ![f] = a]
    /\ open' = (open \ Of({a})) \cup {f}
    /\ starting' = f
    /\ UNCHANGED relay

Serve ==
    /\ starting \in open
    /\ relay' = [relay EXCEPT ![starting] = "run"]
    /\ starting' = NoFlow
    /\ UNCHANGED <<owner, open>>

GiveUp ==
    /\ starting # NoFlow
    /\ open' = open \ Of({owner[starting]})
    /\ starting' = NoFlow
    /\ UNCHANGED <<owner, relay>>

(* The flows of some clients are closed: a write failed, or they were silent. *)
Drop(A) ==
    /\ open' = open \ Of(A)
    /\ UNCHANGED <<owner, relay, starting>>

(* A later flow of the same client goes with the one whose relay ends. *)
Retire(f) ==
    /\ relay[f] = "run"
    /\ relay' = [relay EXCEPT ![f] = "done"]
    /\ open' = open \ Of({owner[f]})
    /\ UNCHANGED <<owner, starting>>

Next ==
    \/ \E f \in Flows, a \in Addrs : Establish(f, a)
    \/ Serve \/ GiveUp
    \/ \E A \in SUBSET Addrs : Drop(A)
    \/ \E f \in Flows : Retire(f)

Spec == Init /\ [][Next]_vars
=============================================================================
