----------------------------- MODULE ConnLease -----------------------------
(***************************************************************************)
(* What the connection pool promises to the callers of DialTCP.  A         *)
(* connection is dialed by one caller and is with one owner at a time: a   *)
(* caller has it until it returns or retires it, and an idle one is leased *)
(* or expires.  A retired or expired connection is gone for good: those    *)
(* dialed and not gone are with a caller or idle, none is lost.  No more   *)
(* than MaxSize are idle, none carries more than MaxUses requests, and one *)
(* that has carried them all is not returned.  Clocks, the order of the    *)
(* idle connections and DialTCP's retries are the pool's own business.     *)
(***************************************************************************)
EXTENDS Integers, FiniteSets

CONSTANTS Callers, Conns, NoConn, MaxSize, MaxUses

VARIABLES
    fresh,      \* connections not yet dialed
    held,       \* of a caller: its connection
    idle,       \* the connections in the pool
    gone,       \* the closed ones
    served      \* of a connection: requests it has carried

vars == <<fresh, held, idle, gone, served>>

Init ==
    /\ fresh = Conns
    /\ held = [p \in Callers |-> NoConn]
    /\ idle = {} /\ gone = {}
    /\ served = [c \in Conns |-> 0]

Has(p, c) == held' = [held EXCEPT ![p] = c]

Dial(p, c) ==
    /\ held[p] = NoConn
    /\ c \in fresh /\ fresh' = fresh \ {c}
    /\ Has(p, c)
    /\ UNCHANGED <<idle, gone, served>>

(* Idle connections passed over on the way to c have expired. *)
Lease(p, c) ==
    /\ held[p] = NoConn /\ c \in idle
    /\ Has(p, c)
    /\ idle' \subseteq idle \ {c}
    /\ gone' = gone \cup ((idle \ {c}) \ idle')
    /\ UNCHANGED <<fresh, served>>

Expire ==
    /\ idle' = {} /\ gone' = gone \cup idle
    /\ UNCHANGED <<fresh, held, served>>

Serve(p) ==
    /\ held[p] # NoConn /\ served[held[p]] < MaxUses
    /\ served' = [served EXCEPT ![held[p]] = @ + 1]
    /\ UNCHANGED <<fresh, held, idle, gone>>

Return(p) ==
    /\ held[p] # NoConn /\ served[held[p]] < MaxUses
    /\ Cardinality(idle) < MaxSize
    /\ idle' = idle \cup {held[p]}
    /\ Has(p, NoConn)
    /\ UNCHANGED <<fresh, gone, served>>

Retire(p) ==
    /\ held[p] # NoConn
    /\ gone' = gone \cup {held[p]}
    /\ Has(p, NoConn)
    /\ UNCHANGED <<fresh, idle, served>>

Next ==
    \/ \E p \in Callers : Serve(p) \/ Return(p) \/ Retire(p)
    \/ \E p \in Callers, c \in Conns : Dial(p, c) \/ Lease(p, c)
    \/ Expire

Spec == Init /\ [][Next]_vars
=============================================================================
