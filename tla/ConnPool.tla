------------------------------ MODULE ConnPool ------------------------------
(***************************************************************************)
(* The client's connection pool (pool.go) under concurrent DialTCP calls   *)
(* (client.go).  A caller is the goroutine of one SOCKS5 CONNECT; a call   *)
(* tries the pool twice, then dials past it, runs its session and closes   *)
(* the connection, which may go back to the pool.  What happens on the     *)
(* connection during the session is the subject of SnellSession.           *)
(***************************************************************************)
EXTENDS Integers, Sequences, FiniteSets

CONSTANTS
    Callers,        \* goroutines of handleSocksConnect
    Conns,          \* TCP connections that may be dialed
    NoConn,         \* nil
    MaxSize,        \* pool.maxSize
    MaxAge,         \* pool.maxAge, in ticks
    MaxUses,        \* pool.maxUsesPerConn
    MaxTime         \* bound: the clock stops there

ASSUME CallersAssumption == IsFiniteSet(Callers)
ASSUME NoConnAssumption == NoConn \notin Conns
ASSUME LimitsAssumption ==
    /\ MaxSize \in Nat /\ MaxAge \in Nat /\ MaxUses \in Nat \ {0} /\ MaxTime \in Nat

VARIABLES
    now,        \* the clock
    items,      \* Pool.items: the idle connections, newest last
    st,         \* of a connection: none (not dialed), open, closed
    dead,       \* connections the server has closed
    served,     \* of a connection: request headers written on it
    pc,         \* of a caller
    held,       \* of a caller: its connection
    uses,       \* of a caller: PoolConn.uses
    tries       \* of a caller: attempts of DialTCP's loop

vars == <<now, items, st, dead, served, pc, held, uses, tries>>

PC == {"done", "get", "factory", "header", "session", "put", "fallback", "fresh", "bare"}
PooledConn == [c : Conns, expiresAt : Nat, uses : Nat]

TypeOK ==
    /\ now \in Nat
    /\ items \in Seq(PooledConn)
    /\ st \in [Conns -> {"none", "open", "closed"}]
    /\ dead \in SUBSET Conns
    /\ served \in [Conns -> Nat]
    /\ pc \in [Callers -> PC]
    /\ held \in [Callers -> Conns \cup {NoConn}]
    /\ uses \in [Callers -> Nat]
    /\ tries \in [Callers -> Nat]

Init ==
    /\ now = 0 /\ items = <<>> /\ dead = {}
    /\ st = [c \in Conns |-> "none"]
    /\ served = [c \in Conns |-> 0]
    /\ pc = [p \in Callers |-> "done"]
    /\ held = [p \in Callers |-> NoConn]
    /\ uses = [p \in Callers |-> 0]
    /\ tries = [p \in Callers |-> 0]

Goto(p, l) == pc' = [pc EXCEPT ![p] = l]
Live(n) == now < items[n].expiresAt
Close(S) == st' = [c \in Conns |-> IF c \in S THEN "closed" ELSE st[c]]

-----------------------------------------------------------------------------
(* DialTCP is called. *)
Call(p) ==
    /\ pc[p] = "done"
    /\ Goto(p, "get")
    /\ tries' = [tries EXCEPT ![p] = 0]
    /\ UNCHANGED <<now, items, st, dead, served, held, uses>>

(* Mutant: the entry handed out stays in the pool. *)
GetIdleKeepsEntry(p) ==
    /\ pc[p] = "get"
    /\ \E n \in 1..Len(items) :
        /\ Live(n) /\ \A m \in (n + 1)..Len(items) : ~Live(m)
        /\ items' = SubSeq(items, 1, n)
        /\ Close({items[m].c : m \in (n + 1)..Len(items)})
        /\ held' = [held EXCEPT ![p] = items[n].c]
        /\ uses' = [uses EXCEPT ![p] = items[n].uses + 1]
    /\ Goto(p, "header")
    /\ UNCHANGED <<now, dead, served, tries>>

(* takeIdle, under the pool's lock: the entries above the topmost live one  *)
(* are closed, and that one is handed out with one use more.                *)
GetIdle(p) ==
    /\ pc[p] = "get"
    /\ \E n \in 1..Len(items) :
        /\ Live(n) /\ \A m \in (n + 1)..Len(items) : ~Live(m)
        /\ items' = SubSeq(items, 1, n - 1)
        /\ Close({items[m].c : m \in (n + 1)..Len(items)})
        /\ held' = [held EXCEPT ![p] = items[n].c]
        /\ uses' = [uses EXCEPT ![p] = items[n].uses + 1]
    /\ Goto(p, "header")
    /\ UNCHANGED <<now, dead, served, tries>>

(* Mutant: expired entries are dropped without being closed. *)
GetNoneLeaks(p) ==
    /\ pc[p] = "get"
    /\ \A n \in 1..Len(items) : ~Live(n)
    /\ items' = <<>>
    /\ Goto(p, "factory")
    /\ UNCHANGED <<now, st, dead, served, held, uses, tries>>

(* takeIdle finds no live entry: all are closed, and the factory is next. *)
GetNone(p) ==
    /\ pc[p] = "get"
    /\ \A n \in 1..Len(items) : ~Live(n)
    /\ items' = <<>>
    /\ Close({items[m].c : m \in 1..Len(items)})
    /\ Goto(p, "factory")
    /\ UNCHANGED <<now, dead, served, held, uses, tries>>

(* The TCP dial of dialFresh gives caller p connection c. *)
Dialed(p, c) ==
    /\ st[c] = "none"
    /\ st' = [st EXCEPT ![c] = "open"]
    /\ held' = [held EXCEPT ![p] = c]
    /\ uses' = [uses EXCEPT ![p] = 1]

(* Mutant: a failed dial goes round the loop uncounted. *)
FactoryDialRetries(p) ==
    /\ pc[p] = "factory"
    /\ \/ \E c \in Conns : Dialed(p, c) /\ Goto(p, "header")
       \/ Goto(p, "get") /\ UNCHANGED <<st, held, uses>>
    /\ UNCHANGED <<now, items, dead, served, tries>>

(* GetContext's factory, outside the lock; its error leaves DialTCP's loop. *)
FactoryDial(p) ==
    /\ pc[p] = "factory"
    /\ \/ \E c \in Conns : Dialed(p, c) /\ Goto(p, "header")
       \/ Goto(p, "fallback") /\ UNCHANGED <<st, held, uses>>
    /\ UNCHANGED <<now, items, dead, served, tries>>

Drop(p) ==
    /\ Close({held[p]})
    /\ held' = [held EXCEPT ![p] = NoConn]

(* WriteHeader on the pool's connection. A failed write closes it, and the  *)
(* loop tries once more. A connection the server has closed may still take  *)
(* the write.                                                               *)
WriteHeader(p) ==
    /\ pc[p] = "header"
    /\ \/ /\ Goto(p, "session")
          /\ served' = [served EXCEPT ![held[p]] = @ + 1]
          /\ UNCHANGED <<st, held, tries>>
       \/ /\ held[p] \in dead
          /\ Drop(p)
          /\ tries' = [tries EXCEPT ![p] = @ + 1]
          /\ Goto(p, IF tries[p] + 1 < 2 THEN "get" ELSE "fallback")
          /\ UNCHANGED served
    /\ UNCHANGED <<now, items, dead, uses>>

(* DialTCP's own dialFresh: a connection the pool will never see. *)
FallbackDial(p) ==
    /\ pc[p] = "fallback"
    /\ \/ \E c \in Conns : Dialed(p, c) /\ Goto(p, "fresh")
       \/ Goto(p, "done") /\ UNCHANGED <<st, held, uses>>
    /\ UNCHANGED <<now, items, dead, served, tries>>

FreshHeader(p) ==
    /\ pc[p] = "fresh"
    /\ \/ /\ Goto(p, "bare")
          /\ served' = [served EXCEPT ![held[p]] = @ + 1]
          /\ UNCHANGED <<st, held>>
       \/ /\ held[p] \in dead
          /\ Drop(p) /\ Goto(p, "done") /\ UNCHANGED served
    /\ UNCHANGED <<now, items, dead, uses, tries>>

(* Mutant: the connection whose drain failed is closed and given to put all  *)
(* the same.                                                                *)
EndSessionPutsClosed(p) ==
    /\ pc[p] = "session"
    /\ UNCHANGED st \/ Close({held[p]})
    /\ Goto(p, "put")
    /\ UNCHANGED <<now, items, dead, served, held, uses, tries>>

(* PoolConn.Close: the half-close and the drain succeed, or the connection  *)
(* is closed.                                                               *)
EndSession(p) ==
    /\ pc[p] = "session"
    /\ \/ Goto(p, "put") /\ UNCHANGED <<st, held>>
       \/ Drop(p) /\ Goto(p, "done")
    /\ UNCHANGED <<now, items, dead, served, uses, tries>>

EndBare(p) ==
    /\ pc[p] = "bare"
    /\ Drop(p) /\ Goto(p, "done")
    /\ UNCHANGED <<now, items, dead, served, uses, tries>>

Entry(p) == [c |-> held[p], expiresAt |-> now + MaxAge, uses |-> uses[p]]

(* Mutants: the cap and the size compare one too late, the entry is pushed  *)
(* at the other end.                                                        *)
AtCapOffByOne(p) == uses[p] > MaxUses
FullOffByOne == Len(items) > MaxSize
PushBelow(p) == items' = <<Entry(p)>> \o items

(* Pool.put: at the use cap, or when the pool is full, the connection is    *)
(* closed; otherwise it is pushed with its expiry time.                     *)
AtCap(p) == uses[p] >= MaxUses
Full == Len(items) >= MaxSize
Push(p) == items' = Append(items, Entry(p))

Put(p) ==
    /\ pc[p] = "put"
    /\ \/ (AtCap(p) \/ Full) /\ Drop(p) /\ UNCHANGED items
       \/ /\ ~AtCap(p) /\ ~Full
          /\ Push(p)
          /\ held' = [held EXCEPT ![p] = NoConn]
          /\ UNCHANGED st
    /\ Goto(p, "done")
    /\ UNCHANGED <<now, dead, served, uses, tries>>

-----------------------------------------------------------------------------
Tick ==
    /\ now < MaxTime
    /\ now' = now + 1
    /\ UNCHANGED <<items, st, dead, served, pc, held, uses, tries>>

(* The server closes a connection, between sessions or inside one. *)
PeerClose(c) ==
    /\ st[c] = "open" /\ c \notin dead
    /\ dead' = dead \cup {c}
    /\ UNCHANGED <<now, items, st, served, pc, held, uses, tries>>

Caller(p) == GetIdle(p) \/ GetNone(p) \/ FactoryDial(p) \/ WriteHeader(p)
             \/ FallbackDial(p) \/ FreshHeader(p) \/ Put(p)

Next ==
    \/ \E p \in Callers : Call(p) \/ Caller(p) \/ EndSession(p) \/ EndBare(p)
    \/ \E c \in Conns : PeerClose(c)
    \/ Tick

Spec == Init /\ [][Next]_vars

-----------------------------------------------------------------------------
(* A connection is with one caller, or in one slot of the pool, never both: *)
(* two sessions never share a connection (takeIdle and put under the lock). *)
Exclusive ==
    /\ \A p, q \in Callers : held[p] = held[q] /\ held[p] # NoConn => p = q
    /\ \A m, n \in 1..Len(items) : items[m].c = items[n].c => m = n
    /\ \A p \in Callers, n \in 1..Len(items) : held[p] # items[n].c

(* No connection is leaked and none is used after Close: the open ones are  *)
(* those a caller holds or the pool keeps.                                  *)
NoLeak ==
    \A c \in Conns : st[c] = "open" <=>
        (\E p \in Callers : held[p] = c) \/ (\E n \in 1..Len(items) : items[n].c = c)

(* No connection carries more than MaxUses requests, counted where they are *)
(* written and not where the pool counts them (the cap in put against the   *)
(* increment in GetContext).                                                *)
UseCap == \A c \in Conns : served[c] <= MaxUses

(* The pool is sorted by expiry, so a live entry is never buried under an   *)
(* expired one and takeIdle, which stops at the first live entry from the   *)
(* top, finds the connection that stays usable longest.                     *)
YoungestOnTop ==
    \A m, n \in 1..Len(items) : m < n => items[m].expiresAt <= items[n].expiresAt

(* DialTCP gives up on the pool after two attempts, however many pooled     *)
(* connections the server has closed and whatever fails: every step of a    *)
(* call is nearer its end than the one before.                              *)
Remaining(l, t) ==
    CASE l = "get"      -> 3 * (2 - t) + 2
      [] l = "factory"  -> 3 * (2 - t) + 1
      [] l = "header"   -> 3 * (2 - t)
      [] l = "fallback" -> 2
      [] l = "fresh"    -> 1
      [] OTHER          -> 0
DialEnds ==
    [][\A p \in Callers :
        Remaining(pc[p], tries[p]) > 0 /\ <<pc[p], tries[p]>>' # <<pc[p], tries[p]>>
            => Remaining(pc[p], tries[p])' < Remaining(pc[p], tries[p])]_vars

(* The pool and its callers behave as leases of connections: whoever drops, *)
(* retries, expires or gives back, each connection goes from owner to owner *)
(* until it is closed and never comes back from there, none is left open    *)
(* without an owner, and put judges by the requests carried and not only by *)
(* its own count.                                                           *)
Leases == INSTANCE ConnLease WITH
    fresh <- {c \in Conns : st[c] = "none"},
    idle <- {items[n].c : n \in 1..Len(items)},
    gone <- {c \in Conns : st[c] = "closed"}
ImplementsLease == Leases!Spec
=============================================================================
