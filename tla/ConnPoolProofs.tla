--------------------------- MODULE ConnPoolProofs ---------------------------
(***************************************************************************)
(* Proofs about ConnPool, for any number of callers and connections and    *)
(* any limits.                                                             *)
(***************************************************************************)
EXTENDS ConnPool, SequenceTheorems, FiniteSetTheorems, TLAPS

(* A caller's program counter says whether it holds a connection. *)
HoldingPC == {"header", "session", "put", "fresh", "bare"}
HeldInv == \A p \in Callers : held[p] # NoConn <=> pc[p] \in HoldingPC

(* What the pool and the callers count is what was written: the strengthening *)
(* that makes the use cap inductive.                                          *)
ItemCount ==
    \A n \in 1..Len(items) :
        served[items[n].c] = items[n].uses /\ items[n].uses < MaxUses
HeldCount ==
    \A p \in Callers :
        /\ pc[p] = "header" => served[held[p]] + 1 = uses[p] /\ uses[p] <= MaxUses
        /\ pc[p] \in {"session", "put"} => served[held[p]] = uses[p]
        /\ pc[p] = "fresh" => served[held[p]] = 0
NewCount == \A c \in Conns : st[c] = "none" => served[c] = 0

CountInv == ItemCount /\ HeldCount /\ NewCount /\ UseCap

(* No entry expires later than one pushed now would. *)
AgeBound == \A n \in 1..Len(items) : items[n].expiresAt <= now + MaxAge
AgeInv == AgeBound /\ YoungestOnTop

(* Who owns which connection: the two safety properties about it are       *)
(* inductive together.                                                      *)
OwnInv == Exclusive /\ NoLeak

IInv == TypeOK /\ HeldInv /\ OwnInv /\ CountInv /\ AgeInv

-----------------------------------------------------------------------------
(* Types are preserved by every step. *)
LEMMA TypeInit == Init => TypeOK
  BY LimitsAssumption DEF Init, TypeOK, PC, PooledConn

LEMMA EntryType ==
    ASSUME NEW s \in Seq(PooledConn), NEW n \in 1..Len(s)
    PROVE  s[n].c \in Conns /\ s[n].expiresAt \in Nat /\ s[n].uses \in Nat
<1>1. s[n] \in PooledConn
  BY ElementOfSeq
<1> QED
  BY <1>1 DEF PooledConn

LEMMA PrefixType ==
    ASSUME NEW s \in Seq(PooledConn), NEW n \in 1..Len(s)
    PROVE  /\ SubSeq(s, 1, n - 1) \in Seq(PooledConn)
           /\ Len(SubSeq(s, 1, n - 1)) = n - 1
           /\ \A m \in 1..(n - 1) : SubSeq(s, 1, n - 1)[m] = s[m]
<1>1. n \in Nat /\ 1 \in Int /\ n - 1 \in Int
  OBVIOUS
<1>2. \A i \in 1..(n - 1) : s[i] \in PooledConn
  OBVIOUS
<1>3. /\ SubSeq(s, 1, n - 1) \in Seq(PooledConn)
      /\ Len(SubSeq(s, 1, n - 1)) = IF 1 <= n - 1 THEN (n - 1) - 1 + 1 ELSE 0
      /\ \A i \in 1..((n - 1) - 1 + 1) : SubSeq(s, 1, n - 1)[i] = s[1 + i - 1]
  BY <1>1, <1>2, SubSeqProperties
<1>4. (n - 1) - 1 + 1 = n - 1 /\ \A i \in 1..(n - 1) : 1 + i - 1 = i
  BY <1>1
<1>5. Len(SubSeq(s, 1, n - 1)) = n - 1
  BY <1>1, <1>3
<1> QED
  BY <1>3, <1>4, <1>5

LEMMA CloseType ==
    ASSUME TypeOK, NEW S, Close(S)
    PROVE  st' \in [Conns -> {"none", "open", "closed"}]
  BY DEF TypeOK, Close

LEMMA GotoType ==
    ASSUME TypeOK, NEW p \in Callers, NEW l \in PC, Goto(p, l)
    PROVE  pc' \in [Callers -> PC]
  BY DEF TypeOK, Goto

LEMMA DropType ==
    ASSUME TypeOK, NEW p \in Callers, Drop(p)
    PROVE  /\ st' \in [Conns -> {"none", "open", "closed"}]
           /\ held' \in [Callers -> Conns \cup {NoConn}]
  BY CloseType DEF TypeOK, Drop

LEMMA DialedType ==
    ASSUME TypeOK, NEW p \in Callers, NEW c \in Conns, Dialed(p, c)
    PROVE  /\ st' \in [Conns -> {"none", "open", "closed"}]
           /\ held' \in [Callers -> Conns \cup {NoConn}]
           /\ uses' \in [Callers -> Nat]
  BY DEF TypeOK, Dialed
LEMMA PushType ==
    ASSUME TypeOK, NEW p \in Callers, held[p] \in Conns, Push(p)
    PROVE  /\ items' \in Seq(PooledConn)
           /\ Len(items') = Len(items) + 1
           /\ \A n \in 1..Len(items) : items'[n] = items[n]
           /\ items'[Len(items) + 1] = Entry(p)
<1>1. Entry(p) \in PooledConn
  BY LimitsAssumption DEF TypeOK, Entry, PooledConn
<1>2. items \in Seq(PooledConn) /\ items' = Append(items, Entry(p))
  BY DEF TypeOK, Push
<1> QED
  BY <1>1, <1>2, AppendProperties

(* What takeIdle does with the pool when it finds a live entry. *)
LEMMA GetIdleEffect ==
    ASSUME TypeOK, NEW p \in Callers, GetIdle(p)
    PROVE  \E n \in 1..Len(items) :
             /\ items' \in Seq(PooledConn)
             /\ Len(items') = n - 1
             /\ \A m \in 1..(n - 1) : items'[m] = items[m]
             /\ Close({items[m].c : m \in (n + 1)..Len(items)})
             /\ held' = [held EXCEPT ![p] = items[n].c]
             /\ uses' = [uses EXCEPT ![p] = items[n].uses + 1]
<1>1. PICK n \in 1..Len(items) :
        /\ items' = SubSeq(items, 1, n - 1)
        /\ Close({items[m].c : m \in (n + 1)..Len(items)})
        /\ held' = [held EXCEPT ![p] = items[n].c]
        /\ uses' = [uses EXCEPT ![p] = items[n].uses + 1]
  BY DEF GetIdle
<1>2. items \in Seq(PooledConn)
  BY DEF TypeOK
<1> QED
  BY <1>1, <1>2, PrefixType

-----------------------------------------------------------------------------
LEMMA TypeStep == TypeOK /\ HeldInv /\ [Next]_vars => TypeOK'
<1> SUFFICES ASSUME TypeOK, HeldInv, [Next]_vars PROVE TypeOK'
  OBVIOUS
<1>1. ASSUME NEW p \in Callers, Call(p) PROVE TypeOK'
  BY <1>1, GotoType DEF Call, TypeOK, PC
<1>2. ASSUME NEW p \in Callers, GetIdle(p) PROVE TypeOK'
  <2>1. PICK n \in 1..Len(items) :
          /\ items' \in Seq(PooledConn)
          /\ Close({items[m].c : m \in (n + 1)..Len(items)})
          /\ held' = [held EXCEPT ![p] = items[n].c]
          /\ uses' = [uses EXCEPT ![p] = items[n].uses + 1]
    BY <1>2, GetIdleEffect
  <2>2. items[n].c \in Conns /\ items[n].uses \in Nat
    BY EntryType DEF TypeOK
  <2>3. st' \in [Conns -> {"none", "open", "closed"}]
    BY <2>1, CloseType
  <2>4. pc' \in [Callers -> PC]
    BY <1>2, GotoType DEF GetIdle, PC
  <2>5. held' \in [Callers -> Conns \cup {NoConn}] /\ uses' \in [Callers -> Nat]
    BY <2>1, <2>2 DEF TypeOK
  <2>6. now' = now /\ dead' = dead /\ served' = served /\ tries' = tries
    BY <1>2 DEF GetIdle
  <2> QED
    BY <2>1, <2>3, <2>4, <2>5, <2>6 DEF TypeOK
<1>3. ASSUME NEW p \in Callers, GetNone(p) PROVE TypeOK'
  BY <1>3, GotoType, CloseType DEF GetNone, TypeOK, PC
<1>4. ASSUME NEW p \in Callers, FactoryDial(p) PROVE TypeOK'
  BY <1>4, GotoType, DialedType DEF FactoryDial, TypeOK, PC
<1>5. ASSUME NEW p \in Callers, WriteHeader(p) PROVE TypeOK'
  <2>1. held[p] \in Conns
    BY <1>5 DEF WriteHeader, HeldInv, HoldingPC, TypeOK
  <2>2. pc' \in [Callers -> PC]
    BY <1>5, GotoType DEF WriteHeader, PC
  <2>3. served' \in [Conns -> Nat]
    <3>1. served \in [Conns -> Nat]
      BY DEF TypeOK
    <3>2. served' = [served EXCEPT ![held[p]] = @ + 1] \/ served' = served
      BY <1>5 DEF WriteHeader
    <3> QED
      BY <3>1, <3>2, <2>1
  <2>5. tries' \in [Callers -> Nat]
    <3>1. tries \in [Callers -> Nat]
      BY DEF TypeOK
    <3>2. tries' = [tries EXCEPT ![p] = @ + 1] \/ tries' = tries
      BY <1>5 DEF WriteHeader
    <3> QED
      BY <3>1, <3>2
  <2>4. /\ st' \in [Conns -> {"none", "open", "closed"}]
        /\ held' \in [Callers -> Conns \cup {NoConn}]
    BY <1>5, DropType DEF WriteHeader, TypeOK
  <2> QED
    BY <1>5, <2>2, <2>3, <2>4, <2>5 DEF WriteHeader, TypeOK
<1>6. ASSUME NEW p \in Callers, FallbackDial(p) PROVE TypeOK'
  BY <1>6, GotoType, DialedType DEF FallbackDial, TypeOK, PC
<1>7. ASSUME NEW p \in Callers, FreshHeader(p) PROVE TypeOK'
  <2>1. held[p] \in Conns
    BY <1>7 DEF FreshHeader, HeldInv, HoldingPC, TypeOK
  <2>2. pc' \in [Callers -> PC]
    BY <1>7, GotoType DEF FreshHeader, PC
  <2>3. served' \in [Conns -> Nat]
    <3>1. served \in [Conns -> Nat]
      BY DEF TypeOK
    <3>2. served' = [served EXCEPT ![held[p]] = @ + 1] \/ served' = served
      BY <1>7 DEF FreshHeader
    <3> QED
      BY <3>1, <3>2, <2>1
  <2>5. tries' \in [Callers -> Nat]
    <3>1. tries \in [Callers -> Nat]
      BY DEF TypeOK
    <3>2. tries' = [tries EXCEPT ![p] = @ + 1] \/ tries' = tries
      BY <1>7 DEF FreshHeader
    <3> QED
      BY <3>1, <3>2
  <2>4. /\ st' \in [Conns -> {"none", "open", "closed"}]
        /\ held' \in [Callers -> Conns \cup {NoConn}]
    BY <1>7, DropType DEF FreshHeader, TypeOK
  <2> QED
    BY <1>7, <2>2, <2>3, <2>4, <2>5 DEF FreshHeader, TypeOK
<1>8. ASSUME NEW p \in Callers, EndSession(p) PROVE TypeOK'
  BY <1>8, GotoType, DropType DEF EndSession, TypeOK, PC
<1>9. ASSUME NEW p \in Callers, EndBare(p) PROVE TypeOK'
  BY <1>9, GotoType, DropType DEF EndBare, TypeOK, PC
<1>10. ASSUME NEW p \in Callers, Put(p) PROVE TypeOK'
  <2>1. held[p] \in Conns
    BY <1>10 DEF Put, HeldInv, HoldingPC, TypeOK
  <2>2. items' \in Seq(PooledConn)
    BY <1>10, <2>1, PushType DEF Put, TypeOK
  <2>3. /\ st' \in [Conns -> {"none", "open", "closed"}]
        /\ held' \in [Callers -> Conns \cup {NoConn}]
    BY <1>10, DropType DEF Put, TypeOK
  <2>4. pc' \in [Callers -> PC]
    BY <1>10, GotoType DEF Put, PC
  <2> QED
    BY <1>10, <2>2, <2>3, <2>4 DEF Put, TypeOK
<1>11. ASSUME NEW c \in Conns, PeerClose(c) PROVE TypeOK'
  BY <1>11 DEF PeerClose, TypeOK
<1>12. CASE Tick
  BY <1>12 DEF Tick, TypeOK
<1>13. CASE UNCHANGED vars
  BY <1>13 DEF vars, TypeOK
<1> QED
  BY <1>1, <1>2, <1>3, <1>4, <1>5, <1>6, <1>7, <1>8, <1>9, <1>10, <1>11, <1>12, <1>13
  DEF Next, Caller
-----------------------------------------------------------------------------
(* Who holds what. *)
LEMMA HeldInit == Init => HeldInv
  BY DEF Init, HeldInv, HoldingPC

LEMMA HeldStep == TypeOK /\ HeldInv /\ [Next]_vars => HeldInv'
<1> SUFFICES ASSUME TypeOK, HeldInv, [Next]_vars PROVE HeldInv'
  OBVIOUS
<1> USE DEF HeldInv, HoldingPC
<1>a. pc \in [Callers -> PC] /\ held \in [Callers -> Conns \cup {NoConn}]
  BY DEF TypeOK
<1>1. ASSUME NEW p \in Callers, Call(p) PROVE HeldInv'
  BY <1>1, <1>a DEF Call, Goto
<1>2. ASSUME NEW p \in Callers, GetIdle(p) PROVE HeldInv'
  <2>1. PICK n \in 1..Len(items) : held' = [held EXCEPT ![p] = items[n].c]
    BY <1>2, GetIdleEffect
  <2>2. items[n].c \in Conns
    BY EntryType DEF TypeOK
  <2>3. pc' = [pc EXCEPT ![p] = "header"]
    BY <1>2 DEF GetIdle, Goto
  <2> QED
    BY <1>a, <2>1, <2>2, <2>3, NoConnAssumption
<1>3. ASSUME NEW p \in Callers, GetNone(p) PROVE HeldInv'
  BY <1>3, <1>a DEF GetNone, Goto
<1>4. ASSUME NEW p \in Callers, FactoryDial(p) PROVE HeldInv'
  BY <1>4, <1>a, NoConnAssumption DEF FactoryDial, Dialed, Goto
<1>5. ASSUME NEW p \in Callers, WriteHeader(p) PROVE HeldInv'
  BY <1>5, <1>a DEF WriteHeader, Drop, Goto
<1>6. ASSUME NEW p \in Callers, FallbackDial(p) PROVE HeldInv'
  BY <1>6, <1>a, NoConnAssumption DEF FallbackDial, Dialed, Goto
<1>7. ASSUME NEW p \in Callers, FreshHeader(p) PROVE HeldInv'
  BY <1>7, <1>a DEF FreshHeader, Drop, Goto
<1>8. ASSUME NEW p \in Callers, EndSession(p) PROVE HeldInv'
  BY <1>8, <1>a DEF EndSession, Drop, Goto
<1>9. ASSUME NEW p \in Callers, EndBare(p) PROVE HeldInv'
  BY <1>9, <1>a DEF EndBare, Drop, Goto
<1>10. ASSUME NEW p \in Callers, Put(p) PROVE HeldInv'
  BY <1>10, <1>a DEF Put, Drop, Goto
<1>11. ASSUME NEW c \in Conns, PeerClose(c) PROVE HeldInv'
  BY <1>11 DEF PeerClose
<1>12. CASE Tick
  BY <1>12 DEF Tick
<1>13. CASE UNCHANGED vars
  BY <1>13 DEF vars
<1> QED
  BY <1>1, <1>2, <1>3, <1>4, <1>5, <1>6, <1>7, <1>8, <1>9, <1>10, <1>11, <1>12, <1>13
  DEF Next, Caller
-----------------------------------------------------------------------------
(* Ownership: what each kind of step does to it. *)
LEMMA OwnInit == Init => OwnInv
<1> SUFFICES ASSUME Init PROVE OwnInv
  OBVIOUS
<1>1. Len(items) = 0 /\ \A p \in Callers : held[p] = NoConn
  BY DEF Init
<1>2. \A c \in Conns : st[c] = "none" /\ c # NoConn
  BY NoConnAssumption DEF Init
<1> QED
  BY <1>1, <1>2 DEF OwnInv, Exclusive, NoLeak

LEMMA OwnSame == OwnInv /\ UNCHANGED <<held, items, st>> => OwnInv'
  BY DEF OwnInv, Exclusive, NoLeak

LEMMA OwnDrop ==
    ASSUME TypeOK, OwnInv, NEW p \in Callers, held[p] \in Conns, Drop(p), UNCHANGED items
    PROVE  OwnInv'
<1>1. /\ held' = [held EXCEPT ![p] = NoConn]
      /\ st' = [c \in Conns |-> IF c = held[p] THEN "closed" ELSE st[c]]
  BY DEF Drop, Close
<1>2. held \in [Callers -> Conns \cup {NoConn}] /\ items \in Seq(PooledConn)
  BY DEF TypeOK
<1>3. Exclusive'
  BY <1>1, <1>2, EntryType, NoConnAssumption DEF OwnInv, Exclusive
<1>4. NoLeak'
  BY <1>1, <1>2, NoConnAssumption DEF OwnInv, Exclusive, NoLeak
<1> QED
  BY <1>3, <1>4 DEF OwnInv

LEMMA OwnDialed ==
    ASSUME TypeOK, OwnInv, NEW p \in Callers, held[p] = NoConn,
           NEW c \in Conns, Dialed(p, c), UNCHANGED items
    PROVE  OwnInv'
<1>1. /\ held' = [held EXCEPT ![p] = c]
      /\ st' = [st EXCEPT ![c] = "open"]
      /\ st[c] = "none"
  BY DEF Dialed
<1>2. /\ held \in [Callers -> Conns \cup {NoConn}]
      /\ st \in [Conns -> {"none", "open", "closed"}]
  BY DEF TypeOK
<1>3. (\A q \in Callers : held[q] # c) /\ (\A n \in 1..Len(items) : items[n].c # c)
  BY <1>1 DEF OwnInv, NoLeak
<1>4. Exclusive'
  BY <1>1, <1>2, <1>3 DEF OwnInv, Exclusive
<1>5. NoLeak'
  BY <1>1, <1>2, <1>3, NoConnAssumption DEF OwnInv, NoLeak
<1> QED
  BY <1>4, <1>5 DEF OwnInv

LEMMA OwnPush ==
    ASSUME TypeOK, OwnInv, NEW p \in Callers, held[p] \in Conns, Push(p),
           held' = [held EXCEPT ![p] = NoConn], UNCHANGED st
    PROVE  OwnInv'
<1>a. /\ Len(items') = Len(items) + 1
      /\ \A n \in 1..Len(items) : items'[n] = items[n]
      /\ items'[Len(items) + 1] = Entry(p)
  BY PushType
<1>1. /\ Len(items') = Len(items) + 1
      /\ \A n \in 1..Len(items) : items'[n] = items[n]
      /\ items'[Len(items) + 1].c = held[p]
  BY <1>a DEF Entry
<1>2. held \in [Callers -> Conns \cup {NoConn}] /\ Len(items) \in Nat
  BY LenProperties DEF TypeOK
<1>b. \A n \in 1..Len(items') : n \in 1..Len(items) \/ n = Len(items) + 1
  BY <1>1, <1>2
<1>3. Exclusive'
  <2>1. ASSUME NEW q \in Callers, NEW r \in Callers, held'[q] = held'[r], held'[q] # NoConn
        PROVE  q = r
    BY <1>2, <2>1 DEF OwnInv, Exclusive
  <2>2. ASSUME NEW m \in 1..Len(items'), NEW n \in 1..Len(items'), items'[m].c = items'[n].c
        PROVE  m = n
    BY <1>1, <1>b, <2>2 DEF OwnInv, Exclusive
  <2>3. ASSUME NEW q \in Callers, NEW n \in 1..Len(items') PROVE held'[q] # items'[n].c
    <3>1. CASE n \in 1..Len(items)
      <4>1. items[n].c \in Conns
        BY <3>1, EntryType DEF TypeOK
      <4> QED
        BY <1>1, <1>2, <3>1, <4>1, NoConnAssumption DEF OwnInv, Exclusive
    <3>2. CASE n = Len(items) + 1
      BY <1>1, <1>2, <3>2, NoConnAssumption DEF OwnInv, Exclusive
    <3> QED
      BY <1>b, <3>1, <3>2
  <2> QED
    BY <2>1, <2>2, <2>3 DEF Exclusive
<1>4. ASSUME NEW c \in Conns
      PROVE  st'[c] = "open" <=>
               (\E q \in Callers : held'[q] = c) \/ (\E n \in 1..Len(items') : items'[n].c = c)
  <2>1. CASE c = held[p]
    <3>1. st[c] = "open"
      BY <2>1 DEF OwnInv, NoLeak
    <3>2. Len(items) + 1 \in 1..Len(items') /\ items'[Len(items) + 1].c = c
      BY <1>1, <1>2, <2>1
    <3> QED
      BY <3>1, <3>2
  <2>2. CASE c # held[p]
    <3>1. (\E q \in Callers : held'[q] = c) <=> (\E q \in Callers : held[q] = c)
      BY <1>2, <2>2, NoConnAssumption
    <3>2. (\E n \in 1..Len(items') : items'[n].c = c) <=> (\E n \in 1..Len(items) : items[n].c = c)
      BY <1>1, <1>2, <2>2
    <3> QED
      BY <3>1, <3>2 DEF OwnInv, NoLeak
  <2> QED
    BY <2>1, <2>2
<1> QED
  BY <1>3, <1>4 DEF OwnInv, NoLeak

LEMMA OwnGetNone ==
    ASSUME TypeOK, OwnInv, NEW p \in Callers, GetNone(p)
    PROVE  OwnInv'
<1>1. /\ items' = <<>> /\ Len(items') = 0
      /\ st' = [c \in Conns |-> IF c \in {items[m].c : m \in 1..Len(items)} THEN "closed" ELSE st[c]]
      /\ held' = held
  BY DEF GetNone, Close
<1>2. Exclusive'
  BY <1>1 DEF OwnInv, Exclusive
<1>3. NoLeak'
  BY <1>1 DEF OwnInv, Exclusive, NoLeak
<1> QED
  BY <1>2, <1>3 DEF OwnInv

LEMMA OwnGetIdle ==
    ASSUME TypeOK, OwnInv, NEW p \in Callers, held[p] = NoConn, GetIdle(p)
    PROVE  OwnInv'
<1>1. PICK n \in 1..Len(items) :
        /\ Len(items') = n - 1
        /\ \A m \in 1..(n - 1) : items'[m] = items[m]
        /\ Close({items[m].c : m \in (n + 1)..Len(items)})
        /\ held' = [held EXCEPT ![p] = items[n].c]
  BY GetIdleEffect
<1>2. st' = [c \in Conns |-> IF \E m \in (n + 1)..Len(items) : c = items[m].c
                            THEN "closed" ELSE st[c]]
  BY <1>1 DEF Close
<1>3. /\ held \in [Callers -> Conns \cup {NoConn}]
      /\ Len(items) \in Nat /\ n \in Nat
      /\ items[n].c \in Conns
  BY EntryType, LenProperties DEF TypeOK
<1>4. \A m \in 1..(n - 1) : m \in 1..Len(items) /\ m # n
  BY <1>3
<1>5. Exclusive'
  BY <1>1, <1>3, <1>4 DEF OwnInv, Exclusive
<1>6. ASSUME NEW c \in Conns
      PROVE  st'[c] = "open" <=>
               (\E q \in Callers : held'[q] = c) \/ (\E m \in 1..Len(items') : items'[m].c = c)
  <2>1. CASE \E m \in (n + 1)..Len(items) : c = items[m].c
    <3>1. PICK m \in (n + 1)..Len(items) : c = items[m].c
      BY <2>1
    <3>2. m \in 1..Len(items) /\ m # n /\ m \notin 1..(n - 1)
      BY <1>3, <3>1
    <3>3. \A q \in Callers : held'[q] # c
      BY <1>1, <1>3, <3>1, <3>2 DEF OwnInv, Exclusive
    <3>4. \A k \in 1..Len(items') : items'[k].c # c
      BY <1>1, <1>4, <3>1, <3>2 DEF OwnInv, Exclusive
    <3> QED
      BY <1>2, <2>1, <3>3, <3>4
  <2>2. CASE ~\E m \in (n + 1)..Len(items) : c = items[m].c
    <3>1. st'[c] = st[c]
      BY <1>2, <2>2
    <3>2. (\E q \in Callers : held'[q] = c) <=>
            (\E q \in Callers : held[q] = c) \/ c = items[n].c
      BY <1>1, <1>3, NoConnAssumption
    <3>3. (\E m \in 1..Len(items) : items[m].c = c) <=>
            (\E m \in 1..Len(items') : items'[m].c = c) \/ c = items[n].c
      BY <1>1, <1>3, <1>4, <2>2
    <3> QED
      BY <3>1, <3>2, <3>3 DEF OwnInv, NoLeak
  <2> QED
    BY <2>1, <2>2
<1> QED
  BY <1>5, <1>6 DEF OwnInv, NoLeak

LEMMA OwnStep == TypeOK /\ HeldInv /\ OwnInv /\ [Next]_vars => OwnInv'
<1> SUFFICES ASSUME TypeOK, HeldInv, OwnInv, [Next]_vars PROVE OwnInv'
  OBVIOUS
<1>a. \A p \in Callers :
        /\ pc[p] \in HoldingPC => held[p] \in Conns
        /\ pc[p] \notin HoldingPC => held[p] = NoConn
  BY DEF TypeOK, HeldInv
<1>1. ASSUME NEW p \in Callers, Call(p) PROVE OwnInv'
  BY <1>1, OwnSame DEF Call
<1>2. ASSUME NEW p \in Callers, GetIdle(p) PROVE OwnInv'
  BY <1>2, <1>a, OwnGetIdle DEF GetIdle, HoldingPC
<1>3. ASSUME NEW p \in Callers, GetNone(p) PROVE OwnInv'
  BY <1>3, OwnGetNone
<1>4. ASSUME NEW p \in Callers, FactoryDial(p) PROVE OwnInv'
  <2>1. held[p] = NoConn /\ UNCHANGED items
    BY <1>4, <1>a DEF FactoryDial, HoldingPC
  <2>2. ASSUME NEW c \in Conns, Dialed(p, c) PROVE OwnInv'
    BY <2>1, <2>2, OwnDialed
  <2>3. CASE UNCHANGED <<st, held, uses>>
    BY <2>1, <2>3, OwnSame
  <2> QED
    BY <1>4, <2>2, <2>3 DEF FactoryDial
<1>5. ASSUME NEW p \in Callers, WriteHeader(p) PROVE OwnInv'
  BY <1>5, <1>a, OwnDrop, OwnSame DEF WriteHeader, HoldingPC
<1>6. ASSUME NEW p \in Callers, FallbackDial(p) PROVE OwnInv'
  <2>1. held[p] = NoConn /\ UNCHANGED items
    BY <1>6, <1>a DEF FallbackDial, HoldingPC
  <2>2. ASSUME NEW c \in Conns, Dialed(p, c) PROVE OwnInv'
    BY <2>1, <2>2, OwnDialed
  <2>3. CASE UNCHANGED <<st, held, uses>>
    BY <2>1, <2>3, OwnSame
  <2> QED
    BY <1>6, <2>2, <2>3 DEF FallbackDial
<1>7. ASSUME NEW p \in Callers, FreshHeader(p) PROVE OwnInv'
  BY <1>7, <1>a, OwnDrop, OwnSame DEF FreshHeader, HoldingPC
<1>8. ASSUME NEW p \in Callers, EndSession(p) PROVE OwnInv'
  BY <1>8, <1>a, OwnDrop, OwnSame DEF EndSession, HoldingPC
<1>9. ASSUME NEW p \in Callers, EndBare(p) PROVE OwnInv'
  BY <1>9, <1>a, OwnDrop DEF EndBare, HoldingPC
<1>10. ASSUME NEW p \in Callers, Put(p) PROVE OwnInv'
  BY <1>10, <1>a, OwnDrop, OwnPush DEF Put, HoldingPC
<1>11. ASSUME NEW c \in Conns, PeerClose(c) PROVE OwnInv'
  BY <1>11, OwnSame DEF PeerClose
<1>12. CASE Tick
  BY <1>12, OwnSame DEF Tick
<1>13. CASE UNCHANGED vars
  BY <1>13, OwnSame DEF vars
<1> QED
  BY <1>1, <1>2, <1>3, <1>4, <1>5, <1>6, <1>7, <1>8, <1>9, <1>10, <1>11, <1>12, <1>13
  DEF Next, Caller
-----------------------------------------------------------------------------
(* The use counts. *)
LEMMA CountInit == Init => CountInv
<1> SUFFICES ASSUME Init PROVE CountInv
  OBVIOUS
<1>1. Len(items) = 0 /\ \A p \in Callers : pc[p] = "done"
  BY DEF Init
<1>2. \A c \in Conns : served[c] = 0 /\ 0 <= MaxUses
  BY LimitsAssumption DEF Init
<1> QED
  BY <1>1, <1>2 DEF CountInv, ItemCount, HeldCount, NewCount, UseCap

(* A header is written on the connection held by p. *)
LEMMA CountServe ==
    ASSUME TypeOK, OwnInv, CountInv, NEW p \in Callers, held[p] \in Conns,
           NEW l \in PC, Goto(p, l),
           served' = [served EXCEPT ![held[p]] = @ + 1],
           UNCHANGED <<items, held, uses, st>>,
           \/ pc[p] = "header" /\ l = "session"
           \/ pc[p] = "fresh" /\ l = "bare"
    PROVE  CountInv'
<1>1. /\ served \in [Conns -> Nat] /\ uses \in [Callers -> Nat]
      /\ pc \in [Callers -> PC] /\ MaxUses \in Nat \ {0}
      /\ held \in [Callers -> Conns \cup {NoConn}]
  BY LimitsAssumption DEF TypeOK
<1>2. pc' = [pc EXCEPT ![p] = l]
  BY DEF Goto
<1>3. served[held[p]] + 1 <= MaxUses
  BY <1>1 DEF CountInv, HeldCount
<1>4. ItemCount'
  <2>1. ASSUME NEW n \in 1..Len(items) PROVE items[n].c # held[p]
    BY DEF OwnInv, Exclusive
  <2> QED
    BY <1>1, <2>1 DEF CountInv, ItemCount
<1>5. HeldCount'
  <2> SUFFICES ASSUME NEW q \in Callers
               PROVE /\ pc'[q] = "header" => served'[held[q]] + 1 = uses[q] /\ uses[q] <= MaxUses
                     /\ pc'[q] \in {"session", "put"} => served'[held[q]] = uses[q]
                     /\ pc'[q] = "fresh" => served'[held[q]] = 0
    BY DEF HeldCount
  <2>1. CASE q = p
    BY <1>1, <1>2, <2>1 DEF CountInv, HeldCount
  <2>2. CASE q # p
    <3>1. held[q] # held[p]
      BY <2>2, NoConnAssumption DEF OwnInv, Exclusive
    <3>2. served'[held[q]] = served[held[q]] /\ pc'[q] = pc[q]
      BY <1>1, <1>2, <2>2, <3>1
    <3> QED
      BY <3>2 DEF CountInv, HeldCount
  <2> QED
    BY <2>1, <2>2
<1>6. NewCount'
  <2>1. st[held[p]] = "open"
    BY DEF OwnInv, NoLeak
  <2> QED
    BY <1>1, <2>1 DEF CountInv, NewCount
<1>7. UseCap'
  BY <1>1, <1>3 DEF CountInv, UseCap
<1> QED
  BY <1>4, <1>5, <1>6, <1>7 DEF CountInv

(* Nothing is written and p moves to a place where nothing is claimed. *)
Unclaimed == {"done", "get", "factory", "fallback", "bare"}
LEMMA CountGoto ==
    ASSUME TypeOK, CountInv, NEW p \in Callers, NEW l \in PC, Goto(p, l),
           l \in Unclaimed \/ (pc[p] = "session" /\ l = "put" /\ held'[p] = held[p]),
           \A q \in Callers : q # p => held'[q] = held[q],
           \A c \in Conns : st'[c] = "none" => st[c] = "none",
           ItemCount', UNCHANGED <<served, uses>>
    PROVE  CountInv'
<1>1. pc \in [Callers -> PC] /\ pc' = [pc EXCEPT ![p] = l]
  BY DEF TypeOK, Goto
<1>2. HeldCount'
  BY <1>1 DEF CountInv, HeldCount, Unclaimed
<1>3. NewCount' /\ UseCap'
  BY DEF CountInv, NewCount, UseCap
<1> QED
  BY <1>2, <1>3 DEF CountInv

LEMMA CountDialed ==
    ASSUME TypeOK, OwnInv, CountInv, NEW p \in Callers, NEW c \in Conns, Dialed(p, c),
           NEW l \in {"header", "fresh"}, Goto(p, l), UNCHANGED <<items, served>>
    PROVE  CountInv'
<1>1. /\ pc \in [Callers -> PC] /\ held \in [Callers -> Conns \cup {NoConn}]
      /\ uses \in [Callers -> Nat] /\ st \in [Conns -> {"none", "open", "closed"}]
      /\ served \in [Conns -> Nat] /\ MaxUses \in Nat \ {0}
  BY LimitsAssumption DEF TypeOK
<1>2. /\ pc' = [pc EXCEPT ![p] = l] /\ held' = [held EXCEPT ![p] = c]
      /\ uses' = [uses EXCEPT ![p] = 1] /\ st' = [st EXCEPT ![c] = "open"]
      /\ st[c] = "none"
  BY DEF Dialed, Goto
<1>3. served[c] = 0
  BY <1>2 DEF CountInv, NewCount
<1>4. HeldCount'
  BY <1>1, <1>2, <1>3 DEF CountInv, HeldCount
<1>5. ItemCount' /\ NewCount' /\ UseCap'
  BY <1>1, <1>2 DEF CountInv, ItemCount, NewCount, UseCap
<1> QED
  BY <1>4, <1>5 DEF CountInv

LEMMA CountGetIdle ==
    ASSUME TypeOK, CountInv, NEW p \in Callers, GetIdle(p)
    PROVE  CountInv'
<1>1. PICK n \in 1..Len(items) :
        /\ Len(items') = n - 1
        /\ \A m \in 1..(n - 1) : items'[m] = items[m]
        /\ Close({items[m].c : m \in (n + 1)..Len(items)})
        /\ held' = [held EXCEPT ![p] = items[n].c]
        /\ uses' = [uses EXCEPT ![p] = items[n].uses + 1]
  BY GetIdleEffect
<1>2. /\ pc \in [Callers -> PC] /\ held \in [Callers -> Conns \cup {NoConn}]
      /\ uses \in [Callers -> Nat] /\ MaxUses \in Nat \ {0}
      /\ Len(items) \in Nat /\ n \in Nat
  BY LimitsAssumption, LenProperties DEF TypeOK
<1>3. items[n].c \in Conns /\ items[n].uses \in Nat
  BY EntryType DEF TypeOK
<1>4. pc' = [pc EXCEPT ![p] = "header"] /\ served' = served
  BY DEF GetIdle, Goto
<1>5. served[items[n].c] = items[n].uses /\ items[n].uses < MaxUses
  BY DEF CountInv, ItemCount
<1>6. HeldCount'
  <2>1. items[n].uses + 1 <= MaxUses
    BY <1>2, <1>3, <1>5
  <2> SUFFICES ASSUME NEW q \in Callers
               PROVE /\ pc'[q] = "header" => served[held'[q]] + 1 = uses'[q] /\ uses'[q] <= MaxUses
                     /\ pc'[q] \in {"session", "put"} => served[held'[q]] = uses'[q]
                     /\ pc'[q] = "fresh" => served[held'[q]] = 0
    BY <1>4 DEF HeldCount
  <2>2. CASE q = p
    BY <1>1, <1>2, <1>3, <1>4, <1>5, <2>1, <2>2
  <2>3. CASE q # p
    <3>1. held'[q] = held[q] /\ uses'[q] = uses[q] /\ pc'[q] = pc[q]
      BY <1>1, <1>2, <1>4, <2>3
    <3> QED
      BY <3>1 DEF CountInv, HeldCount
  <2> QED
    BY <2>2, <2>3
<1>7. ItemCount'
  <2>1. \A m \in 1..(n - 1) : m \in 1..Len(items)
    BY <1>2
  <2> QED
    BY <1>1, <1>4, <2>1 DEF CountInv, ItemCount
<1>8. NewCount' /\ UseCap'
  BY <1>1, <1>4 DEF Close, CountInv, NewCount, UseCap
<1> QED
  BY <1>6, <1>7, <1>8 DEF CountInv

LEMMA CountPush ==
    ASSUME TypeOK, CountInv, NEW p \in Callers, held[p] \in Conns, pc[p] = "put",
           ~AtCap(p), Push(p), UNCHANGED served
    PROVE  ItemCount'
<1>1. /\ Len(items') = Len(items) + 1
      /\ \A n \in 1..Len(items) : items'[n] = items[n]
      /\ items'[Len(items) + 1] = Entry(p)
  BY PushType
<1>2. uses[p] \in Nat /\ MaxUses \in Nat /\ Len(items) \in Nat
  BY LimitsAssumption, LenProperties DEF TypeOK
<1>3. served[held[p]] = uses[p] /\ uses[p] < MaxUses
  BY <1>2 DEF CountInv, HeldCount, AtCap
<1>4. \A n \in 1..Len(items') : n \in 1..Len(items) \/ n = Len(items) + 1
  BY <1>1, <1>2
<1> QED
  BY <1>1, <1>3, <1>4 DEF CountInv, ItemCount, Entry

LEMMA CloseKeepsNone ==
    ASSUME NEW S, Close(S)
    PROVE  \A c \in Conns : st'[c] = "none" => st[c] = "none"
  BY DEF Close

LEMMA DropEffect ==
    ASSUME TypeOK, NEW p \in Callers, Drop(p)
    PROVE  /\ \A q \in Callers : q # p => held'[q] = held[q]
           /\ \A c \in Conns : st'[c] = "none" => st[c] = "none"
  BY CloseKeepsNone DEF TypeOK, Drop

LEMMA CountSame == CountInv /\ UNCHANGED <<items, served, st, pc, held, uses>> => CountInv'
  BY DEF CountInv, ItemCount, HeldCount, NewCount, UseCap

LEMMA SameItems == CountInv /\ UNCHANGED <<items, served>> => ItemCount'
  BY DEF CountInv, ItemCount

LEMMA CountStep == TypeOK /\ HeldInv /\ OwnInv /\ CountInv /\ [Next]_vars => CountInv'
<1> SUFFICES ASSUME TypeOK, HeldInv, OwnInv, CountInv, [Next]_vars PROVE CountInv'
  OBVIOUS
<1>a. \A p \in Callers : pc[p] \in HoldingPC => held[p] \in Conns
  BY DEF TypeOK, HeldInv
<1>b. {"header", "fresh", "put"} \subseteq PC /\ Unclaimed \subseteq PC
  BY DEF PC, Unclaimed
<1>1. ASSUME NEW p \in Callers, Call(p) PROVE CountInv'
  BY <1>1, <1>b, CountGoto, SameItems DEF Call, Unclaimed
<1>2. ASSUME NEW p \in Callers, GetIdle(p) PROVE CountInv'
  BY <1>2, CountGetIdle
<1>3. ASSUME NEW p \in Callers, GetNone(p) PROVE CountInv'
  <2>1. Len(items') = 0 /\ Goto(p, "factory") /\ UNCHANGED <<served, uses, held>>
    BY <1>3 DEF GetNone
  <2>2. \A c \in Conns : st'[c] = "none" => st[c] = "none"
    BY <1>3, CloseKeepsNone DEF GetNone
  <2>3. ItemCount'
    BY <2>1 DEF ItemCount
  <2> QED
    BY <2>1, <2>2, <2>3, <1>b, CountGoto DEF Unclaimed
<1>4. ASSUME NEW p \in Callers, FactoryDial(p) PROVE CountInv'
  <2>1. ASSUME NEW c \in Conns, Dialed(p, c), Goto(p, "header") PROVE CountInv'
    BY <1>4, <2>1, CountDialed DEF FactoryDial
  <2>2. CASE Goto(p, "fallback") /\ UNCHANGED <<st, held, uses>>
    BY <1>4, <2>2, <1>b, CountGoto, SameItems DEF FactoryDial, Unclaimed
  <2> QED
    BY <1>4, <2>1, <2>2 DEF FactoryDial
<1>5. ASSUME NEW p \in Callers, WriteHeader(p) PROVE CountInv'
  <2>1. UNCHANGED <<items, uses>> /\ pc[p] = "header" /\ held[p] \in Conns
    BY <1>5, <1>a DEF WriteHeader, HoldingPC
  <2>2. CASE Goto(p, "session") /\ served' = [served EXCEPT ![held[p]] = @ + 1]
             /\ UNCHANGED <<st, held, tries>>
    BY <2>1, <2>2, CountServe DEF PC
  <2>3. CASE Drop(p) /\ Goto(p, IF tries[p] + 1 < 2 THEN "get" ELSE "fallback")
             /\ UNCHANGED served
    <3>1. PICK l \in Unclaimed : Goto(p, l)
      BY <2>3 DEF Unclaimed
    <3> QED
      BY <2>1, <2>3, <3>1, <1>b, CountGoto, DropEffect, SameItems
  <2> QED
    BY <1>5, <2>2, <2>3 DEF WriteHeader
<1>6. ASSUME NEW p \in Callers, FallbackDial(p) PROVE CountInv'
  <2>1. ASSUME NEW c \in Conns, Dialed(p, c), Goto(p, "fresh") PROVE CountInv'
    BY <1>6, <2>1, CountDialed DEF FallbackDial
  <2>2. CASE Goto(p, "done") /\ UNCHANGED <<st, held, uses>>
    BY <1>6, <2>2, <1>b, CountGoto, SameItems DEF FallbackDial, Unclaimed
  <2> QED
    BY <1>6, <2>1, <2>2 DEF FallbackDial
<1>7. ASSUME NEW p \in Callers, FreshHeader(p) PROVE CountInv'
  <2>1. UNCHANGED <<items, uses>> /\ pc[p] = "fresh" /\ held[p] \in Conns
    BY <1>7, <1>a DEF FreshHeader, HoldingPC
  <2>2. CASE Goto(p, "bare") /\ served' = [served EXCEPT ![held[p]] = @ + 1]
             /\ UNCHANGED <<st, held>>
    BY <2>1, <2>2, CountServe DEF PC
  <2>3. CASE Drop(p) /\ Goto(p, "done") /\ UNCHANGED served
    BY <2>1, <2>3, <1>b, CountGoto, DropEffect, SameItems DEF Unclaimed
  <2> QED
    BY <1>7, <2>2, <2>3 DEF FreshHeader
<1>8. ASSUME NEW p \in Callers, EndSession(p) PROVE CountInv'
  <2>1. UNCHANGED <<items, uses, served>> /\ pc[p] = "session"
    BY <1>8 DEF EndSession
  <2>2. CASE Goto(p, "put") /\ UNCHANGED <<st, held>>
    BY <2>1, <2>2, <1>b, CountGoto, SameItems
  <2>3. CASE Drop(p) /\ Goto(p, "done")
    BY <2>1, <2>3, <1>b, CountGoto, DropEffect, SameItems DEF Unclaimed
  <2> QED
    BY <1>8, <2>2, <2>3 DEF EndSession
<1>9. ASSUME NEW p \in Callers, EndBare(p) PROVE CountInv'
  BY <1>9, <1>b, CountGoto, DropEffect, SameItems DEF EndBare, Unclaimed
<1>10. ASSUME NEW p \in Callers, Put(p) PROVE CountInv'
  <2>1. /\ UNCHANGED <<uses, served>> /\ pc[p] = "put" /\ Goto(p, "done")
        /\ held[p] \in Conns
    BY <1>10, <1>a DEF Put, HoldingPC
  <2>2. CASE Drop(p) /\ UNCHANGED items
    BY <2>1, <2>2, <1>b, CountGoto, DropEffect, SameItems DEF Unclaimed
  <2>3. CASE /\ ~AtCap(p) /\ Push(p)
             /\ held' = [held EXCEPT ![p] = NoConn]
             /\ UNCHANGED st
    <3>1. \A q \in Callers : q # p => held'[q] = held[q]
      BY <2>3 DEF TypeOK
    <3> QED
      BY <2>1, <2>3, <3>1, <1>b, CountGoto, CountPush DEF Unclaimed
  <2> QED
    BY <1>10, <2>2, <2>3 DEF Put
<1>11. ASSUME NEW c \in Conns, PeerClose(c) PROVE CountInv'
  BY <1>11, CountSame DEF PeerClose
<1>12. CASE Tick
  BY <1>12, CountSame DEF Tick
<1>13. CASE UNCHANGED vars
  BY <1>13, CountSame DEF vars
<1> QED
  BY <1>1, <1>2, <1>3, <1>4, <1>5, <1>6, <1>7, <1>8, <1>9, <1>10, <1>11, <1>12, <1>13
  DEF Next, Caller
-----------------------------------------------------------------------------
(* The order of the pool. *)
LEMMA AgeInit == Init => AgeInv
<1> SUFFICES ASSUME Init PROVE AgeInv
  OBVIOUS
<1>1. Len(items) = 0
  BY DEF Init
<1> QED
  BY <1>1 DEF AgeInv, AgeBound, YoungestOnTop

LEMMA AgeSame == AgeInv /\ UNCHANGED <<items, now>> => AgeInv'
  BY DEF AgeInv, AgeBound, YoungestOnTop

LEMMA AgePush ==
    ASSUME TypeOK, AgeInv, NEW p \in Callers, held[p] \in Conns, Push(p), UNCHANGED now
    PROVE  AgeInv'
<1>1. /\ Len(items') = Len(items) + 1
      /\ \A n \in 1..Len(items) : items'[n] = items[n]
      /\ items'[Len(items) + 1] = Entry(p)
  BY PushType
<1>a. items'[Len(items) + 1].expiresAt = now + MaxAge
  BY <1>1 DEF Entry
<1>2. Len(items) \in Nat /\ now \in Nat /\ MaxAge \in Nat
  BY LimitsAssumption, LenProperties DEF TypeOK
<1>3. \A n \in 1..Len(items') : n \in 1..Len(items) \/ n = Len(items) + 1
  BY <1>1, <1>2
<1>4. \A n \in 1..Len(items') : items'[n].expiresAt <= now + MaxAge
  BY <1>1, <1>a, <1>2, <1>3 DEF AgeInv, AgeBound
<1>5. ASSUME NEW m \in 1..Len(items'), NEW n \in 1..Len(items'), m < n
      PROVE  items'[m].expiresAt <= items'[n].expiresAt
  <2>1. CASE n = Len(items) + 1
    BY <1>1, <1>a, <1>4, <2>1
  <2>2. CASE n \in 1..Len(items)
    <3>1. m \in 1..Len(items)
      BY <1>2, <1>3, <1>5, <2>2
    <3> QED
      BY <1>1, <1>5, <2>2, <3>1 DEF AgeInv, YoungestOnTop
  <2> QED
    BY <1>3, <2>1, <2>2
<1> QED
  BY <1>4, <1>5 DEF AgeInv, AgeBound, YoungestOnTop

LEMMA AgeStep == TypeOK /\ HeldInv /\ AgeInv /\ [Next]_vars => AgeInv'
<1> SUFFICES ASSUME TypeOK, HeldInv, AgeInv, [Next]_vars PROVE AgeInv'
  OBVIOUS
<1>1. ASSUME NEW p \in Callers, GetIdle(p) PROVE AgeInv'
  <2>1. PICK n \in 1..Len(items) :
          Len(items') = n - 1 /\ \A m \in 1..(n - 1) : items'[m] = items[m]
    BY <1>1, GetIdleEffect
  <2>2. \A m \in 1..(n - 1) : m \in 1..Len(items)
    BY LenProperties DEF TypeOK
  <2>3. now' = now
    BY <1>1 DEF GetIdle
  <2> QED
    BY <2>1, <2>2, <2>3 DEF AgeInv, AgeBound, YoungestOnTop
<1>2. ASSUME NEW p \in Callers, GetNone(p) PROVE AgeInv'
  <2>1. Len(items') = 0
    BY <1>2 DEF GetNone
  <2> QED
    BY <2>1 DEF AgeInv, AgeBound, YoungestOnTop
<1>3. ASSUME NEW p \in Callers, Put(p) PROVE AgeInv'
  <2>1. held[p] \in Conns /\ now' = now
    BY <1>3 DEF Put, HeldInv, HoldingPC, TypeOK
  <2>2. Push(p) \/ UNCHANGED items
    BY <1>3 DEF Put
  <2> QED
    BY <2>1, <2>2, AgePush, AgeSame
<1>4. CASE Tick
  <2>1. now' = now + 1 /\ items' = items
    BY <1>4 DEF Tick
  <2>2. ASSUME NEW n \in 1..Len(items) PROVE items[n].expiresAt <= now' + MaxAge
    <3>1. items[n].expiresAt \in Nat /\ now \in Nat /\ MaxAge \in Nat
      BY EntryType, LimitsAssumption DEF TypeOK
    <3>2. items[n].expiresAt <= now + MaxAge
      BY DEF AgeInv, AgeBound
    <3> QED
      BY <2>1, <3>1, <3>2
  <2> QED
    BY <2>1, <2>2 DEF AgeInv, AgeBound, YoungestOnTop
<1>5. ASSUME NEW p \in Callers,
             Call(p) \/ FactoryDial(p) \/ WriteHeader(p) \/ FallbackDial(p)
             \/ FreshHeader(p) \/ EndSession(p) \/ EndBare(p)
      PROVE  AgeInv'
  BY <1>5, AgeSame
  DEF Call, FactoryDial, WriteHeader, FallbackDial, FreshHeader, EndSession, EndBare
<1>6. ASSUME NEW c \in Conns, PeerClose(c) PROVE AgeInv'
  BY <1>6, AgeSame DEF PeerClose
<1>7. CASE UNCHANGED vars
  BY <1>7, AgeSame DEF vars
<1> QED
  BY <1>1, <1>2, <1>3, <1>4, <1>5, <1>6, <1>7 DEF Next, Caller
-----------------------------------------------------------------------------
(* The strengthened invariant is inductive, and everything follows from it. *)
LEMMA Inductive == Spec => []IInv
<1>1. Init => IInv
  BY TypeInit, HeldInit, OwnInit, CountInit, AgeInit DEF IInv
<1>2. IInv /\ [Next]_vars => IInv'
  BY TypeStep, HeldStep, OwnStep, CountStep, AgeStep DEF IInv
<1> QED
  BY <1>1, <1>2, PTL DEF Spec

(* Every variable keeps its type: in particular a caller that is between    *)
(* WriteHeader and Close really has a connection, and only real connections *)
(* enter the pool.                                                          *)
THEOREM TypeCorrect == Spec => []TypeOK
<1>1. IInv => TypeOK
  BY DEF IInv
<1> QED
  BY <1>1, Inductive, PTL

(* Two sessions never share a connection, however many callers call DialTCP *)
(* and Close at once (takeIdle and put).                                    *)
THEOREM ExclusiveOwner == Spec => []Exclusive
<1>1. IInv => Exclusive
  BY DEF IInv, OwnInv
<1> QED
  BY <1>1, Inductive, PTL

(* Every connection that is open is owned: none is leaked on an error path  *)
(* of DialTCP or Close, and none is used after it was closed.               *)
THEOREM NothingLeaked == Spec => []NoLeak
<1>1. IInv => NoLeak
  BY DEF IInv, OwnInv
<1> QED
  BY <1>1, Inductive, PTL

(* No connection carries more requests than maxUsesPerConn, although the    *)
(* pool counts uses when it hands a connection out and tests the cap when   *)
(* it is given back.                                                        *)
THEOREM UseCapHolds == Spec => []UseCap
<1>1. IInv => UseCap
  BY DEF IInv, CountInv
<1> QED
  BY <1>1, Inductive, PTL

(* The pool stays sorted by expiry, which is what takeIdle's scan from the  *)
(* top and its truncation rely on.                                          *)
THEOREM PoolSorted == Spec => []YoungestOnTop
<1>1. IInv => YoungestOnTop
  BY DEF IInv, AgeInv
<1> QED
  BY <1>1, Inductive, PTL
-----------------------------------------------------------------------------
(* DialTCP's loop: an attempt begins with fewer than two behind it. *)
TriesInv == \A p \in Callers : pc[p] \in {"get", "factory", "header"} => tries[p] \in {0, 1}

LEMMA TriesInit == Init => TriesInv
  BY DEF Init, TriesInv

LEMMA TriesStep == TypeOK /\ TriesInv /\ [Next]_vars => TriesInv'
<1> SUFFICES ASSUME TypeOK, TriesInv, [Next]_vars PROVE TriesInv'
  OBVIOUS
<1> USE DEF TriesInv, Goto
<1>a. pc \in [Callers -> PC] /\ tries \in [Callers -> Nat]
  BY DEF TypeOK
<1>1. ASSUME NEW p \in Callers, Call(p) PROVE TriesInv'
  BY <1>1, <1>a DEF Call
<1>2. ASSUME NEW p \in Callers, GetIdle(p) \/ GetNone(p) PROVE TriesInv'
  BY <1>2, <1>a DEF GetIdle, GetNone
<1>3. ASSUME NEW p \in Callers, FactoryDial(p) PROVE TriesInv'
  BY <1>3, <1>a DEF FactoryDial
<1>4. ASSUME NEW p \in Callers, WriteHeader(p) PROVE TriesInv'
  BY <1>4, <1>a DEF WriteHeader
<1>5. ASSUME NEW p \in Callers,
             FallbackDial(p) \/ FreshHeader(p) \/ EndSession(p) \/ EndBare(p) \/ Put(p)
      PROVE  TriesInv'
  BY <1>5, <1>a DEF FallbackDial, FreshHeader, EndSession, EndBare, Put
<1>6. CASE Tick \/ (\E c \in Conns : PeerClose(c)) \/ UNCHANGED vars
  BY <1>6 DEF Tick, PeerClose, vars
<1> QED
  BY <1>1, <1>2, <1>3, <1>4, <1>5, <1>6 DEF Next, Caller

(* One step of a call, and of everything else while it waits. *)
CallerNearer(p) ==
    Remaining(pc[p], tries[p]) > 0 /\ <<pc[p], tries[p]>>' # <<pc[p], tries[p]>>
        => Remaining(pc[p], tries[p])' < Remaining(pc[p], tries[p])

LEMMA OtherWaits ==
    ASSUME TypeOK, NEW p \in Callers, NEW q \in Callers, q # p,
           Call(q) \/ Caller(q) \/ EndSession(q) \/ EndBare(q)
    PROVE  UNCHANGED <<pc[p], tries[p]>>
  BY DEF TypeOK, Call, Caller, GetIdle, GetNone, FactoryDial, WriteHeader, FallbackDial,
         FreshHeader, Put, EndSession, EndBare, Goto

LEMMA NearerStep ==
    ASSUME TypeOK, TriesInv, [Next]_vars, NEW p \in Callers
    PROVE  CallerNearer(p)
<1> USE DEF CallerNearer, Remaining, Goto
<1>a. pc \in [Callers -> PC] /\ tries \in [Callers -> Nat]
  BY DEF TypeOK
<1>b. pc[p] \in {"get", "factory", "header"} => tries[p] \in {0, 1}
  BY DEF TriesInv
<1>1. CASE Call(p)
  BY <1>1, <1>a DEF Call
<1>2. CASE GetIdle(p) \/ GetNone(p)
  BY <1>2, <1>a, <1>b DEF GetIdle, GetNone
<1>3. CASE FactoryDial(p)
  BY <1>3, <1>a, <1>b DEF FactoryDial
<1>4. CASE WriteHeader(p)
  <2>1. pc[p] = "header" /\ tries[p] \in {0, 1}
    BY <1>4, <1>b DEF WriteHeader
  <2>2. CASE pc'[p] = "session"
    BY <1>a, <2>1, <2>2
  <2>3. CASE tries' = [tries EXCEPT ![p] = @ + 1]
             /\ pc' = [pc EXCEPT ![p] = IF tries[p] + 1 < 2 THEN "get" ELSE "fallback"]
    BY <1>a, <2>1, <2>3
  <2> QED
    BY <1>4, <1>a, <2>2, <2>3 DEF WriteHeader
<1>5. CASE FallbackDial(p) \/ FreshHeader(p)
  BY <1>5, <1>a DEF FallbackDial, FreshHeader
<1>6. CASE EndSession(p) \/ EndBare(p) \/ Put(p)
  BY <1>6, <1>a DEF EndSession, EndBare, Put
<1>7. ASSUME NEW q \in Callers, q # p,
             Call(q) \/ Caller(q) \/ EndSession(q) \/ EndBare(q)
      PROVE  CallerNearer(p)
  BY <1>7, OtherWaits
<1>8. CASE Tick \/ (\E c \in Conns : PeerClose(c)) \/ UNCHANGED vars
  BY <1>8 DEF Tick, PeerClose, vars
<1> QED
  BY <1>1, <1>2, <1>3, <1>4, <1>5, <1>6, <1>7, <1>8 DEF Next, Caller

(* Every call of DialTCP is nearer its end with each of its steps, whatever *)
(* the pool holds and whichever writes and dials fail: the loop makes two   *)
(* attempts at most, and one dial past the pool ends it.                    *)
THEOREM DialTCPEnds == Spec => DialEnds
<1>1. Spec => []TriesInv
  <2>1. TypeOK /\ TriesInv /\ [Next]_vars => TriesInv'
    BY TriesStep
  <2> QED
    BY <2>1, TriesInit, TypeCorrect, PTL DEF Spec
<1>2. TypeOK /\ TriesInv /\ [Next]_vars
        => [\A p \in Callers :
             Remaining(pc[p], tries[p]) > 0 /\ <<pc[p], tries[p]>>' # <<pc[p], tries[p]>>
               => Remaining(pc[p], tries[p])' < Remaining(pc[p], tries[p])]_vars
  BY NearerStep DEF CallerNearer
<1> QED
  BY <1>1, <1>2, TypeCorrect, PTL DEF Spec, DialEnds
-----------------------------------------------------------------------------
(* How many connections are open. *)
SizeInv == Len(items) <= MaxSize

LEMMA SizeStep == TypeOK /\ HeldInv /\ SizeInv /\ [Next]_vars => SizeInv'
<1> SUFFICES ASSUME TypeOK, HeldInv, SizeInv, [Next]_vars PROVE SizeInv'
  OBVIOUS
<1> USE DEF SizeInv
<1>a. Len(items) \in Nat /\ MaxSize \in Nat
  BY LenProperties, LimitsAssumption DEF TypeOK
<1>1. ASSUME NEW p \in Callers, GetIdle(p) PROVE SizeInv'
  <2>1. PICK n \in 1..Len(items) : Len(items') = n - 1
    BY <1>1, GetIdleEffect
  <2> QED
    BY <1>a, <2>1
<1>2. ASSUME NEW p \in Callers, GetNone(p) PROVE SizeInv'
  <2>1. Len(items') = 0
    BY <1>2 DEF GetNone
  <2> QED
    BY <1>a, <2>1
<1>3. ASSUME NEW p \in Callers, Put(p) PROVE SizeInv'
  <2>1. CASE UNCHANGED items
    BY <2>1
  <2>2. CASE ~Full /\ Push(p)
    <3>1. held[p] \in Conns
      BY <1>3 DEF Put, HeldInv, HoldingPC, TypeOK
    <3>2. Len(items') = Len(items) + 1
      BY <2>2, <3>1, PushType
    <3> QED
      BY <1>a, <2>2, <3>2 DEF Full
  <2> QED
    BY <1>3, <2>1, <2>2 DEF Put
<1>4. ASSUME NEW p \in Callers,
             Call(p) \/ FactoryDial(p) \/ WriteHeader(p) \/ FallbackDial(p)
             \/ FreshHeader(p) \/ EndSession(p) \/ EndBare(p)
      PROVE  SizeInv'
  BY <1>4 DEF Call, FactoryDial, WriteHeader, FallbackDial, FreshHeader, EndSession, EndBare
<1>5. CASE Tick \/ (\E c \in Conns : PeerClose(c)) \/ UNCHANGED vars
  BY <1>5 DEF Tick, PeerClose, vars
<1> QED
  BY <1>1, <1>2, <1>3, <1>4, <1>5 DEF Next, Caller

(* What the client keeps open is bounded: a connection per caller that is   *)
(* using one, and MaxSize idle ones, expired or not.                        *)
OpenBound ==
    Cardinality({c \in Conns : st[c] = "open"})
        <= Cardinality({p \in Callers : held[p] # NoConn}) + MaxSize

(* The owners of the open connections can be counted: one connection each. *)
LEMMA OwnersBound ==
    ASSUME TypeOK, NoLeak, SizeInv
    PROVE  OpenBound
<1> DEFINE Busy == {p \in Callers : held[p] # NoConn}
           Slots == 1..Len(items)
           HeldConns == {held[p] : p \in Busy}
           IdleConns == {items[n].c : n \in Slots}
           Open == {c \in Conns : st[c] = "open"}
<1>1. IsFiniteSet(Busy) /\ Cardinality(Busy) \in Nat
  BY CallersAssumption, FS_Subset, FS_CardinalityType
<1>2. IsFiniteSet(HeldConns) /\ Cardinality(HeldConns) <= Cardinality(Busy)
  <2>1. [p \in Busy |-> held[p]] \in Surjection(Busy, HeldConns)
    BY DEF Surjection
  <2> QED
    BY <1>1, <2>1, FS_Surjection
<1>3. Len(items) \in Nat /\ MaxSize \in Nat
  BY LenProperties, LimitsAssumption DEF TypeOK
<1>4. IsFiniteSet(Slots) /\ Cardinality(Slots) = Len(items)
  <2> DEFINE L == Len(items)
  <2>1. L \in Int /\ 1 \in Int
    BY <1>3
  <2> HIDE DEF L
  <2>2. /\ IsFiniteSet(1..L)
        /\ Cardinality(1..L) = IF 1 > L THEN 0 ELSE L - 1 + 1
    BY ONLY <2>1, FS_Interval, Zenon
  <2>3. L \in Nat
    BY <1>3 DEF L
  <2>4. Cardinality(1..L) = L
    BY ONLY <2>2, <2>3
  <2> QED
    BY <2>2, <2>4 DEF L
<1>5. IsFiniteSet(IdleConns) /\ Cardinality(IdleConns) <= Len(items)
  <2>1. [n \in Slots |-> items[n].c] \in Surjection(Slots, IdleConns)
    BY DEF Surjection
  <2> QED
    BY <1>4, <2>1, FS_Surjection
<1>6. Open \in SUBSET (HeldConns \cup IdleConns)
  BY NoConnAssumption DEF NoLeak
<1>7. /\ IsFiniteSet(HeldConns \cup IdleConns)
      /\ Cardinality(HeldConns \cup IdleConns) <= Cardinality(HeldConns) + Cardinality(IdleConns)
  <2>1. IsFiniteSet(HeldConns \cap IdleConns)
    BY <1>2, FS_Subset
  <2>2. /\ Cardinality(HeldConns) \in Nat /\ Cardinality(IdleConns) \in Nat
        /\ Cardinality(HeldConns \cap IdleConns) \in Nat
    BY <1>2, <1>5, <2>1, FS_CardinalityType
  <2>3. /\ IsFiniteSet(HeldConns \cup IdleConns)
        /\ Cardinality(HeldConns \cup IdleConns) = Cardinality(HeldConns) + Cardinality(IdleConns)
                - Cardinality(HeldConns \cap IdleConns)
    BY <1>2, <1>5, FS_Union
  <2> QED
    BY <2>2, <2>3
<1>8. IsFiniteSet(Open) /\ Cardinality(Open) <= Cardinality(HeldConns \cup IdleConns)
  BY <1>6, <1>7, FS_Subset
<1>9. /\ Cardinality(Open) \in Nat /\ Cardinality(HeldConns \cup IdleConns) \in Nat
      /\ Cardinality(HeldConns) \in Nat /\ Cardinality(IdleConns) \in Nat
  BY <1>2, <1>5, <1>7, <1>8, FS_CardinalityType
<1>10. Cardinality(Open) <= Cardinality(Busy) + MaxSize
  <2> HIDE DEF Open, Busy, HeldConns, IdleConns
  <2> QED
    BY <1>1, <1>2, <1>3, <1>5, <1>7, <1>8, <1>9 DEF SizeInv
<1> QED
  BY <1>10 DEF OpenBound

(* The sockets the client keeps open are bounded by its sessions and the    *)
(* pool's size: what waits in the pool to expire is counted in put, too.    *)
THEOREM OpenBounded == Spec => []OpenBound
<1>1. Init => SizeInv
  BY LimitsAssumption DEF Init, SizeInv
<1>2. Spec => []SizeInv
  <2>1. IInv /\ SizeInv /\ [Next]_vars => SizeInv'
    BY SizeStep DEF IInv
  <2> QED
    BY <1>1, <2>1, Inductive, PTL DEF Spec
<1>3. IInv /\ SizeInv => OpenBound
  BY OwnersBound DEF IInv, OwnInv
<1> QED
  BY <1>2, <1>3, Inductive, PTL
-----------------------------------------------------------------------------
(* The refinement of ConnLease: the pool's connections as a set, those not  *)
(* dialed, and the closed ones.                                             *)
FreshSet == {c \in Conns : st[c] = "none"}
IdleSet == {items[n].c : n \in 1..Len(items)}
ClosedSet == {c \in Conns : st[c] = "closed"}

LEMMA LeaseInit == Init => Leases!Init
<1> SUFFICES ASSUME Init PROVE Leases!Init
  OBVIOUS
<1>1. FreshSet = Conns /\ IdleSet = {} /\ ClosedSet = {}
  BY DEF Init, FreshSet, IdleSet, ClosedSet
<1> QED
  BY <1>1 DEF Init, Leases!Init, FreshSet, IdleSet, ClosedSet

LEMMA IdleConns ==
    ASSUME TypeOK
    PROVE  IdleSet \subseteq Conns
  BY EntryType DEF TypeOK, IdleSet

LEMMA CloseAdds ==
    ASSUME NEW S \in SUBSET Conns, Close(S)
    PROVE  ClosedSet' = ClosedSet \cup S
  BY DEF Close, ClosedSet

(* What a caller holds or the pool keeps was dialed, so closing it takes    *)
(* nothing from the fresh ones.                                             *)
LEMMA CloseKeepsFresh ==
    ASSUME NEW S \in SUBSET Conns, \A c \in S : st[c] = "open", Close(S)
    PROVE  FreshSet' = FreshSet
  BY DEF Close, FreshSet

LEMMA OwnedOpen ==
    ASSUME OwnInv
    PROVE  /\ \A p \in Callers : held[p] \in Conns => st[held[p]] = "open"
           /\ \A n \in 1..Len(items) : items[n].c \in Conns => st[items[n].c] = "open"
  BY DEF OwnInv, NoLeak

LEMMA IdleCount ==
    ASSUME TypeOK
    PROVE  Cardinality(IdleSet) \in Nat /\ Cardinality(IdleSet) <= Len(items)
<1> DEFINE L == Len(items)
<1>1. L \in Nat
  BY LenProperties DEF TypeOK
<1>2. IsFiniteSet(1..L) /\ Cardinality(1..L) = L
  <2> HIDE DEF L
  <2>1. L \in Int /\ 1 \in Int
    BY <1>1
  <2>2. /\ IsFiniteSet(1..L)
        /\ Cardinality(1..L) = IF 1 > L THEN 0 ELSE L - 1 + 1
    BY ONLY <2>1, FS_Interval, Zenon
  <2>3. Cardinality(1..L) = L
    BY ONLY <1>1, <2>2
  <2> QED
    BY <2>2, <2>3
<1>3. [n \in 1..L |-> items[n].c] \in Surjection(1..L, IdleSet)
  BY DEF Surjection, IdleSet
<1>4. IsFiniteSet(IdleSet) /\ Cardinality(IdleSet) <= Cardinality(1..L)
  BY <1>2, <1>3, FS_Surjection
<1>5. Cardinality(IdleSet) \in Nat
  BY <1>4, FS_CardinalityType
<1> QED
  BY <1>2, <1>4, <1>5

LEMMA SameCardinality ==
    ASSUME NEW S
    PROVE  Leases!Cardinality(S) = Cardinality(S)
  BY DEF Leases!Cardinality, Cardinality

LEMMA LeaseSame ==
    ASSUME UNCHANGED <<held, items, st, served>>
    PROVE  UNCHANGED Leases!vars
  BY DEF Leases!vars

LEMMA LeaseRetire ==
    ASSUME OwnInv, NEW p \in Callers, held[p] \in Conns, Drop(p), UNCHANGED <<items, served>>
    PROVE  Leases!Retire(p)
<1>1. ClosedSet' = ClosedSet \cup {held[p]} /\ FreshSet' = FreshSet
  BY CloseAdds, CloseKeepsFresh, OwnedOpen DEF Drop
<1>2. held' = [held EXCEPT ![p] = NoConn] /\ held[p] # NoConn
  BY NoConnAssumption DEF Drop
<1> QED
  BY <1>1, <1>2 DEF Leases!Retire, Leases!Has, FreshSet, ClosedSet

LEMMA LeaseDial ==
    ASSUME TypeOK, NEW p \in Callers, NEW c \in Conns, held[p] = NoConn,
           Dialed(p, c), UNCHANGED <<items, served>>
    PROVE  Leases!Dial(p, c)
<1>1. st[c] = "none" /\ st' = [st EXCEPT ![c] = "open"] /\ held' = [held EXCEPT ![p] = c]
  BY DEF Dialed
<1>2. ClosedSet' = ClosedSet
  BY <1>1 DEF TypeOK, ClosedSet
<1>3. c \in FreshSet /\ FreshSet' = FreshSet \ {c}
  BY <1>1 DEF TypeOK, FreshSet
<1> QED
  BY <1>1, <1>2, <1>3 DEF Leases!Dial, Leases!Has, FreshSet, IdleSet, ClosedSet

(* The counts say that the request about to be written is not one too many. *)
LEMMA LeaseServe ==
    ASSUME TypeOK, CountInv, NEW p \in Callers, held[p] \in Conns,
           pc[p] \in {"header", "fresh"},
           served' = [served EXCEPT ![held[p]] = @ + 1], UNCHANGED <<items, st, held>>
    PROVE  Leases!Serve(p)
<1>1. served[held[p]] \in Nat /\ uses[p] \in Nat /\ MaxUses \in Nat \ {0}
  BY LimitsAssumption DEF TypeOK
<1>2. served[held[p]] < MaxUses
  BY <1>1 DEF CountInv, HeldCount
<1>3. held[p] # NoConn
  BY NoConnAssumption
<1> QED
  BY <1>2, <1>3 DEF Leases!Serve

LEMMA LeaseReturn ==
    ASSUME TypeOK, CountInv, NEW p \in Callers, held[p] \in Conns, pc[p] = "put",
           ~AtCap(p), ~Full, Push(p), held' = [held EXCEPT ![p] = NoConn],
           UNCHANGED <<st, served>>
    PROVE  Leases!Return(p)
<1>a. /\ Len(items') = Len(items) + 1
      /\ \A n \in 1..Len(items) : items'[n] = items[n]
      /\ items'[Len(items) + 1] = Entry(p)
  BY PushType
<1>1. /\ Len(items') = Len(items) + 1
      /\ \A n \in 1..Len(items) : items'[n] = items[n]
      /\ items'[Len(items) + 1].c = held[p]
  BY <1>a DEF Entry
<1>2. /\ Len(items) \in Nat /\ uses[p] \in Nat
      /\ MaxSize \in Nat /\ MaxUses \in Nat
  BY LimitsAssumption, LenProperties DEF TypeOK
<1>3. IdleSet' = IdleSet \cup {held[p]}
  <2>1. ASSUME NEW n \in 1..Len(items') PROVE items'[n].c \in IdleSet \cup {held[p]}
    <3>1. n \in 1..Len(items) \/ n = Len(items) + 1
      BY <1>1, <1>2
    <3> QED
      BY <1>1, <3>1 DEF IdleSet
  <2>2. ASSUME NEW n \in 1..Len(items) PROVE items[n].c \in IdleSet'
    <3>1. n \in 1..Len(items')
      BY <1>1, <1>2
    <3> QED
      BY <1>1, <3>1 DEF IdleSet
  <2>3. held[p] \in IdleSet'
    <3>1. Len(items) + 1 \in 1..Len(items')
      BY <1>1, <1>2
    <3> QED
      BY <1>1, <3>1 DEF IdleSet
  <2> QED
    BY <2>1, <2>2, <2>3 DEF IdleSet
<1>4. Cardinality(IdleSet) < MaxSize
  <2>1. Cardinality(IdleSet) \in Nat /\ Cardinality(IdleSet) <= Len(items) /\ Len(items) < MaxSize
    BY <1>2, IdleCount DEF Full
  <2> QED
    BY <1>2, <2>1
<1>5. served[held[p]] < MaxUses /\ held[p] # NoConn
  BY <1>2, NoConnAssumption DEF CountInv, HeldCount, AtCap
<1> QED
  BY <1>3, <1>4, <1>5, SameCardinality DEF Leases!Return, Leases!Has, IdleSet

(* What takeIdle truncates away is what it closes, and the entry it hands   *)
(* out is neither: no connection is in two slots.                           *)
LEMMA LeaseGetIdle ==
    ASSUME TypeOK, OwnInv, NEW p \in Callers, held[p] = NoConn, GetIdle(p)
    PROVE  \E c \in Conns : Leases!Lease(p, c)
<1>1. PICK n \in 1..Len(items) :
        /\ Len(items') = n - 1
        /\ \A m \in 1..(n - 1) : items'[m] = items[m]
        /\ Close({items[m].c : m \in (n + 1)..Len(items)})
        /\ held' = [held EXCEPT ![p] = items[n].c]
  BY GetIdleEffect
<1> DEFINE c == items[n].c
           Above == {items[m].c : m \in (n + 1)..Len(items)}
           Below == {items[m].c : m \in 1..(n - 1)}
<1>2. Len(items) \in Nat /\ n \in Nat
  BY LenProperties DEF TypeOK
<1>3. \A m \in 1..Len(items) : items[m].c \in Conns
  BY EntryType DEF TypeOK
<1>a. c \in Conns
  BY <1>3
<1>4. /\ \A m \in 1..(n - 1) : m \in 1..Len(items) /\ m # n
      /\ \A m \in (n + 1)..Len(items) : m \in 1..Len(items) /\ m # n /\ m \notin 1..(n - 1)
      /\ \A m \in 1..Len(items) : m \in 1..(n - 1) \/ m = n \/ m \in (n + 1)..Len(items)
  BY <1>2
<1>5. IdleSet' = Below
  BY <1>1 DEF IdleSet
<1>6. IdleSet \ {c} = Below \cup Above /\ Above \cap Below = {} /\ c \in IdleSet
  <2>1. \A k, m \in 1..Len(items) : items[k].c = items[m].c => k = m
    BY DEF OwnInv, Exclusive
  <2> QED
    BY <1>4, <2>1 DEF IdleSet
<1>7. ClosedSet' = ClosedSet \cup Above /\ FreshSet' = FreshSet
  <2>1. Above \in SUBSET Conns
    BY <1>3, <1>4
  <2>2. \A d \in Above : st[d] = "open"
    BY <1>3, <1>4, OwnedOpen
  <2> QED
    BY <1>1, <2>1, <2>2, CloseAdds, CloseKeepsFresh
<1>8. ClosedSet' = ClosedSet \cup ((IdleSet \ {c}) \ IdleSet') /\ IdleSet' \subseteq IdleSet \ {c}
  BY <1>5, <1>6, <1>7
<1>9. held' = [held EXCEPT ![p] = c] /\ served' = served
  BY <1>1 DEF GetIdle
<1>10. PICK d \in Conns : d = c
  BY <1>a
<1>11. Leases!Lease(p, d)
  BY <1>6, <1>7, <1>8, <1>9, <1>10
     DEF Leases!Lease, Leases!Has, FreshSet, IdleSet, ClosedSet
<1> QED
  BY <1>11

LEMMA LeaseGetNone ==
    ASSUME TypeOK, OwnInv, NEW p \in Callers, GetNone(p)
    PROVE  Leases!Expire
<1>1. IdleSet \in SUBSET Conns /\ \A c \in IdleSet : st[c] = "open"
  BY IdleConns, OwnedOpen DEF IdleSet
<1>a. items' = <<>> /\ Close(IdleSet)
  BY DEF GetNone, IdleSet
<1>b. FreshSet' = FreshSet /\ ClosedSet' = ClosedSet \cup IdleSet
  BY <1>1, <1>a, CloseAdds, CloseKeepsFresh
<1>c. IdleSet' = {}
  BY <1>a DEF IdleSet
<1>2. IdleSet' = {} /\ ClosedSet' = ClosedSet \cup IdleSet /\ FreshSet' = FreshSet
  BY <1>b, <1>c
<1>3. UNCHANGED <<held, served>>
  BY DEF GetNone
<1> QED
  BY <1>2, <1>3 DEF Leases!Expire, FreshSet, IdleSet, ClosedSet

(* Every step of a caller is a lease step on its own behalf, or none.       *)
LEMMA LeaseStep == IInv /\ [Next]_vars => [Leases!Next]_(Leases!vars)
<1> SUFFICES ASSUME IInv, [Next]_vars PROVE [Leases!Next]_(Leases!vars)
  OBVIOUS
<1>a. TypeOK /\ HeldInv /\ OwnInv /\ CountInv
  BY DEF IInv
<1>b. \A p \in Callers :
        /\ pc[p] \in HoldingPC => held[p] \in Conns
        /\ pc[p] \notin HoldingPC => held[p] = NoConn
  BY <1>a DEF TypeOK, HeldInv
<1>c. ASSUME NEW p \in Callers, Leases!Serve(p) \/ Leases!Return(p) \/ Leases!Retire(p)
      PROVE  Leases!Next
  BY <1>c DEF Leases!Next
<1>d. ASSUME NEW p \in Callers, NEW c \in Conns, Leases!Dial(p, c) \/ Leases!Lease(p, c)
      PROVE  Leases!Next
  BY <1>d DEF Leases!Next
<1>1. ASSUME NEW p \in Callers, Call(p) PROVE UNCHANGED Leases!vars
  BY <1>1, LeaseSame DEF Call
<1>2. ASSUME NEW p \in Callers, GetIdle(p) PROVE Leases!Next
  <2>1. held[p] = NoConn
    BY <1>2, <1>b DEF GetIdle, HoldingPC
  <2> QED
    BY <1>2, <1>a, <1>d, <2>1, LeaseGetIdle
<1>3. ASSUME NEW p \in Callers, GetNone(p) PROVE Leases!Next
  BY <1>3, <1>a, LeaseGetNone DEF Leases!Next
<1>4. ASSUME NEW p \in Callers, FactoryDial(p) \/ FallbackDial(p)
      PROVE  [Leases!Next]_(Leases!vars)
  <2>1. held[p] = NoConn /\ UNCHANGED <<items, served>>
    BY <1>4, <1>b DEF FactoryDial, FallbackDial, HoldingPC
  <2>2. ASSUME NEW c \in Conns, Dialed(p, c) PROVE Leases!Next
    BY <1>a, <1>d, <2>1, <2>2, LeaseDial
  <2>3. CASE UNCHANGED <<st, held, uses>>
    BY <2>1, <2>3, LeaseSame
  <2> QED
    BY <1>4, <2>2, <2>3 DEF FactoryDial, FallbackDial
<1>5. ASSUME NEW p \in Callers, WriteHeader(p) \/ FreshHeader(p) PROVE Leases!Next
  <2>1. pc[p] \in {"header", "fresh"} /\ held[p] \in Conns /\ UNCHANGED items
    BY <1>5, <1>b DEF WriteHeader, FreshHeader, HoldingPC
  <2>2. CASE served' = [served EXCEPT ![held[p]] = @ + 1] /\ UNCHANGED <<st, held>>
    BY <1>a, <1>c, <2>1, <2>2, LeaseServe
  <2>3. CASE Drop(p) /\ UNCHANGED served
    BY <1>a, <1>c, <2>1, <2>3, LeaseRetire
  <2> QED
    BY <1>5, <2>2, <2>3 DEF WriteHeader, FreshHeader
<1>6. ASSUME NEW p \in Callers, EndSession(p) \/ EndBare(p)
      PROVE  [Leases!Next]_(Leases!vars)
  <2>1. held[p] \in Conns /\ UNCHANGED <<items, served>>
    BY <1>6, <1>b DEF EndSession, EndBare, HoldingPC
  <2>2. CASE Drop(p)
    BY <1>a, <1>c, <2>1, <2>2, LeaseRetire
  <2>3. CASE UNCHANGED <<st, held>>
    BY <2>1, <2>3, LeaseSame
  <2> QED
    BY <1>6, <2>2, <2>3 DEF EndSession, EndBare
<1>7. ASSUME NEW p \in Callers, Put(p) PROVE Leases!Next
  <2>1. pc[p] = "put" /\ held[p] \in Conns /\ UNCHANGED served
    BY <1>7, <1>b DEF Put, HoldingPC
  <2>2. CASE Drop(p) /\ UNCHANGED items
    BY <1>a, <1>c, <2>1, <2>2, LeaseRetire
  <2>3. CASE /\ ~AtCap(p) /\ ~Full
             /\ Push(p)
             /\ held' = [held EXCEPT ![p] = NoConn]
             /\ UNCHANGED st
    BY <1>a, <1>c, <2>1, <2>3, LeaseReturn
  <2> QED
    BY <1>7, <2>2, <2>3 DEF Put
<1>8. ASSUME Tick \/ (\E c \in Conns : PeerClose(c)) \/ UNCHANGED vars
      PROVE  UNCHANGED Leases!vars
  BY <1>8, LeaseSame DEF Tick, PeerClose, vars
<1> QED
  BY <1>1, <1>2, <1>3, <1>4, <1>5, <1>6, <1>7, <1>8 DEF Next, Caller

(* The pool keeps its promise to the callers of DialTCP: every connection   *)
(* is leased to one caller at a time, for no more requests than the cap,    *)
(* and closed once.  Its sequence of entries, its clock and its scan for a  *)
(* live one are refined away.                                               *)
THEOREM PoolLeases == Spec => ImplementsLease
<1>1. Init => Leases!Init
  BY LeaseInit
<1>2. IInv /\ [Next]_vars => [Leases!Next]_(Leases!vars)
  BY LeaseStep
<1> QED
  BY <1>1, <1>2, Inductive, PTL DEF Spec, ImplementsLease, Leases!Spec
=============================================================================
