-------------------------- MODULE ObfsStreamProofs --------------------------
(***************************************************************************)
(* The reader of an obfuscated stream stays in step with its writer, for   *)
(* every length of record and of slice.                                    *)
(***************************************************************************)
EXTENDS ObfsStream, TLAPS

(* A buffer is given back early only with the hello in it.                  *)
WriterInv ==
    /\ wst # "idle" => left > 0
    /\ held = "given" => wFirst /\ wst = "made"
    /\ wst = "made" /\ ~wFirst => ~bad
    /\ wFirst <=> Len(lens) = 0
    /\ foreign \subseteq {1}

(* The parts that lie before the data of a record *)
FirstPart(r) == IF r = 1 THEN "hello" ELSE IF mode = "tls" THEN "head" ELSE "data"

CursorInv ==
    /\ part = "hello" => rec = 1
    /\ part = "ext" => rec = 1 /\ mode = "tls" /\ dir = "up"
    /\ part \in {"head", "size"} => mode = "tls"
    /\ part = "head" => rec > 1
    /\ rec > Len(lens) => off = 0 /\ part = FirstPart(rec)
    /\ rec <= Len(lens) => off < PartLen

(* What the reader waits for *)
NeedInv ==
    /\ pc \notin {"idle", "skewed"} => need > 0
    /\ pc = "some" => want < need
    /\ pc = "rest" => need <= remain
    /\ mode = "http" => pc \in {"idle", "hello", "body", "raw", "skewed"}
    /\ mode = "tls" => pc \notin {"body", "raw"}

(* TLS: the flags say where the cursor is, and remain is what is left of    *)
(* the record that a Read between two others would go on with.              *)
TlsAgree ==
    /\ rFirst = (part = "hello" /\ pc = "idle")
    /\ ticket = (dir = "up" /\ rec = 1 /\ (part # "ext" \/ pc = "idle"))
    /\ pc \in {"idle", "rest"} =>
         IF part = "data" THEN remain = lens[rec] - off
         ELSE remain = 0 /\ off = 0 /\ part # "size"
    /\ pc \notin {"idle", "rest"} => remain = 0
    /\ pc = "full" => need = lens[rec] - off
    /\ pc = "some" => need = lens[rec] /\ off = 0

(* HTTP: the flag falls with the last byte of the message. *)
HttpAgree ==
    /\ ~ticket
    /\ rFirst = (part = "hello" \/ pc = "body")
    /\ pc = "idle" /\ part = "hello" => off = 0 /\ remain = 0
    /\ pc # "idle" => remain = 0
    /\ pc = "body" => rec = 1 /\ Len(lens) > 0 /\ need = lens[rec] - off

InStepInv ==
    ~cut /\ foreign = {} =>
        /\ pc # "skewed"
        /\ pc # "idle" => part = Takes(pc)
        /\ pc \in {"hello", "head", "size", "ext"} => need = Units - off
        /\ mode = "tls" => TlsAgree
        /\ mode = "http" => HttpAgree

IInv == TypeOK /\ WriterInv /\ CursorInv /\ NeedInv /\ InStepInv

-----------------------------------------------------------------------------
WriterTypes ==
    /\ left \in Nat /\ wst \in {"idle", "made", "sent"}
    /\ held \in {"none", "held", "given"} /\ bad \in BOOLEAN /\ wFirst \in BOOLEAN
    /\ starts \in Seq(Nat) /\ Len(starts) > 0
    /\ lens \in Seq(Nat \ {0}) /\ whole \in BOOLEAN
    /\ foreign \in SUBSET (1..Len(lens))

ReaderTypes ==
    /\ mode \in {"tls", "http"} /\ dir \in {"up", "down"}
    /\ rec \in 1..Len(lens) + 1 /\ part \in Parts /\ off \in Nat
    /\ pc \in {"idle", "hello", "head", "size", "ext",
               "full", "some", "rest", "body", "raw", "skewed"}
    /\ need \in Nat /\ want \in Nat /\ remain \in Nat
    /\ rFirst \in BOOLEAN /\ ticket \in BOOLEAN
    /\ dl \in BOOLEAN /\ got \in Nat /\ cut \in BOOLEAN

LEMMA TypesSplit ==
    TypeOK <=> WriterTypes /\ ReaderTypes
BY DEF TypeOK, WriterTypes, ReaderTypes

(* The lengths are the distances between the starts.                        *)
LEMMA LensOfStarts ==
    ASSUME starts \in Seq(Nat), Len(starts) > 0
    PROVE  /\ Len(lens) \in Nat /\ Len(lens) = Len(starts) - 1
           /\ \A i \in 1..Len(lens) : lens[i] = starts[i + 1] - starts[i]
<1>1. Len(starts) - 1 \in Nat
  OBVIOUS
<1> QED
  BY <1>1 DEF lens

LEMMA LensKept ==
    ASSUME UNCHANGED starts
    PROVE  UNCHANGED lens
BY DEF lens

LEMMA RecordAdded ==
    ASSUME TypeOK, NEW n \in Nat \ {0}, AddRecord(n)
    PROVE  /\ starts' \in Seq(Nat) /\ Len(starts') = Len(starts) + 1
           /\ \A i \in 1..Len(starts) : starts'[i] = starts[i]
           /\ Total' = Total + n
           /\ lens' \in Seq(Nat \ {0}) /\ Len(lens') = Len(lens) + 1
           /\ \A i \in 1..Len(lens) : lens'[i] = lens[i]
           /\ lens'[Len(lens) + 1] = n
<1> DEFINE N == Len(starts)
<1>1. starts \in Seq(Nat) /\ N \in Nat /\ N > 0
  BY DEF TypeOK
<1>2. Total \in Nat /\ Total = starts[N]
  BY <1>1 DEF Total
<1>3. /\ starts' \in Seq(Nat) /\ Len(starts') = N + 1
      /\ \A i \in 1..N : starts'[i] = starts[i]
      /\ starts'[N + 1] = Total + n
  BY SMTT(30), <1>1, <1>2 DEF AddRecord
<1>4. Total' = Total + n
  BY <1>3 DEF Total
<1>5. lens' = [r \in 1..N |-> starts'[r + 1] - starts'[r]]
  BY <1>1, <1>3 DEF lens
<1>6. /\ lens \in Seq(Nat \ {0}) /\ Len(lens) = N - 1
      /\ \A i \in 1..N - 1 : lens[i] = starts[i + 1] - starts[i]
  BY <1>1, LensOfStarts DEF TypeOK
<1>7. ASSUME NEW i \in 1..N - 1 PROVE lens'[i] = lens[i]
  <2>1. i \in 1..N /\ i + 1 \in 1..N
    BY <1>1
  <2> QED
    BY <1>3, <1>5, <1>6, <2>1
<1>8. lens'[N] = n
  <2>1. N \in 1..N /\ lens'[N] = starts'[N + 1] - starts'[N]
    BY <1>1, <1>5
  <2>2. starts'[N] = Total /\ starts'[N + 1] = Total + n /\ Total \in Nat
    BY <1>2, <1>3, <2>1
  <2> HIDE DEF N
  <2> QED
    BY <2>1, <2>2
<1>9. ASSUME NEW i \in 1..N PROVE lens'[i] \in Nat \ {0}
  <2>1. i = N \/ i \in 1..N - 1
    BY <1>1
  <2>2. CASE i \in 1..N - 1
    <3>1. lens[i] \in Nat \ {0}
      BY <1>6, <2>2
    <3> QED
      BY <1>7, <2>2, <3>1
  <2> QED
    BY <1>8, <2>1, <2>2
<1>10. lens' \in Seq(Nat \ {0}) /\ Len(lens') = N
  <2>1. lens' \in [1..N -> Nat \ {0}]
    <3>1. lens' = [r \in 1..N |-> lens'[r]]
      BY <1>5
    <3> QED
      BY <1>9, <3>1
  <2> QED
    BY SMTT(30), <1>1, <2>1
<1> QED
  BY <1>1, <1>3, <1>4, <1>6, <1>7, <1>8, <1>10

LEMMA Lengths ==
    ASSUME TypeOK
    PROVE  /\ Len(lens) \in Nat /\ rec \in Nat /\ rec > 0
           /\ \A i \in 1..Len(lens) : lens[i] \in Nat /\ lens[i] > 0
BY DEF TypeOK

LEMMA PartLengths ==
    ASSUME TypeOK, rec <= Len(lens) \/ part # "data"
    PROVE  PartLen \in Nat /\ PartLen > 0
<1>1. rec <= Len(lens) => lens[rec] \in Nat /\ lens[rec] > 0
  BY Lengths
<1> QED
  BY <1>1 DEF PartLen, Units

(* Which part comes after which *)
LEMMA Following ==
    ASSUME TypeOK, CursorInv
    PROVE  /\ mode = "tls" /\ part \in {"hello", "head"} => FollowingPart = "size" /\ ~EndsRecord
           /\ mode = "http" /\ part = "hello" => FollowingPart = "data" /\ ~EndsRecord
           /\ part = "size" => FollowingPart = "data" /\ ~EndsRecord
           /\ part = "data" /\ mode = "tls" /\ dir = "up" /\ rec = 1
                => FollowingPart = "ext" /\ ~EndsRecord
           /\ part = "data" /\ mode = "tls" /\ ~(dir = "up" /\ rec = 1)
                => FollowingPart = "head" /\ EndsRecord
           /\ part = "data" /\ mode = "http" => FollowingPart = "data" /\ EndsRecord
           /\ part = "ext" => FollowingPart = "head" /\ EndsRecord
BY DEF TypeOK, CursorInv, FollowingPart, EndsRecord

(* The cursor moves inside a part, or to the beginning of the next one.     *)
LEMMA Moves ==
    ASSUME TypeOK, NEW k \in Nat, Advance(k), off + k <= PartLen,
           rec <= Len(lens)
    PROVE  /\ off + k < PartLen => off' = off + k /\ rec' = rec /\ part' = part
           /\ off + k = PartLen => /\ off' = 0 /\ part' = FollowingPart
                                   /\ rec' = IF EndsRecord THEN rec + 1 ELSE rec
<1>1. PartLen \in Nat /\ off \in Nat
  BY PartLengths DEF TypeOK
<1> QED
  BY <1>1 DEF Advance

LEMMA CursorMoves ==
    ASSUME TypeOK, CursorInv, NEW k \in Nat, k > 0, Advance(k), off + k <= PartLen,
           rec <= Len(lens), UNCHANGED <<mode, dir, lens>>
    PROVE  /\ CursorInv'
           /\ rec' \in 1..Len(lens') + 1 /\ part' \in Parts /\ off' \in Nat
<1>1. PartLen \in Nat /\ PartLen > 0 /\ off \in Nat /\ Len(lens) \in Nat /\ rec \in Nat /\ rec > 0
  BY PartLengths, Lengths DEF TypeOK
<1>2. CASE off + k < PartLen
  <2>1. off' = off + k /\ rec' = rec /\ part' = part
    BY <1>2, Moves
  <2>2. PartLen' = PartLen
    BY <2>1 DEF PartLen
  <2> QED
    BY <1>1, <1>2, <2>1, <2>2 DEF CursorInv, TypeOK, FirstPart
<1>3. CASE off + k = PartLen
  <2>1. off' = 0 /\ part' = FollowingPart /\ rec' = IF EndsRecord THEN rec + 1 ELSE rec
    BY <1>3, Moves
  <2>2. mode \in {"tls", "http"} /\ dir \in {"up", "down"} /\ part \in Parts
    BY DEF TypeOK
  <2>3. /\ part' = "hello" => FALSE
        /\ part' = "ext" => rec' = 1 /\ mode = "tls" /\ dir = "up"
        /\ part' \in {"head", "size"} => mode = "tls"
        /\ part' = "head" => rec' > 1
        /\ rec' > Len(lens) => part' = IF mode = "tls" THEN "head" ELSE "data"
        /\ rec' > Len(lens) => rec' # 1
        /\ part' \in Parts
    <3>1. CASE part \in {"hello", "head", "size", "ext"}
      BY <1>1, <2>1, <2>2, <3>1, Following DEF CursorInv, Parts
    <3>2. CASE part = "data"
      BY <1>1, <2>1, <2>2, <3>2, Following DEF Parts
    <3> QED
      BY <2>2, <3>1, <3>2 DEF Parts
  <2>4. rec' \in 1..Len(lens) + 1
    BY <1>1, <2>1
  <2>5. rec' <= Len(lens) => PartLen' > 0
    <3>1. rec' <= Len(lens) => lens[rec'] > 0
      BY <2>4, Lengths
    <3> QED
      BY <3>1 DEF PartLen, Units
  <2> QED
    BY <2>1, <2>3, <2>4, <2>5 DEF CursorInv, FirstPart
<1> QED
  BY <1>1, <1>2, <1>3

-----------------------------------------------------------------------------
(* The writer *)

LEMMA InitIInv ==
    Init => IInv
<1> SUFFICES ASSUME Init PROVE IInv
  OBVIOUS
<1>0. /\ starts = <<0>> /\ starts \in Seq(Nat) /\ Len(starts) = 1
      /\ lens \in Seq(Nat \ {0}) /\ Len(lens) = 0
  <2>1. starts = <<0>> /\ starts \in Seq(Nat) /\ Len(starts) = 1
    BY DEF Init
  <2>2. lens = [r \in 1..0 |-> starts[r + 1] - starts[r]]
    BY <2>1 DEF lens
  <2>3. lens \in Seq(Nat \ {0}) /\ Len(lens) = 0
    BY <2>2
  <2> QED
    BY <2>1, <2>3
<1>1. TypeOK
  <2>1. WriterTypes
    <3>1. /\ left \in Nat /\ wst \in {"idle", "made", "sent"}
          /\ held \in {"none", "held", "given"} /\ bad \in BOOLEAN /\ wFirst \in BOOLEAN
          /\ whole \in BOOLEAN /\ foreign \in SUBSET (1..Len(lens))
      BY DEF Init
    <3> QED
      BY <1>0, <3>1 DEF WriterTypes
  <2>2. ticket \in BOOLEAN
    <3>1. (mode = "tls" /\ dir = "up") \in BOOLEAN
      OBVIOUS
    <3>2. ticket = (mode = "tls" /\ dir = "up")
      BY DEF Init
    <3> QED
      BY <3>1, <3>2
  <2>3. ReaderTypes
    <3>1. /\ mode \in {"tls", "http"} /\ dir \in {"up", "down"}
          /\ rec = 1 /\ part = "hello" /\ off = 0
          /\ pc = "idle" /\ need = 0 /\ want = 0 /\ remain = 0
          /\ rFirst = TRUE /\ dl = FALSE /\ got = 0 /\ cut = FALSE
      BY DEF Init
    <3> QED
      <4>1. rec \in 1..Len(lens) + 1 /\ part \in Parts
        BY <1>0, <3>1 DEF Parts
      <4>2. rFirst \in BOOLEAN /\ dl \in BOOLEAN /\ cut \in BOOLEAN
        BY <3>1
      <4> QED
        BY <2>2, <3>1, <4>1, <4>2 DEF ReaderTypes
  <2> QED
    BY <2>1, <2>3, TypesSplit
<1>2. WriterInv /\ CursorInv /\ NeedInv
  BY <1>0 DEF Init, WriterInv, CursorInv, NeedInv, FirstPart
<1>3. InStepInv
  <2>1. mode = "tls" => TlsAgree
    BY DEF Init, TlsAgree
  <2>2. mode = "http" => HttpAgree
    BY DEF Init, HttpAgree
  <2> QED
    BY <2>1, <2>2 DEF Init, InStepInv
<1> QED
  BY <1>1, <1>2, <1>3 DEF IInv

(* A new record behind the others leaves the reader where it is.            *)
LEMMA Appended ==
    ASSUME IInv, NEW n \in Nat \ {0}, AddRecord(n),
           foreign \subseteq foreign', UNCHANGED <<kind, cursor, reader, cut>>
    PROVE  /\ lens' \in Seq(Nat \ {0}) /\ Len(lens') = Len(lens) + 1
           /\ rec' \in 1..Len(lens') + 1
           /\ CursorInv' /\ NeedInv' /\ InStepInv'
<1> USE DEF IInv
<1>1. /\ lens' \in Seq(Nat \ {0}) /\ Len(lens') = Len(lens) + 1
      /\ \A i \in 1..Len(lens) : lens'[i] = lens[i]
      /\ lens'[Len(lens) + 1] = n
  BY RecordAdded
<1>2. Len(lens) \in Nat /\ rec \in 1..Len(lens) + 1
  BY Lengths DEF TypeOK
<1>3. UNCHANGED <<mode, dir, rec, part, off, pc, need, want, remain, rFirst, ticket>>
  BY DEF kind, cursor, reader
<1>4. CursorInv'
  <2>1. PartLen' > 0 /\ (rec <= Len(lens) => PartLen' = PartLen)
    BY <1>1, <1>2, <1>3, Lengths DEF PartLen, Units
  <2> QED
    BY <1>1, <1>2, <1>3, <2>1 DEF CursorInv, FirstPart
<1>5. NeedInv'
  BY <1>3 DEF NeedInv
<1>6. part = "data" /\ mode = "tls" => rec <= Len(lens)
  BY <1>2 DEF CursorInv, FirstPart
<1>7. rec <= Len(lens) => lens'[rec] = lens[rec]
  BY <1>1, <1>2
<1>8. InStepInv'
  <2>1. SUFFICES ASSUME ~cut, foreign = {}
                 PROVE  InStepInv'
    BY <1>3 DEF InStepInv
  <2>2. ASSUME mode = "tls" PROVE TlsAgree'
    <3>1. TlsAgree /\ (pc # "idle" => part = Takes(pc))
      BY <2>1, <2>2 DEF InStepInv
    <3>2. pc \in {"full", "some", "rest"} => part = "data"
      BY <3>1 DEF Takes, IsData
    <3> QED
      BY <1>3, <1>6, <1>7, <2>2, <3>1, <3>2 DEF TlsAgree
  <2>3. ASSUME mode = "http" PROVE HttpAgree'
    <3>1. HttpAgree
      BY <2>1, <2>3 DEF InStepInv
    <3> QED
      BY <1>1, <1>2, <1>3, <1>7, <3>1 DEF HttpAgree
  <2> QED
    BY <1>3, <2>1, <2>2, <2>3 DEF InStepInv, Takes, IsData
<1> QED
  BY <1>1, <1>2, <1>3, <1>4, <1>5, <1>8

LEMMA RecordLength ==
    ASSUME TypeOK, left > 0
    PROVE  RecordLen \in 1..left
BY ChunkAssumption DEF TypeOK, RecordLen, Least

(* Steps that touch neither the records nor the reader *)
LEMMA Aside ==
    ASSUME IInv, UNCHANGED <<kind, lens, foreign, cursor, reader, cut>>
    PROVE  CursorInv' /\ NeedInv' /\ InStepInv'
BY DEF IInv, kind, cursor, reader, CursorInv, NeedInv, InStepInv, FirstPart, PartLen,
       Takes, IsData, TlsAgree, HttpAgree

LEMMA WriteStep ==
    IInv /\ Write => IInv'
<1> SUFFICES ASSUME IInv, Write PROVE IInv'
  OBVIOUS
<1>1. UNCHANGED <<starts, lens>>
  BY LensKept DEF Write
<1>2. TypeOK' /\ WriterInv'
  BY <1>1, LengthsAssumption DEF IInv, TypeOK, WriterInv, Write, kind, cursor, reader
<1> QED
  BY <1>1, <1>2, Aside DEF IInv, Write

LEMMA MakeStep ==
    IInv /\ (MakeHello \/ MakeHead \/ OtherConnection) => IInv'
<1> SUFFICES ASSUME IInv, MakeHello \/ MakeHead \/ OtherConnection PROVE IInv'
  OBVIOUS
<1>1. UNCHANGED <<kind, left, wFirst, starts, lens, whole, foreign, cursor, reader, dl, got, cut>>
  BY LensKept DEF MakeHello, MakeHead, OtherConnection
<1>2. TypeOK'
  <2>1. wst' \in {"idle", "made", "sent"} /\ held' \in {"none", "held", "given"} /\ bad' \in BOOLEAN
    BY DEF IInv, TypeOK, MakeHello, MakeHead, OtherConnection
  <2> QED
    BY <1>1, <2>1 DEF IInv, TypeOK, kind, cursor, reader
<1>3. WriterInv'
  <2>1. CASE MakeHello
    BY <1>1, <2>1 DEF IInv, WriterInv, MakeHello
  <2>2. CASE MakeHead
    BY <1>1, <2>2 DEF IInv, WriterInv, MakeHead
  <2>3. CASE OtherConnection
    BY <1>1, <2>3 DEF IInv, WriterInv, OtherConnection
  <2> QED
    BY <2>1, <2>2, <2>3
<1> QED
  BY <1>1, <1>2, <1>3, Aside DEF IInv

(* Only a hello can carry another connection's bytes.                       *)
LEMMA SendMadeStep ==
    IInv /\ SendMade => IInv'
<1> SUFFICES ASSUME IInv, SendMade PROVE IInv'
  OBVIOUS
<1>1. RecordLen \in Nat \ {0} /\ left - RecordLen \in Nat
  BY SMTT(30), RecordLength DEF IInv, SendMade, WriterInv, TypeOK
<1>2. bad => Len(lens) = 0 /\ foreign' = {1}
  <2>1. bad => Len(lens) = 0
    BY DEF IInv, WriterInv, SendMade
  <2>2. Len(lens) = 0 => foreign = {}
    BY DEF IInv, TypeOK
  <2> QED
    BY <2>1, <2>2 DEF SendMade
<1>3. /\ lens' \in Seq(Nat \ {0}) /\ Len(lens') = Len(lens) + 1
      /\ rec' \in 1..Len(lens') + 1
      /\ CursorInv' /\ NeedInv' /\ InStepInv'
  <2>1. foreign \subseteq foreign'
    BY DEF SendMade
  <2> QED
    BY <1>1, <2>1, Appended DEF SendMade
<1>4. Len(lens) \in Nat /\ foreign' \in SUBSET (1..Len(lens'))
  <2>1. Len(lens) \in Nat
    BY Lengths DEF IInv
  <2>2. CASE bad
    BY <1>2, <1>3, <2>1, <2>2
  <2>3. CASE ~bad
    BY <1>3, <2>1, <2>3 DEF SendMade, IInv, TypeOK
  <2> QED
    BY <2>1, <2>2, <2>3
<1>5. TypeOK'
  <2>0. starts' \in Seq(Nat) /\ Len(starts') > 0
    BY <1>1, RecordAdded DEF IInv, TypeOK, SendMade
  <2>1. WriterTypes'
    BY <1>1, <1>3, <1>4, <2>0, TypesSplit DEF IInv, WriterTypes, SendMade
  <2>2. ReaderTypes'
    BY <1>3, TypesSplit DEF IInv, ReaderTypes, SendMade, kind, cursor, reader
  <2> QED
    BY <2>1, <2>2, TypesSplit DEF TypeOK, WriterTypes, ReaderTypes
<1>6. WriterInv'
  <2>1. Len(lens') # 0
    BY <1>3, <1>4
  <2>2. foreign' \subseteq {1}
    BY <1>2 DEF IInv, WriterInv, SendMade
  <2> QED
    BY <2>1, <2>2 DEF IInv, WriterInv, SendMade
<1> QED
  BY <1>3, <1>5, <1>6 DEF IInv

LEMMA SendDataStep ==
    IInv /\ SendData => IInv'
<1> SUFFICES ASSUME IInv, SendData PROVE IInv'
  OBVIOUS
<1>1. RecordLen \in Nat \ {0} /\ left - RecordLen \in Nat
  BY SMTT(30), RecordLength DEF IInv, SendData, WriterInv, TypeOK
<1>2. UNCHANGED <<starts, lens>>
  BY LensKept DEF SendData
<1>3. TypeOK' /\ WriterInv'
  BY <1>1, <1>2 DEF IInv, TypeOK, WriterInv, SendData, kind, cursor, reader
<1> QED
  BY <1>2, <1>3, Aside DEF IInv, SendData

LEMMA SendHttpStep ==
    IInv /\ (SendHttpHello \/ SendHttpData) => IInv'
<1> SUFFICES ASSUME IInv, SendHttpHello \/ SendHttpData PROVE IInv'
  OBVIOUS
<1>1. left \in Nat \ {0} /\ AddRecord(left) /\ foreign' = foreign
  BY DEF IInv, TypeOK, SendHttpHello, SendHttpData
<1>2. /\ lens' \in Seq(Nat \ {0}) /\ Len(lens') = Len(lens) + 1
      /\ rec' \in 1..Len(lens') + 1
      /\ CursorInv' /\ NeedInv' /\ InStepInv'
  BY <1>1, Appended DEF SendHttpHello, SendHttpData
<1>3. Len(lens) \in Nat
  BY Lengths DEF IInv
<1>4. /\ foreign' \in SUBSET (1..Len(lens')) /\ Len(lens') # 0
      /\ starts' \in Seq(Nat) /\ Len(starts') > 0
  <2>1. starts' \in Seq(Nat) /\ Len(starts') = Len(starts) + 1 /\ Len(starts) \in Nat
    BY <1>1, RecordAdded DEF IInv, TypeOK
  <2>2. 1..Len(lens) \subseteq 1..Len(lens')
    BY <1>2, <1>3
  <2>3. foreign \in SUBSET (1..Len(lens))
    BY DEF IInv, TypeOK
  <2> QED
    BY SMTT(30), <1>1, <1>2, <1>3, <2>1, <2>2, <2>3
<1>5. TypeOK'
  <2>1. WriterTypes'
    <3>1. CASE SendHttpHello
      BY <1>1, <1>2, <1>4, <3>1, TypesSplit DEF IInv, WriterTypes, SendHttpHello
    <3>2. CASE SendHttpData
      BY <1>1, <1>2, <1>4, <3>2, TypesSplit DEF IInv, WriterTypes, SendHttpData
    <3> QED
      BY <3>1, <3>2
  <2>2. ReaderTypes'
    BY <1>2, TypesSplit DEF IInv, ReaderTypes, SendHttpHello, SendHttpData, kind, cursor, reader
  <2> QED
    BY <2>1, <2>2, TypesSplit DEF TypeOK, WriterTypes, ReaderTypes
<1>6. WriterInv'
  BY <1>4 DEF IInv, WriterInv, SendHttpHello, SendHttpData
<1> QED
  BY <1>2, <1>5, <1>6 DEF IInv

-----------------------------------------------------------------------------
(* The reader *)

(* The reader touches neither the wire nor the writer, so what is left is   *)
(* its own types and its place.                                             *)
LEMMA ReaderStep ==
    ASSUME IInv, UNCHANGED <<kind, writer>>, ReaderTypes',
           CursorInv', NeedInv', InStepInv'
    PROVE  IInv'
<1>0. UNCHANGED <<starts, lens>>
  BY LensKept DEF writer
<1>1. WriterTypes' /\ WriterInv'
  BY <1>0, TypesSplit DEF IInv, WriterTypes, WriterInv, kind, writer
<1>2. TypeOK'
  BY <1>1 DEF TypeOK, WriterTypes, ReaderTypes
<1> QED
  BY <1>1, <1>2 DEF IInv

(* What a reader that takes bytes finds, and where it leaves the cursor     *)
LEMMA Taken ==
    ASSUME IInv, Arrived, InStep, NEW k \in Nat, k > 0, Advance(k),
           off + k <= PartLen, UNCHANGED <<kind, writer>>
    PROVE  /\ rec \in 1..Len(lens) /\ Len(lens) \in Nat /\ off \in Nat
           /\ part = Takes(pc)
           /\ CursorInv'
           /\ rec' \in 1..Len(lens') + 1 /\ part' \in Parts /\ off' \in Nat
           /\ lens' = lens /\ mode' = mode /\ dir' = dir /\ foreign' = foreign
           /\ off + k < PartLen => off' = off + k /\ rec' = rec /\ part' = part
           /\ off + k = PartLen => /\ off' = 0 /\ part' = FollowingPart
                                   /\ rec' = IF EndsRecord THEN rec + 1 ELSE rec
<1>1. TypeOK /\ CursorInv
  BY DEF IInv
<1>2. UNCHANGED <<mode, dir, lens, foreign>>
  BY LensKept DEF kind, writer
<1>3. rec <= Len(lens) /\ part = Takes(pc)
  BY DEF Arrived, InStep
<1>4. rec \in 1..Len(lens) /\ Len(lens) \in Nat /\ off \in Nat
  BY <1>1, <1>3, Lengths DEF TypeOK
<1>5. CursorInv' /\ rec' \in 1..Len(lens') + 1 /\ part' \in Parts /\ off' \in Nat
  BY <1>1, <1>2, <1>3, CursorMoves
<1> QED
  BY <1>1, <1>2, <1>3, <1>4, <1>5, Moves

(* One byte is never past the end of a part.                                *)
LEMMA OneByte ==
    ASSUME IInv, Arrived
    PROVE  /\ PartLen \in Nat /\ off \in Nat /\ off < PartLen /\ off + 1 <= PartLen
           /\ rec \in 1..Len(lens) /\ lens[rec] \in Nat /\ lens[rec] > 0
<1>1. rec <= Len(lens) /\ TypeOK /\ CursorInv
  BY DEF IInv, Arrived
<1>2. PartLen \in Nat /\ off \in Nat /\ off < PartLen
  BY <1>1, PartLengths DEF TypeOK, CursorInv
<1>3. rec \in 1..Len(lens) /\ lens[rec] \in Nat /\ lens[rec] > 0
  BY <1>1, Lengths
<1> QED
  BY <1>2, <1>3

LEMMA TakeMoreStep ==
    IInv /\ TakeMore => IInv'
<1> SUFFICES ASSUME IInv, TakeMore PROVE IInv'
  OBVIOUS
<1>1. Arrived /\ InStep /\ Advance(1) /\ UNCHANGED <<kind, writer>>
  BY DEF TakeMore, TakeByte
<1>2. /\ rec \in 1..Len(lens) /\ Len(lens) \in Nat /\ off \in Nat
      /\ part = Takes(pc) /\ CursorInv'
      /\ rec' \in 1..Len(lens') + 1 /\ part' \in Parts /\ off' \in Nat
      /\ lens' = lens /\ mode' = mode /\ dir' = dir /\ foreign' = foreign
      /\ off + 1 < PartLen => off' = off + 1 /\ rec' = rec /\ part' = part
  BY <1>1, OneByte, Taken
<1>3. need \in Nat /\ need > 1 /\ need' = need - 1
  BY DEF IInv, TypeOK, TakeMore
<1>4. /\ pc \in {"hello", "head", "size", "ext"} /\ pc' = pc
      /\ UNCHANGED <<want, remain, rFirst, ticket, dl, got, cut>>
  BY DEF TakeMore
<1>5. ReaderTypes'
  BY <1>2, <1>3, <1>4, TypesSplit DEF IInv, ReaderTypes
<1>6. NeedInv'
  BY <1>2, <1>3, <1>4 DEF IInv, NeedInv
<1>7. InStepInv'
  <2>1. SUFFICES ASSUME ~cut, foreign = {} PROVE InStepInv'
    BY <1>2, <1>4 DEF InStepInv
  <2>2. need = Units - off /\ PartLen = Units
    BY <1>2, <1>4, <2>1 DEF IInv, InStepInv, PartLen, Takes, IsData
  <2>3. off' = off + 1 /\ rec' = rec /\ part' = part
    BY <1>2, <1>3, <2>2 DEF Units
  <2>4. mode = "tls" => TlsAgree'
    BY <1>2, <1>4, <2>1, <2>3 DEF IInv, InStepInv, TlsAgree
  <2>5. mode = "http" => HttpAgree'
    BY <1>2, <1>4, <2>1, <2>3 DEF IInv, InStepInv, HttpAgree
  <2> QED
    BY <1>2, <1>3, <1>4, <2>2, <2>3, <2>4, <2>5 DEF InStepInv, Takes, IsData, Units
<1> QED
  BY <1>1, <1>2, <1>5, <1>6, <1>7, ReaderStep

LEMMA TakeLastStep ==
    IInv /\ TakeLast => IInv'
<1> SUFFICES ASSUME IInv, TakeLast PROVE IInv'
  OBVIOUS
<1>1. Arrived /\ InStep /\ Advance(1) /\ UNCHANGED <<kind, writer>>
  BY DEF TakeLast, TakeByte
<1>2. /\ rec \in 1..Len(lens) /\ Len(lens) \in Nat /\ off \in Nat
      /\ part = Takes(pc) /\ CursorInv'
      /\ rec' \in 1..Len(lens') + 1 /\ part' \in Parts /\ off' \in Nat
      /\ lens' = lens /\ mode' = mode /\ dir' = dir /\ foreign' = foreign
      /\ off + 1 = PartLen => /\ off' = 0 /\ part' = FollowingPart
                              /\ rec' = IF EndsRecord THEN rec + 1 ELSE rec
  BY <1>1, OneByte, Taken
<1>3. lens[rec] \in Nat /\ lens[rec] > 0
  BY <1>1, OneByte
<1>4. /\ pc \in {"hello", "head", "size", "ext"} /\ need = 1
      /\ UNCHANGED <<want, remain, ticket, dl, got, cut>>
  BY DEF TakeLast
<1>5. mode \in {"tls", "http"} /\ dir \in {"up", "down"} /\ want \in Nat
  BY DEF IInv, TypeOK
<1>6. /\ mode = "http" => pc = "hello"
      /\ part = pc
  BY <1>2, <1>4 DEF IInv, NeedInv, Takes, IsData
<1>7. \/ /\ mode = "tls" /\ pc \in {"hello", "head"}
         /\ pc' = "size" /\ need' = Units /\ rFirst' = rFirst
      \/ /\ mode = "tls" /\ pc = "ext"
         /\ pc' = "head" /\ need' = Units /\ rFirst' = rFirst
      \/ /\ mode = "tls" /\ pc = "size" /\ rFirst' = rFirst
         /\ pc' = (IF lens[rec] > want THEN "some" ELSE "full") /\ need' = lens[rec]
      \/ /\ mode = "http" /\ pc = "hello" /\ dir = "up"
         /\ pc' = "body" /\ need' = lens[rec] /\ rFirst' = rFirst
      \/ /\ mode = "http" /\ pc = "hello" /\ dir = "down"
         /\ pc' = "idle" /\ need' = 0 /\ rFirst' = FALSE
  <2>1. CASE mode = "tls"
    BY <1>4, <2>1 DEF TakeLast, Expect
  <2>2. CASE mode = "http"
    BY <1>5, <1>6, <2>2 DEF TakeLast, Expect
  <2> QED
    BY <1>5, <2>1, <2>2
<1>8. ReaderTypes'
  <2>1. need' \in Nat /\ rFirst' \in BOOLEAN
    <3>1. need' = 0 \/ need' = Units \/ need' = lens[rec]
      BY <1>7
    <3>2. rFirst' = rFirst \/ rFirst' = FALSE
      BY <1>7
    <3>3. rFirst \in BOOLEAN
      BY DEF IInv, TypeOK
    <3>4. need' \in Nat
      BY <1>3, <3>1 DEF Units
    <3> QED
      BY <3>2, <3>3, <3>4
  <2>2. pc' \in {"idle", "size", "head", "some", "full", "body"}
    BY <1>7
  <2> QED
    BY <1>2, <1>4, <2>1, <2>2, TypesSplit DEF IInv, ReaderTypes
<1>9. NeedInv'
  <2>1. /\ pc' # "idle" => need' > 0
        /\ pc' = "some" => want < need'
        /\ pc' # "rest"
        /\ pc' \in {"size", "head", "some", "full"} => mode = "tls"
        /\ pc' = "body" => mode = "http"
        /\ pc' \in {"idle", "size", "head", "some", "full", "body"}
    BY <1>3, <1>5, <1>7 DEF Units
  <2> QED
    BY <1>2, <1>4, <2>1 DEF NeedInv
<1>10. InStepInv'
  <2>1. SUFFICES ASSUME ~cut, foreign = {} PROVE InStepInv'
    BY <1>2, <1>4 DEF InStepInv
  <2>2. off + 1 = PartLen
    BY <1>2, <1>4, <1>6, <2>1 DEF IInv, InStepInv, PartLen, Units
  <2>3. /\ off' = 0 /\ part' = FollowingPart
        /\ rec' = IF EndsRecord THEN rec + 1 ELSE rec
    BY <1>2, <2>2
  <2>4. remain = 0
    BY <1>4, <1>5, <2>1 DEF IInv, InStepInv, TlsAgree, HttpAgree
  <2>5. TypeOK /\ CursorInv
    BY DEF IInv
  <2>6. CASE mode = "tls" /\ pc \in {"hello", "head"}
    <3>1. part' = "size" /\ rec' = rec
      BY <1>6, <2>3, <2>5, <2>6, Following
    <3>2. pc' = "size" /\ need' = Units /\ rFirst' = rFirst
      BY <1>7, <2>6
    <3>3. TlsAgree
      BY <2>1, <2>6 DEF IInv, InStepInv
    <3>4. TlsAgree'
      BY <1>2, <1>4, <1>6, <2>4, <2>6, <3>1, <3>2, <3>3 DEF TlsAgree
    <3> QED
      BY <1>2, <2>3, <2>6, <3>1, <3>2, <3>4 DEF InStepInv, Takes, IsData, Units
  <2>7. CASE mode = "tls" /\ pc = "ext"
    <3>1. part' = "head" /\ rec' = rec + 1 /\ rec = 1
      BY <1>6, <2>3, <2>5, <2>7, Following DEF CursorInv
    <3>2. pc' = "head" /\ need' = Units /\ rFirst' = rFirst
      BY <1>7, <2>7
    <3>3. TlsAgree
      BY <2>1, <2>7 DEF IInv, InStepInv
    <3>4. TlsAgree'
      BY <1>2, <1>4, <1>6, <2>4, <2>7, <3>1, <3>2, <3>3 DEF TlsAgree
    <3> QED
      BY <1>2, <2>3, <2>7, <3>1, <3>2, <3>4 DEF InStepInv, Takes, IsData, Units
  <2>8. CASE mode = "tls" /\ pc = "size"
    <3>1. part' = "data" /\ rec' = rec
      BY <1>6, <2>3, <2>5, <2>8, Following
    <3>2. pc' \in {"some", "full"} /\ need' = lens[rec] /\ rFirst' = rFirst
      BY <1>7, <2>8
    <3>3. TlsAgree
      BY <2>1, <2>8 DEF IInv, InStepInv
    <3>4. TlsAgree'
      <4>1. rFirst' = FALSE /\ ticket' = ticket /\ remain' = 0
        BY <1>4, <1>6, <2>4, <2>8, <3>2, <3>3 DEF TlsAgree
      <4>2. lens[rec]' = lens[rec]
        BY <1>2, <3>1
      <4> QED
        BY <1>2, <1>3, <1>6, <2>3, <2>8, <3>1, <3>2, <3>3, <4>1, <4>2 DEF TlsAgree
    <3> QED
      BY <1>2, <2>3, <2>8, <3>1, <3>2, <3>4 DEF InStepInv, Takes, IsData
  <2>9. CASE mode = "http"
    <3>1. part' = "data" /\ rec' = rec /\ rec = 1
      BY <1>6, <2>3, <2>5, <2>9, Following DEF CursorInv
    <3>2. HttpAgree
      BY <2>1, <2>9 DEF IInv, InStepInv
    <3>3. pc' = "body" => need' = lens[rec] /\ rFirst' = rFirst
      BY <1>7
    <3>4. pc' \in {"idle", "body"} /\ (pc' = "idle" => rFirst' = FALSE)
      BY <1>7, <2>9
    <3>5. rFirst = TRUE
      BY <1>6, <2>9, <3>2 DEF HttpAgree
    <3>6. HttpAgree'
      <4>1. ticket' = FALSE /\ remain' = 0 /\ lens'[rec'] = lens[rec]
        BY <1>2, <1>4, <2>4, <3>1, <3>2 DEF HttpAgree
      <4>2. rFirst' = (part' = "hello" \/ pc' = "body")
        BY <3>1, <3>3, <3>4, <3>5
      <4>3. pc' = "body" => need' = lens[rec] - 0
        BY <1>3, <3>3
      <4> QED
        BY <1>2, <2>3, <3>1, <3>4, <4>1, <4>2, <4>3 DEF HttpAgree
    <3> QED
      BY <1>2, <2>3, <2>9, <3>1, <3>4, <3>6 DEF InStepInv, Takes, IsData
  <2> QED
    BY <1>4, <1>5, <2>6, <2>7, <2>8, <2>9
<1> QED
  BY <1>1, <1>2, <1>8, <1>9, <1>10, ReaderStep

(* The end of a record's data under TLS: the extensions or the next record. *)
LEMMA DataEnds ==
    ASSUME IInv, part = "data", mode = "tls", TlsAgree, pc # "idle",
           part' = FollowingPart, rec' = IF EndsRecord THEN rec + 1 ELSE rec,
           off' = 0, pc' = "idle", remain' = 0,
           UNCHANGED <<mode, dir, rFirst, ticket>>
    PROVE  TlsAgree'
<1>1. TypeOK /\ CursorInv /\ rec \in Nat /\ rec > 0
  BY Lengths DEF IInv
<1>2. rFirst = FALSE /\ ticket = (dir = "up" /\ rec = 1)
  BY DEF TlsAgree
<1>3. CASE dir = "up" /\ rec = 1
  <2>1. part' = "ext" /\ rec' = 1
    BY <1>1, <1>3, Following
  <2> QED
    BY <1>2, <1>3, <2>1 DEF TlsAgree
<1>4. CASE ~(dir = "up" /\ rec = 1)
  <2>1. part' = "head" /\ rec' = rec + 1
    BY <1>1, <1>4, Following
  <2>2. rec' # 1
    BY <1>1, <2>1
  <2>3. ticket = FALSE
    BY <1>2, <1>4
  <2> QED
    BY <1>2, <2>1, <2>2, <2>3 DEF TlsAgree
<1> QED
  BY <1>3, <1>4

LEMMA TakeFullStep ==
    IInv /\ TakeFull => IInv'
<1> SUFFICES ASSUME IInv, TakeFull PROVE IInv'
  OBVIOUS
<1>1. Arrived /\ InStep /\ Advance(1) /\ UNCHANGED <<kind, writer>>
  BY DEF TakeFull, TakeByte
<1>2. /\ rec \in 1..Len(lens) /\ Len(lens) \in Nat /\ off \in Nat
      /\ part = Takes(pc) /\ CursorInv'
      /\ rec' \in 1..Len(lens') + 1 /\ part' \in Parts /\ off' \in Nat
      /\ lens' = lens /\ mode' = mode /\ dir' = dir /\ foreign' = foreign
      /\ off + 1 < PartLen => off' = off + 1 /\ rec' = rec /\ part' = part
      /\ off + 1 = PartLen => /\ off' = 0 /\ part' = FollowingPart
                              /\ rec' = IF EndsRecord THEN rec + 1 ELSE rec
  BY <1>1, OneByte, Taken
<1>3. /\ pc \in {"full", "rest"} /\ mode = "tls" /\ part = "data" /\ PartLen = lens[rec]
      /\ lens[rec] \in Nat /\ off < lens[rec]
      /\ UNCHANGED <<want, rFirst, ticket, dl, cut>>
  BY <1>1, <1>2, OneByte DEF TakeFull, IInv, TypeOK, NeedInv, Takes, IsData, PartLen
<1>4. /\ need \in Nat /\ need > 0 /\ remain \in Nat /\ got \in Nat
      /\ pc = "rest" => need <= remain
  BY <1>3 DEF IInv, TypeOK, NeedInv
<1>5. /\ need' = need - 1 /\ got' = got + 1
      /\ pc' = IF need = 1 THEN "idle" ELSE pc
      /\ remain' = IF pc = "rest" THEN remain - 1 ELSE 0
  BY DEF TakeFull, Expect
<1>6. ReaderTypes'
  <2>1. need' \in Nat /\ got' \in Nat /\ remain' \in Nat /\ pc' \in {"idle", "full", "rest"}
    BY <1>3, <1>4, <1>5
  <2> QED
    BY <1>2, <1>3, <2>1, TypesSplit DEF IInv, ReaderTypes
<1>7. NeedInv'
  BY <1>2, <1>3, <1>4, <1>5 DEF NeedInv
<1>8. InStepInv'
  <2>1. SUFFICES ASSUME ~cut, foreign = {} PROVE InStepInv'
    BY <1>2, <1>3 DEF InStepInv
  <2>2. TlsAgree
    BY <1>3, <2>1 DEF IInv, InStepInv
  <2>3. /\ pc = "rest" => remain = lens[rec] - off
        /\ pc = "full" => need = lens[rec] - off
        /\ rFirst = FALSE
    BY <1>3, <2>2 DEF TlsAgree
  <2>4. TlsAgree' /\ (pc' # "idle" => part' = "data")
    <3>1. CASE off + 1 < lens[rec]
      <4>1. off' = off + 1 /\ rec' = rec /\ part' = part /\ lens'[rec'] = lens[rec]
        BY <1>2, <1>3, <3>1
      <4>2. /\ pc' \in {"idle", "rest"} => remain' = lens[rec] - (off + 1)
            /\ pc' = "full" => remain' = 0 /\ need' = lens[rec] - (off + 1)
        BY SMTT(30), <1>2, <1>3, <1>4, <1>5, <2>3, <3>1
      <4> QED
        BY <1>2, <1>3, <1>5, <2>2, <2>3, <4>1, <4>2 DEF TlsAgree
    <3>2. CASE off + 1 = lens[rec]
      <4>1. need = 1 /\ remain' = 0
        BY <1>2, <1>3, <1>4, <1>5, <2>3, <3>2
      <4> QED
        BY <1>2, <1>3, <1>5, <2>2, <3>2, <4>1, DataEnds
    <3> QED
      BY <1>2, <1>3, <3>1, <3>2
  <2> QED
    BY <1>2, <1>3, <1>5, <2>4 DEF InStepInv, Takes, IsData
<1> QED
  BY <1>1, <1>2, <1>6, <1>7, <1>8, ReaderStep

(* What a read of part of a record's data takes stays inside the record.    *)
LEMMA SomeBytes ==
    ASSUME IInv, Arrived, part = "data", NEW k \in 1..Least(want, lens[rec] - off)
    PROVE  /\ PartLen = lens[rec] /\ lens[rec] \in Nat /\ off \in Nat
           /\ k \in Nat /\ k > 0 /\ k <= want /\ off + k <= lens[rec]
<1>1. PartLen = lens[rec] /\ lens[rec] \in Nat /\ off \in Nat /\ off < lens[rec]
  BY OneByte DEF PartLen
<1>2. want \in Nat
  BY DEF IInv, TypeOK
<1> QED
  BY <1>1, <1>2 DEF Least

LEMMA TakeSomeStep ==
    IInv /\ TakeSome => IInv'
<1> SUFFICES ASSUME IInv, TakeSome PROVE IInv'
  OBVIOUS
<1>1. /\ Arrived /\ InStep /\ UNCHANGED <<kind, writer>> /\ pc = "some"
      /\ pc' = "idle" /\ need' = 0
      /\ UNCHANGED <<want, rFirst, ticket, dl, cut>>
  BY DEF TakeSome, Expect
<1>2. part = "data"
  BY <1>1 DEF InStep, Takes, IsData
<1>3. PICK k \in 1..Least(want, lens[rec] - off) :
        Advance(k) /\ got' = got + k /\ remain' = need - k
  BY DEF TakeSome
<1>4. /\ PartLen = lens[rec] /\ lens[rec] \in Nat /\ off \in Nat
      /\ k \in Nat /\ k > 0 /\ k <= want /\ off + k <= lens[rec]
  BY <1>1, <1>2, SomeBytes
<1>5. /\ rec \in 1..Len(lens) /\ CursorInv'
      /\ rec' \in 1..Len(lens') + 1 /\ part' \in Parts /\ off' \in Nat
      /\ lens' = lens /\ mode' = mode /\ dir' = dir /\ foreign' = foreign
      /\ off + k < PartLen => off' = off + k /\ rec' = rec /\ part' = part
  BY <1>1, <1>3, <1>4, Taken
<1>6. mode = "tls" /\ want < need /\ need \in Nat /\ want \in Nat /\ got \in Nat
  BY <1>1 DEF IInv, TypeOK, NeedInv
<1>7. ReaderTypes'
  <2>1. remain' \in Nat /\ got' \in Nat
    BY <1>3, <1>4, <1>6
  <2> QED
    BY <1>1, <1>5, <2>1, TypesSplit DEF IInv, ReaderTypes
<1>8. NeedInv'
  BY <1>1 DEF NeedInv
<1>9. InStepInv'
  <2>1. SUFFICES ASSUME ~cut, foreign = {} PROVE InStepInv'
    BY <1>1, <1>5 DEF InStepInv
  <2>2. TlsAgree
    BY <1>6, <2>1 DEF IInv, InStepInv
  <2>3. need = lens[rec] /\ off = 0
    BY <1>1, <2>2 DEF TlsAgree
  <2>4. off' = k /\ rec' = rec /\ part' = part /\ lens'[rec'] = lens[rec]
    BY <1>4, <1>5, <1>6, <2>3
  <2>5. TlsAgree'
    BY <1>1, <1>2, <1>3, <1>5, <2>2, <2>3, <2>4 DEF TlsAgree
  <2> QED
    BY <1>1, <1>5, <1>6, <2>5 DEF InStepInv
<1> QED
  BY <1>1, <1>5, <1>7, <1>8, <1>9, ReaderStep

LEMMA TakeBodyStep ==
    IInv /\ TakeBody => IInv'
<1> SUFFICES ASSUME IInv, TakeBody PROVE IInv'
  OBVIOUS
<1>1. Arrived /\ InStep /\ Advance(1) /\ UNCHANGED <<kind, writer>>
  BY DEF TakeBody, TakeByte
<1>2. /\ rec \in 1..Len(lens) /\ Len(lens) \in Nat /\ off \in Nat
      /\ part = Takes(pc) /\ CursorInv'
      /\ rec' \in 1..Len(lens') + 1 /\ part' \in Parts /\ off' \in Nat
      /\ lens' = lens /\ mode' = mode /\ dir' = dir /\ foreign' = foreign
      /\ off + 1 < PartLen => off' = off + 1 /\ rec' = rec /\ part' = part
      /\ off + 1 = PartLen => /\ off' = 0 /\ part' = FollowingPart
                              /\ rec' = IF EndsRecord THEN rec + 1 ELSE rec
  BY <1>1, OneByte, Taken
<1>3. /\ pc = "body" /\ mode = "http" /\ part = "data" /\ PartLen = lens[rec]
      /\ lens[rec] \in Nat /\ off < lens[rec]
      /\ UNCHANGED <<want, ticket, dl, cut>>
  BY <1>1, <1>2, OneByte DEF TakeBody, IInv, TypeOK, NeedInv, Takes, IsData, PartLen
<1>4. need \in Nat /\ need > 0 /\ remain \in Nat /\ got \in Nat /\ want \in Nat
      /\ rFirst \in BOOLEAN
  BY <1>3 DEF IInv, TypeOK, NeedInv
<1>5. /\ need > 1 => /\ pc' = "body" /\ need' = need - 1
                     /\ remain' = remain /\ rFirst' = rFirst /\ got' = got
      /\ need = 1 => /\ pc' = "idle" /\ need' = 0 /\ rFirst' = FALSE
                     /\ got' = got + Least(want, lens[rec])
                     /\ remain' = lens[rec] - Least(want, lens[rec])
  BY <1>4 DEF TakeBody, Expect
<1>6. ReaderTypes'
  <2>1. need' \in Nat /\ got' \in Nat /\ remain' \in Nat /\ pc' \in {"idle", "body"}
    BY <1>3, <1>4, <1>5 DEF Least
  <2>2. rFirst' \in BOOLEAN
    <3>1. rFirst' = rFirst \/ rFirst' = FALSE
      BY <1>4, <1>5
    <3> QED
      BY <1>4, <3>1
  <2> QED
    BY <1>2, <1>3, <2>1, <2>2, TypesSplit DEF IInv, ReaderTypes
<1>7. NeedInv'
  BY <1>2, <1>3, <1>4, <1>5 DEF NeedInv
<1>8. InStepInv'
  <2>1. SUFFICES ASSUME ~cut, foreign = {} PROVE InStepInv'
    BY <1>2, <1>3 DEF InStepInv
  <2>2. HttpAgree
    BY <1>3, <2>1 DEF IInv, InStepInv
  <2>3. need = lens[rec] - off /\ rec = 1 /\ remain = 0 /\ ticket = FALSE
    BY <1>3, <2>2 DEF HttpAgree
  <2>4. rFirst = TRUE
    BY <1>3, <2>2 DEF HttpAgree
  <2>5. HttpAgree' /\ part' = "data"
    <3>1. CASE need > 1
      <4>1. off' = off + 1 /\ rec' = rec /\ part' = part /\ lens'[rec'] = lens[rec]
        BY <1>2, <1>3, <2>3, <3>1
      <4>2. need' = lens[rec] - (off + 1) /\ remain' = 0 /\ pc' = "body"
        BY SMTT(30), <1>2, <1>3, <1>5, <2>3, <3>1
      <4>3. rFirst' = TRUE /\ ticket' = FALSE
        BY <1>3, <1>5, <2>3, <2>4, <3>1
      <4>4. rFirst' = (part' = "hello" \/ pc' = "body")
        BY <4>2, <4>3
      <4> QED
        BY <1>2, <1>3, <2>3, <4>1, <4>2, <4>3, <4>4 DEF HttpAgree
    <3>2. CASE need = 1
      <4>1. TypeOK /\ CursorInv
        BY DEF IInv
      <4>2. off' = 0 /\ part' = "data"
        BY <1>2, <1>3, <2>3, <3>2, <4>1, Following
      <4> QED
        BY <1>2, <1>3, <1>5, <2>3, <3>2, <4>2 DEF HttpAgree
    <3> QED
      BY <1>4, <3>1, <3>2
  <2>6. pc' \in {"idle", "body"}
    BY <1>4, <1>5
  <2> QED
    BY <1>2, <1>3, <2>5, <2>6 DEF InStepInv, Takes, IsData
<1> QED
  BY <1>1, <1>2, <1>6, <1>7, <1>8, ReaderStep

LEMMA TakeRawStep ==
    IInv /\ TakeRaw => IInv'
<1> SUFFICES ASSUME IInv, TakeRaw PROVE IInv'
  OBVIOUS
<1>1. /\ Arrived /\ InStep /\ UNCHANGED <<kind, writer>> /\ pc = "raw"
      /\ pc' = "idle" /\ need' = 0
      /\ UNCHANGED <<want, remain, rFirst, ticket, dl, cut>>
  BY DEF TakeRaw, Expect
<1>2. part = "data" /\ mode = "http" /\ got \in Nat
  BY <1>1 DEF InStep, Takes, IsData, IInv, NeedInv, TypeOK
<1>3. PICK k \in 1..Least(want, lens[rec] - off) : Advance(k) /\ got' = got + k
  BY DEF TakeRaw
<1>4. /\ PartLen = lens[rec] /\ lens[rec] \in Nat /\ off \in Nat
      /\ k \in Nat /\ k > 0 /\ k <= want /\ off + k <= lens[rec]
  BY <1>1, <1>2, SomeBytes
<1>5. /\ rec \in 1..Len(lens) /\ CursorInv'
      /\ rec' \in 1..Len(lens') + 1 /\ part' \in Parts /\ off' \in Nat
      /\ lens' = lens /\ mode' = mode /\ dir' = dir /\ foreign' = foreign
      /\ off + k < PartLen => part' = part
      /\ off + k = PartLen => part' = FollowingPart
  BY <1>1, <1>3, <1>4, Taken
<1>6. part' = "data"
  <2>1. FollowingPart = "data"
    BY <1>2, Following DEF IInv
  <2> QED
    BY SMTT(30), <1>2, <1>4, <1>5, <2>1
<1>7. ReaderTypes'
  <2>1. got' \in Nat
    BY <1>2, <1>3, <1>4
  <2> QED
    BY <1>1, <1>5, <2>1, TypesSplit DEF IInv, ReaderTypes
<1>8. NeedInv'
  BY <1>1 DEF NeedInv
<1>9. InStepInv'
  <2>1. SUFFICES ASSUME ~cut, foreign = {} PROVE InStepInv'
    BY <1>1, <1>5 DEF InStepInv
  <2>2. HttpAgree
    BY <1>2, <2>1 DEF IInv, InStepInv
  <2>3. HttpAgree'
    BY <1>1, <1>2, <1>6, <2>2 DEF HttpAgree
  <2> QED
    BY <1>1, <1>2, <1>5, <2>3 DEF InStepInv
<1> QED
  BY <1>1, <1>5, <1>7, <1>8, <1>9, ReaderStep

(* A reader in step with its writer never takes a byte for what it is not.  *)
LEMMA TakeWrongStep ==
    IInv /\ TakeWrong => IInv'
<1> SUFFICES ASSUME IInv, TakeWrong PROVE IInv'
  OBVIOUS
<1>1. /\ UNCHANGED <<kind, writer>> /\ pc' = "skewed" /\ ~InStep
      /\ pc \notin {"idle", "skewed"}
      /\ UNCHANGED <<rec, part, off, need, want, remain, rFirst, ticket, dl, got, cut>>
  BY DEF TakeWrong, cursor
<1>2. UNCHANGED <<mode, dir, lens, foreign>>
  BY <1>1, LensKept DEF kind, writer
<1>3. ReaderTypes'
  BY <1>1, <1>2, TypesSplit DEF IInv, ReaderTypes
<1>4. CursorInv' /\ NeedInv'
  BY <1>1, <1>2 DEF IInv, CursorInv, NeedInv, FirstPart, PartLen
<1>5. cut' \/ foreign' # {}
  BY <1>1, <1>2 DEF IInv, InStepInv, InStep
<1>6. InStepInv'
  BY <1>5 DEF InStepInv
<1> QED
  BY <1>1, <1>3, <1>4, <1>6, ReaderStep

-----------------------------------------------------------------------------
(* Read, and the deadline *)

(* A reader that neither takes bytes nor returns any leaves the cursor.     *)
LEMMA CursorRests ==
    ASSUME IInv, UNCHANGED <<kind, writer, cursor>>
    PROVE  /\ CursorInv' /\ rec' \in 1..Len(lens') + 1 /\ part' \in Parts /\ off' \in Nat
           /\ UNCHANGED <<mode, dir, lens, foreign, rec, part, off>>
<1>1. UNCHANGED <<mode, dir, lens, foreign, rec, part, off>>
  BY LensKept DEF kind, writer, cursor
<1> QED
  BY <1>1 DEF IInv, TypeOK, CursorInv, FirstPart, PartLen

LEMMA ReadTlsStep ==
    ASSUME IInv, NEW b \in Bufs, ReadTls(b)
    PROVE  IInv'
<1>1. /\ UNCHANGED <<kind, writer, cursor, remain, dl, got, cut>>
      /\ pc = "idle" /\ mode = "tls" /\ want' = b /\ b \in Nat /\ b > 0
      /\ remain \in Nat
  BY SMTT(30), LengthsAssumption DEF ReadTls, IInv, TypeOK
<1>2. /\ CursorInv' /\ rec' \in 1..Len(lens') + 1 /\ part' \in Parts /\ off' \in Nat
      /\ UNCHANGED <<mode, dir, lens, foreign, rec, part, off>>
  BY <1>1, CursorRests
<1>3. rFirst \in BOOLEAN /\ ticket \in BOOLEAN
  BY DEF IInv, TypeOK
<1>4. \/ /\ remain > 0 /\ pc' = "rest" /\ need' = Least(remain, b)
         /\ rFirst' = rFirst /\ ticket' = ticket
      \/ /\ remain = 0 /\ rFirst /\ pc' = "hello" /\ need' = Units
         /\ rFirst' = FALSE /\ ticket' = ticket
      \/ /\ remain = 0 /\ ~rFirst /\ ticket /\ pc' = "ext" /\ need' = Units
         /\ ticket' = FALSE /\ rFirst' = rFirst
      \/ /\ remain = 0 /\ ~rFirst /\ ~ticket /\ pc' = "head" /\ need' = Units
         /\ rFirst' = rFirst /\ ticket' = ticket
  <2>1. CASE remain > 0
    BY <1>1, <2>1 DEF ReadTls, Expect
  <2>2. CASE remain = 0 /\ rFirst
    BY <1>1, <2>2 DEF ReadTls, Expect
  <2>3. CASE remain = 0 /\ ~rFirst /\ ticket
    BY <1>1, <2>3 DEF ReadTls, Expect
  <2>4. CASE remain = 0 /\ ~rFirst /\ ~ticket
    BY <1>1, <2>4 DEF ReadTls, Expect
  <2>5. remain > 0 \/ remain = 0
    BY <1>1
  <2> QED
    BY <2>1, <2>2, <2>3, <2>4, <2>5
<1>5. /\ need' \in Nat /\ need' > 0 /\ (pc' = "rest" => need' <= remain)
      /\ pc' \in {"rest", "hello", "ext", "head"}
  BY <1>1, <1>4 DEF Least, Units
<1>6. ReaderTypes'
  <2>1. rFirst' = rFirst \/ rFirst' = FALSE
    BY <1>4
  <2>2. ticket' = ticket \/ ticket' = FALSE
    BY <1>4
  <2>3. rFirst' \in BOOLEAN /\ ticket' \in BOOLEAN
    BY <1>3, <2>1, <2>2
  <2> QED
    BY <1>1, <1>2, <1>5, <2>3, TypesSplit DEF IInv, ReaderTypes
<1>7. NeedInv'
  BY <1>1, <1>2, <1>5 DEF NeedInv
<1>8. InStepInv'
  <2>1. SUFFICES ASSUME ~cut, foreign = {} PROVE InStepInv'
    BY <1>1, <1>2 DEF InStepInv
  <2>2. TlsAgree
    BY <1>1, <2>1 DEF IInv, InStepInv
  <2>3. /\ part = "data" => remain = lens[rec] - off
        /\ part # "data" => remain = 0 /\ off = 0 /\ part # "size"
    BY <1>1, <2>2 DEF TlsAgree
  <2>4. part = "data" => remain > 0
    BY SMTT(30), <1>1, <2>3 DEF IInv, CursorInv, TypeOK, FirstPart, PartLen
  <2>5. part \in {"hello", "head", "data", "ext"} /\ (part = "head" => rec > 1)
    BY <2>3 DEF IInv, TypeOK, Parts, CursorInv
  <2>6. CASE remain > 0
    <3>1. part = "data" /\ pc' = "rest" /\ rFirst' = rFirst /\ ticket' = ticket
      BY <1>4, <2>3, <2>6
    <3>2. TlsAgree'
      BY <1>1, <1>2, <2>2, <2>3, <3>1 DEF TlsAgree
    <3> QED
      BY <1>1, <1>2, <3>1, <3>2 DEF InStepInv, Takes, IsData
  <2>7. CASE remain = 0 /\ rFirst
    <3>1. part = "hello"
      BY <2>2, <2>7 DEF TlsAgree
    <3>2. pc' = "hello" /\ need' = Units /\ rFirst' = FALSE /\ ticket' = ticket
      BY <1>4, <2>7
    <3>3. TlsAgree'
      BY <1>1, <1>2, <2>2, <2>7, <3>1, <3>2 DEF TlsAgree
    <3> QED
      BY <1>1, <1>2, <2>3, <3>1, <3>2, <3>3 DEF InStepInv, Takes, IsData, Units
  <2>8. CASE remain = 0 /\ ~rFirst /\ ticket
    <3>1. part # "hello"
      BY <1>1, <2>2, <2>8 DEF TlsAgree
    <3>2. rec = 1 /\ dir = "up"
      BY <2>2, <2>8 DEF TlsAgree
    <3>3. part = "ext"
      <4>1. part # "data"
        BY <2>4, <2>8
      <4>2. part # "head"
        BY <2>5, <3>2
      <4> QED
        BY <2>5, <3>1, <4>1, <4>2
    <3>4. pc' = "ext" /\ need' = Units /\ rFirst' = rFirst /\ ticket' = FALSE
      BY <1>1, <2>8 DEF ReadTls, Expect
    <3>5. TlsAgree'
      <4>1. rFirst' = FALSE
        BY <1>3, <2>8, <3>4
      <4> QED
        BY <1>1, <1>2, <2>3, <2>8, <3>3, <3>4, <4>1 DEF TlsAgree
    <3> QED
      BY <1>1, <1>2, <2>3, <3>3, <3>4, <3>5 DEF InStepInv, Takes, IsData, Units
  <2>9. CASE remain = 0 /\ ~rFirst /\ ~ticket
    <3>1. part # "hello"
      BY <1>1, <2>2, <2>9 DEF TlsAgree
    <3>2. part = "ext" => dir = "up" /\ rec = 1
      BY DEF IInv, CursorInv
    <3>3. part # "ext"
      BY <1>1, <2>2, <2>9, <3>2 DEF TlsAgree
    <3>4. part = "head"
      BY <2>4, <2>5, <2>9, <3>1, <3>3
    <3>5. pc' = "head" /\ need' = Units /\ rFirst' = rFirst /\ ticket' = ticket
      BY <1>4, <2>9
    <3>6. TlsAgree'
      BY <1>1, <1>2, <2>2, <2>9, <3>4, <3>5 DEF TlsAgree
    <3> QED
      BY <1>1, <1>2, <2>3, <3>4, <3>5, <3>6 DEF InStepInv, Takes, IsData, Units
  <2> QED
    BY <1>1, <1>3, <2>6, <2>7, <2>8, <2>9
<1> QED
  BY <1>1, <1>2, <1>6, <1>7, <1>8, ReaderStep

LEMMA ReadHttpStep ==
    ASSUME IInv, NEW b \in Bufs, ReadHttp(b)
    PROVE  IInv'
<1>1. /\ UNCHANGED <<kind, writer, cursor, rFirst, ticket, dl, cut>>
      /\ pc = "idle" /\ mode = "http" /\ want' = b /\ b \in Nat /\ b > 0
      /\ remain \in Nat /\ got \in Nat /\ need \in Nat
  BY SMTT(30), LengthsAssumption DEF ReadHttp, IInv, TypeOK
<1>2. /\ CursorInv' /\ rec' \in 1..Len(lens') + 1 /\ part' \in Parts /\ off' \in Nat
      /\ UNCHANGED <<mode, dir, lens, foreign, rec, part, off>>
  BY <1>1, CursorRests
<1>3. rFirst \in BOOLEAN /\ ticket \in BOOLEAN
  BY DEF IInv, TypeOK
<1>4. \/ /\ remain > 0 /\ pc' = "idle" /\ need' = need
         /\ got' = got + Least(remain, b) /\ remain' = remain - Least(remain, b)
      \/ /\ remain = 0 /\ rFirst /\ pc' = "hello" /\ need' = Units
         /\ got' = got /\ remain' = remain
      \/ /\ remain = 0 /\ ~rFirst /\ pc' = "raw" /\ need' = b
         /\ got' = got /\ remain' = remain
  <2>1. CASE remain > 0
    BY <1>1, <2>1 DEF ReadHttp, Expect
  <2>2. CASE remain = 0 /\ rFirst
    BY <1>1, <2>2 DEF ReadHttp, Expect
  <2>3. CASE remain = 0 /\ ~rFirst
    BY <1>1, <2>3 DEF ReadHttp, Expect
  <2> QED
    BY <1>1, <1>3, <2>1, <2>2, <2>3
<1>5. /\ need' \in Nat /\ (pc' # "idle" => need' > 0)
      /\ got' \in Nat /\ remain' \in Nat
      /\ pc' \in {"idle", "hello", "raw"}
  BY <1>1, <1>4 DEF Least, Units
<1>6. ReaderTypes'
  BY <1>1, <1>2, <1>3, <1>5, TypesSplit DEF IInv, ReaderTypes
<1>7. NeedInv'
  BY <1>1, <1>2, <1>5 DEF NeedInv
<1>8. InStepInv'
  <2>1. SUFFICES ASSUME ~cut, foreign = {} PROVE InStepInv'
    BY <1>1, <1>2 DEF InStepInv
  <2>2. HttpAgree
    BY <1>1, <2>1 DEF IInv, InStepInv
  <2>3. part = "hello" => off = 0 /\ remain = 0
    BY <1>1, <2>2 DEF HttpAgree
  <2>4. part \in {"hello", "data"}
    BY <1>1 DEF IInv, TypeOK, Parts, CursorInv
  <2>5. /\ part = "hello" => rFirst = TRUE
        /\ part # "hello" => rFirst = FALSE
        /\ ticket = FALSE
    <3>1. rFirst = (part = "hello" \/ pc = "body") /\ ~ticket
      BY <2>2 DEF HttpAgree
    <3>2. ticket = FALSE
      BY <1>3, <3>1
    <3> QED
      BY <1>1, <3>1, <3>2
  <2>6. CASE remain > 0
    <3>1. part = "data" /\ pc' = "idle"
      BY <1>4, <2>3, <2>4, <2>6
    <3>2. HttpAgree'
      BY <1>1, <1>2, <2>5, <3>1 DEF HttpAgree
    <3> QED
      BY <1>1, <1>2, <3>1, <3>2 DEF InStepInv
  <2>7. CASE remain = 0 /\ rFirst
    <3>1. part = "hello"
      BY <2>5, <2>7
    <3>2. pc' = "hello" /\ need' = Units /\ remain' = 0
      BY <1>4, <2>7
    <3>3. HttpAgree'
      BY <1>1, <1>2, <2>5, <3>1, <3>2 DEF HttpAgree
    <3> QED
      BY <1>1, <1>2, <2>3, <3>1, <3>2, <3>3 DEF InStepInv, Takes, IsData, Units
  <2>8. CASE remain = 0 /\ ~rFirst
    <3>1. part = "data"
      BY <2>4, <2>5, <2>8
    <3>2. pc' = "raw" /\ remain' = 0
      BY <1>4, <2>8
    <3>3. HttpAgree'
      BY <1>1, <1>2, <2>5, <3>1, <3>2 DEF HttpAgree
    <3> QED
      BY <1>1, <1>2, <3>1, <3>2, <3>3 DEF InStepInv, Takes, IsData
  <2> QED
    BY <1>1, <1>3, <2>6, <2>7, <2>8
<1> QED
  BY <1>1, <1>2, <1>6, <1>7, <1>8, ReaderStep

LEMMA DeadlineStep ==
    IInv /\ (Deadline \/ Lift) => IInv'
<1> SUFFICES ASSUME IInv, Deadline \/ Lift PROVE IInv'
  OBVIOUS
<1>1. dl' \in BOOLEAN /\ UNCHANGED <<kind, writer, cursor, reader, got, cut>>
  BY DEF Deadline, Lift
<1>2. UNCHANGED <<kind, starts, lens, foreign, cursor, reader, cut>>
  BY <1>1, LensKept DEF writer
<1>3. TypeOK' /\ WriterInv'
  BY <1>1, <1>2 DEF IInv, TypeOK, WriterInv, kind, writer, cursor, reader
<1> QED
  BY <1>2, <1>3, Aside DEF IInv

(* Where Interrupt does not cut, the flags and remain are what the next     *)
(* Read needs.                                                              *)
LEMMA InterruptStep ==
    IInv /\ Interrupt => IInv'
<1> SUFFICES ASSUME IInv, Interrupt PROVE IInv'
  OBVIOUS
<1>1. /\ UNCHANGED <<kind, writer, cursor, want, rFirst, ticket, dl, got>>
      /\ pc \notin {"idle", "skewed"} /\ pc' = "idle" /\ need' = 0
      /\ cut' = (cut \/ ~Resumable(remain'))
      /\ pc = "some" => remain' = need
      /\ pc = "rest" => remain' = remain
      /\ pc \notin {"some", "rest"} => remain' = 0
  BY DEF Interrupt, Expect
<1>2. /\ CursorInv' /\ rec' \in 1..Len(lens') + 1 /\ part' \in Parts /\ off' \in Nat
      /\ UNCHANGED <<mode, dir, lens, foreign, rec, part, off>>
  BY <1>1, CursorRests
<1>3. ReaderTypes'
  <2>1. remain' \in Nat
    BY <1>1 DEF IInv, TypeOK
  <2>2. cut' \in BOOLEAN
    BY <1>1
  <2>3. /\ want' \in Nat /\ rFirst' \in BOOLEAN /\ ticket' \in BOOLEAN
        /\ dl' \in BOOLEAN /\ got' \in Nat
        /\ mode' \in {"tls", "http"} /\ dir' \in {"up", "down"}
    BY <1>1, <1>2 DEF IInv, TypeOK
  <2> QED
    BY <1>1, <1>2, <2>1, <2>2, <2>3 DEF ReaderTypes
<1>4. NeedInv'
  BY <1>1 DEF NeedInv
<1>5. InStepInv'
  <2>1. SUFFICES ASSUME ~cut, foreign = {}, Resumable(remain') PROVE InStepInv'
    BY <1>1, <1>2 DEF InStepInv
  <2>2. mode \in {"tls", "http"} /\ part = Takes(pc)
    BY <1>1, <2>1 DEF IInv, InStepInv, TypeOK
  <2>3. CASE mode = "tls"
    <3>1. TlsAgree
      BY <2>1, <2>3 DEF IInv, InStepInv
    <3>2. remain' > 0 \/ (part = "head" /\ off = 0)
      BY <2>1, <2>3 DEF Resumable
    <3>3. CASE pc \in {"some", "rest"}
      <4>1. part = "data" /\ remain' = lens[rec] - off
        BY <1>1, <2>2, <3>1, <3>3 DEF TlsAgree, Takes, IsData, IInv, TypeOK
      <4>2. TlsAgree'
        BY <1>1, <1>2, <3>1, <4>1 DEF TlsAgree
      <4> QED
        BY <1>1, <1>2, <2>3, <4>2 DEF InStepInv
    <3>4. CASE pc \notin {"some", "rest"}
      <4>1. part = "head" /\ off = 0 /\ remain' = 0
        BY <1>1, <3>2, <3>4
      <4>2. TlsAgree'
        BY <1>1, <1>2, <3>1, <4>1 DEF TlsAgree
      <4> QED
        BY <1>1, <1>2, <2>3, <4>2 DEF InStepInv
    <3> QED
      BY <3>3, <3>4
  <2>4. CASE mode = "http"
    <3>1. HttpAgree
      BY <2>1, <2>4 DEF IInv, InStepInv
    <3>2. rFirst => part = "hello" /\ off = 0
      BY <2>1, <2>4 DEF Resumable, IInv, CursorInv
    <3>3. pc # "body"
      <4>1. pc = "body" => rFirst
        BY <3>1 DEF HttpAgree
      <4>2. pc = "body" => part = "data"
        BY <2>2 DEF Takes, IsData
      <4> QED
        BY <3>2, <4>1, <4>2
    <3>4. remain' = 0
      BY <1>1, <2>4 DEF IInv, NeedInv
    <3>5. part = "hello" => off = 0
      BY <3>1, <3>2 DEF HttpAgree
    <3>6. HttpAgree'
      BY <1>1, <1>2, <3>1, <3>3, <3>4, <3>5 DEF HttpAgree
    <3> QED
      BY <1>1, <1>2, <2>4, <3>6 DEF InStepInv
  <2> QED
    BY <2>2, <2>3, <2>4
<1> QED
  BY <1>1, <1>2, <1>3, <1>4, <1>5, ReaderStep

-----------------------------------------------------------------------------
LEMMA NextIInv ==
    IInv /\ [Next]_vars => IInv'
<1> SUFFICES ASSUME IInv, [Next]_vars PROVE IInv'
  OBVIOUS
<1>1. CASE Write
  BY <1>1, WriteStep
<1>2. CASE Writer
  BY <1>2, MakeStep, SendMadeStep, SendDataStep, SendHttpStep DEF Writer
<1>3. CASE OtherConnection
  BY <1>3, MakeStep
<1>4. CASE Reader
  <2>1. ASSUME NEW b \in Bufs, ReadTls(b) \/ ReadHttp(b) PROVE IInv'
    BY <2>1, ReadTlsStep, ReadHttpStep
  <2> QED
    BY <1>4, <2>1, TakeMoreStep, TakeLastStep, TakeFullStep, TakeSomeStep, TakeBodyStep,
       TakeRawStep, TakeWrongStep DEF Reader, Call
<1>5. CASE Deadline \/ Lift
  BY <1>5, DeadlineStep
<1>6. CASE Interrupt
  BY <1>6, InterruptStep
<1>7. CASE UNCHANGED vars
  <2>1. UNCHANGED <<kind, starts, lens, foreign, cursor, reader, cut>>
    BY <1>7, LensKept DEF vars, writer
  <2>2. TypeOK' /\ WriterInv'
    BY <1>7, <2>1 DEF IInv, TypeOK, WriterInv, vars, kind, writer, cursor, reader
  <2> QED
    BY <2>1, <2>2, Aside DEF IInv
<1> QED
  BY <1>1, <1>2, <1>3, <1>4, <1>5, <1>6, <1>7 DEF Next

LEMMA Inductive ==
    Spec => []IInv
BY InitIInv, NextIInv, PTL DEF Spec

(* The writer's buffer and lengths, the cursor and the reader's counts stay *)
(* in their domains: no length goes below zero (write, readBlock).          *)
THEOREM ObfsTypes ==
    Spec => []TypeOK
<1>1. IInv => TypeOK
  BY DEF IInv
<1> QED
  BY <1>1, Inductive, PTL

(* The reader takes each byte of the stream for what its writer meant,      *)
(* unless a deadline fell where Read cannot resume or the hello was sent    *)
(* from an overwritten buffer (Read, readBlock, write).                     *)
THEOREM ReaderInStep ==
    Spec => []InStepUnlessCut
<1>1. IInv => InStepUnlessCut
  BY DEF IInv, InStepInv, WriterInv, InStepUnlessCut
<1> QED
  BY <1>1, Inductive, PTL

-----------------------------------------------------------------------------
(* No data is dropped: what Read has returned, with what it keeps for the   *)
(* next one, is the data that lies before the cursor.                       *)

(* The bytes a reader has taken from the stream and not yet returned *)
Kept == IF mode = "tls" THEN 0 ELSE IF pc = "body" THEN off ELSE remain

SentInv ==
    /\ starts[1] = 0
    /\ wst = "made" => mode = "tls"
    /\ ~whole => wst = "sent"
DataInv ==
    ~cut /\ foreign = {} => got + Kept = DataBeforeCursor
(* Behind an overwritten hello, the reader has not begun to read.           *)
ForeignInv ==
    ~cut /\ foreign # {} /\ pc # "skewed" =>
        /\ mode = "tls" /\ rec = 1 /\ part = "hello" /\ off = 0
        /\ got = 0 /\ remain = 0 /\ pc \in {"idle", "hello"}
        /\ pc = "idle" => rFirst
DInv == SentInv /\ DataInv /\ ForeignInv

LEMMA Starts ==
    ASSUME IInv
    PROVE  /\ Len(starts) \in Nat /\ Len(starts) = Len(lens) + 1
           /\ \A i \in 1..Len(lens) + 1 : starts[i] \in Nat
           /\ \A i \in 1..Len(lens) : /\ lens[i] \in Nat
                                      /\ starts[i + 1] = starts[i] + lens[i]
           /\ rec \in 1..Len(lens) + 1 /\ Len(lens) \in Nat
<1>1. /\ starts \in Seq(Nat) /\ Len(starts) > 0 /\ Len(starts) \in Nat
      /\ rec \in 1..Len(lens) + 1
  BY DEF IInv, TypeOK
<1>2. /\ Len(lens) = Len(starts) - 1 /\ Len(lens) \in Nat
      /\ \A i \in 1..Len(lens) : lens[i] = starts[i + 1] - starts[i]
  BY <1>1, LensOfStarts
<1>3. Len(starts) = Len(lens) + 1
  BY <1>1, <1>2
<1>4. \A i \in 1..Len(lens) + 1 : starts[i] \in Nat
  BY <1>1, <1>3
<1>5. ASSUME NEW i \in 1..Len(lens)
      PROVE  lens[i] \in Nat /\ starts[i + 1] = starts[i] + lens[i]
  <2>1. starts[i] \in Nat /\ starts[i + 1] \in Nat
    BY <1>2, <1>4
  <2>2. lens[i] \in Nat
    BY Lengths DEF IInv
  <2> QED
    BY <1>2, <2>1, <2>2
<1> QED
  BY <1>1, <1>2, <1>3, <1>4, <1>5

(* Past the last record there is nothing but its beginning.                 *)
LEMMA AtTheEnd ==
    ASSUME IInv, rec > Len(lens)
    PROVE  DataBeforeCursor = Total /\ part # "ext" /\ off = 0
<1>1. off = 0 /\ part \in {"hello", "head", "data"}
  BY DEF IInv, CursorInv, FirstPart
<1>2. rec = Len(starts) /\ starts[rec] \in Nat
  BY Starts
<1> QED
  BY <1>1, <1>2 DEF DataBeforeCursor, Total

(* The data before the cursor grows by the data taken.                      *)
LEMMA DataMoves ==
    ASSUME IInv, Arrived, NEW k \in Nat, k > 0, Advance(k), off + k <= PartLen,
           UNCHANGED starts
    PROVE  DataBeforeCursor' = DataBeforeCursor + (IF part = "data" THEN k ELSE 0)
<1>1. /\ TypeOK /\ CursorInv /\ rec \in 1..Len(lens) /\ Len(lens) \in Nat
      /\ off \in Nat /\ PartLen \in Nat /\ UNCHANGED lens
  BY OneByte, Starts, LensKept DEF IInv
<1>2. /\ starts[rec] \in Nat /\ lens[rec] \in Nat
      /\ starts[rec + 1] = starts[rec] + lens[rec]
  BY <1>1, Starts
<1>3. CASE off + k < PartLen
  <2>1. off' = off + k /\ rec' = rec /\ part' = part
    BY <1>1, <1>3, Moves
  <2> QED
    BY SMTT(30), <1>1, <1>2, <2>1 DEF DataBeforeCursor
<1>4. CASE off + k = PartLen
  <2>1. off' = 0 /\ part' = FollowingPart /\ rec' = IF EndsRecord THEN rec + 1 ELSE rec
    BY <1>1, <1>4, Moves
  <2>2. mode \in {"tls", "http"} /\ dir \in {"up", "down"} /\ part \in Parts
    BY <1>1 DEF TypeOK
  <2>3. CASE part \in {"hello", "head", "size"}
    <3>1. rec' = rec /\ part' \in {"size", "data"}
      BY <1>1, <2>1, <2>2, <2>3, Following DEF CursorInv
    <3>2. DataBeforeCursor' = starts[rec] /\ DataBeforeCursor = starts[rec]
      BY <1>2, <2>1, <2>3, <3>1 DEF DataBeforeCursor
    <3> QED
      BY <1>2, <2>3, <3>2
  <2>4. CASE part = "ext"
    <3>1. rec' = rec + 1 /\ part' = "head"
      BY <1>1, <2>1, <2>4, Following
    <3>2. /\ DataBeforeCursor' = starts[rec + 1]
          /\ DataBeforeCursor = starts[rec] + lens[rec]
      BY SMTT(30), <1>1, <1>2, <2>1, <2>4, <3>1 DEF DataBeforeCursor
    <3> QED
      BY <1>2, <2>4, <3>2
  <2>5. CASE part = "data"
    <3>1. \/ rec' = rec /\ part' = "ext"
          \/ rec' = rec + 1 /\ part' \in {"head", "data"}
      BY <1>1, <2>1, <2>2, <2>5, Following
    <3>2. off + k = lens[rec]
      BY <1>4, <2>5 DEF PartLen
    <3>3. DataBeforeCursor' = starts[rec] + lens[rec]
      BY SMTT(30), <1>1, <1>2, <2>1, <3>1 DEF DataBeforeCursor
    <3>4. DataBeforeCursor = starts[rec] + off
      BY <2>5 DEF DataBeforeCursor
    <3> QED
      BY SMTT(30), <1>1, <1>2, <2>5, <3>2, <3>3, <3>4
  <2> QED
    BY <2>2, <2>3, <2>4, <2>5 DEF Parts
<1> QED
  BY <1>1, <1>3, <1>4

LEMMA InitDInv ==
    Init => DInv
<1> SUFFICES ASSUME Init PROVE DInv
  OBVIOUS
<1>1. starts = <<0>> /\ starts[1] = 0
  BY DEF Init
<1>2. got + Kept = 0 /\ DataBeforeCursor = 0
  BY <1>1 DEF Init, Kept, DataBeforeCursor
<1> QED
  BY <1>1, <1>2 DEF Init, DInv, SentInv, DataInv, ForeignInv

(* The writer adds records behind the cursor and leaves the reader alone.   *)
LEMMA WriterKeepsData ==
    ASSUME IInv, DInv, UNCHANGED <<kind, foreign, cursor, reader, got, cut>>,
           UNCHANGED starts \/ \E n \in Nat \ {0} : AddRecord(n)
    PROVE  DataInv' /\ ForeignInv' /\ starts'[1] = 0
<1>1. UNCHANGED <<mode, rec, part, off, pc, remain, rFirst>>
  BY DEF kind, cursor, reader
<1>2. /\ starts'[rec] = starts[rec] /\ starts'[1] = starts[1]
      /\ rec <= Len(lens) => lens'[rec] = lens[rec]
  <2>1. CASE UNCHANGED starts
    BY <2>1, LensKept
  <2>2. ASSUME NEW n \in Nat \ {0}, AddRecord(n)
        PROVE  /\ starts'[rec] = starts[rec] /\ starts'[1] = starts[1]
               /\ rec <= Len(lens) => lens'[rec] = lens[rec]
    <3>1. /\ \A i \in 1..Len(starts) : starts'[i] = starts[i]
          /\ \A i \in 1..Len(lens) : lens'[i] = lens[i]
      BY <2>2, RecordAdded DEF IInv
    <3> QED
      BY <3>1, Starts
  <2> QED
    BY <2>1, <2>2
<1>3. part = "ext" => rec <= Len(lens)
  BY AtTheEnd, Starts
<1>4. DataBeforeCursor' = DataBeforeCursor /\ Kept' = Kept
  BY <1>1, <1>2, <1>3 DEF DataBeforeCursor, Kept
<1> QED
  BY <1>1, <1>2, <1>4 DEF DInv, SentInv, DataInv, ForeignInv

LEMMA WriterDataStep ==
    ASSUME IInv, DInv, Write \/ Writer \/ OtherConnection
    PROVE  DInv'
<1>1. CASE Write \/ MakeHello \/ MakeHead \/ OtherConnection \/ SendData
  <2>1. UNCHANGED <<kind, foreign, starts, cursor, reader, got, cut>>
    BY <1>1 DEF Write, MakeHello, MakeHead, OtherConnection, SendData
  <2>2. DataInv' /\ ForeignInv' /\ starts'[1] = 0
    BY <2>1, WriterKeepsData
  <2>3. (wst' = "made" => mode' = "tls") /\ (~whole' => wst' = "sent")
    BY <1>1 DEF Write, MakeHello, MakeHead, OtherConnection, SendData, kind, DInv, SentInv
  <2> QED
    BY <2>2, <2>3 DEF DInv, SentInv
<1>2. CASE SendHttpHello \/ SendHttpData
  <2>1. /\ UNCHANGED <<kind, foreign, cursor, reader, got, cut>>
        /\ left \in Nat \ {0} /\ AddRecord(left)
    BY <1>2 DEF SendHttpHello, SendHttpData, IInv, TypeOK
  <2>2. DataInv' /\ ForeignInv' /\ starts'[1] = 0
    BY <2>1, WriterKeepsData
  <2>3. (wst' = "made" => mode' = "tls") /\ (~whole' => wst' = "sent")
    BY <1>2 DEF SendHttpHello, SendHttpData, DInv, SentInv
  <2> QED
    BY <2>2, <2>3 DEF DInv, SentInv
<1>3. CASE SendMade
  <2>1. /\ UNCHANGED <<kind, cursor, reader, got, cut>> /\ mode = "tls"
        /\ RecordLen \in Nat \ {0} /\ AddRecord(RecordLen)
    <3>1. left > 0
      BY <1>3 DEF SendMade, IInv, WriterInv
    <3> QED
      BY <1>3, <3>1, RecordLength DEF SendMade, IInv, TypeOK, DInv, SentInv
  <2>2. (wst' = "made" => mode' = "tls") /\ (~whole' => wst' = "sent")
    BY <1>3 DEF SendMade
  <2>3. CASE ~bad
    <3>1. UNCHANGED foreign
      BY <1>3, <2>3 DEF SendMade
    <3>2. DataInv' /\ ForeignInv' /\ starts'[1] = 0
      BY <2>1, <3>1, WriterKeepsData
    <3> QED
      BY <2>2, <3>2 DEF DInv, SentInv
  <2>4. CASE bad
    <3>1. Len(lens) = 0 /\ foreign = {} /\ foreign' # {}
      <4>1. Len(lens) = 0
        BY <1>3, <2>4 DEF SendMade, IInv, WriterInv
      <4>2. foreign = {}
        BY <4>1 DEF IInv, TypeOK
      <4> QED
        BY <1>3, <2>4, <4>1, <4>2 DEF SendMade
    <3>2. starts'[1] = 0
      <4>1. starts'[1] = starts[1]
        BY <2>1, RecordAdded, Starts DEF IInv
      <4> QED
        BY <4>1 DEF DInv, SentInv
    <3>3. rec = 1 /\ off = 0 /\ part = "hello" /\ DataBeforeCursor = 0
      <4>1. rec = 1 /\ rec > Len(lens)
        BY <3>1, Starts
      <4>2. part = "hello" /\ off = 0
        BY <4>1 DEF IInv, CursorInv, FirstPart
      <4> QED
        BY <4>1, <4>2 DEF DataBeforeCursor, DInv, SentInv
    <3>4. ASSUME ~cut
          PROVE  /\ got = 0 /\ remain = 0 /\ pc \in {"idle", "hello"}
                 /\ pc = "idle" => rFirst
      <4>1. got + Kept = 0 /\ Kept = 0 /\ got \in Nat
        BY <2>1, <3>1, <3>3, <3>4 DEF DInv, DataInv, Kept, IInv, TypeOK
      <4>2. pc # "skewed" /\ (pc # "idle" => part = Takes(pc)) /\ TlsAgree
        BY <2>1, <3>1, <3>4 DEF IInv, InStepInv
      <4>3. pc \in {"idle", "hello"}
        BY <3>3, <4>2 DEF Takes, IsData, IInv, TypeOK
      <4>4. remain = 0 /\ (pc = "idle" => rFirst)
        BY <3>3, <4>2, <4>3 DEF TlsAgree
      <4> QED
        BY <4>1, <4>3, <4>4
    <3>5. ForeignInv'
      BY <2>1, <3>3, <3>4 DEF ForeignInv, kind, cursor, reader
    <3>6. DataInv'
      BY <3>1 DEF DataInv
    <3> QED
      BY <2>2, <3>2, <3>5, <3>6 DEF DInv, SentInv
  <2> QED
    BY <2>3, <2>4 DEF IInv, TypeOK
<1> QED
  BY <1>1, <1>2, <1>3 DEF Writer

(* A reader that takes bytes of the stream is not behind an overwritten     *)
(* hello, so only what it returns and keeps is to be shown.                 *)
LEMMA TakenData ==
    ASSUME IInv, DInv, Arrived, InStep, pc \notin {"idle", "skewed"},
           NEW k \in Nat, k > 0, Advance(k), off + k <= PartLen,
           UNCHANGED <<kind, writer, cut>>,
           ~cut /\ foreign = {} =>
               got' + Kept' = got + Kept + (IF part = "data" THEN k ELSE 0)
    PROVE  DInv'
<1>1. UNCHANGED <<mode, starts, lens, foreign, wst, whole, cut>>
  BY LensKept DEF kind, writer
<1>2. SentInv'
  BY <1>1 DEF DInv, SentInv
<1>3. DataBeforeCursor' = DataBeforeCursor + (IF part = "data" THEN k ELSE 0)
  BY <1>1, DataMoves
<1>4. DataInv'
  BY <1>1, <1>3 DEF DInv, DataInv
<1>5. foreign # {} => cut
  <2>1. foreign # {} => foreign = {1}
    BY DEF IInv, WriterInv
  <2> QED
    BY <2>1 DEF DInv, ForeignInv, InStep
<1>6. ForeignInv'
  BY <1>1, <1>5 DEF ForeignInv
<1> QED
  BY <1>2, <1>4, <1>6 DEF DInv

(* What a reader in step with an unharmed stream has in its hands           *)
LEMMA HttpHolds ==
    ASSUME IInv, ~cut, foreign = {}, mode = "http"
    PROVE  /\ pc # "idle" => remain = 0
           /\ pc = "body" => rec = 1 /\ Len(lens) > 0 /\ need = lens[rec] - off
           /\ rFirst = (part = "hello" \/ pc = "body")
BY DEF IInv, InStepInv, HttpAgree

LEMMA TakePartData ==
    ASSUME IInv, DInv, TakeMore \/ TakeLast
    PROVE  DInv'
<1>1. /\ Arrived /\ InStep /\ Advance(1) /\ UNCHANGED <<kind, writer, cut, got, remain>>
      /\ pc \in {"hello", "head", "size", "ext"}
  BY DEF TakeMore, TakeLast, TakeByte
<1>2. off + 1 <= PartLen /\ part = pc /\ got \in Nat
  BY <1>1, OneByte DEF InStep, Takes, IsData, IInv, TypeOK
<1>3. ASSUME ~cut, foreign = {}, mode = "http"
      PROVE  Kept' = 0 /\ Kept = 0
  <2>1. remain = 0 /\ remain' = 0 /\ mode' = "http" /\ pc = "hello"
    BY <1>1, <1>3, HttpHolds DEF kind, IInv, NeedInv
  <2>2. pc' = "body" => off' = 0
    <3>1. CASE TakeMore
      BY <2>1, <3>1 DEF TakeMore
    <3>2. CASE TakeLast
      <4>1. need = 1 /\ need = Units - off
        BY <1>1, <1>3, <3>2 DEF TakeLast, IInv, InStepInv
      <4>2. off + 1 = PartLen
        BY <1>1, <1>2, <4>1, OneByte DEF PartLen, Units
      <4> QED
        BY <1>1, <1>2, <4>2, Moves, OneByte DEF IInv
    <3> QED
      BY <3>1, <3>2
  <2> QED
    BY <2>1, <2>2 DEF Kept
<1>4. ~cut /\ foreign = {} => got' + Kept' = got + Kept + 0
  <2>1. mode = "tls" => Kept = 0 /\ Kept' = 0
    BY <1>1 DEF Kept, kind
  <2>2. mode \in {"tls", "http"}
    BY DEF IInv, TypeOK
  <2> QED
    BY <1>1, <1>2, <1>3, <2>1, <2>2
<1>5. part # "data"
  BY <1>1, <1>2
<1> QED
  BY <1>1, <1>2, <1>4, <1>5, TakenData

LEMMA TakeFullData ==
    ASSUME IInv, DInv, TakeFull
    PROVE  DInv'
<1>1. /\ Arrived /\ InStep /\ Advance(1) /\ UNCHANGED <<kind, writer, cut>>
      /\ pc \in {"full", "rest"} /\ got' = got + 1
  BY DEF TakeFull, TakeByte
<1>2. off + 1 <= PartLen /\ part = "data" /\ got \in Nat
  BY <1>1, OneByte DEF InStep, Takes, IsData, IInv, TypeOK
<1>3. Kept = 0 /\ Kept' = 0
  BY <1>1 DEF IInv, NeedInv, TypeOK, Kept, kind
<1> QED
  BY <1>1, <1>2, <1>3, TakenData

LEMMA TakeManyData ==
    ASSUME IInv, DInv, TakeSome \/ TakeRaw
    PROVE  DInv'
<1>1. /\ Arrived /\ InStep /\ UNCHANGED <<kind, writer, cut>>
      /\ pc \in {"some", "raw"} /\ pc' = "idle"
  BY DEF TakeSome, TakeRaw, Expect
<1>2. PICK k \in 1..Least(want, lens[rec] - off) :
        Advance(k) /\ got' = got + k /\ (pc = "raw" => remain' = remain)
  BY DEF TakeSome, TakeRaw
<1>3. /\ part = "data" /\ PartLen = lens[rec] /\ got \in Nat
      /\ lens[rec] \in Nat /\ off \in Nat /\ want \in Nat
  BY <1>1, OneByte DEF InStep, Takes, IsData, IInv, TypeOK, PartLen
<1>4. k \in Nat /\ k > 0 /\ off + k <= PartLen
  BY <1>2, <1>3 DEF Least
<1>5. ASSUME ~cut, foreign = {} PROVE Kept = 0 /\ Kept' = 0
  <2>1. mode = "tls" => Kept = 0 /\ Kept' = 0
    BY <1>1 DEF Kept, kind
  <2>2. CASE mode = "http"
    <3>1. pc = "raw" /\ remain = 0
      BY <1>1, <1>5, <2>2, HttpHolds DEF IInv, NeedInv
    <3>2. remain' = 0
      BY <1>2, <3>1
    <3> QED
      BY <1>1, <3>1, <3>2 DEF Kept
  <2> QED
    BY <2>1, <2>2 DEF IInv, TypeOK
<1> QED
  BY <1>1, <1>2, <1>3, <1>4, <1>5, TakenData

LEMMA TakeBodyData ==
    ASSUME IInv, DInv, TakeBody
    PROVE  DInv'
<1>1. /\ Arrived /\ InStep /\ Advance(1) /\ UNCHANGED <<kind, writer, cut>>
      /\ pc = "body" /\ mode = "http"
  BY DEF TakeBody, TakeByte, IInv, NeedInv, TypeOK
<1>2. /\ part = "data" /\ PartLen = lens[rec] /\ got \in Nat /\ off + 1 <= PartLen
      /\ lens[rec] \in Nat /\ off \in Nat /\ want \in Nat
  BY <1>1, OneByte DEF InStep, Takes, IsData, IInv, TypeOK, PartLen
<1>3. ASSUME ~cut, foreign = {} PROVE got' + Kept' = got + Kept + 1
  <2>1. remain = 0 /\ need = lens[rec] - off /\ Kept = off /\ mode' = "http"
    BY <1>1, <1>3, HttpHolds DEF Kept, kind
  <2>2. CASE need > 1
    <3>1. got' = got /\ pc' = "body"
      BY <2>2 DEF TakeBody, Expect
    <3>2. off' = off + 1
      BY <1>1, <1>2, <2>1, <2>2, Moves, OneByte DEF IInv
    <3> QED
      BY <1>2, <2>1, <3>1, <3>2 DEF Kept
  <2>3. CASE ~(need > 1)
    <3>1. /\ pc' = "idle" /\ got' = got + Least(want, lens[rec])
          /\ remain' = lens[rec] - Least(want, lens[rec])
      BY <2>3 DEF TakeBody, Expect
    <3>2. off + 1 = lens[rec]
      BY <1>2, <2>1, <2>3
    <3>3. Kept' = lens[rec] - Least(want, lens[rec]) /\ Least(want, lens[rec]) \in Nat
      BY <1>2, <2>1, <3>1 DEF Kept, Least
    <3> QED
      BY <1>2, <2>1, <3>1, <3>2, <3>3
  <2> QED
    BY <2>2, <2>3
<1> QED
  BY <1>1, <1>2, <1>3, TakenData

(* A step that takes nothing from the stream *)
LEMMA RestData ==
    ASSUME IInv, DInv, UNCHANGED <<kind, writer, cursor>>, cut => cut',
           ~cut' /\ foreign = {} => got' + Kept' = got + Kept,
           ForeignInv'
    PROVE  DInv'
<1>1. UNCHANGED <<starts, lens, foreign, wst, whole, mode, rec, part, off>>
  BY LensKept DEF kind, writer, cursor
<1>2. DataBeforeCursor' = DataBeforeCursor
  BY <1>1 DEF DataBeforeCursor
<1> QED
  BY <1>1, <1>2 DEF DInv, SentInv, DataInv

LEMMA ReadData ==
    ASSUME IInv, DInv, NEW b \in Bufs, ReadTls(b) \/ ReadHttp(b)
    PROVE  DInv'
<1>1. /\ UNCHANGED <<kind, writer, cursor, cut>> /\ pc = "idle"
      /\ got \in Nat /\ remain \in Nat /\ b \in Nat
  BY LengthsAssumption DEF ReadTls, ReadHttp, IInv, TypeOK
<1>2. mode' = mode /\ foreign' = foreign /\ rec' = rec /\ part' = part /\ off' = off
  BY <1>1 DEF kind, writer, cursor
<1>3. CASE ReadTls(b)
  <2>1. mode = "tls" /\ got' = got /\ remain' = remain
    BY <1>3 DEF ReadTls
  <2>2. remain = 0 /\ rFirst => pc' = "hello"
    BY <1>3 DEF ReadTls, Expect
  <2>3. ForeignInv'
    BY <1>1, <1>2, <2>1, <2>2 DEF DInv, ForeignInv
  <2>4. Kept' = 0 /\ Kept = 0
    BY <1>2, <2>1 DEF Kept
  <2> QED
    BY <1>1, <2>1, <2>3, <2>4, RestData
<1>4. CASE ReadHttp(b)
  <2>1. mode = "http" /\ (foreign # {} => cut)
    BY <1>1, <1>4 DEF ReadHttp, DInv, ForeignInv
  <2>2. ForeignInv'
    BY <1>1, <1>2, <2>1 DEF ForeignInv
  <2>3. got' + Kept' = got + Kept
    <3>1. Kept = remain
      BY <1>1, <2>1 DEF Kept
    <3>2. CASE remain > 0
      <4>1. /\ got' = got + Least(remain, b) /\ remain' = remain - Least(remain, b)
            /\ pc' = pc /\ Least(remain, b) \in Nat
        BY <1>1, <1>4, <3>2 DEF ReadHttp, Least
      <4>2. Kept' = remain'
        BY <1>1, <1>2, <2>1, <4>1 DEF Kept
      <4> QED
        BY <1>1, <3>1, <4>1, <4>2
    <3>3. CASE remain = 0
      <4>1. got' = got /\ remain' = remain /\ pc' \in {"hello", "raw"}
        <5>1. CASE rFirst
          BY <1>4, <3>3, <5>1 DEF ReadHttp, Expect
        <5>2. CASE ~rFirst
          BY <1>4, <3>3, <5>2 DEF ReadHttp, Expect
        <5> QED
          BY <5>1, <5>2
      <4>2. Kept' = remain'
        BY <1>2, <2>1, <4>1 DEF Kept
      <4> QED
        BY <1>1, <3>1, <4>1, <4>2
    <3> QED
      BY <1>1, <3>2, <3>3
  <2> QED
    BY <1>1, <2>2, <2>3, RestData
<1> QED
  BY <1>3, <1>4

(* A deadline that drops what was taken, or the hello's first half, cuts.   *)
LEMMA InterruptData ==
    ASSUME IInv, DInv, Interrupt
    PROVE  DInv'
<1>1. /\ UNCHANGED <<kind, writer, cursor, got, rFirst>>
      /\ pc \notin {"idle", "skewed"} /\ pc' = "idle"
      /\ cut' = (cut \/ ~Resumable(remain'))
      /\ pc \notin {"some", "rest"} => remain' = 0
  BY DEF Interrupt, Expect
<1>2. mode' = mode /\ foreign' = foreign /\ part' = part /\ off' = off
  BY <1>1 DEF kind, writer, cursor
<1>3. ForeignInv'
  <2>1. SUFFICES ASSUME ~cut, foreign # {}, Resumable(remain') PROVE FALSE
    BY <1>1, <1>2 DEF ForeignInv
  <2>2. mode = "tls" /\ part = "hello" /\ remain' = 0
    BY <1>1, <2>1 DEF DInv, ForeignInv
  <2> QED
    BY <2>1, <2>2 DEF Resumable
<1>4. ASSUME ~cut', foreign = {} PROVE got' + Kept' = got + Kept
  <2>1. ~cut /\ Resumable(remain')
    BY <1>1, <1>4
  <2>2. CASE mode = "tls"
    BY <1>1, <1>2, <2>2 DEF Kept
  <2>3. CASE mode = "http"
    <3>1. remain' = 0 /\ remain = 0
      BY <1>1, <1>4, <2>1, <2>3, HttpHolds DEF IInv, NeedInv
    <3>2. pc # "body"
      <4>1. pc = "body" => rFirst /\ part = "data"
        BY <1>4, <2>1, <2>3, HttpHolds DEF IInv, InStepInv, Takes, IsData
      <4> QED
        BY <2>1, <2>3, <4>1 DEF Resumable
    <3>3. Kept = 0 /\ Kept' = 0
      BY <1>1, <1>2, <2>3, <3>1, <3>2 DEF Kept
    <3> QED
      BY <1>1, <3>3
  <2> QED
    BY <2>2, <2>3 DEF IInv, TypeOK
<1> QED
  BY <1>1, <1>3, <1>4, RestData

LEMMA NextDInv ==
    IInv /\ DInv /\ [Next]_vars => DInv'
<1> SUFFICES ASSUME IInv, DInv, [Next]_vars PROVE DInv'
  OBVIOUS
<1>1. CASE Write \/ Writer \/ OtherConnection
  BY <1>1, WriterDataStep
<1>2. CASE Call
  BY <1>2, ReadData DEF Call
<1>3. CASE TakeMore \/ TakeLast \/ TakeFull \/ TakeSome \/ TakeBody \/ TakeRaw
  BY <1>3, TakePartData, TakeFullData, TakeManyData, TakeBodyData
<1>4. CASE TakeWrong
  <2>1. /\ UNCHANGED <<kind, writer, cursor, got, cut>> /\ pc' = "skewed"
    BY <1>4 DEF TakeWrong
  <2>2. foreign = {} => cut
    <3>1. IInv' /\ foreign' = foreign /\ cut' = cut
      BY <1>4, <2>1, TakeWrongStep DEF writer
    <3> QED
      BY <2>1, <3>1 DEF IInv, InStepInv
  <2>3. ForeignInv'
    BY <2>1 DEF ForeignInv
  <2> QED
    BY <2>1, <2>2, <2>3, RestData
<1>5. CASE Deadline \/ Lift \/ UNCHANGED vars
  <2>1. UNCHANGED <<kind, writer, cursor, reader, got, cut>>
    BY <1>5 DEF Deadline, Lift, vars
  <2>2. UNCHANGED <<starts, foreign>>
    BY <2>1 DEF writer
  <2>3. DataInv' /\ ForeignInv' /\ starts'[1] = 0
    BY <2>1, <2>2, WriterKeepsData
  <2> QED
    BY <2>1, <2>3 DEF DInv, SentInv, writer, kind
<1>6. CASE Interrupt
  BY <1>6, InterruptData
<1> QED
  BY <1>1, <1>2, <1>3, <1>4, <1>5, <1>6 DEF Next, Reader

LEMMA DataInductive ==
    Spec => []DInv
BY InitDInv, NextDInv, Inductive, PTL DEF Spec

(* For every length of record, slice and buffer, Read has returned exactly  *)
(* the data before the cursor but what it keeps, whenever no deadline has   *)
(* fallen where it cannot resume (Read, readBlock).                         *)
THEOREM NothingIsDropped ==
    Spec => []NothingDropped
<1>1. IInv /\ DInv => NothingDropped
  <2> SUFFICES ASSUME IInv, DInv, pc = "idle", ~cut
               PROVE  got + (IF mode = "http" THEN remain ELSE 0) = DataBeforeCursor
    BY DEF NothingDropped
  <2>1. mode \in {"tls", "http"}
    BY DEF IInv, TypeOK
  <2>2. Kept = (IF mode = "http" THEN remain ELSE 0)
    BY <2>1 DEF Kept
  <2>3. CASE foreign = {}
    BY <2>2, <2>3 DEF DInv, DataInv
  <2>4. CASE foreign # {}
    <3>1. /\ mode = "tls" /\ rec = 1 /\ part = "hello" /\ got = 0
          /\ starts[1] = 0
      BY <2>4 DEF DInv, ForeignInv, SentInv
    <3> QED
      BY <3>1 DEF DataBeforeCursor
  <2> QED
    BY <2>3, <2>4
<1> QED
  BY <1>1, Inductive, DataInductive, PTL

(* A Read that waits has returned all there is, or waits for what the Write *)
(* under way has yet to send (Read, readBlock, http.ReadRequest).           *)
THEOREM NeverWaitsForMore ==
    Spec => []WaitsOnlyForUnsent
<1>1. IInv /\ DInv => WaitsOnlyForUnsent
  <2> SUFFICES ASSUME IInv, DInv, pc \notin {"idle", "skewed"}, ~cut, foreign = {}, ~Arrived
               PROVE  left > 0 \/ got = Total
    BY DEF WaitsOnlyForUnsent
  <2>1. CASE rec > Len(lens)
    <3>1. got + Kept = Total
      BY <2>1, AtTheEnd DEF DInv, DataInv
    <3>2. Kept = 0
      <4>1. CASE mode = "tls"
        BY <4>1 DEF Kept
      <4>2. CASE mode = "http"
        BY <2>1, <4>2, HttpHolds, Starts DEF Kept
      <4> QED
        BY <4>1, <4>2 DEF IInv, TypeOK
    <3> QED
      BY <3>1, <3>2 DEF IInv, TypeOK
  <2>2. CASE ~(rec > Len(lens))
    <3>1. ~whole
      BY <2>2, Starts DEF Arrived
    <3>2. wst = "sent"
      BY <3>1 DEF DInv, SentInv
    <3> QED
      BY <3>2 DEF IInv, WriterInv
  <2> QED
    BY <2>1, <2>2
<1> QED
  BY <1>1, Inductive, DataInductive, PTL
=============================================================================
