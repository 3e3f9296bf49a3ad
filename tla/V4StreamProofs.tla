--------------------------- MODULE V4StreamProofs ---------------------------
(***************************************************************************)
(* The v4 reader returns what the writer wrote, for any number of frames:  *)
(* it stays in step until a deadline falls inside a frame, and returns     *)
(* nothing from then on.                                                   *)
(***************************************************************************)
EXTENDS V4Stream, SequenceTheorems, TLAPS

(* A frame's last unit, when the frames are of kinds s *)
EndsFrame(s, u) ==
    u.at = 2 /\ (u.part = "body" \/ (u.part = "header" /\ s[u.frame] = "zero"))

(* The unit v may come behind u.                                            *)
Succeeds(s, u, v) ==
    /\ u.at = 1 => v = [u EXCEPT !.at = 2]
    /\ u.at = 2 /\ u.part = "salt" =>
         v = [part |-> "header", frame |-> 1, nonce |-> 0, at |-> 1]
    /\ u.at = 2 /\ u.part = "header" /\ s[u.frame] = "data" =>
         v = [part |-> "body", frame |-> u.frame, nonce |-> u.nonce + 1, at |-> 1]
    /\ EndsFrame(s, u) =>
         v = [part |-> "header", frame |-> u.frame + 1, nonce |-> u.nonce + 1, at |-> 1]

Chain(s, w) == \A i \in 1..Len(w) - 1 : Succeeds(s, w[i], w[i + 1])

Begins(w) == w # <<>> /\ w[1] = [part |-> "salt", frame |-> 1, nonce |-> 0, at |-> 1]

(* The wire is the frames sent, whole, one behind the other.                *)
WireInv ==
    /\ \A i \in 1..Len(wire) : wire[i].frame <= Len(sent)
    /\ Chain(sent, wire)
    /\ sent = <<>> => wire = <<>> /\ wnonce = 0
    /\ sent # <<>> => /\ Begins(wire)
                      /\ EndsFrame(sent, wire[Len(wire)])
                      /\ wire[Len(wire)].frame = Len(sent)
                      /\ wire[Len(wire)].nonce + 1 = wnonce
    /\ wnonce <= 2 * Len(sent)

(* Where the part begins that io.ReadFull is reading *)
Base == pos - taken

(* Before a header: behind the salt, or behind a frame *)
BeforeHeader ==
    /\ r = "good" /\ Base > 0 /\ wire[Base].at = 2
    /\ \/ wire[Base].part = "salt" /\ rnonce = 0
       \/ EndsFrame(sent, wire[Base]) /\ rnonce = wire[Base].nonce + 1

(* The part, nonce and key the reader expects are those of what comes.      *)
InStep ==
    CASE need = "none" -> BeforeHeader \/ (r = "none" /\ Base = 0 /\ rnonce = 0)
      [] need = "salt" -> r = "none" /\ rnonce = 0 /\ Base = 0
      [] need = "header" -> BeforeHeader
      [] need = "body" ->
           /\ r = "good" /\ Base > 0 /\ wire[Base].at = 2 /\ wire[Base].part = "header"
           /\ sent[wire[Base].frame] = "data" /\ rnonce = wire[Base].nonce + 1

(* After a deadline inside a frame: what is read next begins inside a part, *)
(* or is a body where a header is expected.                                 *)
OutOfStep ==
    /\ buf = 0 /\ phase # "relay" /\ need # "body"
    /\ phase = "done" => need = "none"
    /\ phase = "drain" =>
         /\ Base > 0
         /\ r = "none" => need # "header"
         /\ r # "none" => need # "salt"
         /\ r = "good" => \/ wire[Base].at = 1
                          \/ /\ wire[Base].at = 2 /\ wire[Base].part = "header"
                             /\ sent[wire[Base].frame] = "data"

ReaderInv ==
    /\ taken <= pos
    /\ need = "none" => taken = 0
    /\ ~lost => InStep
    /\ lost => OutOfStep

(* The frames behind the part that is read *)
Passed == IF Base = 0 THEN 0
          ELSE IF EndsFrame(sent, wire[Base]) THEN wire[Base].frame ELSE wire[Base].frame - 1
Latest == IF got = <<>> THEN <<0, 0>> ELSE got[Len(got)]

(* What Read has returned goes up to the part that is read, but for what it *)
(* keeps in buf.                                                            *)
GotInv ==
    /\ need # "none" => buf = 0
    /\ ~lost =>
        /\ buf = 0 => Latest[1] = Passed /\ Latest[2] \in {0, 2}
        /\ buf = 1 => Latest = <<Passed, 1>>
        /\ buf = 2 => Latest[1] = Passed - 1 /\ Latest[2] \in {0, 2}
        /\ buf > 0 => frame = Passed /\ frame > 0 /\ sent[frame] = "data"
    /\ \A i \in 1..Len(got) : got[i][1] <= Len(sent)

(* g is the beginning of the stream that was written.                       *)
LatestOf(g) == IF g = <<>> THEN <<0, 0>> ELSE g[Len(g)]
AsWritten(g) ==
    /\ g \in Seq((1..MaxFrames) \X (0..Units))
    /\ \A i \in 1..Len(g) :
         g[i][1] <= Len(sent) /\ (g[i][2] = 0 <=> sent[g[i][1]] = "zero")
    /\ g # <<>> => Follows(<<0, 0>>, g[1])
    /\ \A i \in 1..Len(g) - 1 : Follows(g[i], g[i + 1])

IInv == TypeOK /\ WireInv /\ ReaderInv /\ GotInv /\ ReadsWhatWasWritten

-----------------------------------------------------------------------------
(* Units and sequences of them *)

LEMMA UnitFields ==
    ASSUME NEW u \in Unit
    PROVE  /\ u.part \in {"salt", "header", "body"} /\ u.frame \in Nat /\ u.frame > 0
           /\ u.frame <= MaxFrames /\ u.nonce \in Nat /\ u.at \in {1, 2}
           /\ u = [part |-> u.part, frame |-> u.frame, nonce |-> u.nonce, at |-> u.at]
BY MaxFramesAssumption DEF Unit, Units

LEMMA Element ==
    ASSUME NEW w \in Seq(Unit), NEW i \in 1..Len(w)
    PROVE  w[i] \in Unit
OBVIOUS

LEMMA PartUnits ==
    ASSUME NEW p \in {"salt", "header", "body"}, NEW f \in 1..MaxFrames,
           NEW n \in 0..2 * MaxFrames
    PROVE  /\ Part(p, f, n) \in Seq(Unit) /\ Len(Part(p, f, n)) = 2
           /\ Part(p, f, n)[1] = [part |-> p, frame |-> f, nonce |-> n, at |-> 1]
           /\ Part(p, f, n)[2] = [part |-> p, frame |-> f, nonce |-> n, at |-> 2]
BY MaxFramesAssumption DEF Part, Unit, Units

(* A part put behind a chain that it may follow makes a chain.              *)
LEMMA Extend ==
    ASSUME NEW s, NEW w \in Seq(Unit), w # <<>>, Chain(s, w),
           NEW p \in {"salt", "header", "body"}, NEW f \in 1..MaxFrames,
           NEW n \in 0..2 * MaxFrames,
           Succeeds(s, w[Len(w)], [part |-> p, frame |-> f, nonce |-> n, at |-> 1])
    PROVE  LET x == w \o Part(p, f, n)
           IN /\ x \in Seq(Unit) /\ Len(x) = Len(w) + 2 /\ x # <<>>
              /\ x[1] = w[1]
              /\ \A i \in 1..Len(w) : x[i] = w[i]
              /\ x[Len(w) + 1] = [part |-> p, frame |-> f, nonce |-> n, at |-> 1]
              /\ x[Len(x)] = [part |-> p, frame |-> f, nonce |-> n, at |-> 2]
              /\ Chain(s, x)
<1> DEFINE t == Part(p, f, n)
           x == w \o t
           u == [part |-> p, frame |-> f, nonce |-> n, at |-> 1]
           v == [part |-> p, frame |-> f, nonce |-> n, at |-> 2]
<1>1. t \in Seq(Unit) /\ Len(t) = 2 /\ t[1] = u /\ t[2] = v
  BY PartUnits
<1> HIDE DEF t
<1>2. Len(w) \in Nat /\ Len(w) > 0
  OBVIOUS
<1>3. /\ x \in Seq(Unit) /\ Len(x) = Len(w) + 2
      /\ \A i \in 1..Len(w) + 2 : x[i] = IF i <= Len(w) THEN w[i] ELSE t[i - Len(w)]
  <2>1. /\ w \o t \in Seq(Unit) /\ Len(w \o t) = Len(w) + Len(t)
        /\ \A i \in 1..Len(w) + Len(t) :
             (w \o t)[i] = IF i <= Len(w) THEN w[i] ELSE t[i - Len(w)]
    BY <1>1, ConcatProperties, Zenon
  <2> QED
    BY <1>1, <2>1
<1>4. /\ \A i \in 1..Len(w) : x[i] = w[i]
      /\ x[Len(w) + 1] = u /\ x[Len(w) + 2] = v
  BY <1>1, <1>2, <1>3
<1> HIDE DEF x
<1>5. Chain(s, x)
  <2>1. SUFFICES ASSUME NEW i \in 1..Len(x) - 1 PROVE Succeeds(s, x[i], x[i + 1])
    BY DEF Chain
  <2>2. CASE i < Len(w)
    <3>1. x[i] = w[i] /\ x[i + 1] = w[i + 1] /\ i \in 1..Len(w) - 1
      BY <1>2, <1>4, <2>2
    <3> QED
      BY <3>1 DEF Chain
  <2>3. CASE i = Len(w)
    <3>1. x[i] = w[Len(w)] /\ x[i + 1] = u
      BY <1>2, <1>4, <2>3
    <3> QED
      BY <3>1
  <2>4. CASE i = Len(w) + 1
    <3>1. x[i] = u /\ x[i + 1] = v
      BY <1>2, <1>4, <2>4
    <3> QED
      BY SMTT(30), <3>1 DEF Succeeds, EndsFrame
  <2> QED
    BY <1>2, <1>3, <2>2, <2>3, <2>4
<1>6. x # <<>> /\ x[1] = w[1]
  BY <1>2, <1>3, <1>4
<1> QED
  BY <1>2, <1>3, <1>4, <1>5, <1>6 DEF x, t

(* Frames sent later do not change what follows what.                       *)
LEMMA LaterKinds ==
    ASSUME TypeOK, WireInv, NEW k \in Kinds
    PROVE  Chain(Append(sent, k), wire)
<1> DEFINE s == Append(sent, k)
<1>1. SUFFICES ASSUME NEW i \in 1..Len(wire) - 1
               PROVE  Succeeds(s, wire[i], wire[i + 1])
  BY DEF Chain
<1>2. wire[i] \in Unit /\ wire[i].frame \in 1..Len(sent)
  <2>1. wire \in Seq(Unit) /\ i \in 1..Len(wire) /\ Len(sent) \in Nat
    BY DEF TypeOK
  <2>2. wire[i] \in Unit /\ wire[i].frame <= Len(sent)
    BY <2>1, Element DEF WireInv
  <2> QED
    BY SMTT(30), <2>1, <2>2, UnitFields
<1>3. s[wire[i].frame] = sent[wire[i].frame]
  BY <1>2 DEF TypeOK
<1>4. Succeeds(sent, wire[i], wire[i + 1])
  BY DEF WireInv, Chain
<1> QED
  BY <1>3, <1>4 DEF Succeeds, EndsFrame

-----------------------------------------------------------------------------
(* The writer *)

(* The wire up to the header of the next frame *)
LEMMA UpToHeader ==
    ASSUME TypeOK, WireInv, Len(sent) < MaxFrames, NEW k \in Kinds
    PROVE  LET f == Len(sent) + 1
               w == wire \o Salt(f)
               s == Append(sent, k)
           IN /\ w \in Seq(Unit) /\ w # <<>> /\ Chain(s, w) /\ Begins(w)
              /\ Len(w) >= Len(wire)
              /\ \A i \in 1..Len(wire) : w[i] = wire[i]
              /\ \A i \in 1..Len(w) : w[i].frame <= f
              /\ Succeeds(s, w[Len(w)],
                          [part |-> "header", frame |-> f, nonce |-> wnonce, at |-> 1])
<1> DEFINE f == Len(sent) + 1
           w == wire \o Salt(f)
           s == Append(sent, k)
<1>0. Len(sent) \in Nat /\ f \in 1..MaxFrames /\ wire \in Seq(Unit) /\ Len(wire) \in Nat
  BY MaxFramesAssumption DEF TypeOK
<1>1. CASE sent = <<>>
  <2>1. wire = <<>> /\ wnonce = 0 /\ f = 1
    BY <1>1 DEF WireInv
  <2>2. w = Part("salt", 1, 0)
    BY <2>1, <1>0, PartUnits, MaxFramesAssumption DEF Salt
  <2>3. /\ w \in Seq(Unit) /\ Len(w) = 2
        /\ w[1] = [part |-> "salt", frame |-> 1, nonce |-> 0, at |-> 1]
        /\ w[2] = [part |-> "salt", frame |-> 1, nonce |-> 0, at |-> 2]
    BY <1>0, <2>1, <2>2, PartUnits, MaxFramesAssumption
  <2> HIDE DEF w, s
  <2>4. Chain(s, w) /\ Succeeds(s, w[2], [part |-> "header", frame |-> 1, nonce |-> 0, at |-> 1])
    <3>1. Succeeds(s, w[1], w[2])
      <4>1. /\ w[1].at = 1 /\ w[1].part = "salt"
            /\ w[2] = [w[1] EXCEPT !.at = 2]
        BY <2>3
      <4> QED
        BY <4>1 DEF Succeeds, EndsFrame
    <3>2. Succeeds(s, w[2], [part |-> "header", frame |-> 1, nonce |-> 0, at |-> 1])
      <4>1. w[2].at = 2 /\ w[2].part = "salt"
        BY <2>3
      <4> QED
        BY <4>1 DEF Succeeds, EndsFrame
    <3>3. \A i \in 1..Len(w) - 1 : i = 1
      BY <2>3
    <3> QED
      BY <3>1, <3>2, <3>3 DEF Chain
  <2>5. Begins(w) /\ w # <<>>
    BY SMTT(30), <2>3 DEF Begins
  <2>6. \A i \in 1..Len(w) : w[i].frame <= f
    <3>1. \A i \in 1..Len(w) : i = 1 \/ i = 2
      BY <2>3
    <3>2. w[1].frame = 1 /\ w[2].frame = 1
      BY <2>3
    <3> QED
      BY <2>1, <3>1, <3>2
  <2> QED
    BY <2>1, <2>3, <2>4, <2>5, <2>6 DEF w, s
<1>2. CASE sent # <<>>
  <2>1. f # 1 /\ w = wire /\ Begins(wire)
    BY SMTT(30), <1>0, <1>2 DEF TypeOK, WireInv, Salt
  <2>2. Chain(s, wire)
    BY LaterKinds
  <2>3. /\ EndsFrame(sent, wire[Len(wire)]) /\ wire[Len(wire)].frame = Len(sent)
        /\ wire[Len(wire)].nonce + 1 = wnonce
    BY <1>2 DEF WireInv
  <2>4. Len(wire) > 0 /\ wire[Len(wire)] \in Unit
    BY <1>0, <2>1, Element DEF Begins
  <2>5. s[wire[Len(wire)].frame] = sent[wire[Len(wire)].frame]
    BY <1>0, <1>2, <2>3 DEF TypeOK
  <2>6. Succeeds(s, wire[Len(wire)],
                 [part |-> "header", frame |-> f, nonce |-> wnonce, at |-> 1])
    BY <2>3, <2>4, <2>5, UnitFields DEF Succeeds, EndsFrame
  <2>7. \A i \in 1..Len(wire) : wire[i].frame <= f
    <3>1. SUFFICES ASSUME NEW i \in 1..Len(wire) PROVE wire[i].frame <= f
      OBVIOUS
    <3>2. wire[i].frame <= Len(sent) /\ wire[i].frame \in Nat
      BY <1>0, Element, UnitFields DEF WireInv
    <3> QED
      BY <1>0, <3>2
  <2> QED
    <3>1. wire # <<>>
      BY <2>1 DEF Begins
    <3> HIDE DEF w, s
    <3>2. /\ w \in Seq(Unit) /\ w # <<>> /\ Chain(s, w) /\ Begins(w)
          /\ Len(w) >= Len(wire)
          /\ \A i \in 1..Len(wire) : w[i] = wire[i]
          /\ \A i \in 1..Len(w) : w[i].frame <= f
          /\ Succeeds(s, w[Len(w)],
                      [part |-> "header", frame |-> f, nonce |-> wnonce, at |-> 1])
      BY <1>0, <2>1, <2>2, <2>6, <2>7, <3>1
    <3> QED
      BY <3>2 DEF w, s
<1> QED
  BY <1>1, <1>2

(* What is written goes behind what is on the wire, and the wire stays      *)
(* whole frames.                                                            *)
LEMMA Written ==
    ASSUME TypeOK, WireInv, NEW k \in Kinds, WriteFrame(k)
    PROVE  /\ sent' \in Seq(Kinds) /\ Len(sent') = Len(sent) + 1 /\ Len(sent') <= MaxFrames
           /\ \A i \in 1..Len(sent) : sent'[i] = sent[i]
           /\ wire' \in Seq(Unit) /\ Len(wire') >= Len(wire)
           /\ \A i \in 1..Len(wire) : wire'[i] = wire[i]
           /\ wnonce' \in 0..2 * MaxFrames
           /\ WireInv'
<1> DEFINE f == Len(sent) + 1
           w == wire \o Salt(f)
           s == Append(sent, k)
           h == w \o Part("header", f, wnonce)
           x == IF k = "data" THEN h \o Part("body", f, wnonce + 1) ELSE h
<1>1. /\ Len(sent) \in Nat /\ f \in 1..MaxFrames /\ wire \in Seq(Unit) /\ Len(wire) \in Nat
      /\ wnonce \in Nat /\ wnonce <= 2 * Len(sent)
      /\ wnonce \in 0..2 * MaxFrames /\ wnonce + 1 \in 0..2 * MaxFrames
      /\ wnonce + 2 \in 0..2 * MaxFrames
  BY MaxFramesAssumption DEF TypeOK, WireInv, WriteFrame
<1>2. /\ s \in Seq(Kinds) /\ Len(s) = f /\ s[f] = k /\ s # <<>>
      /\ \A i \in 1..Len(sent) : s[i] = sent[i]
  <2>1. sent \in Seq(Kinds)
    BY DEF TypeOK
  <2> QED
    BY <1>1, <2>1
<1>3. /\ w \in Seq(Unit) /\ w # <<>> /\ Chain(s, w) /\ Begins(w)
      /\ Len(w) >= Len(wire)
      /\ \A i \in 1..Len(wire) : w[i] = wire[i]
      /\ \A i \in 1..Len(w) : w[i].frame <= f
      /\ Succeeds(s, w[Len(w)],
                  [part |-> "header", frame |-> f, nonce |-> wnonce, at |-> 1])
  BY UpToHeader DEF WriteFrame
<1>4. sent' = s /\ wnonce' = wnonce + (IF k = "data" THEN 2 ELSE 1)
  BY DEF WriteFrame
<1>5. wire' = w \o Part("header", f, wnonce)
                \o (IF k = "data" THEN Part("body", f, wnonce + 1) ELSE <<>>)
  BY <1>2, <1>4 DEF WriteFrame
<1> HIDE DEF s, w
<1>6. /\ h \in Seq(Unit) /\ Len(h) = Len(w) + 2 /\ h # <<>> /\ h[1] = w[1]
      /\ \A i \in 1..Len(w) : h[i] = w[i]
      /\ h[Len(w) + 1] = [part |-> "header", frame |-> f, nonce |-> wnonce, at |-> 1]
      /\ h[Len(h)] = [part |-> "header", frame |-> f, nonce |-> wnonce, at |-> 2]
      /\ Chain(s, h)
  BY SMTT(30), <1>1, <1>3, Extend
<1> HIDE DEF h
<1>7. wire' = x
  <2>1. h \o <<>> = h
    BY <1>6
  <2> QED
    BY <1>5, <2>1 DEF h
<1>8. Len(w) \in Nat /\ Len(w) > 0
  BY <1>3
<1>9. /\ x \in Seq(Unit) /\ Len(x) >= Len(h) /\ x[1] = w[1] /\ Chain(s, x)
      /\ \A i \in 1..Len(h) : x[i] = h[i]
      /\ \A i \in Len(h) + 1..Len(x) : x[i].frame = f
      /\ EndsFrame(s, x[Len(x)]) /\ x[Len(x)].frame = f
      /\ x[Len(x)].nonce + 1 = wnonce'
  <2>1. CASE k = "data"
    <3> DEFINE b == h \o Part("body", f, wnonce + 1)
    <3>1. Succeeds(s, h[Len(h)], [part |-> "body", frame |-> f, nonce |-> wnonce + 1, at |-> 1])
      BY <1>2, <1>6, <2>1 DEF Succeeds, EndsFrame
    <3>2. wnonce + 1 \in 0..2 * MaxFrames /\ f \in 1..MaxFrames
      BY <1>1
    <3>3. /\ b \in Seq(Unit) /\ Len(b) = Len(h) + 2 /\ b[1] = h[1]
          /\ \A i \in 1..Len(h) : b[i] = h[i]
          /\ b[Len(h) + 1] = [part |-> "body", frame |-> f, nonce |-> wnonce + 1, at |-> 1]
          /\ b[Len(b)] = [part |-> "body", frame |-> f, nonce |-> wnonce + 1, at |-> 2]
          /\ Chain(s, b)
      BY SMTT(30), <1>6, <3>1, <3>2, Extend
    <3>4. x = b
      BY <2>1
    <3> HIDE DEF b, x
    <3>5. \A i \in Len(h) + 1..Len(b) : b[i].frame = f
      BY <1>6, <1>8, <3>3
    <3>6. EndsFrame(s, b[Len(b)]) /\ b[Len(b)].frame = f /\ b[Len(b)].nonce + 1 = wnonce'
      BY <1>1, <1>4, <2>1, <3>3 DEF EndsFrame
    <3>7. b[1] = w[1] /\ Len(b) >= Len(h)
      BY <1>6, <1>8, <3>3
    <3> QED
      BY <3>3, <3>4, <3>5, <3>6, <3>7
  <2>2. CASE k = "zero"
    <3>1. x = h
      BY <2>2
    <3> QED
      BY SMTT(30), <1>1, <1>2, <1>4, <1>6, <1>8, <2>2, <3>1 DEF EndsFrame
  <2> QED
    BY <2>1, <2>2 DEF Kinds
<1> HIDE DEF x
<1>10. /\ \A i \in 1..Len(wire) : x[i] = wire[i]
       /\ Len(x) >= Len(wire)
       /\ \A i \in 1..Len(x) : x[i].frame <= f
  <2>1. ASSUME NEW i \in 1..Len(wire) PROVE x[i] = wire[i]
    <3>1. i \in 1..Len(w) /\ i \in 1..Len(h)
      BY SMTT(30), <1>1, <1>3, <1>6, <1>8
    <3>2. x[i] = h[i] /\ h[i] = w[i] /\ w[i] = wire[i]
      BY <1>3, <1>6, <1>9, <3>1
    <3> QED
      BY <3>2
  <2>2. ASSUME NEW i \in 1..Len(x) PROVE x[i].frame <= f
    <3>1. CASE i <= Len(w)
      <4>1. i \in 1..Len(w) /\ i \in 1..Len(h)
        BY <1>6, <1>8, <1>9, <3>1
      <4>2. x[i] = w[i] /\ w[i].frame <= f
        BY <1>3, <1>6, <1>9, <4>1
      <4> QED
        BY <4>2
    <3>2. CASE i = Len(w) + 1 \/ i = Len(w) + 2
      <4>1. i \in 1..Len(h) /\ h[i].frame = f
        BY <1>6, <1>8, <3>2
      <4>2. x[i].frame = f
        BY <1>9, <4>1
      <4> QED
        BY <1>1, <4>2
    <3>3. CASE i > Len(w) + 2
      <4>1. i \in Len(h) + 1..Len(x)
        BY <1>6, <1>8, <1>9, <3>3
      <4>2. x[i].frame = f
        BY <1>9, <4>1
      <4> QED
        BY <1>1, <4>2
    <3> QED
      BY <1>8, <3>1, <3>2, <3>3
  <2> QED
    BY <1>1, <1>3, <1>6, <1>8, <1>9, <2>1, <2>2
<1>11. wnonce' \in 0..2 * MaxFrames /\ wnonce' <= 2 * Len(s)
  BY <1>1, <1>2, <1>4
<1>12. WireInv'
  <2>1. Begins(x)
    BY <1>3, <1>6, <1>8, <1>9 DEF Begins
  <2> QED
    BY SMTT(30), <1>2, <1>4, <1>7, <1>9, <1>10, <1>11, <2>1 DEF WireInv
<1> QED
  BY SMTT(30), <1>1, <1>2, <1>4, <1>7, <1>9, <1>10, <1>11, <1>12

-----------------------------------------------------------------------------
(* The reader *)

LEMMA Positions ==
    ASSUME TypeOK, taken <= pos
    PROVE  /\ pos \in Nat /\ taken \in 0..2 /\ Base \in Nat /\ pos = Base + taken
           /\ Len(wire) \in Nat /\ pos <= Len(wire) /\ Len(sent) \in Nat
           /\ \A i \in 1..Len(wire) : wire[i] \in Unit
<1>1. wire \in Seq(Unit) /\ Len(wire) \in Nat /\ sent \in Seq(Kinds)
      /\ filled \in 0..Len(wire) /\ pos \in 0..filled /\ taken \in 0..2
  BY DEF TypeOK, Units
<1>2. \A i \in 1..Len(wire) : wire[i] \in Unit
  BY <1>1, Element
<1> QED
  BY <1>1, <1>2 DEF Base

(* The two units of the part that has been taken *)
LEMMA PartTaken ==
    ASSUME TypeOK, WireInv, taken = 2, taken <= pos
    PROVE  /\ pos = Base + 2 /\ Base \in Nat
           /\ Base + 1 \in 1..Len(wire) /\ pos \in 1..Len(wire)
           /\ wire[Base + 1] \in Unit /\ wire[pos] \in Unit
           /\ Base > 0 => wire[Base] \in Unit /\ Succeeds(sent, wire[Base], wire[Base + 1])
           /\ Base = 0 => wire[Base + 1] = [part |-> "salt", frame |-> 1, nonce |-> 0, at |-> 1]
           /\ Succeeds(sent, wire[Base + 1], wire[pos])
           /\ \A p, n : Whole(p, n) <=>
                /\ wire[Base + 1].part = p /\ wire[Base + 1].nonce = n /\ wire[Base + 1].at = 1
                /\ wire[pos].part = p /\ wire[pos].nonce = n /\ wire[pos].at = 2
<1>1. /\ pos = Base + 2 /\ Base \in Nat /\ pos <= Len(wire) /\ Len(wire) \in Nat
      /\ \A i \in 1..Len(wire) : wire[i] \in Unit
  BY Positions
<1>2. Base + 1 \in 1..Len(wire) /\ pos \in 1..Len(wire)
  BY <1>1
<1>3. wire[Base + 1] \in Unit /\ wire[pos] \in Unit
  BY <1>1, <1>2
<1>4. Succeeds(sent, wire[Base + 1], wire[pos])
  <2>1. Base + 1 \in 1..Len(wire) - 1
    BY <1>1
  <2> QED
    BY <1>1, <2>1 DEF WireInv, Chain
<1>5. Base > 0 => wire[Base] \in Unit /\ Succeeds(sent, wire[Base], wire[Base + 1])
  <2>1. Base > 0 => Base \in 1..Len(wire) - 1 /\ Base \in 1..Len(wire)
    BY <1>1
  <2> QED
    BY <1>1, <2>1 DEF WireInv, Chain
<1>6. Base = 0 => wire[Base + 1] = [part |-> "salt", frame |-> 1, nonce |-> 0, at |-> 1]
  <2>1. sent # <<>>
    BY <1>1 DEF WireInv
  <2> QED
    BY <2>1 DEF WireInv, Begins
<1>7. ASSUME NEW p, NEW n
      PROVE  Whole(p, n) <=>
                /\ wire[Base + 1].part = p /\ wire[Base + 1].nonce = n /\ wire[Base + 1].at = 1
                /\ wire[pos].part = p /\ wire[pos].nonce = n /\ wire[pos].at = 2
  <2>1. pos - 2 + 1 = Base + 1 /\ pos - 2 + 2 = pos
    BY <1>1
  <2>2. Whole(p, n) <=> \A i \in {1, 2} :
            /\ wire[pos - 2 + i].part = p /\ wire[pos - 2 + i].nonce = n
            /\ wire[pos - 2 + i].at = i
    <3>1. 1..2 = {1, 2}
      OBVIOUS
    <3> QED
      BY <3>1 DEF Whole, Units
  <2> QED
    BY <2>1, <2>2
<1> QED
  BY <1>1, <1>2, <1>3, <1>4, <1>5, <1>6, <1>7

(* No salt comes behind a whole part.                                       *)
LEMMA NoLaterSalt ==
    ASSUME TypeOK, WireInv, NEW i \in 1..Len(wire) - 1, wire[i].at = 2
    PROVE  wire[i + 1].part # "salt"
<1>1. wire[i] \in Unit /\ i \in 1..Len(wire) /\ Succeeds(sent, wire[i], wire[i + 1])
  BY Element DEF TypeOK, WireInv, Chain
<1>2. wire[i].part = "salt" \/ wire[i].part = "body" \/ wire[i].part = "header"
  BY <1>1, UnitFields
<1>3. sent[wire[i].frame] \in Kinds
  <2>1. Len(sent) \in Nat /\ wire[i].frame \in Nat /\ wire[i].frame > 0
        /\ wire[i].frame <= Len(sent)
    <3>1. Len(sent) \in Nat
      BY DEF TypeOK
    <3>2. wire[i].frame <= Len(sent)
      BY <1>1 DEF WireInv
    <3> QED
      BY <1>1, <3>1, <3>2, UnitFields
  <2> QED
    BY SMTT(30), <2>1 DEF TypeOK
<1> QED
  BY <1>1, <1>2, <1>3 DEF Succeeds, EndsFrame, Kinds

LEMMA SaltFrame ==
    ASSUME TypeOK, WireInv, NEW i \in 1..Len(wire), wire[i].part = "salt"
    PROVE  wire[i].frame = 1
<1>1. Len(wire) \in Nat /\ \A j \in 1..Len(wire) : wire[j] \in Unit
  BY Element DEF TypeOK
<1>2. wire[1].frame = 1 /\ wire[1].at = 1
  <2>1. sent # <<>>
    BY <1>1 DEF WireInv
  <2> QED
    BY <2>1 DEF WireInv, Begins
<1>3. CASE i = 1
  BY <1>2, <1>3
<1>4. CASE i > 1
  <2> DEFINE j == i - 1
  <2>1. j \in 1..Len(wire) - 1 /\ j \in 1..Len(wire) /\ j + 1 = i
    BY <1>1, <1>4
  <2> HIDE DEF j
  <2>2. wire[j] \in Unit /\ wire[j].at = 1
    BY <1>1, <2>1, NoLaterSalt, UnitFields
  <2>3. wire[i] = [wire[j] EXCEPT !.at = 2]
    BY <2>1, <2>2 DEF WireInv, Chain, Succeeds
  <2>4. wire[j].part = "salt" /\ wire[j].frame = wire[i].frame
    BY <2>2, <2>3 DEF Unit
  <2>5. j = 1
    <3>1. SUFFICES ASSUME j > 1 PROVE FALSE
      BY <2>1
    <3> DEFINE l == j - 1
    <3>2. l \in 1..Len(wire) - 1 /\ l \in 1..Len(wire) /\ l + 1 = j
      BY <1>1, <2>1, <3>1
    <3> HIDE DEF l
    <3>3. wire[l] \in Unit /\ wire[l].at = 1
      BY <1>1, <2>4, <3>2, NoLaterSalt, UnitFields
    <3>4. wire[j] = [wire[l] EXCEPT !.at = 2]
      BY <3>2, <3>3 DEF WireInv, Chain, Succeeds
    <3> QED
      BY <2>2, <3>3, <3>4 DEF Unit
  <2> QED
    BY <1>2, <2>4, <2>5
<1> QED
  BY <1>1, <1>3, <1>4

(* In step, the part taken is the one that was expected, of the next frame. *)
LEMMA OpensInStep ==
    ASSUME IInv, ~lost, taken = 2, need # "none"
    PROVE  /\ need = "salt" => Whole("salt", 0) /\ wire[pos].part = "salt" /\ wire[pos].frame = 1
           /\ need \in {"header", "body"} =>
                /\ r = "good" /\ Whole(need, rnonce)
                /\ wire[pos].part = need /\ wire[pos].nonce = rnonce
                /\ wire[pos].frame = Passed + 1
           /\ need = "body" => sent[wire[pos].frame] = "data"
           /\ wire[pos].at = 2
<1>1. TypeOK /\ WireInv /\ taken <= pos /\ InStep
  BY DEF IInv, ReaderInv
<1>2. /\ pos = Base + 2 /\ Base \in Nat
      /\ wire[Base + 1] \in Unit /\ wire[pos] \in Unit
      /\ Base > 0 => wire[Base] \in Unit /\ Succeeds(sent, wire[Base], wire[Base + 1])
      /\ Base = 0 => wire[Base + 1] = [part |-> "salt", frame |-> 1, nonce |-> 0, at |-> 1]
      /\ Succeeds(sent, wire[Base + 1], wire[pos])
      /\ \A p, n : Whole(p, n) <=>
           /\ wire[Base + 1].part = p /\ wire[Base + 1].nonce = n /\ wire[Base + 1].at = 1
           /\ wire[pos].part = p /\ wire[pos].nonce = n /\ wire[pos].at = 2
  BY <1>1, PartTaken
<1> DEFINE u == wire[Base + 1]
<1>3. u.at = 1 => /\ wire[pos].part = u.part /\ wire[pos].frame = u.frame
                  /\ wire[pos].nonce = u.nonce /\ wire[pos].at = 2
  <2>1. u.at = 1 => wire[pos] = [u EXCEPT !.at = 2]
    BY <1>2 DEF Succeeds
  <2> QED
    BY <1>2, <2>1 DEF Unit
<1> HIDE DEF u
<1>4. CASE need = "salt"
  <2>1. u.part = "salt" /\ u.frame = 1 /\ u.nonce = 0 /\ u.at = 1
    BY <1>1, <1>2, <1>4 DEF InStep, u
  <2> QED
    BY <1>2, <1>3, <1>4, <2>1 DEF u
<1>5. CASE need = "header"
  <2>1. BeforeHeader
    BY <1>1, <1>5 DEF InStep
  <2>2. Base > 0 /\ wire[Base] \in Unit /\ r = "good"
    BY <1>2, <2>1 DEF BeforeHeader
  <2>3. u = [part |-> "header", frame |-> Passed + 1, nonce |-> rnonce, at |-> 1]
    <3>1. CASE wire[Base].part = "salt" /\ rnonce = 0
      <4>1. u = [part |-> "header", frame |-> 1, nonce |-> 0, at |-> 1]
        BY <1>2, <2>1, <2>2, <3>1 DEF BeforeHeader, Succeeds, u
      <4>2. wire[Base].frame = 1
        <5>1. Base \in 1..Len(wire)
          BY <1>1, <2>2, Positions
        <5> QED
          BY <1>1, <3>1, <5>1, SaltFrame
      <4>3. Passed = 0
        BY <2>2, <3>1, <4>2 DEF Passed, EndsFrame
      <4> QED
        BY <3>1, <4>1, <4>3
    <3>2. CASE EndsFrame(sent, wire[Base]) /\ rnonce = wire[Base].nonce + 1
      <4>1. u = [part |-> "header", frame |-> wire[Base].frame + 1,
                 nonce |-> wire[Base].nonce + 1, at |-> 1]
        BY <1>2, <2>2, <3>2 DEF Succeeds, u
      <4>2. Passed = wire[Base].frame
        BY <2>2, <3>2 DEF Passed
      <4> QED
        BY <3>2, <4>1, <4>2
    <3> QED
      BY <2>1, <3>1, <3>2 DEF BeforeHeader
  <2> QED
    BY <1>2, <1>3, <1>5, <2>2, <2>3 DEF u
<1>6. CASE need = "body"
  <2>1. /\ r = "good" /\ Base > 0 /\ wire[Base].at = 2 /\ wire[Base].part = "header"
        /\ sent[wire[Base].frame] = "data" /\ rnonce = wire[Base].nonce + 1
        /\ wire[Base] \in Unit
    BY <1>1, <1>2, <1>6 DEF InStep
  <2>2. u = [part |-> "body", frame |-> wire[Base].frame, nonce |-> rnonce, at |-> 1]
    BY <1>2, <2>1 DEF Succeeds, u
  <2>3. Passed = wire[Base].frame - 1 /\ wire[Base].frame \in Nat
    BY <2>1, UnitFields DEF Passed, EndsFrame
  <2> QED
    BY <1>2, <1>3, <1>6, <2>1, <2>2, <2>3 DEF u
<1> QED
  BY <1>1, <1>4, <1>5, <1>6 DEF TypeOK

(* Out of step, no part opens.                                              *)
LEMMA NothingOpens ==
    ASSUME IInv, lost, taken = 2, need # "none"
    PROVE  /\ need \in {"salt", "header"} /\ phase = "drain"
           /\ need = "salt" => ~Whole("salt", 0)
           /\ need = "header" => ~(r = "good" /\ Whole("header", rnonce))
<1>1. TypeOK /\ WireInv /\ taken <= pos /\ OutOfStep
  BY DEF IInv, ReaderInv
<1>2. need \in {"salt", "header"} /\ phase = "drain" /\ Base > 0
  BY <1>1 DEF TypeOK, OutOfStep
<1>3. /\ wire[Base + 1] \in Unit /\ wire[Base] \in Unit
      /\ Succeeds(sent, wire[Base], wire[Base + 1])
      /\ \A p, n : Whole(p, n) => wire[Base + 1].part = p /\ wire[Base + 1].at = 1
  BY <1>1, <1>2, PartTaken
<1>4. wire[Base].at = 1 => wire[Base + 1].at = 2
  BY <1>3 DEF Succeeds, Unit
<1>5. wire[Base].at = 2 => wire[Base + 1].part # "salt"
  <2>1. Base \in 1..Len(wire) - 1
    BY <1>1, <1>2, Positions
  <2> QED
    BY <1>1, <2>1, NoLaterSalt
<1>6. need = "salt" => ~Whole("salt", 0)
  BY <1>3, <1>4, <1>5, UnitFields
<1>7. need = "header" => ~(r = "good" /\ Whole("header", rnonce))
  <2>1. SUFFICES ASSUME r = "good" PROVE wire[Base + 1].part # "header" \/ wire[Base + 1].at # 1
    BY <1>3
  <2>2. CASE wire[Base].at = 1
    BY <1>4, <2>2
  <2>3. CASE wire[Base].at = 2 /\ wire[Base].part = "header" /\ sent[wire[Base].frame] = "data"
    BY <1>3, <2>3 DEF Succeeds
  <2> QED
    BY <1>1, <1>2, <2>1, <2>2, <2>3 DEF OutOfStep
<1> QED
  BY <1>2, <1>6, <1>7

-----------------------------------------------------------------------------
(* The steps *)

LEMMA InitIInv ==
    Init => IInv
<1> SUFFICES ASSUME Init PROVE IInv
  OBVIOUS
<1>1. TypeOK
  <2>1. /\ sent \in Seq(Kinds) /\ Len(sent) <= MaxFrames
        /\ wire \in Seq(Unit) /\ Len(wire) = 0
        /\ got \in Seq((1..MaxFrames) \X (0..Units))
    BY MaxFramesAssumption DEF Init
  <2> QED
    <3>1. /\ filled = 0 /\ pos = 0 /\ wnonce = 0 /\ rnonce = 0 /\ buf = 0 /\ frame = 0
          /\ taken = 0 /\ r = "none" /\ need = "none" /\ phase = "relay"
          /\ dl = FALSE /\ lost = FALSE
      BY DEF Init
    <3>2. /\ wnonce \in 0..2 * MaxFrames /\ frame \in 0..MaxFrames
          /\ filled \in 0..Len(wire) /\ pos \in 0..filled
          /\ taken \in 0..Units /\ buf \in 0..Units
      BY <2>1, <3>1, MaxFramesAssumption DEF Units
    <3> QED
      BY <2>1, <3>1, <3>2 DEF TypeOK
<1>2. WireInv
  BY DEF Init, WireInv, Chain
<1>3. ReaderInv
  BY DEF Init, ReaderInv, InStep, Base
<1>4. GotInv
  BY DEF Init, GotInv, Latest, Passed, Base
<1>5. ReadsWhatWasWritten
  BY DEF Init, ReadsWhatWasWritten
<1> QED
  BY <1>1, <1>2, <1>3, <1>4, <1>5 DEF IInv

LEMMA WriteFrameStep ==
    ASSUME IInv, NEW k \in Kinds, WriteFrame(k)
    PROVE  IInv'
<1>1. TypeOK /\ WireInv /\ ReaderInv /\ taken <= pos
  BY DEF IInv, ReaderInv
<1>2. /\ sent' \in Seq(Kinds) /\ Len(sent') = Len(sent) + 1 /\ Len(sent') <= MaxFrames
      /\ \A i \in 1..Len(sent) : sent'[i] = sent[i]
      /\ wire' \in Seq(Unit) /\ Len(wire') >= Len(wire)
      /\ \A i \in 1..Len(wire) : wire'[i] = wire[i]
      /\ wnonce' \in 0..2 * MaxFrames
      /\ WireInv'
  BY <1>1, Written
<1>3. UNCHANGED <<filled, pos, r, rnonce, buf, frame, need, taken, dl, phase, got, lost>>
  BY DEF WriteFrame, reader
<1>4. Len(sent) \in Nat /\ Base \in Nat /\ Base <= Len(wire) /\ Len(wire') \in Nat /\ Len(wire) \in Nat
  BY <1>1, <1>2, Positions
<1>5. TypeOK'
  BY <1>1, <1>2, <1>3, <1>4 DEF TypeOK
<1>6. Base' = Base
  BY <1>3 DEF Base
<1>7. Base > 0 => /\ wire'[Base] = wire[Base]
                  /\ sent'[wire[Base].frame] = sent[wire[Base].frame]
                  /\ EndsFrame(sent', wire[Base]) <=> EndsFrame(sent, wire[Base])
  <2>1. SUFFICES ASSUME Base > 0
                 PROVE  /\ wire'[Base] = wire[Base]
                        /\ sent'[wire[Base].frame] = sent[wire[Base].frame]
                        /\ EndsFrame(sent', wire[Base]) <=> EndsFrame(sent, wire[Base])
    OBVIOUS
  <2>2. Base \in 1..Len(wire) /\ wire[Base] \in Unit
    BY <1>1, <1>4, <2>1, Positions
  <2>3. wire[Base].frame <= Len(sent)
    BY <1>1, <2>2 DEF WireInv
  <2>4. wire[Base].frame \in 1..Len(sent)
    BY <1>4, <2>2, <2>3, UnitFields
  <2>5. sent'[wire[Base].frame] = sent[wire[Base].frame]
    BY <1>2, <2>4
  <2> QED
    BY <1>2, <2>2, <2>5 DEF EndsFrame
<1>8. ReaderInv'
  <2>1. taken' <= pos' /\ (need' = "none" => taken' = 0)
    BY <1>1, <1>3 DEF ReaderInv
  <2>2. ~lost' => InStep'
    BY <1>1, <1>3, <1>6, <1>7 DEF ReaderInv, InStep, BeforeHeader, TypeOK
  <2>3. lost' => OutOfStep'
    BY <1>1, <1>3, <1>6, <1>7 DEF ReaderInv, OutOfStep
  <2> QED
    BY <2>1, <2>2, <2>3 DEF ReaderInv
<1>9. Passed' = Passed /\ Latest' = Latest
  <2>1. Passed' = Passed
    BY <1>4, <1>6, <1>7 DEF Passed
  <2>2. Latest' = Latest
    BY <1>3 DEF Latest
  <2> QED
    BY <2>1, <2>2
<1>10. \A i \in 1..Len(got) : got[i][1] \in 1..Len(sent)
  <2>1. SUFFICES ASSUME NEW i \in 1..Len(got) PROVE got[i][1] \in 1..Len(sent)
    OBVIOUS
  <2>2. got[i] \in (1..MaxFrames) \X (0..Units) /\ got[i][1] <= Len(sent)
    BY SMTT(30), <1>1 DEF TypeOK, IInv, GotInv
  <2> QED
    BY <1>4, <2>2, MaxFramesAssumption
<1>11. GotInv'
  <2>1. buf > 0 /\ ~lost => sent'[frame] = sent[frame]
    <3>1. SUFFICES ASSUME buf > 0, ~lost PROVE sent'[frame] = sent[frame]
      OBVIOUS
    <3>2. frame = Passed /\ frame > 0
      BY <3>1 DEF IInv, GotInv
    <3>3. Base > 0 /\ wire[Base] \in Unit /\ wire[Base].frame <= Len(sent)
      <4>1. Base > 0
        BY <1>4, <3>2 DEF Passed
      <4>2. Base \in 1..Len(wire)
        BY <1>4, <4>1
      <4> QED
        BY <1>1, <4>1, <4>2, Positions DEF WireInv
    <3>4. Passed <= Len(sent) /\ Passed \in Int
      BY <1>4, <3>3, UnitFields DEF Passed
    <3> QED
      BY <1>2, <1>4, <3>2, <3>4
  <2>2. \A i \in 1..Len(got') : got'[i][1] <= Len(sent')
    <3>1. SUFFICES ASSUME NEW i \in 1..Len(got) PROVE got[i][1] <= Len(sent')
      BY <1>3
    <3> QED
      BY <1>2, <1>4, <1>10
  <2> QED
    BY <1>3, <1>9, <2>1, <2>2 DEF IInv, GotInv
<1>12. ReadsWhatWasWritten'
  BY <1>2, <1>3, <1>10 DEF IInv, ReadsWhatWasWritten, Follows
<1> QED
  BY <1>2, <1>5, <1>8, <1>11, <1>12 DEF IInv

(* The reader leaves the wire as it is.                                     *)
LEMMA WireRests ==
    ASSUME IInv, UNCHANGED writer
    PROVE  /\ WireInv' /\ sent' = sent /\ wire' = wire /\ wnonce' = wnonce
           /\ sent \in Seq(Kinds) /\ Len(sent) <= MaxFrames /\ wnonce \in 0..2 * MaxFrames
           /\ wire \in Seq(Unit) /\ Len(wire) \in Nat
BY DEF IInv, TypeOK, WireInv, writer

(* ... and what was returned, when it returns nothing.                      *)
LEMMA NothingReturned ==
    ASSUME IInv, UNCHANGED <<writer, got>>
    PROVE  /\ ReadsWhatWasWritten' /\ Latest' = Latest
           /\ \A i \in 1..Len(got') : got'[i][1] <= Len(sent')
<1>1. UNCHANGED <<sent, wire, got>>
  BY DEF writer
<1> QED
  BY <1>1 DEF IInv, ReadsWhatWasWritten, Follows, Latest, GotInv

LEMMA FillStep ==
    IInv /\ Fill => IInv'
<1> SUFFICES ASSUME IInv, Fill PROVE IInv'
  OBVIOUS
<1>1. UNCHANGED <<sent, wnonce, wire, pos, r, rnonce, buf, frame, need, taken, dl, phase, got, lost>>
  BY DEF Fill, writer, reader
<1>2. WireInv' /\ ReadsWhatWasWritten'
  BY <1>1, WireRests, NothingReturned DEF writer
<1>3. filled' \in 0..Len(wire) /\ pos \in 0..filled'
  BY DEF Fill, IInv, TypeOK
<1>4. TypeOK'
  BY <1>1, <1>3 DEF IInv, TypeOK
<1>5. ReaderInv' /\ GotInv'
  BY <1>1 DEF IInv, ReaderInv, InStep, OutOfStep, BeforeHeader, Base, GotInv, Passed, Latest
<1> QED
  BY <1>2, <1>4, <1>5 DEF IInv

LEMMA TakeStep ==
    IInv /\ Take => IInv'
<1> SUFFICES ASSUME IInv, Take PROVE IInv'
  OBVIOUS
<1>1. /\ UNCHANGED <<sent, wnonce, wire, filled, r, rnonce, buf, frame, need, dl, phase, got, lost>>
      /\ need # "none" /\ pos' = pos + 1 /\ taken' = taken + 1
  BY DEF Take, writer, reader
<1>2. WireInv' /\ ReadsWhatWasWritten'
  BY <1>1, WireRests, NothingReturned DEF writer
<1>3. /\ pos' \in 0..filled /\ taken' \in 0..Units /\ pos \in Nat /\ taken \in Nat
      /\ taken <= pos /\ taken' <= pos'
  BY <1>1 DEF Take, IInv, TypeOK, ReaderInv, Units
<1>4. TypeOK'
  BY <1>1, <1>3 DEF IInv, TypeOK
<1>5. Base' = Base
  BY <1>1, <1>3 DEF Base
<1>6. ReaderInv'
  BY <1>1, <1>3, <1>5 DEF IInv, ReaderInv, InStep, OutOfStep, BeforeHeader
<1>7. Passed' = Passed /\ Latest' = Latest
  BY <1>1, <1>5 DEF Passed, Latest
<1>8. GotInv'
  BY <1>1, <1>7 DEF IInv, GotInv
<1> QED
  BY <1>2, <1>4, <1>6, <1>8 DEF IInv

LEMMA DeadlineStep ==
    IInv /\ Deadline => IInv'
<1> SUFFICES ASSUME IInv, Deadline PROVE IInv'
  OBVIOUS
<1>1. /\ UNCHANGED <<sent, wnonce, wire, filled, pos, r, rnonce, buf, frame, need, taken, phase, got, lost>>
      /\ dl' \in BOOLEAN
  BY DEF Deadline, writer, reader
<1>2. WireInv' /\ ReadsWhatWasWritten'
  BY <1>1, WireRests, NothingReturned DEF writer
<1>3. TypeOK'
  BY <1>1 DEF IInv, TypeOK
<1>4. ReaderInv'
  BY <1>1 DEF IInv, ReaderInv, InStep, OutOfStep, BeforeHeader, Base
<1>5. GotInv'
  BY <1>1 DEF IInv, GotInv, Passed, Latest, Base
<1> QED
  BY <1>2, <1>3, <1>4, <1>5 DEF IInv

LEMMA ReadNextStep ==
    IInv /\ ReadNext => IInv'
<1> SUFFICES ASSUME IInv, ReadNext PROVE IInv'
  OBVIOUS
<1>1. /\ UNCHANGED <<sent, wnonce, wire, filled, pos, r, rnonce, buf, frame, dl, phase, got, lost>>
      /\ need = "none" /\ buf = 0 /\ phase # "done"
      /\ need' = (IF r = "none" THEN "salt" ELSE "header") /\ taken' = 0
  BY DEF ReadNext, Expect, writer, reader
<1>2. WireInv' /\ ReadsWhatWasWritten'
  BY <1>1, WireRests, NothingReturned DEF writer
<1>3. need' \in {"none", "salt", "header", "body"} /\ taken' \in 0..Units
  BY <1>1 DEF Units
<1>4. TypeOK'
  BY <1>1, <1>3 DEF IInv, TypeOK
<1>5. taken = 0 /\ pos \in Nat
  BY <1>1 DEF IInv, ReaderInv, TypeOK
<1>6. Base' = Base
  BY <1>1, <1>5 DEF Base
<1>7. ReaderInv'
  <2>1. taken' <= pos' /\ (need' = "none" => taken' = 0)
    BY <1>1, <1>5
  <2>2. ~lost' => InStep'
    BY <1>1, <1>6 DEF IInv, ReaderInv, InStep, BeforeHeader
  <2>3. lost' => OutOfStep'
    BY <1>1, <1>6 DEF IInv, ReaderInv, OutOfStep, TypeOK
  <2> QED
    BY <2>1, <2>2, <2>3 DEF ReaderInv
<1>8. Passed' = Passed /\ Latest' = Latest
  BY <1>1, <1>6 DEF Passed, Latest
<1>9. GotInv'
  BY <1>1, <1>8 DEF IInv, GotInv
<1> QED
  BY <1>2, <1>4, <1>7, <1>9 DEF IInv

LEMMA SaltReadStep ==
    IInv /\ SaltRead => IInv'
<1> SUFFICES ASSUME IInv, SaltRead PROVE IInv'
  OBVIOUS
<1>1. /\ UNCHANGED <<sent, wnonce, wire, filled, pos, rnonce, buf, frame, dl, phase, got, lost>>
      /\ need = "salt" /\ taken = 2 /\ need' = "header" /\ taken' = 0
      /\ r' = IF Whole("salt", 0) THEN "good" ELSE "bad"
  BY DEF SaltRead, Reading, Expect, writer, Units
<1>2. WireInv' /\ ReadsWhatWasWritten' /\ Latest' = Latest
  BY <1>1, WireRests, NothingReturned DEF writer
<1>3. TypeOK'
  <2>1. taken' \in 0..Units /\ r' \in {"none", "good", "bad"}
    BY <1>1 DEF Units
  <2> QED
    BY <1>1, <2>1 DEF IInv, TypeOK
<1>4. pos = Base + 2 /\ Base \in Nat /\ Base' = pos
  BY <1>1, PartTaken DEF IInv, ReaderInv, Base
<1>5. ASSUME ~lost PROVE InStep' /\ Passed' = Passed
  <2>1. /\ Whole("salt", 0) /\ wire[pos].part = "salt" /\ wire[pos].frame = 1
        /\ wire[pos].at = 2
    BY <1>1, <1>5, OpensInStep
  <2>2. Base = 0 /\ rnonce = 0
    BY <1>1, <1>5 DEF IInv, ReaderInv, InStep
  <2>3. InStep'
    BY <1>1, <1>4, <2>1, <2>2 DEF InStep, BeforeHeader
  <2>4. Passed' = Passed
    BY <1>1, <1>4, <2>1, <2>2 DEF Passed, EndsFrame
  <2> QED
    BY <2>3, <2>4
<1>6. ASSUME lost PROVE OutOfStep'
  <2>1. ~Whole("salt", 0) /\ phase = "drain"
    BY <1>1, <1>6, NothingOpens
  <2> QED
    BY <1>1, <1>4, <1>6, <2>1 DEF IInv, ReaderInv, OutOfStep
<1>7. ReaderInv'
  BY <1>1, <1>4, <1>5, <1>6 DEF ReaderInv
<1>8. GotInv'
  BY <1>1, <1>2, <1>5 DEF IInv, GotInv
<1> QED
  BY <1>2, <1>3, <1>7, <1>8 DEF IInv

(* Only a reader in step opens a part.                                      *)
LEMMA OpenedInStep ==
    ASSUME IInv, NEW p \in {"header", "body"}, need = p, taken = 2,
           r = "good", Whole(p, rnonce)
    PROVE  /\ ~lost
           /\ wire[pos].part = p /\ wire[pos].nonce = rnonce /\ wire[pos].at = 2
           /\ wire[pos].frame = Passed + 1
           /\ p = "body" => sent[wire[pos].frame] = "data"
           /\ wire[pos].frame \in 1..Len(sent) /\ wire[pos].frame <= MaxFrames
           /\ Passed \in Nat /\ pos > 0 /\ pos \in Nat /\ Len(sent) \in Nat
<1>1. ~lost
  BY NothingOpens
<1>2. /\ wire[pos].part = p /\ wire[pos].nonce = rnonce /\ wire[pos].at = 2
      /\ wire[pos].frame = Passed + 1
      /\ p = "body" => sent[wire[pos].frame] = "data"
  BY <1>1, OpensInStep
<1>3. TypeOK /\ WireInv /\ taken <= pos
  BY DEF IInv, ReaderInv
<1>4. /\ pos \in 1..Len(wire) /\ wire[pos] \in Unit /\ Len(wire) \in Nat
      /\ Len(sent) \in Nat /\ Base \in Nat
      /\ Base > 0 => wire[Base] \in Unit
  BY <1>3, PartTaken, Positions
<1>5. wire[pos].frame \in 1..Len(sent) /\ wire[pos].frame <= MaxFrames
  BY <1>3, <1>4, UnitFields DEF WireInv
<1>6. Passed \in Nat
  <2>1. Base > 0 => wire[Base].frame \in Nat /\ wire[Base].frame > 0
    BY <1>4, UnitFields
  <2> QED
    BY <1>4, <2>1 DEF Passed
<1> QED
  BY <1>1, <1>2, <1>4, <1>5, <1>6

(* What Read returns next goes behind what it has returned.                 *)
LEMMA OneMore ==
    ASSUME NEW g, AsWritten(g), NEW f \in 1..Len(sent), f <= MaxFrames,
           NEW i \in 0..2, i = 0 <=> sent[f] = "zero", Follows(LatestOf(g), <<f, i>>)
    PROVE  /\ AsWritten(Append(g, <<f, i>>))
           /\ LatestOf(Append(g, <<f, i>>)) = <<f, i>>
<1> DEFINE x == Append(g, <<f, i>>)
<1>1. g \in Seq((1..MaxFrames) \X (0..2))
  BY DEF AsWritten, Units
<1>2. <<f, i>> \in (1..MaxFrames) \X (0..2) /\ <<f, i>>[1] = f /\ <<f, i>>[2] = i
  BY MaxFramesAssumption
<1>3. /\ x \in Seq((1..MaxFrames) \X (0..2)) /\ Len(x) = Len(g) + 1
      /\ \A j \in 1..Len(g) : x[j] = g[j]
      /\ x[Len(g) + 1] = <<f, i>> /\ Len(g) \in Nat
  BY <1>1, <1>2
<1> HIDE DEF x
<1>4. LatestOf(x) = <<f, i>>
  BY <1>3 DEF LatestOf
<1>5. ASSUME NEW j \in 1..Len(x)
      PROVE  x[j][1] <= Len(sent) /\ (x[j][2] = 0 <=> sent[x[j][1]] = "zero")
  <2>1. CASE j = Len(g) + 1
    BY <1>2, <1>3, <2>1
  <2>2. CASE j # Len(g) + 1
    <3>1. j \in 1..Len(g)
      BY <1>3, <2>2
    <3>2. x[j] = g[j]
      BY <1>3, <3>1
    <3> QED
      BY <3>1, <3>2 DEF AsWritten
  <2> QED
    BY <2>1, <2>2
<1>6. Follows(<<0, 0>>, x[1])
  <2>1. CASE g = <<>>
    BY <1>3, <2>1 DEF LatestOf
  <2>2. CASE g # <<>>
    BY SMTT(30), <1>1, <1>3, <2>2 DEF AsWritten
  <2> QED
    BY <2>1, <2>2
<1>7. ASSUME NEW j \in 1..Len(x) - 1 PROVE Follows(x[j], x[j + 1])
  <2>1. CASE j = Len(g)
    <3>1. g # <<>> /\ x[j] = LatestOf(g)
      BY <1>1, <1>3, <2>1 DEF LatestOf
    <3> QED
      BY <1>3, <2>1, <3>1
  <2>2. CASE j # Len(g)
    <3>1. j \in 1..Len(g) - 1 /\ j \in 1..Len(g) /\ j + 1 \in 1..Len(g)
      BY <1>3, <2>2
    <3>2. x[j] = g[j] /\ x[j + 1] = g[j + 1]
      BY <1>3, <3>1
    <3> QED
      BY <3>1, <3>2 DEF AsWritten
  <2> QED
    BY <2>1, <2>2
<1>8. AsWritten(x)
  BY <1>3, <1>5, <1>6, <1>7 DEF AsWritten, Units
<1> QED
  BY <1>4, <1>8 DEF x

LEMMA Returned ==
    ASSUME IInv, UNCHANGED writer, AsWritten(got')
    PROVE  /\ got' \in Seq((1..MaxFrames) \X (0..Units)) /\ ReadsWhatWasWritten'
           /\ \A j \in 1..Len(got') : got'[j][1] <= Len(sent')
BY DEF writer, AsWritten, ReadsWhatWasWritten, Follows

LEMMA SoFar ==
    ASSUME IInv
    PROVE  AsWritten(got) /\ Latest = LatestOf(got)
BY DEF IInv, TypeOK, GotInv, ReadsWhatWasWritten, AsWritten, Latest, LatestOf

LEMMA HeaderReadStep ==
    IInv /\ HeaderRead => IInv'
<1> SUFFICES ASSUME IInv, HeaderRead PROVE IInv'
  OBVIOUS
<1>1. /\ UNCHANGED <<sent, wnonce, wire, filled, pos, r, buf, frame, lost>>
      /\ need = "header" /\ taken = 2 /\ r = "good" /\ Whole("header", rnonce)
      /\ rnonce' = rnonce + 1 /\ taken' = 0 /\ UNCHANGED writer
  BY DEF HeaderRead, Reading, Expect, writer, Units
<1>2. \/ /\ sent[wire[pos].frame] = "data" /\ need' = "body"
         /\ UNCHANGED <<dl, phase, got>>
      \/ /\ sent[wire[pos].frame] = "zero" /\ need' = "none"
         /\ got' = Append(got, <<wire[pos].frame, 0>>)
         /\ dl' = FALSE /\ phase' = "relay"
  BY DEF HeaderRead, Expect, FrameRead
<1>3. /\ ~lost
      /\ wire[pos].part = "header" /\ wire[pos].nonce = rnonce /\ wire[pos].at = 2
      /\ wire[pos].frame = Passed + 1
      /\ wire[pos].frame \in 1..Len(sent) /\ wire[pos].frame <= MaxFrames
      /\ Passed \in Nat /\ pos > 0 /\ pos \in Nat /\ Len(sent) \in Nat
  BY <1>1, OpenedInStep
<1>4. WireInv'
  BY <1>1, WireRests
<1>5. Base' = pos
  BY <1>1, <1>3 DEF Base
<1>6. buf = 0 /\ Latest[1] = Passed /\ Latest[2] \in {0, 2}
  BY <1>1, <1>3 DEF IInv, GotInv
<1>7. need' \in {"none", "body"} /\ taken' \in 0..Units /\ rnonce' \in Nat
  BY <1>1, <1>2 DEF IInv, TypeOK, Units
<1>8. CASE sent[wire[pos].frame] = "data" /\ need' = "body" /\ UNCHANGED <<dl, phase, got>>
  <2>1. ReadsWhatWasWritten' /\ Latest' = Latest
        /\ \A i \in 1..Len(got') : got'[i][1] <= Len(sent')
    BY <1>1, <1>8, NothingReturned
  <2>2. TypeOK'
    BY <1>1, <1>7, <1>8 DEF IInv, TypeOK
  <2>3. ReaderInv'
    BY <1>1, <1>3, <1>5, <1>8 DEF ReaderInv, InStep
  <2>4. Passed' = Passed
    BY SMTT(30), <1>1, <1>3, <1>5, <1>8 DEF Passed, EndsFrame
  <2>5. GotInv'
    BY <1>1, <1>6, <2>1, <2>4 DEF GotInv
  <2> QED
    BY <1>4, <2>1, <2>2, <2>3, <2>5 DEF IInv
<1>9. CASE /\ sent[wire[pos].frame] = "zero" /\ need' = "none"
           /\ got' = Append(got, <<wire[pos].frame, 0>>) /\ dl' = FALSE /\ phase' = "relay"
  <2>1. Follows(Latest, <<wire[pos].frame, 0>>)
    BY <1>3, <1>6 DEF Follows, Units
  <2>2. /\ got' \in Seq((1..MaxFrames) \X (0..Units))
        /\ ReadsWhatWasWritten' /\ Latest' = <<wire[pos].frame, 0>>
        /\ \A i \in 1..Len(got') : got'[i][1] <= Len(sent')
    <3>1. sent[wire[pos].frame] = "zero" /\ 0 \in 0..2
      BY <1>9
    <3>2. AsWritten(got') /\ LatestOf(got') = <<wire[pos].frame, 0>>
      BY <1>3, <1>9, <2>1, <3>1, OneMore, SoFar
    <3> QED
      BY <1>1, <3>2, Returned DEF Latest, LatestOf
  <2>3. TypeOK'
    BY <1>1, <1>7, <1>9, <2>2 DEF IInv, TypeOK
  <2>4. ReaderInv'
    <3>1. BeforeHeader'
      BY <1>1, <1>3, <1>5, <1>9 DEF BeforeHeader, EndsFrame
    <3> QED
      BY <1>1, <1>3, <1>9, <3>1 DEF ReaderInv, InStep
  <2>5. Passed' = wire[pos].frame
    BY SMTT(30), <1>1, <1>3, <1>5, <1>9 DEF Passed, EndsFrame
  <2>6. GotInv'
    BY <1>1, <1>6, <1>9, <2>2, <2>5 DEF GotInv
  <2> QED
    BY <1>4, <2>2, <2>3, <2>4, <2>6 DEF IInv
<1> QED
  BY <1>2, <1>8, <1>9

LEMMA BodyReadStep ==
    IInv /\ BodyRead => IInv'
<1> SUFFICES ASSUME IInv, BodyRead PROVE IInv'
  OBVIOUS
<1>1. /\ UNCHANGED <<sent, wnonce, wire, filled, pos, r, dl, phase, got, lost>>
      /\ need = "body" /\ taken = 2 /\ r = "good" /\ Whole("body", rnonce)
      /\ rnonce' = rnonce + 1 /\ buf' = 2 /\ frame' = wire[pos].frame
      /\ need' = "none" /\ taken' = 0 /\ UNCHANGED writer
  BY DEF BodyRead, Reading, Expect, FrameRead, writer, Units
<1>2. /\ ~lost
      /\ wire[pos].part = "body" /\ wire[pos].nonce = rnonce /\ wire[pos].at = 2
      /\ wire[pos].frame = Passed + 1 /\ sent[wire[pos].frame] = "data"
      /\ wire[pos].frame \in 1..Len(sent) /\ wire[pos].frame <= MaxFrames
      /\ Passed \in Nat /\ pos > 0 /\ pos \in Nat /\ Len(sent) \in Nat
  BY <1>1, OpenedInStep
<1>3. /\ WireInv' /\ ReadsWhatWasWritten' /\ Latest' = Latest
      /\ \A i \in 1..Len(got') : got'[i][1] <= Len(sent')
  BY <1>1, WireRests, NothingReturned
<1>4. Base' = pos
  BY <1>1, <1>2 DEF Base
<1>5. Latest[1] = Passed /\ Latest[2] \in {0, 2}
  BY <1>1, <1>2 DEF IInv, GotInv
<1>6. TypeOK'
  <2>1. taken' \in 0..Units /\ buf' \in 0..Units /\ frame' \in 0..MaxFrames /\ rnonce' \in Nat
    BY <1>1, <1>2, MaxFramesAssumption DEF IInv, TypeOK, Units
  <2> QED
    BY <1>1, <2>1 DEF IInv, TypeOK
<1>7. ReaderInv'
  <2>1. BeforeHeader'
    BY <1>1, <1>2, <1>4 DEF BeforeHeader, EndsFrame
  <2> QED
    BY <1>1, <1>2, <2>1 DEF ReaderInv, InStep
<1>8. Passed' = Passed + 1
  BY <1>1, <1>2, <1>4 DEF Passed, EndsFrame
<1>9. GotInv'
  BY <1>1, <1>2, <1>3, <1>5, <1>8 DEF GotInv
<1> QED
  BY <1>3, <1>6, <1>7, <1>9 DEF IInv

LEMMA ReadFailsStep ==
    IInv /\ ReadFails => IInv'
<1> SUFFICES ASSUME IInv, ReadFails PROVE IInv'
  OBVIOUS
<1>1. /\ UNCHANGED <<sent, wnonce, wire, filled, pos, r, buf, frame, got, lost>>
      /\ need \in {"header", "body"} /\ taken = 2
      /\ ~(r = "good" /\ Whole(need, rnonce))
      /\ rnonce' = rnonce + 1 /\ need' = "none" /\ taken' = 0 /\ dl' = FALSE
      /\ phase' = (IF phase = "relay" THEN "drain" ELSE "done") /\ UNCHANGED writer
  BY DEF ReadFails, Reading, Expect, Failed, writer, Units
<1>2. lost
  BY <1>1, OpensInStep
<1>3. phase = "drain" /\ phase' = "done"
  BY <1>1, <1>2, NothingOpens
<1>4. /\ WireInv' /\ ReadsWhatWasWritten' /\ Latest' = Latest
      /\ \A i \in 1..Len(got') : got'[i][1] <= Len(sent')
  BY <1>1, WireRests, NothingReturned
<1>5. TypeOK'
  <2>1. taken' \in 0..Units /\ rnonce' \in Nat
    BY <1>1 DEF IInv, TypeOK, Units
  <2> QED
    BY <1>1, <1>3, <2>1 DEF IInv, TypeOK
<1>6. buf = 0
  BY <1>1 DEF IInv, GotInv
<1>7. ReaderInv'
  BY <1>1, <1>2, <1>3, <1>5, <1>6 DEF ReaderInv, OutOfStep, TypeOK
<1>8. GotInv'
  BY <1>1, <1>2, <1>4 DEF GotInv
<1> QED
  BY <1>4, <1>5, <1>7, <1>8 DEF IInv

(* One unit of a part is on the reader's side: the first one.               *)
LEMMA HalfTaken ==
    ASSUME IInv, ~lost, taken = 1
    PROVE  pos = Base + 1 /\ wire[pos].at = 1
<1>1. TypeOK /\ WireInv /\ taken <= pos /\ InStep /\ need # "none"
  BY DEF IInv, ReaderInv
<1>2. /\ pos = Base + 1 /\ Base \in Nat /\ pos <= Len(wire) /\ Len(wire) \in Nat
      /\ \A i \in 1..Len(wire) : wire[i] \in Unit
  BY <1>1, Positions
<1>3. CASE Base = 0
  <2>1. sent # <<>>
    BY <1>1, <1>2 DEF WireInv
  <2> QED
    BY <1>1, <1>2, <1>3, <2>1 DEF WireInv, Begins
<1>4. CASE Base > 0
  <2>1. Base \in 1..Len(wire) - 1
    BY <1>2, <1>4
  <2>2. Succeeds(sent, wire[Base], wire[Base + 1])
    BY <1>1, <2>1 DEF WireInv, Chain
  <2>3. \/ BeforeHeader
        \/ /\ wire[Base].at = 2 /\ wire[Base].part = "header"
           /\ sent[wire[Base].frame] = "data"
    <3>1. need \in {"salt", "header", "body"} /\ Base # 0
      BY <1>1, <1>4 DEF TypeOK
    <3> QED
      BY <1>1, <3>1 DEF InStep
  <2> QED
    BY <1>2, <2>2, <2>3 DEF Succeeds, BeforeHeader
<1> QED
  BY <1>2, <1>3, <1>4

LEMMA InterruptStep ==
    IInv /\ Interrupt => IInv'
<1> SUFFICES ASSUME IInv, Interrupt PROVE IInv'
  OBVIOUS
<1>1. /\ UNCHANGED <<sent, wnonce, wire, filled, pos, r, rnonce, buf, frame, got>>
      /\ need # "none" /\ taken < 2 /\ need' = "none" /\ taken' = 0 /\ dl' = FALSE
      /\ lost' = (lost \/ taken > 0 \/ need = "body")
      /\ phase' = (IF phase = "relay" THEN "drain" ELSE "done") /\ UNCHANGED writer
  BY DEF Interrupt, Expect, Failed, writer, reader, Units
<1>2. /\ WireInv' /\ ReadsWhatWasWritten' /\ Latest' = Latest
      /\ \A i \in 1..Len(got') : got'[i][1] <= Len(sent')
  BY <1>1, WireRests, NothingReturned
<1>3. buf = 0
  BY <1>1 DEF IInv, GotInv
<1>4. pos \in Nat /\ taken \in {0, 1} /\ taken <= pos /\ Base' = pos /\ Base = pos - taken
  BY <1>1 DEF IInv, TypeOK, ReaderInv, Base
<1>5. TypeOK'
  <2>1. taken' \in 0..Units /\ phase' \in {"relay", "drain", "done"}
    BY <1>1 DEF Units
  <2>2. lost' \in BOOLEAN
    BY <1>1
  <2> QED
    BY <1>1, <2>1, <2>2 DEF IInv, TypeOK
<1>6. ASSUME ~lost' PROVE InStep' /\ Passed' = Passed
  <2>1. ~lost /\ taken = 0 /\ need # "body"
    <3>1. ~(lost \/ taken > 0 \/ need = "body")
      BY <1>1, <1>6
    <3> QED
      BY <1>4, <3>1
  <2>2. InStep /\ Base' = Base
    BY <1>4, <2>1 DEF IInv, ReaderInv
  <2>3. InStep'
    BY <1>1, <2>1, <2>2 DEF InStep, BeforeHeader, IInv, TypeOK
  <2>4. Passed' = Passed
    BY <1>1, <2>2 DEF Passed
  <2> QED
    BY <2>3, <2>4
<1>7. ASSUME lost' PROVE OutOfStep'
  <2>1. CASE lost
    <3>1. phase # "relay"
      BY <2>1 DEF IInv, ReaderInv, OutOfStep
    <3> QED
      BY <1>1, <1>3, <3>1 DEF OutOfStep
  <2>2. CASE ~lost /\ taken = 1
    <3>1. wire[pos].at = 1 /\ pos > 0
      BY <1>4, <2>2, HalfTaken
    <3> QED
      BY <1>1, <1>3, <1>4, <3>1 DEF OutOfStep
  <2>3. CASE ~lost /\ taken = 0 /\ need = "body"
    <3>1. InStep
      BY <2>3 DEF IInv, ReaderInv
    <3>2. /\ r = "good" /\ Base > 0 /\ wire[Base].at = 2 /\ wire[Base].part = "header"
          /\ sent[wire[Base].frame] = "data"
      BY <2>3, <3>1 DEF InStep
    <3> QED
      BY <1>1, <1>3, <1>4, <2>3, <3>2 DEF OutOfStep
  <2>4. lost \/ taken > 0 \/ need = "body"
    BY <1>1, <1>7
  <2> QED
    BY <1>4, <2>1, <2>2, <2>3, <2>4
<1>8. ReaderInv'
  BY <1>1, <1>4, <1>6, <1>7 DEF ReaderInv
<1>9. GotInv'
  <2>1. ~lost' => ~lost
    BY <1>1
  <2> QED
    BY <1>1, <1>2, <1>3, <1>6, <2>1 DEF IInv, GotInv
<1> QED
  BY <1>2, <1>5, <1>8, <1>9 DEF IInv

LEMMA TwoMore ==
    ASSUME NEW S, NEW g \in Seq(S), NEW u \in S, NEW v \in S
    PROVE  g \o <<u, v>> = Append(Append(g, u), v)
OBVIOUS

(* A Read of what is buffered returns one piece of the frame or both.       *)
LEMMA ReadBufferedStep ==
    IInv /\ ReadBuffered => IInv'
<1> SUFFICES ASSUME IInv, ReadBuffered PROVE IInv'
  OBVIOUS
<1>1. /\ UNCHANGED <<sent, wnonce, wire, filled, pos, r, rnonce, frame, need, taken, dl, phase, lost>>
      /\ need = "none" /\ buf > 0 /\ UNCHANGED writer
  BY DEF ReadBuffered, writer
<1>2. PICK n \in 1..buf :
        /\ got' = got \o [i \in 1..n |-> <<frame, Units - buf + i>>]
        /\ buf' = buf - n
  BY DEF ReadBuffered
<1>3. buf \in 1..2 /\ n \in {1, 2} /\ buf' \in 0..1 /\ buf' = buf - n
  BY <1>1, <1>2 DEF IInv, TypeOK, Units
<1>4. ~lost
  BY <1>1 DEF IInv, ReaderInv, OutOfStep
<1>5. frame = Passed /\ frame > 0 /\ sent[frame] = "data" /\ frame \in 1..MaxFrames
  BY <1>1, <1>3, <1>4, MaxFramesAssumption DEF IInv, GotInv, TypeOK
<1>6. frame \in 1..Len(sent)
  <2>1. Base \in Nat /\ Base <= Len(wire) /\ Len(wire) \in Nat /\ Len(sent) \in Nat
        /\ \A i \in 1..Len(wire) : wire[i] \in Unit
    BY Positions DEF IInv, ReaderInv
  <2>2. Base > 0
    BY <1>5, <2>1 DEF Passed
  <2>3. wire[Base] \in Unit /\ wire[Base].frame <= Len(sent)
    <3>1. Base \in 1..Len(wire)
      BY <2>1, <2>2
    <3> QED
      BY <2>1, <3>1 DEF IInv, WireInv
  <2>4. Passed <= Len(sent)
    BY <2>1, <2>2, <2>3, UnitFields DEF Passed
  <2> QED
    BY <1>5, <2>1, <2>4
<1>7. /\ WireInv' /\ sent' = sent /\ wire' = wire
  BY <1>1, WireRests
<1>8. Passed' = Passed /\ Base' = Base
  BY <1>1 DEF Passed, Base
<1>9. AsWritten(got') /\ LatestOf(got') = <<frame, 2 - buf'>>
  <2> DEFINE a == Append(got, <<frame, 2 - buf + 1>>)
  <2>1. Follows(LatestOf(got), <<frame, 2 - buf + 1>>)
    <3>1. CASE buf = 1
      <4>1. LatestOf(got) = <<frame, 1>>
        BY <1>4, <1>5, <3>1, SoFar DEF IInv, GotInv
      <4> QED
        BY <3>1, <4>1 DEF Follows, Units
    <3>2. CASE buf = 2
      <4>1. LatestOf(got)[1] = frame - 1 /\ LatestOf(got)[2] \in {0, 2}
        BY <1>4, <1>5, <3>2, SoFar DEF IInv, GotInv
      <4> QED
        BY <1>5, <3>2, <4>1 DEF Follows, Units
    <3> QED
      BY <1>3, <3>1, <3>2
  <2>2. 2 - buf + 1 \in 0..2 /\ 2 - buf + 1 # 0 /\ sent[frame] # "zero" /\ frame <= MaxFrames
    BY <1>3, <1>5
  <2>3. AsWritten(a) /\ LatestOf(a) = <<frame, 2 - buf + 1>>
    BY <1>6, <2>1, <2>2, OneMore, SoFar
  <2>4. got \in Seq((1..MaxFrames) \X (0..2))
    BY DEF IInv, TypeOK, Units
  <2>5. CASE n = 1
    <3>1. got' = got \o <<<<frame, 2 - buf + 1>>>>
      <4>1. [i \in 1..1 |-> <<frame, 2 - buf + i>>] = <<<<frame, 2 - buf + 1>>>>
        OBVIOUS
      <4> QED
        BY <1>2, <2>5, <4>1 DEF Units
    <3>2. got' = a
      BY <2>4, <3>1
    <3> QED
      BY <1>3, <2>3, <2>5, <3>2
  <2>6. CASE n = 2
    <3> DEFINE u == <<frame, 1>>
               v == <<frame, 2>>
               b == Append(got, u)
    <3>1. buf = 2 /\ buf' = 0 /\ 2 - buf + 1 = 1
      BY <1>2, <1>3, <2>6
    <3>2. AsWritten(b) /\ LatestOf(b) = u
      BY <2>3, <3>1
    <3>3. Follows(LatestOf(b), v)
      BY <3>2 DEF Follows, Units
    <3>4. got' = Append(b, v)
      <4>1. [i \in 1..2 |-> <<frame, 2 - 2 + i>>] = <<u, v>>
        OBVIOUS
      <4>2. got' = got \o <<u, v>>
        BY <1>2, <2>6, <3>1, <4>1 DEF Units
      <4>3. u \in (1..MaxFrames) \X (0..2) /\ v \in (1..MaxFrames) \X (0..2)
        BY <1>5
      <4> HIDE DEF u, v
      <4> QED
        BY <2>4, <4>2, <4>3, TwoMore
    <3>5. 2 \in 0..2 /\ (2 = 0 <=> sent[frame] = "zero") /\ frame <= MaxFrames
      BY <1>5, <2>2
    <3> HIDE DEF b
    <3>6. AsWritten(Append(b, v)) /\ LatestOf(Append(b, v)) = v
      BY <1>6, <3>2, <3>3, <3>5, OneMore
    <3> QED
      BY <3>1, <3>4, <3>6
  <2> QED
    BY <1>3, <2>5, <2>6
<1>10. /\ got' \in Seq((1..MaxFrames) \X (0..Units)) /\ ReadsWhatWasWritten'
       /\ \A j \in 1..Len(got') : got'[j][1] <= Len(sent')
  BY <1>1, <1>9, Returned
<1>11. TypeOK'
  <2>1. buf' \in 0..Units
    BY <1>3 DEF Units
  <2> QED
    BY <1>1, <1>10, <2>1 DEF IInv, TypeOK
<1>12. GotInv'
  <2>1. Latest' = <<frame, 2 - buf'>>
    BY <1>9 DEF Latest, LatestOf
  <2> QED
    BY <1>1, <1>3, <1>5, <1>8, <1>10, <2>1 DEF GotInv
<1>13. ReaderInv'
  BY <1>1, <1>4, <1>8 DEF IInv, ReaderInv, InStep, BeforeHeader
<1> QED
  BY <1>7, <1>13, <1>10, <1>11, <1>12 DEF IInv

-----------------------------------------------------------------------------
LEMMA NextIInv ==
    IInv /\ [Next]_vars => IInv'
<1> SUFFICES ASSUME IInv, [Next]_vars PROVE IInv'
  OBVIOUS
<1>1. ASSUME NEW k \in Kinds, WriteFrame(k) PROVE IInv'
  BY <1>1, WriteFrameStep
<1>2. CASE Reader
  BY <1>2, ReadBufferedStep, ReadNextStep, FillStep, TakeStep, SaltReadStep, HeaderReadStep,
     BodyReadStep, ReadFailsStep DEF Reader
<1>3. CASE Deadline \/ Interrupt
  BY <1>3, DeadlineStep, InterruptStep
<1>4. CASE UNCHANGED vars
  <2>1. UNCHANGED <<sent, wnonce, wire, filled, pos, r, rnonce, buf, frame, need, taken,
                    dl, phase, got, lost>>
    BY <1>4 DEF vars, writer, reader
  <2>2. WireInv' /\ ReadsWhatWasWritten'
    BY <2>1, WireRests, NothingReturned DEF writer
  <2>3. TypeOK'
    BY <2>1 DEF IInv, TypeOK
  <2>4. ReaderInv' /\ GotInv'
    BY <2>1 DEF IInv, ReaderInv, InStep, OutOfStep, BeforeHeader, Base, GotInv, Passed, Latest
  <2> QED
    BY <2>2, <2>3, <2>4 DEF IInv
<1> QED
  BY <1>1, <1>2, <1>3, <1>4 DEF Next

LEMMA Inductive ==
    Spec => []IInv
BY InitIInv, NextIInv, PTL DEF Spec

(* Nonces, positions and what is buffered stay in their domains, however    *)
(* many frames are written (v4Writer, v4Reader).                            *)
THEOREM StreamTypes ==
    Spec => []TypeOK
<1>1. IInv => TypeOK
  BY DEF IInv
<1> QED
  BY <1>1, Inductive, PTL

(* Read returns what was written, in order, once, and with nothing left     *)
(* out, whatever the segments, the sizes of b and the deadlines             *)
(* (v4Reader.Read, readFrame).                                              *)
THEOREM ReadAsWritten ==
    Spec => []ReadsWhatWasWritten
<1>1. IInv => ReadsWhatWasWritten
  BY DEF IInv
<1> QED
  BY <1>1, Inductive, PTL

(* Every part opens under the nonce and the key that the reader has by      *)
(* then, until a deadline falls inside a frame (readFrame, initReader,      *)
(* writeFrame).                                                             *)
THEOREM PartsOpen ==
    Spec => []OpensUnlessLost
<1>1. IInv => OpensUnlessLost
  <2>1. SUFFICES ASSUME IInv, ~lost
                 PROVE  /\ Reading("salt") => Whole("salt", 0)
                        /\ \A p \in {"header", "body"} :
                             Reading(p) => r = "good" /\ Whole(p, rnonce)
    BY DEF OpensUnlessLost
  <2> QED
    BY <2>1, OpensInStep DEF Reading, Units
<1> QED
  BY <1>1, Inductive, PTL

(* Once a deadline has fallen inside a frame, Read returns neither data nor *)
(* a zero chunk: no part opens again, at any place the cut may have been    *)
(* (readFrame).                                                             *)
THEOREM SilentOnceLost ==
    Spec => LostIsSilent
<1>1. IInv /\ [Next]_vars => (lost => got' = got)
  <2>1. SUFFICES ASSUME IInv, lost, [Next]_vars PROVE got' = got
    OBVIOUS
  <2>2. buf = 0
    BY <2>1 DEF IInv, ReaderInv, OutOfStep
  <2>3. ~ReadBuffered
    BY <2>2 DEF ReadBuffered
  <2>4. ~HeaderRead
    BY <2>1, NothingOpens DEF HeaderRead, Reading, Units
  <2> QED
    BY <2>1, <2>3, <2>4 DEF Next, Reader, WriteFrame, ReadNext, Fill, Take, SaltRead, BodyRead,
       ReadFails, Deadline, Interrupt, vars
<1> QED
  BY <1>1, Inductive, PTL DEF Spec, LostIsSilent

-----------------------------------------------------------------------------
(* The stream is a channel of frames. *)

(* In step, the frame opened last is the one behind which the reader is.    *)
LEMMA OpenedFrames ==
    ASSUME IInv
    PROVE  /\ Opened \in 0..Len(sent) /\ Len(sent) \in Nat
           /\ ~lost => Opened = Passed
<1>1. /\ TypeOK /\ taken <= pos /\ Len(sent) \in Nat /\ Base \in Nat /\ buf \in 0..2
      /\ pos = Base + taken /\ taken \in 0..2 /\ pos <= Len(wire) /\ Len(wire) \in Nat
      /\ \A i \in 1..Len(wire) : wire[i] \in Unit
  BY Positions DEF IInv, ReaderInv, TypeOK, Units
<1>2. Passed \in 0..Len(sent)
  <2>1. CASE Base > 0
    <3>1. Base \in 1..Len(wire)
      BY <1>1, <2>1
    <3>2. wire[Base].frame \in 1..Len(sent)
      <4>1. wire[Base] \in Unit /\ wire[Base].frame <= Len(sent)
        BY <1>1, <3>1 DEF IInv, WireInv
      <4> QED
        BY <1>1, <4>1, UnitFields
    <3> QED
      BY <1>1, <3>2 DEF Passed
  <2>2. CASE Base = 0
    BY <1>1, <2>2 DEF Passed
  <2> QED
    BY <1>1, <2>1, <2>2
<1>3. CASE buf = 0
  <2>1. Opened = Latest[1]
    BY <1>3 DEF Opened, Latest
  <2>2. ~lost => Opened = Passed
    BY <1>3, <2>1 DEF IInv, GotInv
  <2>3. Latest[1] \in 0..Len(sent)
    <3>1. CASE got = <<>>
      BY <1>1, <3>1 DEF Latest
    <3>2. CASE got # <<>>
      <4>1. got \in Seq((1..MaxFrames) \X (0..Units)) /\ Len(got) \in 1..Len(got)
        BY <3>2 DEF IInv, TypeOK
      <4>2. got[Len(got)][1] \in 1..MaxFrames /\ got[Len(got)][1] <= Len(sent)
        BY <4>1 DEF IInv, GotInv
      <4> QED
        BY <1>1, <3>2, <4>2, MaxFramesAssumption DEF Latest
    <3> QED
      BY <3>1, <3>2
  <2> QED
    BY <1>1, <2>1, <2>2, <2>3
<1>4. CASE buf > 0
  <2>1. ~lost
    BY <1>4 DEF IInv, ReaderInv, OutOfStep
  <2>2. Opened = Passed
    BY <1>4, <2>1 DEF IInv, GotInv, Opened
  <2> QED
    BY <1>1, <1>2, <2>2
<1> QED
  BY <1>1, <1>3, <1>4

InFlight == SubSeq(sent, Opened + 1, Len(sent))

(* A deadline falls inside a frame only when one is on its way.             *)
LEMMA CutInsideFrame ==
    ASSUME IInv, ~lost, need # "none", taken > 0 \/ need = "body"
    PROVE  Opened < Len(sent)
<1>1. /\ TypeOK /\ WireInv /\ taken <= pos /\ InStep /\ Len(sent) \in Nat /\ Base \in Nat
      /\ pos = Base + taken /\ taken \in 0..2 /\ pos <= Len(wire) /\ Len(wire) \in Nat
      /\ \A i \in 1..Len(wire) : wire[i] \in Unit
  BY Positions DEF IInv, ReaderInv
<1>2. Opened = Passed
  BY OpenedFrames
<1>3. CASE need = "body"
  <2>1. Base > 0 /\ wire[Base].part = "header" /\ sent[wire[Base].frame] = "data"
    BY <1>1, <1>3 DEF InStep
  <2>2. ~EndsFrame(sent, wire[Base])
    BY <2>1 DEF EndsFrame
  <2>3. wire[Base] \in Unit /\ wire[Base].frame <= Len(sent)
    <3>1. Base \in 1..Len(wire)
      BY <1>1, <2>1
    <3> QED
      BY <1>1, <3>1 DEF WireInv
  <2>4. Passed = wire[Base].frame - 1
    BY <2>1, <2>2 DEF Passed
  <2> QED
    BY <1>1, <1>2, <2>3, <2>4, UnitFields
<1>4. CASE taken > 0
  <2>1. Base + 1 \in 1..Len(wire)
    BY <1>1, <1>4
  <2>2. wire[Base + 1].frame \in 1..Len(sent)
    <3>1. wire[Base + 1] \in Unit /\ wire[Base + 1].frame <= Len(sent)
      BY <1>1, <2>1 DEF WireInv
    <3> QED
      BY <1>1, <3>1, UnitFields
  <2>3. CASE Base = 0
    BY <1>1, <1>2, <2>2, <2>3 DEF Passed
  <2>4. CASE Base > 0
    <3>1. Base \in 1..Len(wire) - 1 /\ Base \in 1..Len(wire)
      BY <1>1, <2>1, <2>4
    <3>2. Succeeds(sent, wire[Base], wire[Base + 1])
      BY <1>1, <3>1 DEF WireInv, Chain
    <3>3. wire[Base] \in Unit /\ wire[Base].frame \in Nat /\ wire[Base].frame <= Len(sent)
      BY <1>1, <3>1, UnitFields DEF WireInv
    <3>4. CASE EndsFrame(sent, wire[Base])
      <4>1. wire[Base + 1].frame = wire[Base].frame + 1
        BY <3>2, <3>4 DEF Succeeds
      <4> QED
        BY SMTT(30), <1>1, <1>2, <2>2, <2>4, <3>3, <3>4, <4>1 DEF Passed
    <3>5. CASE ~EndsFrame(sent, wire[Base])
      BY <1>1, <1>2, <2>4, <3>3, <3>5 DEF Passed
    <3> QED
      BY <3>4, <3>5
  <2> QED
    BY <1>1, <2>3, <2>4
<1> QED
  BY <1>3, <1>4

LEMMA ChannelWrite ==
    ASSUME IInv, NEW k \in Kinds, WriteFrame(k)
    PROVE  /\ Len(InFlight') - Len(InFlight) \in 1..1
           /\ SubSeq(InFlight', 1, Len(InFlight)) = InFlight
           /\ lost' = lost
<1>1. /\ sent' = Append(sent, k) /\ lost' = lost /\ Opened' = Opened
      /\ sent \in Seq(Kinds)
  BY DEF WriteFrame, reader, Opened, IInv, TypeOK
<1> DEFINE n == Len(sent)
           c == Opened
<1>2. n \in Nat /\ c \in 0..n
  BY OpenedFrames
<1>3. /\ sent' \in Seq(Kinds) /\ Len(sent') = n + 1
      /\ \A i \in 1..n : sent'[i] = sent[i]
  BY <1>1, <1>2
<1>4. /\ InFlight \in Seq(Kinds) /\ Len(InFlight) = n - c
      /\ \A i \in 1..n - c : InFlight[i] = sent[c + i]
  <2>1. \A i \in c + 1..n : sent[i] \in Kinds
    BY <1>1, <1>2
  <2> QED
    BY <1>2, <2>1, SubSeqProperties DEF InFlight
<1>5. /\ InFlight' \in Seq(Kinds) /\ Len(InFlight') = n + 1 - c
      /\ \A i \in 1..n + 1 - c : InFlight'[i] = sent'[c + i]
  <2>1. \A i \in c + 1..n + 1 : sent'[i] \in Kinds
    BY <1>2, <1>3
  <2>2. InFlight' = SubSeq(sent', c + 1, n + 1)
    BY <1>1, <1>3 DEF InFlight
  <2> QED
    BY <1>2, <2>1, <2>2, SubSeqProperties
<1> DEFINE p == SubSeq(InFlight', 1, n - c)
<1>6. p \in Seq(Kinds) /\ Len(p) = n - c /\ \A i \in 1..n - c : p[i] = InFlight'[i]
  <2>1. \A i \in 1..n - c : InFlight'[i] \in Kinds
    BY <1>2, <1>5
  <2>2. n - c \in Nat /\ (1 <= n - c \/ n - c = 0)
    BY <1>2
  <2> QED
    BY <2>1, <2>2, SubSeqProperties
<1>7. \A i \in 1..n - c : p[i] = InFlight[i]
  BY <1>2, <1>3, <1>4, <1>5, <1>6
<1>8. p = InFlight
  <2> HIDE DEF p
  <2> QED
    BY <1>4, <1>6, <1>7, SeqEqual
<1> QED
  BY <1>1, <1>2, <1>4, <1>5, <1>8

(* A frame is taken by opening its body, or the header of an empty one.     *)
LEMMA ChannelTake ==
    ASSUME IInv, UNCHANGED sent, ~lost, UNCHANGED lost, Opened' = Opened + 1,
           Opened + 1 \in 1..Len(sent)
    PROVE  InFlight # <<>> /\ InFlight' = Tail(InFlight)
<1>1. sent \in Seq(Kinds) /\ Len(sent) \in Nat /\ Opened \in Nat
  BY OpenedFrames DEF IInv, TypeOK
<1>2. Len(sent) \in Opened + 1..Len(sent)
  BY <1>1
<1>3. Tail(InFlight) = SubSeq(sent, Opened + 2, Len(sent))
  BY <1>1, <1>2, HeadTailOfSubSeq DEF InFlight
<1>4. Len(InFlight) = Len(sent) - Opened /\ InFlight \in Seq(Kinds)
  <2>1. \A i \in Opened + 1..Len(sent) : sent[i] \in Kinds
    BY <1>1
  <2> QED
    BY <1>1, <1>2, <2>1, SubSeqProperties DEF InFlight
<1>5. InFlight # <<>>
  BY <1>1, <1>4
<1>6. InFlight' = SubSeq(sent, Opened + 2, Len(sent))
  <2>1. Opened' + 1 = Opened + 2
    BY <1>1
  <2> QED
    BY <2>1 DEF InFlight
<1> QED
  BY <1>3, <1>5, <1>6

LEMMA ChannelStep ==
    IInv /\ IInv' /\ [Next]_vars => [Channel!Next]_(Channel!vars)
<1> SUFFICES ASSUME IInv, IInv', [Next]_vars PROVE [Channel!Next]_(Channel!vars)
  OBVIOUS
<1> USE DEF Channel!Next, Channel!vars, Channel!Put, Channel!Take, Channel!Lose
<1>1. ASSUME NEW k \in Kinds, WriteFrame(k) PROVE Channel!Put
  BY <1>1, ChannelWrite DEF InFlight
<1>2. CASE HeaderRead \/ BodyRead
  <2>1. /\ UNCHANGED sent /\ UNCHANGED lost
        /\ \E p \in {"header", "body"} :
             need = p /\ taken = 2 /\ r = "good" /\ Whole(p, rnonce)
    BY <1>2 DEF HeaderRead, BodyRead, Reading, Units, writer
  <2>2. ~lost /\ FrameRead = Passed + 1 /\ FrameRead \in 1..Len(sent)
    BY <2>1, OpenedInStep DEF FrameRead
  <2>3. Opened = Passed
    BY <2>2, OpenedFrames
  <2>4. CASE UNCHANGED <<buf, frame, got>>
    BY <2>1, <2>4 DEF Opened
  <2>5. CASE HeaderRead /\ ~UNCHANGED <<buf, frame, got>>
    <3>1. /\ got' = Append(got, <<FrameRead, 0>>) /\ buf' = buf /\ need = "header"
      BY <2>5 DEF HeaderRead, Reading
    <3>2. buf = 0 /\ got \in Seq((1..MaxFrames) \X (0..Units))
      BY <3>1 DEF IInv, GotInv, TypeOK
    <3>3. got' # <<>> /\ got'[Len(got')] = <<FrameRead, 0>>
      BY SMTT(30), <3>1, <3>2
    <3>4. Opened' = Opened + 1
      BY SMTT(30), <2>2, <2>3, <3>1, <3>2, <3>3 DEF Opened
    <3> QED
      BY <2>1, <2>2, <2>3, <3>4, ChannelTake DEF InFlight
  <2>6. CASE BodyRead
    <3>1. buf' = 2 /\ frame' = FrameRead
      BY <2>6 DEF BodyRead, Units
    <3>2. Opened' = Opened + 1
      BY <2>2, <2>3, <3>1 DEF Opened
    <3> QED
      BY <2>1, <2>2, <2>3, <3>2, ChannelTake DEF InFlight
  <2> QED
    BY <1>2, <2>4, <2>5, <2>6
<1>3. CASE ReadBuffered
  <2>1. UNCHANGED <<sent, wire, pos, taken, lost>> /\ buf > 0
    BY <1>3 DEF ReadBuffered, writer
  <2>2. ~lost /\ ~lost'
    BY <2>1 DEF IInv, ReaderInv, OutOfStep
  <2>3. Passed' = Passed
    BY <2>1 DEF Passed, Base
  <2>4. Opened = Passed /\ Opened' = Passed'
    <3>1. Opened' = IF buf' > 0 THEN frame' ELSE Latest'[1]
      BY DEF Opened, Latest
    <3>2. buf' \in 0..2
      BY DEF IInv, TypeOK, Units
    <3>3. /\ buf' = 0 => Latest'[1] = Passed'
          /\ buf' > 0 => frame' = Passed'
      BY <2>2 DEF IInv, GotInv
    <3>4. Opened' = Passed'
      BY <3>1, <3>2, <3>3
    <3> QED
      BY <2>2, <3>4, OpenedFrames
  <2>5. Opened' = Opened
    BY <2>3, <2>4
  <2> QED
    BY <2>1, <2>5
<1>4. CASE ReadNext \/ Fill \/ Take \/ SaltRead \/ ReadFails \/ Deadline \/ UNCHANGED vars
  <2>1. UNCHANGED <<sent, buf, frame, got, lost>>
    BY <1>4 DEF ReadNext, Fill, Take, SaltRead, ReadFails, Deadline, vars, writer, reader
  <2> QED
    BY <2>1 DEF Opened
<1>5. CASE Interrupt
  <2>1. /\ UNCHANGED <<sent, buf, frame, got>> /\ need # "none"
        /\ lost' = (lost \/ taken > 0 \/ need = "body")
    BY <1>5 DEF Interrupt, writer, reader
  <2>2. UNCHANGED Opened
    BY <2>1 DEF Opened
  <2>3. lost \in BOOLEAN
    BY DEF IInv, TypeOK
  <2>4. CASE lost \/ ~(taken > 0 \/ need = "body")
    <3>1. lost' = lost
      BY <2>1, <2>3, <2>4
    <3> QED
      BY <2>1, <2>2, <3>1
  <2>5. CASE ~lost /\ (taken > 0 \/ need = "body")
    <3>1. Opened < Len(sent)
      BY <2>1, <2>5, CutInsideFrame
    <3>2. InFlight # <<>>
      <4>0. sent \in Seq(Kinds) /\ Opened \in Nat /\ Len(sent) \in Nat
        BY OpenedFrames DEF IInv, TypeOK
      <4>1. \A i \in Opened + 1..Len(sent) : sent[i] \in Kinds
        BY <4>0
      <4>2. Opened + 1 <= Len(sent) /\ Opened + 1 \in Int /\ Len(sent) \in Int
        BY <3>1, OpenedFrames
      <4>3. Len(InFlight) = Len(sent) - (Opened + 1) + 1
        BY <4>1, <4>2, SubSeqProperties DEF InFlight
      <4>4. Len(InFlight) # 0
        BY <4>2, <4>3
      <4> QED
        BY <4>4
    <3>3. lost' = TRUE
      BY <2>1, <2>5
    <3> QED
      BY <2>1, <2>2, <3>2, <3>3 DEF InFlight
  <2> QED
    BY <2>4, <2>5
<1> QED
  BY <1>1, <1>2, <1>3, <1>4, <1>5 DEF Next, Reader

LEMMA ChannelInit ==
    Init => Channel!Init
<1> SUFFICES ASSUME Init PROVE Channel!Init
  OBVIOUS
<1>1. sent = <<>> /\ buf = 0 /\ got = <<>> /\ lost = FALSE /\ Len(sent) = 0
  BY DEF Init
<1>2. Opened = 0
  BY <1>1 DEF Opened
<1>3. SubSeq(sent, 1, 0) = <<>>
  BY SubSeqEmpty
<1> QED
  BY <1>1, <1>2, <1>3 DEF Channel!Init

(* Each step of writer and reader puts one whole frame into the channel,    *)
(* takes the first one, loses the channel inside a frame, or leaves it      *)
(* alone (writeFrame, readFrame).                                           *)
THEOREM IsFrameChannel ==
    Spec => ImplementsChannel
BY ChannelInit, ChannelStep, Inductive, PTL DEF Spec, ImplementsChannel, Channel!Spec
=============================================================================
