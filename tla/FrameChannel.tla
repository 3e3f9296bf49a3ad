---------------------------- MODULE FrameChannel ----------------------------
(***************************************************************************)
(* What the v4 framing promises to the two ends of a connection, in one    *)
(* direction: frames written are taken whole and in order, one by one, and *)
(* none is skipped.  A read deadline inside a frame ends that: the channel *)
(* is lost and nothing is taken from it again.  A reset of the connection  *)
(* only means that later frames are not put in.                            *)
(***************************************************************************)
EXTENDS Integers, Sequences

CONSTANT Burst      \* frames one Write may emit

VARIABLES
    q,      \* frames written and not yet taken
    lost    \* a deadline has fallen inside a frame

vars == <<q, lost>>

Init == q = <<>> /\ lost = FALSE

(* The frames already there stay, and stay in front. *)
Put ==
    /\ Len(q') - Len(q) \in 1..Burst
    /\ SubSeq(q', 1, Len(q)) = q
    /\ UNCHANGED lost

Take ==
    /\ ~lost /\ q # <<>>
    /\ q' = Tail(q)
    /\ UNCHANGED lost

(* A deadline can fall inside a frame only while one is on its way. *)
Lose ==
    /\ q # <<>>
    /\ lost' = TRUE
    /\ UNCHANGED q

Next == Put \/ Take \/ Lose

Spec == Init /\ [][Next]_vars
=============================================================================
