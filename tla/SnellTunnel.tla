---------------------------- MODULE SnellTunnel ----------------------------
(***************************************************************************)
(* What one snell connection promises to the application and to the        *)
(* destinations it reaches: sessions one after the other, each a pair of   *)
(* streams between the application and the destination of that session,    *)
(* delivered in order, without loss inside what is delivered, and never    *)
(* mixed with another session's.                                           *)
(***************************************************************************)
EXTENDS Integers, Sequences

CONSTANT MaxUses    \* sessions one connection may carry

VARIABLES
    open,   \* the application is attached to the current session
    sess,   \* the client's current session
    skey,   \* the session the server's destination belongs to
    lSent,  \* payload the application has sent in session sess
    lGot,   \* payload the application has received in session sess
    uSent,  \* payload the destination of session skey has sent
    uGot    \* payload the destination of session skey has received

vars == <<open, sess, skey, lSent, lGot, uSent, uGot>>

Init ==
    /\ open = FALSE /\ sess = 1 /\ skey = 0
    /\ lSent = 0 /\ lGot = <<>> /\ uSent = 0 /\ uGot = <<>>

Attach ==
    /\ ~open /\ open' = TRUE
    /\ UNCHANGED <<sess, skey, lSent, lGot, uSent, uGot>>

Detach ==
    /\ open /\ open' = FALSE
    /\ UNCHANGED <<sess, skey, lSent, lGot, uSent, uGot>>

NextSession ==
    /\ ~open /\ sess < MaxUses
    /\ sess' = sess + 1 /\ lSent' = 0 /\ lGot' = <<>>
    /\ UNCHANGED <<open, skey, uSent, uGot>>

(* The server begins the client's current session; it begins each one once. *)
Accept ==
    /\ skey < sess
    /\ skey' = sess /\ uSent' = 0 /\ uGot' = <<>>
    /\ UNCHANGED <<open, sess, lSent, lGot>>

AppSend ==
    /\ open /\ lSent' = lSent + 1
    /\ UNCHANGED <<open, sess, skey, lGot, uSent, uGot>>

DestSend ==
    /\ skey > 0 /\ uSent' = uSent + 1
    /\ UNCHANGED <<open, sess, skey, lSent, lGot, uGot>>

DeliverToDest ==
    /\ skey = sess /\ Len(uGot) < lSent
    /\ uGot' = Append(uGot, <<skey, Len(uGot) + 1>>)
    /\ UNCHANGED <<open, sess, skey, lSent, lGot, uSent>>

DeliverToApp ==
    /\ open /\ skey = sess /\ Len(lGot) < uSent
    /\ lGot' = Append(lGot, <<sess, Len(lGot) + 1>>)
    /\ UNCHANGED <<open, sess, skey, lSent, uSent, uGot>>

Next == Attach \/ Detach \/ NextSession \/ Accept
        \/ AppSend \/ DestSend \/ DeliverToDest \/ DeliverToApp

Spec == Init /\ [][Next]_vars
=============================================================================
