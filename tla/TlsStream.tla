------------------------------ MODULE TlsStream ------------------------------
(***************************************************************************)
(* What wolfSSL may expect of its two IO callbacks: a stream in each       *)
(* direction and an answer per call.  Bytes are numbered in the order in   *)
(* which they are sent, so that a stream is right when it counts.          *)
(***************************************************************************)
EXTENDS Naturals, Sequences

VARIABLES arrived,    \* bytes of the peer that have come
          delivered,  \* the bytes that reads have returned
          peer,       \* "open", "ended" or "broken"
          pending,    \* the bytes wolfSSL has for the peer
          taken,      \* the bytes that writes have taken over
          answer      \* of the last call

streamVars == <<arrived, delivered, peer, pending, taken, answer>>

(* The n bytes behind the first k.                                         *)
Bytes(k, n) == [i \in 1..n |-> k + i]

Init ==
    /\ arrived = 0
    /\ delivered = <<>>
    /\ peer = "open"
    /\ pending = <<>>
    /\ taken = <<>>
    /\ answer = "none"

Arrive ==
    /\ peer = "open"
    /\ arrived' \in Nat /\ arrived' >= arrived
    /\ peer' \in {"open", "ended"}
    /\ UNCHANGED <<delivered, pending, taken, answer>>

Break ==
    /\ peer' = "broken"
    /\ UNCHANGED <<arrived, delivered, pending, taken, answer>>

(* A read returns the next bytes,                                          *)
Deliver(n) ==
    /\ peer # "broken"
    /\ Len(delivered) + n <= arrived
    /\ delivered' = delivered \o Bytes(Len(delivered), n)
    /\ answer' = "bytes"
    /\ UNCHANGED <<arrived, peer, pending, taken>>

(* or says that there are none: an end only behind the last byte, unless   *)
(* the connection broke.                                                   *)
ReadNothing ==
    /\ \/ answer' = "CONN_CLOSE" /\ peer = "broken"
       \/ answer' = "CONN_CLOSE" /\ peer = "ended" /\ Len(delivered) = arrived
       \/ answer' = "WANT_READ" /\ peer = "open" /\ Len(delivered) = arrived
    /\ UNCHANGED <<arrived, delivered, peer, pending, taken>>

(* wolfSSL fills its output buffer.                                        *)
Fill ==
    /\ \E n \in 1..Len(pending') :
           pending' = pending \o Bytes(Len(taken) + Len(pending), n)
    /\ UNCHANGED <<arrived, delivered, peer, taken, answer>>

(* A write takes over as many bytes as it says,                            *)
Take(n) ==
    /\ taken' = taken \o SubSeq(pending, 1, n)
    /\ pending' = SubSeq(pending, n + 1, Len(pending))
    /\ answer' = "bytes"
    /\ UNCHANGED <<arrived, delivered, peer>>

(* or none at all: wolfSSL offers a refused buffer again, from its start.  *)
Refuse ==
    /\ \/ answer' \in {"WANT_WRITE", "GENERAL"}
       \/ answer' = "CONN_CLOSE" /\ peer = "broken"
    /\ UNCHANGED <<arrived, delivered, peer, pending, taken>>

Next ==
    \/ Arrive \/ Break \/ ReadNothing \/ Fill \/ Refuse
    \/ \E n \in 1..(arrived - Len(delivered)) : Deliver(n)
    \/ \E n \in 1..Len(pending) : Take(n)

Spec == Init /\ [][Next]_streamVars
=============================================================================
