------------------------------ MODULE TlsBridge ------------------------------
(***************************************************************************)
(* nos_tls_send and nos_tls_recv (src/src/tls_io.cpp), the callbacks that  *)
(* carry TLS records over mTCP.                                            *)
(*                                                                         *)
(* Packets are processed only while a callback polls: nothing moves        *)
(* between two questions that it asks the socket.  wolfSSL calls at any    *)
(* time, after a refusal too, as wolfSSL_shutdown does: SendBuffered       *)
(* offers what is left of its output buffer until a call refuses.          *)
(***************************************************************************)
EXTENDS Naturals, Sequences

CONSTANTS RcvBufSize,     \* NOS_TCP_RECV_BUF
          RingSize,       \* TCP_SOCKET_RING_SIZE
          MaxEnqueueSize, \* the peer's MSS
          MaxWindow,      \* the largest window the peer advertises
          RecvTimeout,    \* NOS_RECV_TIMEOUT, in timer ticks
          ReadSizes,      \* what wolfSSL asks a read for
          MaxIn,          \* bound: bytes the peer sends
          MaxOut          \* bound: bytes wolfSSL writes

(* 2 * TCP_SOCKET_RING_SIZE < TCP_MAX_XMIT_BUFS: getXmitBuf never fails,   *)
(* so transmit buffers are not counted.                                    *)
ASSUME BridgeAssumption ==
    /\ {RcvBufSize, RingSize, MaxEnqueueSize} \subseteq Nat \ {0}
    /\ {MaxWindow, RecvTimeout, MaxIn, MaxOut} \subseteq Nat
    /\ ReadSizes \subseteq Nat \ {0}

VARIABLES
    pc,            \* "idle", "receiving" or "sending": which callback polls
    asked,         \* sz of the read in progress
    waited,        \* timer ticks since it started to poll
    state,         \* of the socket
    rcvBuf,        \* mTCP's receive ring
    outgoing,      \* lengths of the packets to be sent, 0 for a pure ACK
    unacked,       \* lengths of the packets on the sent queue
    remoteWindow,  \* what mTCP believes the peer has room for
    arrived,       \* bytes acknowledged to the peer
    outBuf,        \* wolfSSL's output buffer
    answer,        \* of the last callback
    inBuf,         \* history: the bytes that reads returned
    queued         \* history: the bytes that entered outgoing

socket == <<state, rcvBuf, outgoing, unacked, remoteWindow, arrived, queued>>
vars == <<pc, asked, waited, socket, outBuf, answer, inBuf>>

Bytes(k, n) == [i \in 1..n |-> k + i]
Least(a, b) == IF a < b THEN a ELSE b

Init ==
    /\ pc = "idle" /\ asked = 0 /\ waited = 0
    /\ state = "ESTABLISHED"
    /\ rcvBuf = <<>>
    /\ outgoing = <<>>
    /\ unacked = <<>>
    /\ remoteWindow \in 0..MaxWindow
    /\ arrived = 0
    /\ outBuf = <<>>
    /\ answer = "none"
    /\ inBuf = <<>>
    /\ queued = <<>>

isClosed == state = "CLOSED"
isRemoteClosed == state \in {"CLOSED", "CLOSE_WAIT"}

-----------------------------------------------------------------------------
(* nos_tls_recv.                                                           *)
Return(result) ==
    /\ pc' = "idle" /\ asked' = 0 /\ waited' = 0
    /\ answer' = result

(* sock->recv finds bytes, at once or while polling.                       *)
RecvData(sz) ==
    /\ rcvBuf # <<>>
    /\ LET n == Least(sz, Len(rcvBuf))
       IN  /\ inBuf' = inBuf \o SubSeq(rcvBuf, 1, n)
           /\ rcvBuf' = SubSeq(rcvBuf, n + 1, Len(rcvBuf))
    /\ Return("bytes")
    /\ UNCHANGED <<state, outgoing, unacked, remoteWindow,
                   arrived, queued, outBuf>>

RecvAtOnce(sz) == pc = "idle" /\ RecvData(sz)
RecvPolled == pc = "receiving" /\ RecvData(asked)

(* It finds none, and the peer is not gone: poll.                          *)
RecvStarts(sz) ==
    /\ pc = "idle" /\ rcvBuf = <<>> /\ ~isRemoteClosed
    /\ pc' = "receiving"
    /\ asked' = sz
    /\ waited' = 0
    /\ UNCHANGED <<socket, outBuf, answer, inBuf>>

(* Mutation: isRemoteClosed is asked before recv.                          *)
RecvClosedFirst ==
    /\ pc \in {"idle", "receiving"}
    /\ isRemoteClosed
    /\ Return("CONN_CLOSE")
    /\ UNCHANGED <<socket, outBuf, inBuf>>

RecvClosed ==
    /\ pc \in {"idle", "receiving"}
    /\ rcvBuf = <<>> /\ isRemoteClosed
    /\ Return("CONN_CLOSE")
    /\ UNCHANGED <<socket, outBuf, inBuf>>

(* Mutation: no timeout while something waits to be sent.                  *)
RecvTimesOutDriven ==
    /\ pc = "receiving"
    /\ rcvBuf = <<>> /\ ~isRemoteClosed
    /\ waited > RecvTimeout /\ outgoing = <<>>
    /\ Return("WANT_READ")
    /\ UNCHANGED <<socket, outBuf, inBuf>>

RecvTimesOut ==
    /\ pc = "receiving"
    /\ rcvBuf = <<>> /\ ~isRemoteClosed
    /\ waited > RecvTimeout
    /\ Return("WANT_READ")
    /\ UNCHANGED <<socket, outBuf, inBuf>>

-----------------------------------------------------------------------------
(* nos_tls_send, with all that is left in wolfSSL's output buffer.         *)
Fill(n) ==
    /\ pc = "idle"
    /\ Len(queued) + Len(outBuf) + n <= MaxOut
    /\ outBuf' = outBuf \o Bytes(Len(queued) + Len(outBuf), n)
    /\ UNCHANGED <<pc, asked, waited, socket, answer, inBuf>>

canSend == Least(MaxEnqueueSize, remoteWindow)
hasRoom == Len(outgoing) < RingSize

(* enqueue, while established: data takes the place of a lone ACK.         *)
Enqueued(len) ==
    IF outgoing = <<0>> THEN <<len>> ELSE Append(outgoing, len)

SendCalled == pc = "idle" /\ outBuf # <<>>

SendClosed ==
    /\ SendCalled
    /\ isClosed
    /\ Return("CONN_CLOSE")
    /\ UNCHANGED <<socket, outBuf, inBuf>>

(* No window: poll once, then give up.                                     *)
SendNoWindow ==
    /\ SendCalled
    /\ ~isClosed /\ canSend = 0
    /\ pc' = "sending"
    /\ answer' = "WANT_WRITE"
    /\ UNCHANGED <<asked, waited, socket, outBuf, inBuf>>

(* One packet is queued: sock->send takes sz or nothing.                   *)
SendQueued ==
    /\ SendCalled
    /\ canSend > 0
    /\ state = "ESTABLISHED" /\ hasRoom
    /\ LET sz == Least(Len(outBuf), canSend)
       IN  /\ outgoing' = Enqueued(sz)
           /\ queued' = queued \o SubSeq(outBuf, 1, sz)
           /\ outBuf' = SubSeq(outBuf, sz + 1, Len(outBuf))
    /\ pc' = "sending"
    /\ answer' = "bytes"
    /\ UNCHANGED <<asked, waited, state, rcvBuf, unacked, remoteWindow,
                   arrived, inBuf>>

(* Mutation: sz is not limited to canSend, and a send that the ring cuts   *)
(* short is an error although its first packet is queued.                  *)
SendRefusedHalfway ==
    /\ SendCalled
    /\ ~isClosed /\ canSend > 0
    /\ state = "ESTABLISHED" /\ Len(outgoing) = RingSize - 1
    /\ Len(outBuf) > canSend
    /\ outgoing' = Enqueued(canSend)
    /\ queued' = queued \o SubSeq(outBuf, 1, canSend)
    /\ Return("GENERAL")
    /\ UNCHANGED <<state, rcvBuf, unacked, remoteWindow,
                   arrived, outBuf, inBuf>>

(* sock->send refuses: the peer has closed its side, or the ring is full,  *)
(* for which it returns 0 and never TCP_RC_NO_XMIT_BUFFERS.                *)
SendRefused ==
    /\ SendCalled
    /\ ~isClosed /\ canSend > 0
    /\ state = "CLOSE_WAIT" \/ ~hasRoom
    /\ Return("GENERAL")
    /\ UNCHANGED <<socket, outBuf, inBuf>>

(* PACKET_PROCESS_MULT and drivePackets are over.                          *)
SendReturns ==
    /\ pc = "sending" /\ pc' = "idle"
    /\ UNCHANGED <<asked, waited, socket, outBuf, answer, inBuf>>

-----------------------------------------------------------------------------
(* mTCP, while a callback polls.                                           *)
Polling == pc \in {"receiving", "sending"}

(* A segment in sequence: its ACK frees k packets, its window w counts     *)
(* when none is left, its n bytes are kept or the whole segment is         *)
(* forgotten, and its FIN comes behind the bytes.  An ACK is queued for    *)
(* bytes when nothing else is queued, and for a FIN.                       *)
Segment(k, w, n, fin) ==
    /\ Polling /\ ~isClosed
    /\ state = "ESTABLISHED" \/ (n = 0 /\ ~fin)
    /\ arrived + n <= MaxIn
    /\ unacked' = SubSeq(unacked, k + 1, Len(unacked))
    /\ remoteWindow' = IF unacked' = <<>> THEN w ELSE remoteWindow
    /\ IF Len(rcvBuf) + n > RcvBufSize
       THEN UNCHANGED <<state, rcvBuf, arrived, outgoing>>
       ELSE /\ rcvBuf' = rcvBuf \o Bytes(arrived, n)
            /\ arrived' = arrived + n
            /\ state' = IF fin THEN "CLOSE_WAIT" ELSE state
            /\ outgoing' =
                 IF n > 0 /\ outgoing = <<>> THEN <<0>>
                 ELSE IF fin /\ hasRoom THEN Append(outgoing, 0)
                 ELSE outgoing
    /\ UNCHANGED <<pc, asked, waited, queued, outBuf, answer, inBuf>>

(* Mutation: a packet leaves whatever room the peer has.                   *)
DriveBeyondWindow ==
    /\ Polling
    /\ outgoing # <<>> /\ Len(unacked) < RingSize
    /\ outgoing' = Tail(outgoing)
    /\ unacked' = IF Head(outgoing) = 0 THEN unacked
                  ELSE Append(unacked, Head(outgoing))
    /\ remoteWindow' = remoteWindow - Head(outgoing)
    /\ UNCHANGED <<pc, asked, waited, state, rcvBuf, arrived, queued, outBuf,
                   answer, inBuf>>

(* A packet leaves, if it fits into the window, once ARP knows where to.   *)
(* An ACK is not kept for retransmission.                                  *)
DrivePacket ==
    /\ Polling
    /\ outgoing # <<>> /\ Len(unacked) < RingSize
    /\ Head(outgoing) <= remoteWindow
    /\ outgoing' = Tail(outgoing)
    /\ unacked' = IF Head(outgoing) = 0 THEN unacked
                  ELSE Append(unacked, Head(outgoing))
    /\ remoteWindow' = remoteWindow - Head(outgoing)
    /\ UNCHANGED <<pc, asked, waited, state, rcvBuf, arrived, queued, outBuf,
                   answer, inBuf>>

(* destroy: an RST, or a packet was retransmitted too often.  What was not *)
(* read yet is lost with the ring.                                         *)
Destroyed ==
    /\ Polling /\ ~isClosed
    /\ state' = "CLOSED"
    /\ rcvBuf' = <<>> /\ outgoing' = <<>> /\ unacked' = <<>>
    /\ UNCHANGED <<pc, asked, waited, remoteWindow, arrived, queued, outBuf,
                   answer, inBuf>>

Tick ==
    /\ pc = "receiving" /\ waited <= RecvTimeout
    /\ waited' = waited + 1
    /\ UNCHANGED <<pc, asked, socket, outBuf, answer, inBuf>>

Recv ==
    \/ RecvPolled \/ RecvClosed \/ RecvTimesOut
    \/ \E sz \in ReadSizes : RecvAtOnce(sz) \/ RecvStarts(sz)

Send == SendClosed \/ SendNoWindow \/ SendQueued \/ SendRefused \/ SendReturns

Network ==
    \/ DrivePacket \/ Destroyed \/ Tick
    \/ \E k \in 0..Len(unacked), w \in 0..MaxWindow, n \in 0..MaxIn,
          fin \in BOOLEAN : Segment(k, w, n, fin)

Next == Recv \/ Send \/ Network \/ \E n \in 1..MaxOut : Fill(n)

Spec == Init /\ [][Next]_vars

(* The timer interrupt comes, a poll that can leave does, and a send polls *)
(* only once.  Nothing is assumed of the network.                          *)
Polled == RecvPolled \/ (pc = "receiving" /\ RecvClosed) \/ RecvTimesOut
Fairness == WF_vars(Tick) /\ WF_vars(Polled) /\ WF_vars(SendReturns)

FairSpec == Spec /\ Fairness

-----------------------------------------------------------------------------
(* Properties.                                                             *)

(* The rings keep their sizes, and the window that mTCP counts never goes  *)
(* below zero (TCP.CPP:1219, 2292, 2553-2570).                             *)
BridgeTypeOK ==
    /\ pc \in {"idle", "receiving", "sending"}
    /\ asked \in Nat /\ (pc = "receiving" => asked \in ReadSizes)
    /\ waited \in 0..(RecvTimeout + 1)
    /\ state \in {"ESTABLISHED", "CLOSE_WAIT", "CLOSED"}
    /\ rcvBuf \in Seq(Nat) /\ Len(rcvBuf) <= RcvBufSize
    /\ outgoing \in Seq(Nat) /\ Len(outgoing) <= RingSize
    /\ unacked \in Seq(Nat) /\ Len(unacked) <= RingSize
    /\ remoteWindow \in 0..MaxWindow
    /\ arrived \in Nat
    /\ {outBuf, inBuf, queued} \subseteq Seq(Nat)
    /\ answer \in {"none", "bytes", "CONN_CLOSE", "WANT_READ", "WANT_WRITE",
                   "GENERAL"}

(* How the peer's stream stands, for the reader.                           *)
peer == CASE state = "ESTABLISHED" -> "open"
          [] state = "CLOSE_WAIT"  -> "ended"
          [] OTHER                 -> "broken"

Stream == INSTANCE TlsStream WITH
    delivered <- inBuf, pending <- outBuf, taken <- queued

(* Both streams keep their order, lose nothing and repeat nothing: what a  *)
(* refused call was offered is still all wolfSSL's, and the end of the     *)
(* peer's stream is reported behind its last byte, unless the connection   *)
(* broke (tls_io.cpp:229-294).                                             *)
ImplementsStream == Stream!Spec

(* A callback returns however silent the peer is (tls_io.cpp:277-293).     *)
CallbacksReturn == pc # "idle" ~> pc = "idle"
=============================================================================
