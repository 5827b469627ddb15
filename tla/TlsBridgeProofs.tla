--------------------------- MODULE TlsBridgeProofs ---------------------------
(* What the callbacks promise, for rings, windows and streams of any size. *)
EXTENDS TlsBridge, TLAPS

(* Until the connection breaks, the ring holds exactly the bytes between   *)
(* those that reads returned and those that were acknowledged.             *)
RingFits ==
    IF state = "CLOSED" THEN rcvBuf = <<>>
    ELSE /\ Len(inBuf) <= arrived
         /\ rcvBuf = Bytes(Len(inBuf), arrived - Len(inBuf))

BridgeInv == BridgeTypeOK /\ RingFits

(* Numbered bytes are naturals, as many as asked for.                      *)
LEMMA BytesType ==
    ASSUME NEW k \in Nat, NEW n \in Nat
    PROVE  Bytes(k, n) \in Seq(Nat) /\ Len(Bytes(k, n)) = n
BY DEF Bytes

(* Consecutive numbers stay consecutive when appended.                     *)
LEMMA BytesConcat ==
    ASSUME NEW k \in Nat, NEW m \in Nat, NEW n \in Nat
    PROVE  Bytes(k, m) \o Bytes(k + m, n) = Bytes(k, m + n)
BY BytesType DEF Bytes

(* The first n of m consecutive numbers, and those behind them.            *)
LEMMA BytesSplit ==
    ASSUME NEW k \in Nat, NEW m \in Nat, NEW n \in 0..m
    PROVE  /\ SubSeq(Bytes(k, m), 1, n) = Bytes(k, n)
           /\ SubSeq(Bytes(k, m), n + 1, m) = Bytes(k + n, m - n)
BY BytesType DEF Bytes

(* Two sequences of naturals one behind the other.                        *)
LEMMA ConcatType ==
    ASSUME NEW s \in Seq(Nat), NEW t \in Seq(Nat)
    PROVE  s \o t \in Seq(Nat) /\ Len(s \o t) = Len(s) + Len(t)
OBVIOUS

(* What a read leaves of a ring that fits, and what it appends.            *)
LEMMA RecvDataFits ==
    ASSUME BridgeInv, NEW sz \in ReadSizes, RecvData(sz)
    PROVE  /\ state # "CLOSED"
           /\ \E n \in 1..(arrived - Len(inBuf)) :
                 /\ inBuf' = inBuf \o Bytes(Len(inBuf), n)
                 /\ inBuf' \in Seq(Nat) /\ Len(inBuf') = Len(inBuf) + n
                 /\ rcvBuf' = Bytes(Len(inBuf'), arrived - Len(inBuf'))
                 /\ rcvBuf' \in Seq(Nat) /\ Len(rcvBuf') <= Len(rcvBuf)
<1> DEFINE m == arrived - Len(inBuf)
           n == Least(sz, Len(rcvBuf))
<1>1. state # "CLOSED" /\ rcvBuf = Bytes(Len(inBuf), m) /\ m \in Nat
  BY DEF BridgeInv, BridgeTypeOK, RingFits, RecvData
<1>2. inBuf \in Seq(Nat) /\ Len(inBuf) \in Nat /\ arrived \in Nat
  BY DEF BridgeInv, BridgeTypeOK
<1>3. Len(rcvBuf) = m /\ rcvBuf # <<>> /\ m # 0
  BY <1>1, <1>2, BytesType DEF RecvData, Bytes
<1>4. n \in 1..m
  BY <1>1, <1>3, BridgeAssumption DEF Least
<1>5. /\ inBuf' = inBuf \o SubSeq(rcvBuf, 1, n)
      /\ rcvBuf' = SubSeq(rcvBuf, n + 1, m)
  BY <1>3 DEF RecvData
<1> HIDE DEF m, n
<1>6. /\ inBuf' = inBuf \o Bytes(Len(inBuf), n)
      /\ rcvBuf' = Bytes(Len(inBuf) + n, m - n)
  <2>1. n \in 0..m
    BY <1>1, <1>4
  <2> QED
    BY <2>1, <1>1, <1>2, <1>5, BytesSplit
<1>7. inBuf' \in Seq(Nat) /\ Len(inBuf') = Len(inBuf) + n
  <2>1. n \in Nat
    BY <1>1, <1>4
  <2>2. Bytes(Len(inBuf), n) \in Seq(Nat) /\ Len(Bytes(Len(inBuf), n)) = n
    BY <2>1, <1>2, BytesType
  <2> QED
    BY <2>2, <1>2, <1>6, ConcatType
<1>8. rcvBuf' \in Seq(Nat) /\ Len(rcvBuf') = m - n
  <2>1. Len(inBuf) + n \in Nat /\ m - n \in Nat
    BY <1>1, <1>2, <1>4
  <2> QED
    BY <2>1, <1>6, BytesType
<1>9. rcvBuf' = Bytes(Len(inBuf'), arrived - Len(inBuf'))
  <2>1. m - n = arrived - Len(inBuf')
    BY <1>1, <1>2, <1>4, <1>7 DEF m
  <2> QED
    BY <2>1, <1>6, <1>7
<1>10. Len(rcvBuf') <= Len(rcvBuf)
  BY <1>1, <1>3, <1>4, <1>8
<1>11. n \in 1..(arrived - Len(inBuf))
  BY <1>4 DEF m
<1> QED
  BY <1>1, <1>6, <1>7, <1>8, <1>9, <1>10, <1>11

(* The start satisfies it.                                                 *)
LEMMA BridgeInit == Init => BridgeInv
<1> SUFFICES ASSUME Init PROVE BridgeInv
  OBVIOUS
<1>1. Bytes(0, 0) = <<>>
  BY DEF Bytes
<1>2. RingFits
  BY <1>1 DEF Init, RingFits
<1> QED
  BY <1>2, BridgeAssumption DEF Init, BridgeInv, BridgeTypeOK

(* What leaves the ring and its bytes alone keeps it.                      *)
LEMMA RingUntouched ==
    RingFits /\ UNCHANGED <<state, rcvBuf, inBuf, arrived>> => RingFits'
BY DEF RingFits, Bytes

(* The rest of a sequence of naturals.                                     *)
LEMMA RestType ==
    ASSUME NEW s \in Seq(Nat), NEW n \in 0..Len(s)
    PROVE  /\ SubSeq(s, n + 1, Len(s)) \in Seq(Nat)
           /\ Len(SubSeq(s, n + 1, Len(s))) = Len(s) - n
           /\ SubSeq(s, 1, n) \in Seq(Nat)
OBVIOUS

(* Every step keeps it.                                                    *)
LEMMA BridgeStep == BridgeInv /\ [Next]_vars => BridgeInv'
<1> SUFFICES ASSUME BridgeInv, [Next]_vars PROVE BridgeInv'
  OBVIOUS
<1> USE BridgeAssumption
<1>inv. BridgeTypeOK /\ RingFits
  BY DEF BridgeInv
<1>1. ASSUME NEW sz \in ReadSizes, RecvData(sz) PROVE BridgeInv'
  <2>1. RingFits'
    <3>1. state' = state /\ arrived' = arrived
      BY <1>1 DEF RecvData
    <3>2. Len(inBuf) \in Nat /\ arrived \in Nat
      BY <1>inv DEF BridgeTypeOK
    <3>3. /\ state # "CLOSED" /\ Len(inBuf') <= arrived
          /\ rcvBuf' = Bytes(Len(inBuf'), arrived - Len(inBuf'))
      BY <1>1, <3>2, RecvDataFits
    <3> QED
      BY <3>1, <3>3 DEF RingFits
  <2>2. /\ inBuf' \in Seq(Nat)
        /\ rcvBuf' \in Seq(Nat) /\ Len(rcvBuf') <= Len(rcvBuf)
    BY <1>1, RecvDataFits
  <2>3. BridgeTypeOK'
    <3>1. /\ pc' = "idle" /\ asked' = 0 /\ waited' = 0 /\ answer' = "bytes"
          /\ UNCHANGED <<state, outgoing, unacked, remoteWindow,
                         arrived, queued, outBuf>>
      BY <1>1 DEF RecvData, Return
    <3>2. Len(rcvBuf') <= RcvBufSize
      BY <1>inv, <2>2 DEF BridgeTypeOK
    <3> QED
      BY <1>inv, <2>2, <3>1, <3>2 DEF BridgeTypeOK
  <2> QED
    BY <2>1, <2>3 DEF BridgeInv
<1>2. CASE RecvClosed
  <2>1. RingFits'
    BY <1>2, <1>inv, RingUntouched DEF RecvClosed, socket
  <2>2. BridgeTypeOK'
    BY <1>2, <1>inv DEF BridgeTypeOK, RecvClosed, Return, socket
  <2> QED
    BY <2>1, <2>2 DEF BridgeInv
<1>3. CASE RecvTimesOut
  <2>1. RingFits'
    BY <1>3, <1>inv, RingUntouched DEF RecvTimesOut, socket
  <2>2. BridgeTypeOK'
    BY <1>3, <1>inv DEF BridgeTypeOK, RecvTimesOut, Return, socket
  <2> QED
    BY <2>1, <2>2 DEF BridgeInv
<1>4. ASSUME NEW sz \in ReadSizes, RecvStarts(sz) PROVE BridgeInv'
  <2>1. RingFits'
    BY <1>4, <1>inv, RingUntouched DEF RecvStarts, socket
  <2>2. BridgeTypeOK'
    BY <1>4, <1>inv DEF BridgeTypeOK, RecvStarts, socket
  <2> QED
    BY <2>1, <2>2 DEF BridgeInv
<1>5. CASE SendClosed
  <2>1. RingFits'
    BY <1>5, <1>inv, RingUntouched DEF SendClosed, socket
  <2>2. BridgeTypeOK'
    BY <1>5, <1>inv DEF BridgeTypeOK, SendClosed, Return, socket
  <2> QED
    BY <2>1, <2>2 DEF BridgeInv
<1>6. CASE SendNoWindow
  <2>1. RingFits'
    BY <1>6, <1>inv, RingUntouched DEF SendNoWindow, socket
  <2>2. BridgeTypeOK'
    BY <1>6, <1>inv DEF BridgeTypeOK, SendNoWindow, socket
  <2> QED
    BY <2>1, <2>2 DEF BridgeInv
<1>7. CASE SendQueued
  <2> DEFINE sz == Least(Len(outBuf), canSend)
  <2>1. RingFits'
    BY <1>7, <1>inv, RingUntouched DEF SendQueued
  <2>2. /\ outBuf \in Seq(Nat) /\ queued \in Seq(Nat)
        /\ sz \in 0..Len(outBuf)
    <3>1. /\ outBuf \in Seq(Nat) /\ queued \in Seq(Nat)
          /\ remoteWindow \in Nat /\ MaxEnqueueSize \in Nat
      BY <1>inv DEF BridgeTypeOK
    <3>2. Len(outBuf) \in Nat /\ canSend \in Nat
      BY <3>1 DEF canSend, Least
    <3> QED
      BY <3>1, <3>2 DEF Least
  <2> HIDE DEF sz
  <2>3. /\ SubSeq(outBuf, sz + 1, Len(outBuf)) \in Seq(Nat)
        /\ SubSeq(outBuf, 1, sz) \in Seq(Nat)
    BY <2>2, RestType
  <2>4. outBuf' \in Seq(Nat) /\ queued' \in Seq(Nat)
    BY <1>7, <2>2, <2>3, ConcatType DEF SendQueued, sz
  <2>5. outgoing' \in Seq(Nat) /\ Len(outgoing') <= RingSize
    <3>1. /\ outgoing \in Seq(Nat) /\ Len(outgoing) < RingSize
          /\ sz \in Nat /\ RingSize \in Nat \ {0}
      BY <1>7, <1>inv, <2>2 DEF BridgeTypeOK, SendQueued, hasRoom
    <3>2. outgoing' = <<sz>> \/ outgoing' = Append(outgoing, sz)
      BY <1>7 DEF SendQueued, Enqueued, sz
    <3>3. CASE outgoing' = <<sz>>
      BY <3>1, <3>3
    <3>4. CASE outgoing' = Append(outgoing, sz)
      BY <3>1, <3>4
    <3> QED
      BY <3>2, <3>3, <3>4
  <2>6. BridgeTypeOK'
    BY <1>7, <1>inv, <2>4, <2>5 DEF BridgeTypeOK, SendQueued
  <2> QED
    BY <2>1, <2>6 DEF BridgeInv
<1>8. CASE SendRefused
  <2>1. RingFits'
    BY <1>8, <1>inv, RingUntouched DEF SendRefused, socket
  <2>2. BridgeTypeOK'
    BY <1>8, <1>inv DEF BridgeTypeOK, SendRefused, Return, socket
  <2> QED
    BY <2>1, <2>2 DEF BridgeInv
<1>9. CASE SendReturns
  <2>1. RingFits'
    BY <1>9, <1>inv, RingUntouched DEF SendReturns, socket
  <2>2. BridgeTypeOK'
    BY <1>9, <1>inv DEF BridgeTypeOK, SendReturns, socket
  <2> QED
    BY <2>1, <2>2 DEF BridgeInv
<1>10. CASE DrivePacket
  <2>1. RingFits'
    BY <1>10, <1>inv, RingUntouched DEF DrivePacket
  <2>2. /\ Head(outgoing) \in Nat
        /\ outgoing' \in Seq(Nat) /\ Len(outgoing') <= RingSize
        /\ unacked' \in Seq(Nat) /\ Len(unacked') <= RingSize
    <3>1. /\ outgoing \in Seq(Nat) /\ Len(outgoing) <= RingSize
          /\ unacked \in Seq(Nat) /\ RingSize \in Nat
      BY <1>inv DEF BridgeTypeOK
    <3>2. /\ outgoing # <<>> /\ Len(unacked) < RingSize
          /\ outgoing' = Tail(outgoing)
          /\ unacked' \in {unacked, Append(unacked, Head(outgoing))}
      BY <1>10 DEF DrivePacket
    <3>3. /\ Head(outgoing) \in Nat
          /\ outgoing' \in Seq(Nat) /\ Len(outgoing') <= RingSize
      BY <3>1, <3>2
    <3>4. CASE unacked' = unacked
      BY <3>1, <3>2, <3>3, <3>4
    <3>5. CASE unacked' = Append(unacked, Head(outgoing))
      BY <3>1, <3>2, <3>3, <3>5
    <3> QED
      BY <3>2, <3>4, <3>5
  <2>3. remoteWindow' \in 0..MaxWindow
    <3>1. remoteWindow \in 0..MaxWindow /\ MaxWindow \in Nat
      BY <1>inv DEF BridgeTypeOK
    <3>2. /\ Head(outgoing) <= remoteWindow
          /\ remoteWindow' = remoteWindow - Head(outgoing)
      BY <1>10 DEF DrivePacket
    <3> QED
      BY <2>2, <3>1, <3>2
  <2>4. BridgeTypeOK'
    BY <1>10, <1>inv, <2>2, <2>3 DEF BridgeTypeOK, DrivePacket
  <2> QED
    BY <2>1, <2>4 DEF BridgeInv
<1>11. CASE Destroyed
  <2>1. RingFits'
    BY <1>11 DEF Destroyed, RingFits
  <2>2. BridgeTypeOK'
    BY <1>11, <1>inv DEF BridgeTypeOK, Destroyed
  <2> QED
    BY <2>1, <2>2 DEF BridgeInv
<1>12. CASE Tick
  <2>1. RingFits'
    BY <1>12, <1>inv, RingUntouched DEF Tick, socket
  <2>2. BridgeTypeOK'
    BY <1>12, <1>inv DEF BridgeTypeOK, Tick, socket
  <2> QED
    BY <2>1, <2>2 DEF BridgeInv
<1>13. ASSUME NEW k \in 0..Len(unacked), NEW w \in 0..MaxWindow,
              NEW n \in 0..MaxIn, NEW fin \in BOOLEAN,
              Segment(k, w, n, fin)
       PROVE  BridgeInv'
  <2>1. /\ unacked' \in Seq(Nat) /\ Len(unacked') <= RingSize
        /\ remoteWindow' \in 0..MaxWindow
    <3>1. unacked \in Seq(Nat) /\ Len(unacked) <= RingSize
      BY <1>inv DEF BridgeTypeOK
    <3>2. /\ SubSeq(unacked, k + 1, Len(unacked)) \in Seq(Nat)
          /\ Len(SubSeq(unacked, k + 1, Len(unacked))) = Len(unacked) - k
      BY <3>1, RestType
    <3>3. unacked' = SubSeq(unacked, k + 1, Len(unacked))
      BY <1>13 DEF Segment
    <3>4. remoteWindow' \in {w, remoteWindow}
      BY <1>13 DEF Segment
    <3>5. remoteWindow \in 0..MaxWindow
      BY <1>inv DEF BridgeTypeOK
    <3>6. unacked' \in Seq(Nat) /\ Len(unacked') = Len(unacked) - k
      BY <3>2, <3>3
    <3>7. Len(unacked) - k <= RingSize
      <4>1. Len(unacked) \in Nat /\ RingSize \in Nat /\ k \in Nat
        BY <3>1
      <4> QED
        BY <3>1, <4>1
    <3> QED
      BY <3>4, <3>5, <3>6, <3>7
  <2>2. outgoing' \in Seq(Nat) /\ Len(outgoing') <= RingSize
    <3>1. /\ outgoing \in Seq(Nat) /\ Len(outgoing) <= RingSize
          /\ RingSize \in Nat \ {0}
      BY <1>inv DEF BridgeTypeOK
    <3>2. \/ outgoing' = outgoing
          \/ outgoing' = <<0>>
          \/ Len(outgoing) < RingSize /\ outgoing' = Append(outgoing, 0)
      BY <1>13 DEF Segment, hasRoom
    <3>3. CASE outgoing' = <<0>>
      BY <3>1, <3>3
    <3>4. CASE Len(outgoing) < RingSize /\ outgoing' = Append(outgoing, 0)
      BY <3>1, <3>4
    <3> QED
      BY <3>1, <3>2, <3>3, <3>4
  <2>3. CASE Len(rcvBuf) + n > RcvBufSize
    <3>1. UNCHANGED <<state, rcvBuf, inBuf, arrived>>
      BY <1>13, <2>3 DEF Segment
    <3>2. RingFits'
      BY <3>1, <1>inv, RingUntouched
    <3>3. BridgeTypeOK'
      BY <1>13, <1>inv, <2>1, <2>2, <3>1 DEF BridgeTypeOK, Segment
    <3> QED
      BY <3>2, <3>3 DEF BridgeInv
  <2>4. CASE ~(Len(rcvBuf) + n > RcvBufSize)
    <3> DEFINE m == arrived - Len(inBuf)
    <3>1. /\ rcvBuf' = rcvBuf \o Bytes(arrived, n)
          /\ arrived' = arrived + n
          /\ state' \in {state, "CLOSE_WAIT"}
          /\ inBuf' = inBuf /\ state # "CLOSED"
      BY <1>13, <2>4 DEF Segment, isClosed
    <3>2. /\ rcvBuf = Bytes(Len(inBuf), m) /\ m \in Nat
          /\ Len(inBuf) \in Nat /\ arrived \in Nat /\ n \in Nat
          /\ rcvBuf \in Seq(Nat)
      BY <3>1, <1>inv DEF BridgeTypeOK, RingFits
    <3>3. Len(inBuf) + m = arrived /\ m + n = arrived' - Len(inBuf)
      BY <3>1, <3>2
    <3> HIDE DEF m
    <3>4. rcvBuf' = Bytes(Len(inBuf), m + n)
      <4>1. rcvBuf' = Bytes(Len(inBuf), m) \o Bytes(Len(inBuf) + m, n)
        BY <3>1, <3>2, <3>3
      <4> QED
        BY <3>2, <4>1, BytesConcat
    <3>5. RingFits'
      <4>1. state' # "CLOSED" /\ Len(inBuf) <= arrived'
        BY <3>1, <3>2, <3>3
      <4> QED
        BY <3>1, <3>3, <3>4, <4>1 DEF RingFits
    <3>6. Bytes(arrived, n) \in Seq(Nat) /\ Len(Bytes(arrived, n)) = n
      BY <3>2, BytesType
    <3>7. rcvBuf' \in Seq(Nat) /\ Len(rcvBuf') <= RcvBufSize
      BY <2>4, <3>1, <3>2, <3>6, ConcatType
    <3>8. BridgeTypeOK'
      <4>1. UNCHANGED <<pc, asked, waited, queued, outBuf, answer>>
        BY <1>13 DEF Segment
      <4>2. arrived' \in Nat
        BY <3>1, <3>2
      <4> QED
        BY <1>inv, <2>1, <2>2, <3>1, <3>7, <4>1, <4>2 DEF BridgeTypeOK
    <3> QED
      BY <3>5, <3>8 DEF BridgeInv
  <2> QED
    BY <2>3, <2>4
<1>14. ASSUME NEW n \in 1..MaxOut, Fill(n) PROVE BridgeInv'
  <2>1. RingFits'
    BY <1>14, <1>inv, RingUntouched DEF Fill, socket
  <2>2. outBuf \in Seq(Nat) /\ Len(queued) + Len(outBuf) \in Nat
    BY <1>inv DEF BridgeTypeOK
  <2>3. Bytes(Len(queued) + Len(outBuf), n) \in Seq(Nat)
    BY <2>2, BytesType
  <2>4. outBuf' \in Seq(Nat)
    BY <1>14, <2>2, <2>3, ConcatType DEF Fill
  <2>5. BridgeTypeOK'
    BY <1>14, <1>inv, <2>4 DEF BridgeTypeOK, Fill, socket
  <2> QED
    BY <2>1, <2>5 DEF BridgeInv
<1>15. CASE UNCHANGED vars
  <2>1. RingFits'
    BY <1>15, <1>inv, RingUntouched DEF vars, socket
  <2>2. BridgeTypeOK'
    BY <1>15, <1>inv DEF BridgeTypeOK, vars, socket
  <2> QED
    BY <2>1, <2>2 DEF BridgeInv
<1> QED
  <2>1. CASE Recv
    <3>1. pc = "receiving" => asked \in ReadSizes
      BY <1>inv DEF BridgeTypeOK
    <3> QED
      BY <2>1, <3>1, <1>1, <1>2, <1>3, <1>4 DEF Recv, RecvPolled, RecvAtOnce
  <2>2. CASE Send
    BY <2>2, <1>5, <1>6, <1>7, <1>8, <1>9 DEF Send
  <2>3. CASE Network
    BY <2>3, <1>10, <1>11, <1>12, <1>13 DEF Network
  <2> QED
    BY <2>1, <2>2, <2>3, <1>14, <1>15 DEF Next

(* The rings keep their sizes and the window of the peer is never          *)
(* overdrawn, whatever the sizes, segments and calls (BridgeTypeOK).       *)
THEOREM BridgeTypeCorrect == Spec => []BridgeTypeOK
<1>1. BridgeInv => BridgeTypeOK
  BY DEF BridgeInv
<1> QED
  BY <1>1, BridgeInit, BridgeStep, PTL DEF Spec

(* What the reader sees of each state of the socket.                       *)
LEMMA PeerOfState ==
    /\ state = "ESTABLISHED" => peer = "open"
    /\ state = "CLOSE_WAIT" => peer = "ended"
    /\ state = "CLOSED" => peer = "broken"
    /\ state' = "ESTABLISHED" => peer' = "open"
    /\ state' = "CLOSE_WAIT" => peer' = "ended"
    /\ state' = "CLOSED" => peer' = "broken"
    /\ state' = state => peer' = peer
BY DEF peer

(* Nothing is left to read: the reader has all that arrived.               *)
LEMMA EmptyRing ==
    ASSUME BridgeInv, rcvBuf = <<>>, state # "CLOSED"
    PROVE  Len(inBuf) = arrived
<1> DEFINE m == arrived - Len(inBuf)
<1>1. /\ rcvBuf = Bytes(Len(inBuf), m) /\ m \in Nat
      /\ Len(inBuf) \in Nat /\ arrived \in Nat
  BY DEF BridgeInv, BridgeTypeOK, RingFits
<1>2. Len(rcvBuf) = m
  BY <1>1, BytesType
<1> QED
  BY <1>1, <1>2

(* Every step is a step of the stream or none.                             *)
LEMMA StreamStep ==
    BridgeInv /\ [Next]_vars => [Stream!Next]_(Stream!streamVars)
<1> SUFFICES ASSUME BridgeInv, [Next]_vars
             PROVE  Stream!Next \/ UNCHANGED Stream!streamVars
  OBVIOUS
<1> USE BridgeAssumption
<1>inv. BridgeTypeOK /\ RingFits
  BY DEF BridgeInv
<1>still. UNCHANGED <<arrived, inBuf, state, outBuf, queued, answer>>
          => UNCHANGED Stream!streamVars
  BY PeerOfState DEF Stream!streamVars
<1>1. ASSUME NEW sz \in ReadSizes, RecvData(sz) PROVE Stream!Next
  <2>1. UNCHANGED <<arrived, state, outBuf, queued>> /\ answer' = "bytes"
    BY <1>1 DEF RecvData, Return
  <2>2. state # "CLOSED" /\ peer' = peer /\ peer # "broken"
    BY <1>1, <1>inv, <2>1, RecvDataFits, PeerOfState DEF BridgeTypeOK
  <2>3. PICK n \in 1..(arrived - Len(inBuf)) :
            inBuf' = inBuf \o Bytes(Len(inBuf), n)
    BY <1>1, RecvDataFits
  <2>4. Len(inBuf) + n <= arrived
    BY <2>3, <1>inv DEF BridgeTypeOK
  <2>5. Stream!Deliver(n)
    BY <2>1, <2>2, <2>3, <2>4 DEF Stream!Deliver, Stream!Bytes, Bytes
  <2> QED
    BY <2>5 DEF Stream!Next
<1>2. CASE RecvClosed
  <2>1. /\ UNCHANGED <<arrived, inBuf, state, outBuf, queued>>
        /\ answer' = "CONN_CLOSE" /\ rcvBuf = <<>>
        /\ state \in {"CLOSED", "CLOSE_WAIT"}
    BY <1>2 DEF RecvClosed, Return, socket, isRemoteClosed
  <2>2. CASE state = "CLOSED"
    BY <2>1, <2>2, PeerOfState DEF Stream!Next, Stream!ReadNothing
  <2>3. CASE state = "CLOSE_WAIT"
    BY <2>1, <2>3, PeerOfState, EmptyRing DEF Stream!Next, Stream!ReadNothing
  <2> QED
    BY <2>1, <2>2, <2>3
<1>3. CASE RecvTimesOut
  <2>1. /\ UNCHANGED <<arrived, inBuf, state, outBuf, queued>>
        /\ answer' = "WANT_READ" /\ rcvBuf = <<>>
        /\ state = "ESTABLISHED"
    BY <1>3, <1>inv
    DEF RecvTimesOut, Return, socket, isRemoteClosed, BridgeTypeOK
  <2> QED
    BY <2>1, PeerOfState, EmptyRing DEF Stream!Next, Stream!ReadNothing
<1>4. ASSUME NEW sz \in ReadSizes, RecvStarts(sz)
      PROVE  UNCHANGED Stream!streamVars
  BY <1>4, <1>still DEF RecvStarts, socket
<1>5. CASE SendClosed
  <2>1. /\ UNCHANGED <<arrived, inBuf, state, outBuf, queued>>
        /\ answer' = "CONN_CLOSE" /\ state = "CLOSED"
    BY <1>5 DEF SendClosed, Return, socket, isClosed
  <2> QED
    BY <2>1, PeerOfState DEF Stream!Next, Stream!Refuse
<1>6. CASE SendNoWindow
  <2>1. /\ UNCHANGED <<arrived, inBuf, state, outBuf, queued>>
        /\ answer' = "WANT_WRITE"
    BY <1>6 DEF SendNoWindow, socket
  <2> QED
    BY <2>1, PeerOfState DEF Stream!Next, Stream!Refuse
<1>7. CASE SendQueued
  <2> DEFINE sz == Least(Len(outBuf), canSend)
  <2>1. /\ UNCHANGED <<arrived, inBuf, state>> /\ answer' = "bytes"
        /\ queued' = queued \o SubSeq(outBuf, 1, sz)
        /\ outBuf' = SubSeq(outBuf, sz + 1, Len(outBuf))
        /\ outBuf # <<>> /\ canSend > 0
    BY <1>7 DEF SendQueued, SendCalled
  <2>2. sz \in 1..Len(outBuf)
    <3>1. /\ outBuf \in Seq(Nat) /\ remoteWindow \in Nat
          /\ MaxEnqueueSize \in Nat
      BY <1>inv DEF BridgeTypeOK
    <3>2. canSend \in Nat
      BY <3>1 DEF canSend, Least
    <3>3. Len(outBuf) \in Nat /\ Len(outBuf) # 0
      BY <2>1, <3>1
    <3> QED
      BY <2>1, <3>2, <3>3 DEF Least
  <2> HIDE DEF sz
  <2>3. Stream!Take(sz)
    BY <2>1, PeerOfState DEF Stream!Take
  <2> QED
    BY <2>2, <2>3 DEF Stream!Next
<1>8. CASE SendRefused
  <2>1. /\ UNCHANGED <<arrived, inBuf, state, outBuf, queued>>
        /\ answer' = "GENERAL"
    BY <1>8 DEF SendRefused, Return, socket
  <2> QED
    BY <2>1, PeerOfState DEF Stream!Next, Stream!Refuse
<1>9. CASE SendReturns
  BY <1>9, <1>still DEF SendReturns, socket
<1>10. CASE DrivePacket
  BY <1>10, <1>still DEF DrivePacket
<1>11. CASE Destroyed
  <2>1. /\ UNCHANGED <<arrived, inBuf, outBuf, queued, answer>>
        /\ state' = "CLOSED"
    BY <1>11 DEF Destroyed
  <2> QED
    BY <2>1, PeerOfState DEF Stream!Next, Stream!Break
<1>12. CASE Tick
  BY <1>12, <1>still DEF Tick, socket
<1>13. ASSUME NEW k \in 0..Len(unacked), NEW w \in 0..MaxWindow,
              NEW n \in 0..MaxIn, NEW fin \in BOOLEAN,
              Segment(k, w, n, fin)
       PROVE  Stream!Next \/ UNCHANGED Stream!streamVars
  <2>1. /\ UNCHANGED <<inBuf, outBuf, queued, answer>>
        /\ state # "CLOSED"
        /\ state = "ESTABLISHED" \/ (n = 0 /\ ~fin)
        /\ \/ UNCHANGED <<state, arrived>>
           \/ /\ arrived' = arrived + n
              /\ state' = IF fin THEN "CLOSE_WAIT" ELSE state
    BY <1>13 DEF Segment, isClosed
  <2>2. arrived \in Nat
    BY <1>inv DEF BridgeTypeOK
  <2>3. CASE UNCHANGED <<state, arrived>>
    BY <2>1, <2>3, <1>still
  <2>4. CASE /\ arrived' = arrived + n
             /\ state' = IF fin THEN "CLOSE_WAIT" ELSE state
    <3>1. CASE n = 0 /\ ~fin
      BY <2>1, <2>2, <2>4, <3>1, <1>still
    <3>2. CASE state = "ESTABLISHED"
      <4>1. peer = "open" /\ peer' \in {"open", "ended"}
        BY <2>4, <3>2, PeerOfState
      <4>2. arrived' \in Nat /\ arrived' >= arrived
        BY <2>2, <2>4
      <4> QED
        BY <2>1, <4>1, <4>2 DEF Stream!Next, Stream!Arrive
    <3> QED
      BY <2>1, <3>1, <3>2
  <2> QED
    BY <2>1, <2>3, <2>4
<1>14. ASSUME NEW n \in 1..MaxOut, Fill(n) PROVE Stream!Next
  <2>1. /\ UNCHANGED <<arrived, inBuf, state, queued, answer>>
        /\ outBuf' = outBuf \o Bytes(Len(queued) + Len(outBuf), n)
    BY <1>14 DEF Fill, socket
  <2>2. /\ outBuf \in Seq(Nat) /\ Len(queued) + Len(outBuf) \in Nat
    BY <1>inv DEF BridgeTypeOK
  <2>3. /\ Bytes(Len(queued) + Len(outBuf), n) \in Seq(Nat)
        /\ Len(Bytes(Len(queued) + Len(outBuf), n)) = n
    BY <2>2, BytesType
  <2>4. Len(outBuf') = Len(outBuf) + n
    BY <2>1, <2>2, <2>3, ConcatType
  <2>5. n \in 1..Len(outBuf')
    BY <2>2, <2>4
  <2>6. Stream!Fill
    BY <2>1, <2>5, PeerOfState DEF Stream!Fill, Stream!Bytes, Bytes
  <2> QED
    BY <2>6 DEF Stream!Next
<1>15. CASE UNCHANGED vars
  BY <1>15, <1>still DEF vars, socket
<1> QED
  <2>1. CASE Recv
    <3>1. pc = "receiving" => asked \in ReadSizes
      BY <1>inv DEF BridgeTypeOK
    <3> QED
      BY <2>1, <3>1, <1>1, <1>2, <1>3, <1>4 DEF Recv, RecvPolled, RecvAtOnce
  <2>2. CASE Send
    BY <2>2, <1>5, <1>6, <1>7, <1>8, <1>9 DEF Send
  <2>3. CASE Network
    BY <2>3, <1>10, <1>11, <1>12, <1>13 DEF Network
  <2> QED
    BY <2>1, <2>2, <2>3, <1>14, <1>15 DEF Next

(* The callbacks are a stream in both directions, for rings, windows and   *)
(* segments of any size (ImplementsStream): no call loses or repeats a     *)
(* byte, and only a broken connection ends before the last one.            *)
THEOREM BridgeImplementsStream == Spec => ImplementsStream
<1>1. Init => Stream!Init
  BY PeerOfState DEF Init, Stream!Init
<1> QED
  BY <1>1, BridgeInit, BridgeStep, StreamStep, PTL
  DEF Spec, ImplementsStream, Stream!Spec
=============================================================================
