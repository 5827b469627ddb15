------------------------ MODULE TlsConnectionProofs ------------------------
(***************************************************************************)
(* The safety properties of TlsConnection, for any number of sockets and   *)
(* hosts and any timeouts.  The properties follow from an invariant that   *)
(* says, for each place in the code, what the program holds there.         *)
(***************************************************************************)
EXTENDS TlsConnection, TLAPS

(* What sock and c hold in each phase: resources are acquired in the order *)
(* socket, context, session, and once closing starts only the socket is    *)
(* left.                                                                   *)
HoldsWhat ==
    /\ tpc \in {"idle", "failed", "resolving", "socket"} => sock = NULL /\ c = NoCtx
    /\ tpc = "connecting" => sock # NULL /\ c = NoCtx
    /\ tpc \in {"context", "session", "handshake"} => sock # NULL /\ c.tcp_sock =
       sock
    /\ tpc = "up" => sock = NULL /\ c.tcp_sock # NULL
    /\ tpc = "closing" => sock # NULL /\ c.tcp_sock \in {NULL, sock}
    /\ c.ctx <=> tpc \in {"session", "handshake", "up"}
    /\ c.ssl <=> tpc \in {"handshake", "up"}

ConnInv == ConnTypeOK /\ HoldsWhat /\ ResourcesAccounted /\ FreeSocketsQuiet

-----------------------------------------------------------------------------
(* Before anything is connected nothing is held.                           *)
LEMMA ConnInvInit == ConnInit => ConnInv
<1> SUFFICES ASSUME ConnInit PROVE ConnInv
  OBVIOUS
<1>1. ConnTypeOK
  BY SocketsAssumption DEF ConnInit, ConnTypeOK, Phases, NoCtx
<1>2. HoldsWhat /\ ResourcesAccounted /\ FreeSocketsQuiet
  BY SocketsAssumption
  DEF ConnInit, HoldsWhat, ResourcesAccounted, FreeSocketsQuiet, NoCtx
<1> QED BY <1>1, <1>2 DEF ConnInv

(* The blocking close starts with the socket as all that is held.          *)
LEMMA FailStep ==
    ASSUME ConnInv, NEW hasSsl \in BOOLEAN, NEW hasCtx \in BOOLEAN,
           tpc \in {"context", "session", "handshake"},
           c.ssl <=> hasSsl, c.ctx <=> hasCtx, Fail(hasSsl, hasCtx)
    PROVE  ConnInv'
<1> USE SocketsAssumption DEF Fail, StartClose, ConnInv, ConnTypeOK
<1>1. ConnTypeOK'
  <2>1. ssls' \in Nat /\ ctxs' \in Nat
    BY DEF HoldsWhat, ResourcesAccounted
  <2>2. c' \in [tcp_sock : Sockets \cup {NULL}, ctx : BOOLEAN, ssl : BOOLEAN]
    OBVIOUS
  <2> QED BY <2>1, <2>2 DEF Phases, Polling
<1>2. HoldsWhat'
  BY DEF HoldsWhat, NoCtx
<1>3. ResourcesAccounted'
  BY <1>1, <1>2 DEF HoldsWhat, ResourcesAccounted
<1>4. FreeSocketsQuiet'
  BY
  DEF Fail, StartClose, ConnInv, ConnTypeOK, HoldsWhat, ResourcesAccounted,
     FreeSocketsQuiet
<1> QED BY <1>1, <1>2, <1>3, <1>4

(* Every step of the two functions, of the network and of the clock keeps  *)
(* the invariant.                                                          *)
LEMMA ConnInvStep == ConnInv /\ [ConnNext]_connVars => ConnInv'
<1> SUFFICES ASSUME ConnInv, [ConnNext]_connVars PROVE ConnInv'
  OBVIOUS
<1> USE SocketsAssumption, HostsAssumption, TimeoutAssumption
    DEF ConnInv, ConnTypeOK, HoldsWhat, ResourcesAccounted, FreeSocketsQuiet,
        Phases, Polling, NoCtx, heap
<1>1. ASSUME NEW h \in Hosts, Connect(h) PROVE ConnInv'
  <2>1. ConnTypeOK'
    BY <1>1 DEF Connect
  <2>2. HoldsWhat'
    BY <1>1 DEF Connect
  <2>3. ResourcesAccounted'
    BY <1>1, <2>2 DEF Connect
  <2>4. FreeSocketsQuiet'
    BY <1>1 DEF Connect
  <2> QED BY <2>1, <2>2, <2>3, <2>4
<1>2. CASE Resolved
  BY <1>2 DEF Resolved
<1>3. CASE ResolveFailed
  BY <1>3 DEF ResolveFailed
<1>4. ASSUME NEW s \in Sockets, OpenSocket(s) PROVE ConnInv'
  BY <1>4 DEF OpenSocket
<1>5. CASE OpenSocketFailed
  BY <1>5 DEF OpenSocketFailed
<1>6. CASE Connected
  BY <1>6 DEF Connected
<1>7. CASE ConnectFailed
  BY <1>7 DEF ConnectFailed, StartClose
<1>8. CASE NewContext
  <2>1. ConnTypeOK'
    <3>1. c' \in [tcp_sock : Sockets \cup {NULL}, ctx : BOOLEAN, ssl : BOOLEAN]
      BY <1>8 DEF NewContext
    <3>2. ctxs' \in Nat
      BY <1>8 DEF NewContext
    <3> QED BY <1>8, <3>1, <3>2 DEF NewContext
  <2>2. HoldsWhat'
    BY <1>8 DEF NewContext
  <2>3. ResourcesAccounted'
    BY <1>8, <2>2 DEF NewContext
  <2>4. FreeSocketsQuiet'
    BY <1>8 DEF NewContext
  <2> QED BY <2>1, <2>2, <2>3, <2>4
<1>9. CASE NewContextFailed
  BY <1>9, FailStep DEF NewContextFailed
<1>10. CASE NewSession
  <2>1. ConnTypeOK'
    <3>1. c' \in [tcp_sock : Sockets \cup {NULL}, ctx : BOOLEAN, ssl : BOOLEAN]
      BY <1>10 DEF NewSession
    <3>2. ssls' \in Nat
      BY <1>10 DEF NewSession
    <3> QED BY <1>10, <3>1, <3>2 DEF NewSession
  <2>2. HoldsWhat'
    BY <1>10 DEF NewSession
  <2>3. ResourcesAccounted'
    BY <1>10, <2>2 DEF NewSession
  <2>4. FreeSocketsQuiet'
    BY <1>10 DEF NewSession
  <2> QED BY <2>1, <2>2, <2>3, <2>4
<1>11. CASE NewSessionFailed
  BY <1>11, FailStep DEF NewSessionFailed
<1>12. CASE Handshaken
  BY <1>12 DEF Handshaken
<1>13. CASE HandshakeFailed
  BY <1>13, FailStep DEF HandshakeFailed
<1>14. CASE Close
  <2>1. ConnTypeOK'
    <3>1. c' \in [tcp_sock : Sockets \cup {NULL}, ctx : BOOLEAN, ssl : BOOLEAN]
      BY <1>14 DEF Close, StartClose
    <3>2. ssls' \in Nat /\ ctxs' \in Nat
      BY <1>14 DEF Close, StartClose
    <3> QED BY <1>14, <3>1, <3>2 DEF Close, StartClose
  <2>2. HoldsWhat'
    BY <1>14 DEF Close, StartClose
  <2>3. ResourcesAccounted'
    BY <1>14, <2>2 DEF Close, StartClose
  <2>4. FreeSocketsQuiet'
    BY <1>14 DEF Close, StartClose
  <2> QED BY <2>1, <2>2, <2>3, <2>4
<1>15. CASE CloseDone
  <2>1. ConnTypeOK'
    BY <1>15 DEF CloseDone, Destroy
  <2>2. HoldsWhat'
    BY <1>15 DEF CloseDone, Destroy
  <2>3. ResourcesAccounted'
    BY <1>15, <2>2 DEF CloseDone, Destroy
  <2>4. FreeSocketsQuiet'
    BY <1>15 DEF CloseDone, Destroy
  <2> QED BY <2>1, <2>2, <2>3, <2>4
<1>16. CASE NameServerAnswers
  BY <1>16 DEF NameServerAnswers
<1>17. ASSUME NEW s \in Sockets, PeerAccepts(s) PROVE ConnInv'
  BY <1>17 DEF PeerAccepts
<1>18. ASSUME NEW s \in Sockets, PeerCloses(s) PROVE ConnInv'
  BY <1>18 DEF PeerCloses
<1>19. ASSUME NEW s \in Sockets, PeerResets(s) PROVE ConnInv'
  BY <1>19 DEF PeerResets, Destroy
<1>20. CASE Tick
  BY <1>20 DEF Tick
<1>21. CASE UNCHANGED connVars
  BY <1>21 DEF connVars
<1> QED
  BY <1>1, <1>2, <1>3, <1>4, <1>5, <1>6, <1>7, <1>8, <1>9, <1>10, <1>11, <1>12,
     <1>13, <1>14, <1>15, <1>16, <1>17, <1>18, <1>19, <1>20, <1>21
  DEF ConnNext, Establish, Network

(* The invariant holds in every reachable state.                           *)
THEOREM ConnInvariant == ConnSpec => []ConnInv
BY ConnInvInit, ConnInvStep, PTL DEF ConnSpec

-----------------------------------------------------------------------------
(* Every variable of nos_tls_connect and nos_tls_close keeps its type.     *)
THEOREM ConnTypeCorrect == ConnSpec => []ConnTypeOK
<1>1. ConnInv => ConnTypeOK
  BY DEF ConnInv
<1> QED BY <1>1, ConnInvariant, PTL

(* No failure path of nos_tls_connect leaks a socket, a session or a       *)
(* context, or frees one twice.                                            *)
THEOREM ConnResources == ConnSpec => []ResourcesAccounted
<1>1. ConnInv => ResourcesAccounted
  BY DEF ConnInv
<1> QED BY <1>1, ConnInvariant, PTL

(* A socket on mTCP's free list takes no packets and owns no memory.       *)
THEOREM ConnFreeSockets == ConnSpec => []FreeSocketsQuiet
<1>1. ConnInv => FreeSocketsQuiet
  BY DEF ConnInv
<1> QED BY <1>1, ConnInvariant, PTL

(* Before a socket is taken, and after a failure, everything is free.      *)
LEMMA IdleIsFree == ConnInv => NothingHeldBetweenCalls
<1> SUFFICES ASSUME ConnInv, tpc \in {"idle", "failed", "resolving", "socket"}
             PROVE  /\ pool = Sockets /\ active = {} /\ buffers = {}
                    /\ ctxs = 0 /\ ssls = 0 /\ c = NoCtx
  BY DEF NothingHeldBetweenCalls
<1>1. sock = NULL /\ c = NoCtx
  BY DEF ConnInv, HoldsWhat
<1>2. pool = Sockets /\ ctxs = 0 /\ ssls = 0
  BY <1>1 DEF ConnInv, ConnTypeOK, ResourcesAccounted, NoCtx
<1>3. active = {} /\ buffers = {}
  BY <1>2 DEF ConnInv, ConnTypeOK, FreeSocketsQuiet
<1> QED BY <1>1, <1>2, <1>3

(* Between two connections everything is free.                             *)
THEOREM ConnNothingHeld == ConnSpec => []NothingHeldBetweenCalls
BY IdleIsFree, ConnInvariant, PTL

(* A socket returns to the pool only when no session is left to use it.    *)
THEOREM ConnSocketOutlives == ConnSpec => SocketOutlivesSession
<1>1. ASSUME ConnInv, [ConnNext]_connVars, NEW s \in Sockets, s \notin pool, s \in pool'
      PROVE  ssls = 0 /\ ctxs = 0
  <2>1. CloseDone
    BY <1>1
    DEF ConnNext, Establish, Network, connVars, Connect, Resolved,
        ResolveFailed, OpenSocket, OpenSocketFailed, Connected, ConnectFailed,
        NewContext, NewContextFailed, NewSession, NewSessionFailed, Handshaken,
        HandshakeFailed, Fail, StartClose, Close, NameServerAnswers,
        PeerAccepts, PeerCloses, PeerResets, Tick
  <2> QED
    BY <1>1, <2>1 DEF CloseDone, ConnInv, HoldsWhat, ResourcesAccounted
<1>2. ConnInv /\ [ConnNext]_connVars =>
        [\A s \in Sockets : s \notin pool /\ s \in pool' => ssls = 0 /\ ctxs =
           0]_connVars
  BY <1>1
<1> QED BY <1>2, ConnInvariant, PTL DEF ConnSpec, SocketOutlivesSession
=============================================================================
