---------------------------- MODULE TlsConnection ----------------------------
(***************************************************************************)
(* nos_tls_connect and nos_tls_close (src/src/tls_io.cpp) over the mTCP    *)
(* socket pool.  The program is single threaded: while one of the two      *)
(* functions polls, only the network and the timer interrupt move, and     *)
(* they move the TCP state of the socket under it.                         *)
(*                                                                         *)
(* The module follows every resource that the two functions acquire: the   *)
(* pooled socket, its receive buffer, its entry in mTCP's active table,    *)
(* the WOLFSSL_CTX and the WOLFSSL object.                                 *)
(***************************************************************************)
EXTENDS Naturals, FiniteSets

CONSTANTS Hosts,           \* host names that can be asked for
          Sockets,         \* TcpSocketMgr's sockets (initStack asks for 1)
          NULL,            \* the null pointer
          DnsTimeout,      \* DNS_TIMEOUT, in timer ticks
          ConnectTimeout,  \* NOS_CONNECT_TIMEOUT, in timer ticks
          CloseTimeout     \* TCP_CLOSE_TIMEOUT, in timer ticks

ASSUME SocketsAssumption == Sockets # {} /\ NULL \notin Sockets
ASSUME HostsAssumption == NULL \notin Hosts
ASSUME TimeoutAssumption ==
    /\ DnsTimeout \in Nat /\ ConnectTimeout \in Nat /\ CloseTimeout \in Nat

VARIABLES
    tpc,      \* where in nos_tls_connect / nos_tls_close the program is
    host,     \* the host argument of the connection
    dns,      \* the pending query: "pending", "good" or "bad"
    sock,     \* the local variable sock of the function that is running
    c,        \* the caller's nos_tls_ctx_t
    pool,     \* TcpSocketMgr's free sockets
    active,   \* mTCP's active table: the sockets that packets are matched with
    tcp,      \* the TCP state of each socket
    buffers,  \* the sockets that own a receive buffer on the heap
    ctxs,     \* WOLFSSL_CTX objects alive on the heap
    ssls,     \* WOLFSSL objects alive on the heap
    waited,   \* timer ticks since the polling loop in progress started
    after     \* what the caller sees once the blocking close is over

connVars == <<tpc, host, dns, sock, c, pool, active, tcp, buffers, ctxs, ssls,
              waited, after>>

heap == <<ctxs, ssls>>

NoCtx == [tcp_sock |-> NULL, ctx |-> FALSE, ssl |-> FALSE]

Polling == {"resolving", "connecting", "closing"}

Phases == Polling \cup
          {"idle", "socket", "context", "session", "handshake", "up", "failed"}

(***************************************************************************)
(* The tick at which a loop gives up.  The connect loop leaves when        *)
(* Timer_diff > timeout, isCloseDone when it is no longer < timeout.       *)
(***************************************************************************)
Deadline(phase) ==
    CASE phase = "resolving"  -> DnsTimeout
      [] phase = "connecting" -> ConnectTimeout + 1
      [] phase = "closing"    -> CloseTimeout

ConnInit ==
    /\ tpc = "idle"
    /\ host = NULL
    /\ dns = "bad"
    /\ sock = NULL
    /\ c = NoCtx
    /\ pool = Sockets
    /\ active = {}
    /\ tcp = [s \in Sockets |-> "CLOSED"]
    /\ buffers = {}
    /\ ctxs = 0
    /\ ssls = 0
    /\ waited = 0
    /\ after = "idle"

-----------------------------------------------------------------------------
(* mTCP's destroy: leave the active table, free the receive buffer.        *)
Destroy(s) ==
    /\ tcp' = [tcp EXCEPT ![s] = "CLOSED"]
    /\ active' = active \ {s}
    /\ buffers' = buffers \ {s}

(* sock->close() starts; the program polls until isCloseDone.  From        *)
(* SYN_SENT the socket is CLOSED at once, otherwise a FIN goes out.        *)
StartClose(s, result) ==
    /\ tpc' = "closing"
    /\ after' = result
    /\ waited' = 0
    /\ tcp' = [tcp EXCEPT ![s] =
                 IF tcp[s] = "SYN_SENT" THEN "CLOSED"
                 ELSE IF tcp[s] \in {"ESTABLISHED", "CLOSE_WAIT"} THEN "FIN_SENT"
                 ELSE @]
    /\ UNCHANGED <<pool, active, buffers>>

(* The labels fail_ssl, fail_ctx and fail_tcp: each falls through to the   *)
(* next, so what was acquired last is released first.                      *)
Fail(hasSsl, hasCtx) ==
    /\ ssls' = IF hasSsl THEN ssls - 1 ELSE ssls
    /\ ctxs' = IF hasCtx THEN ctxs - 1 ELSE ctxs
    /\ c' = [c EXCEPT !.ssl = FALSE, !.ctx = FALSE]
    /\ StartClose(sock, "failed")
    /\ UNCHANGED <<host, dns, sock>>

-----------------------------------------------------------------------------
(* nos_tls_connect is called: memset(c, 0), and Dns::resolve answers from  *)
(* its cache or the hosts file, refuses the name, or sends a query.        *)
Connect(h) ==
    /\ tpc \in {"idle", "failed"}
    /\ host' = h
    /\ dns' \in {"pending", "good", "bad"}
    /\ sock' = NULL
    /\ c' = NoCtx
    /\ waited' = 0
    /\ tpc' = "resolving"
    /\ UNCHANGED <<pool, active, tcp, buffers, after, heap>>

(* The query is over, and the second Dns::resolve finds the address.       *)
Resolved ==
    /\ tpc = "resolving"
    /\ dns = "good"
    /\ tpc' = "socket"
    /\ UNCHANGED <<host, dns, sock, c, pool, active, tcp, buffers, waited, after, heap>>

(* The query cannot start, is refused, or times out: no resource is held.  *)
ResolveFailed ==
    /\ tpc = "resolving"
    /\ dns = "bad" \/ (dns = "pending" /\ waited = Deadline("resolving"))
    /\ dns' = "bad"
    /\ tpc' = "failed"
    /\ UNCHANGED <<host, sock, c, pool, active, tcp, buffers, waited, after, heap>>

(* getSocket and setRecvBuffer, then connectNonBlocking: the socket enters *)
(* the active table and a SYN is queued.                                   *)
OpenSocket(s) ==
    /\ tpc = "socket"
    /\ s \in pool
    /\ sock' = s
    /\ pool' = pool \ {s}
    /\ buffers' = buffers \cup {s}
    /\ active' = active \cup {s}
    /\ tcp' = [tcp EXCEPT ![s] = "SYN_SENT"]
    /\ waited' = 0
    /\ tpc' = "connecting"
    /\ UNCHANGED <<host, dns, c, after, heap>>

(* The pool is empty, or the receive buffer cannot be allocated, in which  *)
(* case the socket goes straight back.                                     *)
OpenSocketFailed ==
    /\ tpc = "socket"
    /\ tpc' = "failed"
    /\ UNCHANGED <<host, dns, sock, c, pool, active, tcp, buffers, waited, after, heap>>

(* The polling loop sees isConnectComplete: ESTABLISHED or CLOSE_WAIT.     *)
Connected ==
    /\ tpc = "connecting"
    /\ tcp[sock] \in {"ESTABLISHED", "CLOSE_WAIT"}
    /\ c' = [c EXCEPT !.tcp_sock = sock]
    /\ tpc' = "context"
    /\ UNCHANGED <<host, dns, sock, pool, active, tcp, buffers, waited, after, heap>>

(* Mutation: the loop has no timeout.                                      *)
ConnectFailedOnlyIfClosed ==
    /\ tpc = "connecting"
    /\ tcp[sock] = "CLOSED"
    /\ StartClose(sock, "failed")
    /\ UNCHANGED <<host, dns, sock, c, heap>>

(* Mutation: the socket is given back without being closed.                *)
ConnectFailedUnclosed ==
    /\ tpc = "connecting"
    /\ tcp[sock] \notin {"ESTABLISHED", "CLOSE_WAIT"}
    /\ tcp[sock] = "CLOSED" \/ waited = Deadline("connecting")
    /\ pool' = pool \cup {sock}
    /\ sock' = NULL
    /\ tpc' = "failed"
    /\ UNCHANGED <<host, dns, c, active, tcp, buffers, waited, after, heap>>

(* The loop sees isClosed, or the timeout: close and give the socket back. *)
ConnectFailed ==
    /\ tpc = "connecting"
    /\ tcp[sock] \notin {"ESTABLISHED", "CLOSE_WAIT"}
    /\ tcp[sock] = "CLOSED" \/ waited = Deadline("connecting")
    /\ StartClose(sock, "failed")
    /\ UNCHANGED <<host, dns, sock, c, heap>>

NewContext ==
    /\ tpc = "context"
    /\ ctxs' = ctxs + 1
    /\ c' = [c EXCEPT !.ctx = TRUE]
    /\ tpc' = "session"
    /\ UNCHANGED <<host, dns, sock, pool, active, tcp, buffers, ssls, waited, after>>

(* Mutation: goto fail_ctx.                                                *)
NewContextFailedFreesIt == tpc = "context" /\ Fail(FALSE, TRUE)

NewContextFailed == tpc = "context" /\ Fail(FALSE, FALSE)

NewSession ==
    /\ tpc = "session"
    /\ ssls' = ssls + 1
    /\ c' = [c EXCEPT !.ssl = TRUE]
    /\ tpc' = "handshake"
    /\ UNCHANGED <<host, dns, sock, pool, active, tcp, buffers, ctxs, waited, after>>

NewSessionFailed == tpc = "session" /\ Fail(FALSE, TRUE)

(* wolfSSL_connect succeeds: nos_tls_connect returns 0.  The last flight   *)
(* may already be in the receive buffer when the connection drops, so the  *)
(* TCP state says nothing about it.                                        *)
Handshaken ==
    /\ tpc = "handshake"
    /\ tpc' = "up"
    /\ sock' = NULL
    /\ UNCHANGED <<host, dns, c, pool, active, tcp, buffers, waited, after, heap>>

(* Mutation: goto fail_ctx.                                                *)
HandshakeFailedKeepsSession == tpc = "handshake" /\ Fail(FALSE, TRUE)

HandshakeFailed == tpc = "handshake" /\ Fail(TRUE, TRUE)

(* Mutation: the socket goes back to the pool before the session is freed. *)
CloseSocketFirst ==
    /\ tpc = "up"
    /\ Destroy(c.tcp_sock)
    /\ pool' = pool \cup {c.tcp_sock}
    /\ c' = [c EXCEPT !.tcp_sock = NULL]
    /\ tpc' = "idle"
    /\ UNCHANGED <<host, dns, sock, waited, after, heap>>

(* nos_tls_close: shut the session down, free it and its context, and      *)
(* start the blocking close of the socket.                                 *)
Close ==
    /\ tpc = "up"
    /\ ssls' = IF c.ssl THEN ssls - 1 ELSE ssls
    /\ ctxs' = IF c.ctx THEN ctxs - 1 ELSE ctxs
    /\ c' = [c EXCEPT !.ssl = FALSE, !.ctx = FALSE]
    /\ sock' = c.tcp_sock
    /\ StartClose(c.tcp_sock, "idle")
    /\ UNCHANGED <<host, dns>>

(* Mutation: the close has no timeout.                                     *)
CloseDoneOnlyIfClosed ==
    /\ tpc = "closing"
    /\ tcp[sock] = "CLOSED"
    /\ Destroy(sock)
    /\ pool' = pool \cup {sock}
    /\ c' = [c EXCEPT !.tcp_sock = NULL]
    /\ sock' = NULL
    /\ tpc' = after
    /\ UNCHANGED <<host, dns, waited, after, heap>>

(* Mutation: no freeSocket.                                                *)
CloseDoneLeaks ==
    /\ tpc = "closing"
    /\ tcp[sock] = "CLOSED" \/ waited = Deadline("closing")
    /\ Destroy(sock)
    /\ c' = [c EXCEPT !.tcp_sock = NULL]
    /\ sock' = NULL
    /\ tpc' = after
    /\ UNCHANGED <<pool, host, dns, waited, after, heap>>

(* isCloseDone: the close handshake is over or has taken too long; the     *)
(* socket is destroyed, and freeSocket puts it back on the free list.      *)
CloseDone ==
    /\ tpc = "closing"
    /\ tcp[sock] = "CLOSED" \/ waited = Deadline("closing")
    /\ Destroy(sock)
    /\ pool' = pool \cup {sock}
    /\ c' = [c EXCEPT !.tcp_sock = NULL]
    /\ sock' = NULL
    /\ tpc' = after
    /\ UNCHANGED <<host, dns, waited, after, heap>>

-----------------------------------------------------------------------------
(* The network and the clock.                                              *)

(* The name server's answer, good or bad.                                  *)
NameServerAnswers ==
    /\ tpc = "resolving" /\ dns = "pending"
    /\ dns' \in {"good", "bad"}
    /\ UNCHANGED <<tpc, host, sock, c, pool, active, tcp, buffers, waited, after, heap>>

(* SYN|ACK.                                                                *)
PeerAccepts(s) ==
    /\ s \in active /\ tcp[s] = "SYN_SENT"
    /\ tcp' = [tcp EXCEPT ![s] = "ESTABLISHED"]
    /\ UNCHANGED <<tpc, host, dns, sock, c, pool, active, buffers, waited, after, heap>>

(* FIN: the answer to ours completes the close.                            *)
PeerCloses(s) ==
    /\ s \in active /\ tcp[s] \in {"ESTABLISHED", "FIN_SENT"}
    /\ tcp' = [tcp EXCEPT ![s] = IF @ = "ESTABLISHED" THEN "CLOSE_WAIT" ELSE "CLOSED"]
    /\ UNCHANGED <<tpc, host, dns, sock, c, pool, active, buffers, waited, after, heap>>

(* RST, or too many retransmissions: mTCP destroys the socket by itself,   *)
(* while the program still holds it.                                       *)
PeerResets(s) ==
    /\ s \in active /\ tcp[s] # "CLOSED"
    /\ Destroy(s)
    /\ UNCHANGED <<tpc, host, dns, sock, c, pool, waited, after, heap>>

(* The timer interrupt.  Past the deadline a tick changes nothing.         *)
Tick ==
    /\ tpc \in Polling
    /\ waited < Deadline(tpc)
    /\ waited' = waited + 1
    /\ UNCHANGED <<tpc, host, dns, sock, c, pool, active, tcp, buffers, after, heap>>

Network ==
    \/ NameServerAnswers
    \/ \E s \in Sockets : PeerAccepts(s) \/ PeerCloses(s) \/ PeerResets(s)

(* The steps nos_tls_connect takes once it is called.                      *)
Establish ==
    \/ Resolved \/ ResolveFailed
    \/ (\E s \in Sockets : OpenSocket(s)) \/ OpenSocketFailed
    \/ Connected \/ ConnectFailed
    \/ NewContext \/ NewContextFailed
    \/ NewSession \/ NewSessionFailed
    \/ Handshaken \/ HandshakeFailed

ConnNext ==
    \/ \E h \in Hosts : Connect(h)
    \/ Establish
    \/ Close
    \/ CloseDone
    \/ Network
    \/ Tick

ConnSpec == ConnInit /\ [][ConnNext]_connVars

(***************************************************************************)
(* The timer interrupt always comes, and a polling loop that can leave     *)
(* does.  Nothing is assumed of the network or of the name server.         *)
(***************************************************************************)
ConnFairness ==
    /\ WF_connVars(Tick)
    /\ WF_connVars(Establish)
    /\ WF_connVars(CloseDone)

ConnFairSpec == ConnSpec /\ ConnFairness
-----------------------------------------------------------------------------
(* Every variable has its type.                                            *)
ConnTypeOK ==
    /\ tpc \in Phases
    /\ host \in Hosts \cup {NULL}
    /\ dns \in {"pending", "good", "bad"}
    /\ sock \in Sockets \cup {NULL}
    /\ c \in [tcp_sock : Sockets \cup {NULL}, ctx : BOOLEAN, ssl : BOOLEAN]
    /\ pool \subseteq Sockets
    /\ active \subseteq Sockets
    /\ tcp \in [Sockets -> {"CLOSED", "SYN_SENT", "ESTABLISHED", "CLOSE_WAIT", "FIN_SENT"}]
    /\ buffers \subseteq Sockets
    /\ ctxs \in Nat
    /\ ssls \in Nat
    /\ waited \in Nat
    /\ after \in {"idle", "failed"}

(* What the program can still reach is what is alive: a socket is out of   *)
(* the pool exactly while sock or c.tcp_sock names it, and the heap holds  *)
(* a WOLFSSL and a WOLFSSL_CTX exactly while c points to them.  No failure *)
(* path of nos_tls_connect leaks one or frees one twice.                   *)
ResourcesAccounted ==
    /\ Sockets \ pool = {sock, c.tcp_sock} \ {NULL}
    /\ ctxs = (IF c.ctx THEN 1 ELSE 0)
    /\ ssls = (IF c.ssl THEN 1 ELSE 0)

(* A socket on the free list takes no packets and owns no memory: getSocket*)
(* wipes it with memset, so a receive buffer left behind would be lost,    *)
(* and a table entry left behind would deliver to a stranger.              *)
FreeSocketsQuiet ==
    \A s \in pool : s \notin active /\ s \notin buffers /\ tcp[s] = "CLOSED"

(* A connect call that starts, or that has failed, finds everything free:  *)
(* one socket is enough for any sequence of requests, and the no-free-     *)
(* sockets branch is never taken.                                          *)
NothingHeldBetweenCalls ==
    tpc \in {"idle", "failed", "resolving", "socket"} =>
        /\ pool = Sockets /\ active = {} /\ buffers = {}
        /\ ctxs = 0 /\ ssls = 0 /\ c = NoCtx

(* wolfSSL calls back into the socket until the session is freed, so the   *)
(* socket returns to the pool only when no session is left to use it.      *)
SocketOutlivesSession ==
    [][\A s \in Sockets : s \notin pool /\ s \in pool' => ssls = 0 /\ ctxs = 0]_connVars

(* nos_tls_connect returns, whatever the network and the server do: each   *)
(* of its loops has a timeout.                                             *)
ConnectReturns ==
    tpc \in {"resolving", "socket", "connecting", "context", "session", "handshake"}
        ~> tpc \in {"up", "failed"}

(* So does the blocking close, with the socket back in the pool.           *)
CloseReturns == tpc = "closing" ~> tpc \in {"idle", "failed"} /\ pool = Sockets
=============================================================================
