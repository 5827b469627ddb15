------------------------ MODULE GeminiRequestProofs ------------------------
(***************************************************************************)
(* The safety properties of GeminiRequest, for any set of URLs and hosts,  *)
(* any limit of redirects and any timeouts: the connection is used as      *)
(* TlsConnection expects, so its invariant carries over; an invariant of   *)
(* the call itself ties its place in the code to the state of the          *)
(* connection, to the requests sent so far and to the bytes delivered.     *)
(***************************************************************************)
EXTENDS GeminiRequest, TlsConnectionProofs

(* The places where the connection is up and its certificate was accepted. *)
OnConnection == {"write", "header", "dispatch", "body", "input"}

(* What the connection is doing at each place of the call.                 *)
ConnectionFits ==
    /\ pc = "idle" => tpc \in {"idle", "failed"}
    /\ pc = "connect" =>
          \/ tpc \notin {"idle", "closing"}
          \/ tpc = "closing" /\ after = "failed"
    /\ pc \in OnConnection => tpc = "up"
    /\ pc = "closing" => tpc = "idle" \/ (tpc = "closing" /\ after = "idle")

(* The connection belongs to current, and so does the accepted certificate. *)
HostFits ==
    /\ pc # "idle" => current \in Urls /\ host = HostOf[current]
    /\ pc \in OnConnection => accepted = host

(* The closing is of an exchange whose request was sent.                   *)
Answered == pc = "closing" /\ plan \in {"ok", "input", "redirect"}

(* Whether the request for current was sent, and that it is then the last. *)
SentFits ==
    /\ pc \in {"connect", "write"} => ~sent
    /\ pc \in {"header", "dispatch", "body", "input"} \/ Answered => sent
    /\ sent => trail # <<>> /\ trail[Len(trail)].url = current

(* Every redirect that is followed was counted before, and none is past    *)
(* the limit.                                                              *)
RedirectsFit ==
    /\ hops <= MaxRedirects
    /\ pc \notin {"idle", "closing"} \/ (pc = "closing" /\ plan = "input") =>
          hops = redirects
    /\ pc = "closing" /\ plan = "redirect" =>
          hops + 1 = redirects /\ redirects <= MaxRedirects

(* The request that current still stands for, and the one that an input    *)
(* just asked for will cause.                                              *)
Unsent == IF pc # "idle" /\ ~sent THEN 1 ELSE 0
Owed   == IF pc = "input" \/ (pc = "closing" /\ plan = "input") THEN 1 ELSE 0

(* Requests are paid for by the call, by redirects and by inputs.          *)
RequestsFit == Len(trail) + Unsent + Owed <= 1 + hops + inputs

(* Once the body has started, the call reads on or ends.                   *)
BodyFits ==
    delivered > 0 =>
        \/ pc \in {"body", "idle"}
        \/ pc = "closing" /\ plan \in {"ok", "body_callback_aborted"}

ReqInv == /\ TypeOK /\ ConnInv
          /\ ConnectionFits /\ HostFits /\ SentFits
          /\ RedirectsFit /\ RequestsFit /\ BodyFits

-----------------------------------------------------------------------------
(* Each step of the call that touches the connection is one of its steps.  *)
LEMMA ConnPart == TypeOK /\ [Next]_vars => [ConnNext]_connVars
<1> SUFFICES ASSUME TypeOK, [Next]_vars PROVE [ConnNext]_connVars
  OBVIOUS
<1>1. ASSUME NEW u \in Urls, Connect(HostOf[u]) PROVE ConnNext
  BY <1>1, UrlsAssumption DEF ConnNext
<1>2. ASSUME NEW next, CloseThen(next) PROVE ConnNext
  BY <1>2 DEF CloseThen, ConnNext
<1>3. ASSUME NEW u \in Urls, Request(u) PROVE ConnNext
  BY <1>1, <1>3 DEF Request
<1>4. CASE ConnStep
  BY <1>4 DEF ConnStep, ConnNext
<1>5. CASE Exchange
  <2>1. CASE \/ CertificateRejected \/ SendRequestFailed \/ ReadHeaderFailed
             \/ CountRedirect \/ OtherStatus \/ UserAnswers \/ UserAborts
    BY <1>2, <2>1
    DEF CertificateRejected, SendRequestFailed, ReadHeaderFailed, CountRedirect,
        OtherStatus, UserAnswers, UserAborts
  <2>2. ASSUME NEW st \in Statuses, ParseHeaderFailed(st) PROVE ConnNext
    BY <1>2, <2>2 DEF ParseHeaderFailed
  <2>3. ASSUME NEW n \in ChunkSizes, CallbackAborts(n) PROVE ConnNext
    BY <1>2, <2>3 DEF CallbackAborts
  <2>4. ASSUME NEW how, EndBody(how) PROVE ConnNext
    BY <1>2, <2>4 DEF EndBody
  <2>5. CASE \/ ConnectReturnsError \/ CertificateAccepted \/ SendRequest
             \/ StartBody \/ AskInput \/ Finish
    BY <2>5
    DEF ConnectReturnsError, CertificateAccepted, SendRequest, StartBody,
        AskInput, Finish
  <2>6. ASSUME NEW st \in Statuses, NEW m, ReadHeader(st, m)
        PROVE  UNCHANGED connVars
    BY <2>6 DEF ReadHeader
  <2>7. ASSUME NEW n \in ChunkSizes, ReadChunk(n) PROVE UNCHANGED connVars
    BY <2>7 DEF ReadChunk
  <2>8. CASE FollowRedirect
    <3>1. resp.meta \in Urls
      BY <2>8 DEF FollowRedirect, TypeOK, OutsOK
    <3> QED BY <1>1, <2>8, <3>1 DEF FollowRedirect, Follow
  <2>9. ASSUME NEW u \in Urls, FollowInput(u) PROVE ConnNext
    BY <1>1, <2>9 DEF FollowInput, Follow
  <2> QED
    BY <1>5, <2>1, <2>2, <2>3, <2>4, <2>5, <2>6, <2>7, <2>8, <2>9 DEF Exchange
<1>6. CASE UNCHANGED vars
  BY <1>6 DEF vars
<1> QED BY <1>3, <1>4, <1>5, <1>6 DEF Next

(* Variables that do not change keep their types.                          *)
LEMMA OutsKept == OutsOK /\ UNCHANGED outs => OutsOK'
BY DEF OutsOK, outs

(* So do the ones of the chain,                                            *)
LEMMA ChainKept == ChainOK /\ UNCHANGED chain => ChainOK'
BY DEF ChainOK, chain

(* and the counters of the body.                                           *)
LEMMA BodyKept == BodyOK /\ UNCHANGED body => BodyOK'
BY DEF BodyOK, body

(* set_err leaves a well-formed error.                                     *)
LEMMA SetErrTyped ==
    ASSUME NEW e \in Errs, NEW code \in {0, -1}, NEW tls \in {0, -1},
           NEW msg \in Texts
    PROVE  SetErr(e, code, tls, msg) \in Errs
BY DEF SetErr, Errs

(* So does setting the flag before it.                                     *)
LEMMA LimitTyped ==
    ASSUME NEW e \in Errs PROVE [e EXCEPT !.redirect_limit = 1] \in Errs
BY DEF Errs

(* Where an exchange stops, and its connection starts to close.            *)
LEMMA ClosingStep ==
    ASSUME ReqInv, ConnInv', Close, pc' = "closing", plan' \in Plans,
           UNCHANGED chain, OutsOK', BodyOK', redirects' \in Nat,
           delivered' > 0 => plan' \in {"ok", "body_callback_aborted"},
           plan' \in {"ok", "input", "redirect"} => pc \notin {"connect", "write"},
           plan' = "input" => pc = "input" /\ redirects' = redirects,
           plan' = "redirect" => /\ pc = "dispatch" /\ redirects' = redirects + 1
                                 /\ ~(redirects >= MaxRedirects)
    PROVE  ReqInv'
<1> USE MaxRedirectsAssumption
<1>1. /\ tpc = "up" /\ tpc' = "closing" /\ after' = "idle" /\ host' = host
  BY DEF Close, StartClose
<1>2. TypeOK'
  BY ChainKept DEF ConnInv, ReqInv, TypeOK
<1>3. pc \in OnConnection \cup {"connect"}
  BY <1>1 DEF ReqInv, TypeOK, ConnectionFits, OnConnection
<1>4. ConnectionFits' /\ HostFits'
  BY <1>1, <1>3 DEF ReqInv, ConnectionFits, HostFits, OnConnection, chain
<1>5. SentFits' /\ BodyFits'
  BY <1>3 DEF ReqInv, SentFits, BodyFits, Answered, OnConnection, chain
<1>6. RedirectsFit'
  BY <1>2, <1>3 DEF ReqInv, TypeOK, ChainOK, RedirectsFit, OnConnection, chain
<1>7. RequestsFit'
  <2>1. /\ Unsent' = Unsent /\ Unsent \in Nat
        /\ Owed' <= Owed /\ Owed \in Nat /\ Owed' \in Nat
    BY <1>3 DEF Unsent, Owed, OnConnection, chain
  <2>2. Len(trail) \in Nat /\ hops \in Nat /\ inputs \in Nat
    BY DEF ReqInv, TypeOK, ChainOK
  <2> QED BY <2>1, <2>2 DEF ReqInv, RequestsFit, chain
<1> QED BY <1>2, <1>4, <1>5, <1>6, <1>7 DEF ReqInv

(* Each step of the call keeps the invariant.                              *)
LEMMA ReqInvStep == ReqInv /\ [Next]_vars => ReqInv'
<1> SUFFICES ASSUME ReqInv, [Next]_vars PROVE ReqInv'
  OBVIOUS
<1> USE UrlsAssumption, StatusesAssumption, MaxRedirectsAssumption, ChunkAssumption,
        BoundsAssumption
<1>0. ConnInv' /\ ConnTypeOK'
  BY ConnPart, ConnInvStep DEF ReqInv, ConnInv
<1>1. ASSUME NEW u \in Urls, Request(u)
      PROVE  ReqInv'
  <2>1. /\ tpc' = "resolving" /\ pc' = "connect"
        /\ current' \in Urls /\ host' = HostOf[current']
    BY <1>1 DEF Request, Connect, ReqInv, TypeOK, OutsOK
  <2>2. TypeOK'
    <3>1. OutsOK'
      BY <1>1 DEF ReqInv, TypeOK, OutsOK, Request, NoErr, Errs, Texts
    <3>2. trail' \in Seq([url : Urls, via : {"start", "redirect", "input"}])
      BY <1>1 DEF ReqInv, TypeOK, Request
    <3>3. ChainOK'
      BY <2>1, <3>2, <1>1 DEF ReqInv, TypeOK, ChainOK, Request
    <3>4. BodyOK'
      BY <1>1 DEF ReqInv, TypeOK, BodyOK, Request
    <3> QED
      BY <1>0, <2>1, <3>1, <3>2, <3>3, <3>4, <1>1, OutsKept, ChainKept, BodyKept
      DEF ReqInv, TypeOK, Request
  <2>3. ConnectionFits' /\ HostFits'
    BY <2>1, <1>1
    DEF ReqInv, ConnectionFits, HostFits, OnConnection, Request, outs, chain,
        body
  <2>4. SentFits' /\ RedirectsFit' /\ RequestsFit' /\ BodyFits'
    BY <2>1, <1>1
    DEF ReqInv, TypeOK, ChainOK, BodyOK, SentFits, Answered, RequestsFit,
        RedirectsFit, Unsent, Owed, BodyFits, Request, outs, chain, body
  <2> QED BY <1>0, <2>2, <2>3, <2>4 DEF ReqInv
<1>2. CASE ConnStep
  <2>1. host' = host
    BY <1>2
    DEF ConnStep, Establish, Network, Resolved, ResolveFailed, OpenSocket,
        OpenSocketFailed, Connected, ConnectFailed, NewContext,
        NewContextFailed, NewSession, NewSessionFailed, Handshaken,
        HandshakeFailed, Fail, StartClose, CloseDone, NameServerAnswers,
        PeerAccepts, PeerCloses, PeerResets, Tick, Polling
  <2>2. ConnectionFits'
    BY <1>2
    DEF ReqInv, ConnectionFits, OnConnection, reqVars, ConnStep, Establish,
        Network, Resolved, ResolveFailed, OpenSocket, OpenSocketFailed,
        Connected, ConnectFailed, NewContext, NewContextFailed, NewSession,
        NewSessionFailed, Handshaken, HandshakeFailed, Fail, StartClose,
        CloseDone, NameServerAnswers, PeerAccepts, PeerCloses, PeerResets, Tick,
        Polling
  <2>3. TypeOK'
    BY <1>0, <1>2, OutsKept, ChainKept, BodyKept
    DEF ReqInv, TypeOK, ConnStep, reqVars
  <2>4. HostFits' /\ SentFits' /\ RedirectsFit' /\ RequestsFit' /\ BodyFits'
    BY <2>1, <1>2
    DEF ReqInv, ConnStep, reqVars, outs, chain, body, HostFits, SentFits,
        RedirectsFit, RequestsFit, BodyFits, OnConnection, Answered, Unsent,
        Owed
  <2> QED BY <1>0, <2>2, <2>3, <2>4 DEF ReqInv
<1>3. CASE ConnectReturnsError
  <2>1. tpc' = tpc /\ host' = host /\ after' = after
    BY <1>3 DEF ConnectReturnsError, Return, connVars
  <2>2. TypeOK'
    <3>1. err' \in Errs
      BY SetErrTyped, <1>3
      DEF ReqInv, TypeOK, OutsOK, ConnectReturnsError, Return, Texts
    <3>2. OutsOK'
      BY <3>1, <1>3 DEF ReqInv, TypeOK, OutsOK, ConnectReturnsError, Return
    <3> QED
      BY <1>0, <2>1, <3>1, <3>2, <1>3, OutsKept, ChainKept, BodyKept
      DEF ReqInv, TypeOK, ConnectReturnsError, Return
  <2>3. ConnectionFits' /\ HostFits'
    BY <2>1, <1>3
    DEF ReqInv, ConnectionFits, HostFits, OnConnection, ConnectReturnsError,
        Return, outs, chain, body
  <2>4. SentFits'
    BY <2>1, <1>3
    DEF ReqInv, TypeOK, ChainOK, SentFits, Answered, ConnectReturnsError,
        Return, outs, chain, body
  <2>5. RedirectsFit'
    BY <2>1, <1>3
    DEF ReqInv, TypeOK, ChainOK, RedirectsFit, ConnectReturnsError, Return,
        outs, chain, body
  <2>6. RequestsFit'
    <3>1. pc' = "idle" /\ trail' = trail /\ hops' = hops /\ inputs' = inputs
      BY <1>3 DEF ConnectReturnsError, Return, chain
    <3>2. Unsent \in Nat /\ Owed \in Nat /\ Unsent' = 0 /\ Owed' = 0
      BY <3>1 DEF Unsent, Owed
    <3>3. Len(trail) \in Nat /\ hops \in Nat /\ inputs \in Nat
      BY DEF ReqInv, TypeOK, ChainOK
    <3> QED BY <3>1, <3>2, <3>3 DEF ReqInv, RequestsFit
  <2>7. BodyFits'
    BY <2>1, <1>3
    DEF ReqInv, TypeOK, BodyOK, BodyFits, ConnectReturnsError, Return, outs,
        chain, body
  <2> QED BY <1>0, <2>2, <2>3, <2>4, <2>5, <2>6, <2>7 DEF ReqInv
<1>4. CASE CertificateAccepted
  <2>1. tpc' = tpc /\ host' = host /\ after' = after
    BY <1>4 DEF CertificateAccepted, connVars
  <2>2. TypeOK'
    <3>1. ChainOK'
      BY <1>4 DEF ReqInv, TypeOK, ChainOK, CertificateAccepted, HostFits
    <3> QED
      BY <1>0, <2>1, <3>1, <1>4, OutsKept, ChainKept, BodyKept
      DEF ReqInv, TypeOK, CertificateAccepted
  <2>3. ConnectionFits' /\ HostFits'
    BY <2>1, <1>4
    DEF ReqInv, ConnectionFits, HostFits, OnConnection, CertificateAccepted,
        outs, chain, body
  <2>4. SentFits' /\ RedirectsFit' /\ RequestsFit' /\ BodyFits'
    BY <2>1, <1>4
    DEF ReqInv, TypeOK, ChainOK, BodyOK, SentFits, Answered, RequestsFit,
        RedirectsFit, Unsent, Owed, BodyFits, CertificateAccepted, outs, chain,
        body
  <2> QED BY <1>0, <2>2, <2>3, <2>4 DEF ReqInv
<1>5. CASE CertificateRejected
  <2>1. /\ Close /\ pc' = "closing" /\ plan' \in Plans /\ UNCHANGED chain
    BY <1>5 DEF CertificateRejected, CloseThen, Plans, Messages
  <2>2. OutsOK' /\ BodyOK' /\ redirects' \in Nat
    BY <1>5, OutsKept, BodyKept DEF ReqInv, TypeOK, CertificateRejected
  <2>3. delivered' > 0 => plan' \in {"ok", "body_callback_aborted"}
    BY <1>5 DEF ReqInv, BodyFits, CertificateRejected, CloseThen, body
  <2>4. /\ plan' \in {"ok", "input", "redirect"} => pc \notin {"connect", "write"}
        /\ plan' = "input" => pc = "input" /\ redirects' = redirects
        /\ plan' = "redirect" => /\ pc = "dispatch" /\ redirects' = redirects + 1
                               /\ ~(redirects >= MaxRedirects)
    BY <1>5 DEF CertificateRejected, CloseThen
  <2> QED BY <1>0, <2>1, <2>2, <2>3, <2>4, ClosingStep
<1>6. CASE SendRequest
  <2>1. tpc' = tpc /\ host' = host /\ after' = after
    BY <1>6 DEF SendRequest, connVars
  <2>2. TypeOK'
    <3>1. ChainOK'
      BY <1>6 DEF ReqInv, TypeOK, ChainOK, SendRequest, HostFits
    <3> QED
      BY <1>0, <2>1, <3>1, <1>6, OutsKept, ChainKept, BodyKept
      DEF ReqInv, TypeOK, SendRequest
  <2>3. ConnectionFits' /\ HostFits'
    BY <2>1, <1>6
    DEF ReqInv, ConnectionFits, HostFits, OnConnection, SendRequest, outs,
        chain, body
  <2>4. SentFits' /\ RedirectsFit' /\ RequestsFit' /\ BodyFits'
    BY <2>1, <1>6
    DEF ReqInv, TypeOK, ChainOK, BodyOK, SentFits, Answered, RequestsFit,
        RedirectsFit, Unsent, Owed, BodyFits, SendRequest, outs, chain, body
  <2> QED BY <1>0, <2>2, <2>3, <2>4 DEF ReqInv
<1>7. CASE SendRequestFailed
  <2>1. /\ Close /\ pc' = "closing" /\ plan' \in Plans /\ UNCHANGED chain
    BY <1>7 DEF SendRequestFailed, CloseThen, Plans, Messages
  <2>2. OutsOK' /\ BodyOK' /\ redirects' \in Nat
    BY <1>7, OutsKept, BodyKept DEF ReqInv, TypeOK, SendRequestFailed
  <2>3. delivered' > 0 => plan' \in {"ok", "body_callback_aborted"}
    BY <1>7 DEF ReqInv, BodyFits, SendRequestFailed, CloseThen, body
  <2>4. /\ plan' \in {"ok", "input", "redirect"} => pc \notin {"connect", "write"}
        /\ plan' = "input" => pc = "input" /\ redirects' = redirects
        /\ plan' = "redirect" => /\ pc = "dispatch" /\ redirects' = redirects + 1
                               /\ ~(redirects >= MaxRedirects)
    BY <1>7 DEF SendRequestFailed, CloseThen
  <2> QED BY <1>0, <2>1, <2>2, <2>3, <2>4, ClosingStep
<1>8. ASSUME NEW st \in Statuses, NEW m \in Urls \cup {NULL}, ReadHeader(st, m)
      PROVE  ReqInv'
  <2>1. tpc' = tpc /\ host' = host /\ after' = after
    BY <1>8 DEF ReadHeader, connVars
  <2>2. TypeOK'
    <3>1. OutsOK'
      BY <1>8 DEF ReqInv, TypeOK, OutsOK, ReadHeader
    <3> QED
      BY <1>0, <2>1, <3>1, <1>8, OutsKept, ChainKept, BodyKept
      DEF ReqInv, TypeOK, ReadHeader
  <2>3. ConnectionFits' /\ HostFits'
    BY <2>1, <1>8
    DEF ReqInv, ConnectionFits, HostFits, OnConnection, ReadHeader, outs, chain,
        body
  <2>4. SentFits' /\ RedirectsFit' /\ RequestsFit' /\ BodyFits'
    BY <2>1, <1>8
    DEF ReqInv, TypeOK, ChainOK, BodyOK, SentFits, Answered, RequestsFit,
        RedirectsFit, Unsent, Owed, BodyFits, ReadHeader, outs, chain, body
  <2> QED BY <1>0, <2>2, <2>3, <2>4 DEF ReqInv
<1>9. CASE ReadHeaderFailed
  <2>1. /\ Close /\ pc' = "closing" /\ plan' \in Plans /\ UNCHANGED chain
    BY <1>9 DEF ReadHeaderFailed, CloseThen, Plans, Messages
  <2>2. OutsOK' /\ BodyOK' /\ redirects' \in Nat
    BY <1>9, OutsKept, BodyKept DEF ReqInv, TypeOK, ReadHeaderFailed
  <2>3. delivered' > 0 => plan' \in {"ok", "body_callback_aborted"}
    BY <1>9 DEF ReqInv, BodyFits, ReadHeaderFailed, CloseThen, body
  <2>4. /\ plan' \in {"ok", "input", "redirect"} => pc \notin {"connect", "write"}
        /\ plan' = "input" => pc = "input" /\ redirects' = redirects
        /\ plan' = "redirect" => /\ pc = "dispatch" /\ redirects' = redirects + 1
                               /\ ~(redirects >= MaxRedirects)
    BY <1>9 DEF ReadHeaderFailed, CloseThen
  <2> QED BY <1>0, <2>1, <2>2, <2>3, <2>4, ClosingStep
<1>10. ASSUME NEW st \in Statuses, ParseHeaderFailed(st)
      PROVE  ReqInv'
  <2>1. /\ Close /\ pc' = "closing" /\ plan' \in Plans /\ UNCHANGED chain
    BY <1>10 DEF ParseHeaderFailed, CloseThen, Plans, Messages
  <2>2. OutsOK' /\ BodyOK' /\ redirects' \in Nat
    BY <1>10, BodyKept DEF ReqInv, TypeOK, OutsOK, ParseHeaderFailed
  <2>3. delivered' > 0 => plan' \in {"ok", "body_callback_aborted"}
    BY <1>10 DEF ReqInv, BodyFits, ParseHeaderFailed, CloseThen, body
  <2>4. /\ plan' \in {"ok", "input", "redirect"} => pc \notin {"connect", "write"}
        /\ plan' = "input" => pc = "input" /\ redirects' = redirects
        /\ plan' = "redirect" => /\ pc = "dispatch" /\ redirects' = redirects + 1
                               /\ ~(redirects >= MaxRedirects)
    BY <1>10 DEF ParseHeaderFailed, CloseThen
  <2> QED BY <1>0, <2>1, <2>2, <2>3, <2>4, ClosingStep
<1>11. CASE StartBody
  <2>1. tpc' = tpc /\ host' = host /\ after' = after
    BY <1>11 DEF StartBody, connVars
  <2>2. TypeOK'
    <3>1. BodyOK'
      BY <1>11 DEF ReqInv, TypeOK, BodyOK, StartBody
    <3> QED
      BY <1>0, <2>1, <3>1, <1>11, OutsKept, ChainKept, BodyKept
      DEF ReqInv, TypeOK, StartBody
  <2>3. ConnectionFits' /\ HostFits'
    BY <2>1, <1>11
    DEF ReqInv, ConnectionFits, HostFits, OnConnection, StartBody, outs, chain,
        body
  <2>4. SentFits' /\ RedirectsFit' /\ RequestsFit' /\ BodyFits'
    BY <2>1, <1>11
    DEF ReqInv, TypeOK, ChainOK, BodyOK, SentFits, Answered, RequestsFit,
        RedirectsFit, Unsent, Owed, BodyFits, StartBody, outs, chain, body
  <2> QED BY <1>0, <2>2, <2>3, <2>4 DEF ReqInv
<1>12. ASSUME NEW n \in ChunkSizes, ReadChunk(n)
      PROVE  ReqInv'
  <2>1. tpc' = tpc /\ host' = host /\ after' = after
    BY <1>12 DEF ReadChunk, connVars
  <2>2. TypeOK'
    <3>1. BodyOK'
      BY <1>12 DEF ReqInv, TypeOK, BodyOK, ReadChunk
    <3> QED
      BY <1>0, <2>1, <3>1, <1>12, OutsKept, ChainKept, BodyKept
      DEF ReqInv, TypeOK, ReadChunk
  <2>3. ConnectionFits' /\ HostFits'
    BY <2>1, <1>12
    DEF ReqInv, ConnectionFits, HostFits, OnConnection, ReadChunk, outs, chain,
        body
  <2>4. SentFits' /\ RedirectsFit' /\ RequestsFit' /\ BodyFits'
    BY <2>1, <1>12
    DEF ReqInv, TypeOK, ChainOK, BodyOK, SentFits, Answered, RequestsFit,
        RedirectsFit, Unsent, Owed, BodyFits, ReadChunk, outs, chain, body
  <2> QED BY <1>0, <2>2, <2>3, <2>4 DEF ReqInv
<1>13. ASSUME NEW n \in ChunkSizes, CallbackAborts(n)
      PROVE  ReqInv'
  <2>1. /\ Close /\ pc' = "closing" /\ plan' \in Plans /\ UNCHANGED chain
    BY <1>13 DEF CallbackAborts, CloseThen, Plans, Messages
  <2>2. OutsOK' /\ BodyOK' /\ redirects' \in Nat
    BY <1>13, OutsKept DEF ReqInv, TypeOK, BodyOK, CallbackAborts
  <2>3. delivered' > 0 => plan' \in {"ok", "body_callback_aborted"}
    BY <1>13 DEF ReqInv, BodyFits, CallbackAborts, CloseThen, body
  <2>4. /\ plan' \in {"ok", "input", "redirect"} => pc \notin {"connect", "write"}
        /\ plan' = "input" => pc = "input" /\ redirects' = redirects
        /\ plan' = "redirect" => /\ pc = "dispatch" /\ redirects' = redirects + 1
                               /\ ~(redirects >= MaxRedirects)
    BY <1>13 DEF CallbackAborts, CloseThen
  <2> QED BY <1>0, <2>1, <2>2, <2>3, <2>4, ClosingStep
<1>14. ASSUME NEW how \in {"notify", "cut"}, EndBody(how)
      PROVE  ReqInv'
  <2>1. /\ Close /\ pc' = "closing" /\ plan' \in Plans /\ UNCHANGED chain
    BY <1>14 DEF EndBody, CloseThen, Plans, Messages
  <2>2. OutsOK' /\ BodyOK' /\ redirects' \in Nat
    BY <1>14 DEF ReqInv, TypeOK, OutsOK, BodyOK, outs, EndBody
  <2>3. delivered' > 0 => plan' \in {"ok", "body_callback_aborted"}
    BY <1>14 DEF ReqInv, BodyFits, EndBody, CloseThen, body
  <2>4. /\ plan' \in {"ok", "input", "redirect"} => pc \notin {"connect", "write"}
        /\ plan' = "input" => pc = "input" /\ redirects' = redirects
        /\ plan' = "redirect" => /\ pc = "dispatch" /\ redirects' = redirects + 1
                               /\ ~(redirects >= MaxRedirects)
    BY <1>14 DEF EndBody, CloseThen
  <2> QED BY <1>0, <2>1, <2>2, <2>3, <2>4, ClosingStep
<1>15. CASE AskInput
  <2>1. tpc' = tpc /\ host' = host /\ after' = after
    BY <1>15 DEF AskInput, connVars
  <2>2. TypeOK'
    <3>1. ChainOK'
      BY <1>15 DEF ReqInv, TypeOK, ChainOK, AskInput
    <3> QED
      BY <1>0, <2>1, <3>1, <1>15, OutsKept, ChainKept, BodyKept
      DEF ReqInv, TypeOK, AskInput
  <2>3. ConnectionFits' /\ HostFits'
    BY <2>1, <1>15
    DEF ReqInv, ConnectionFits, HostFits, OnConnection, AskInput, outs, chain,
        body
  <2>4. SentFits' /\ RedirectsFit' /\ RequestsFit' /\ BodyFits'
    BY <2>1, <1>15
    DEF ReqInv, TypeOK, ChainOK, BodyOK, SentFits, Answered, RequestsFit,
        RedirectsFit, Unsent, Owed, BodyFits, AskInput, outs, chain, body
  <2> QED BY <1>0, <2>2, <2>3, <2>4 DEF ReqInv
<1>16. CASE UserAnswers
  <2>1. /\ Close /\ pc' = "closing" /\ plan' \in Plans /\ UNCHANGED chain
    BY <1>16 DEF UserAnswers, CloseThen, Plans, Messages
  <2>2. OutsOK' /\ BodyOK' /\ redirects' \in Nat
    BY <1>16, OutsKept, BodyKept DEF ReqInv, TypeOK, UserAnswers
  <2>3. delivered' > 0 => plan' \in {"ok", "body_callback_aborted"}
    BY <1>16 DEF ReqInv, BodyFits, UserAnswers, CloseThen, body
  <2>4. /\ plan' \in {"ok", "input", "redirect"} => pc \notin {"connect", "write"}
        /\ plan' = "input" => pc = "input" /\ redirects' = redirects
        /\ plan' = "redirect" => /\ pc = "dispatch" /\ redirects' = redirects + 1
                               /\ ~(redirects >= MaxRedirects)
    BY <1>16 DEF UserAnswers, CloseThen
  <2> QED BY <1>0, <2>1, <2>2, <2>3, <2>4, ClosingStep
<1>17. CASE UserAborts
  <2>1. /\ Close /\ pc' = "closing" /\ plan' \in Plans /\ UNCHANGED chain
    BY <1>17 DEF UserAborts, CloseThen, Plans, Messages
  <2>2. OutsOK' /\ BodyOK' /\ redirects' \in Nat
    BY <1>17, OutsKept, BodyKept DEF ReqInv, TypeOK, UserAborts
  <2>3. delivered' > 0 => plan' \in {"ok", "body_callback_aborted"}
    BY <1>17 DEF ReqInv, BodyFits, UserAborts, CloseThen, body
  <2>4. /\ plan' \in {"ok", "input", "redirect"} => pc \notin {"connect", "write"}
        /\ plan' = "input" => pc = "input" /\ redirects' = redirects
        /\ plan' = "redirect" => /\ pc = "dispatch" /\ redirects' = redirects + 1
                               /\ ~(redirects >= MaxRedirects)
    BY <1>17 DEF UserAborts, CloseThen
  <2> QED BY <1>0, <2>1, <2>2, <2>3, <2>4, ClosingStep
<1>18. CASE CountRedirect
  <2>1. /\ Close /\ pc' = "closing" /\ plan' \in Plans /\ UNCHANGED chain
    BY <1>18 DEF CountRedirect, CloseThen, Plans, Messages
  <2>2. OutsOK' /\ BodyOK' /\ redirects' \in Nat
    BY <1>18, OutsKept, BodyKept DEF ReqInv, TypeOK, CountRedirect
  <2>3. delivered' > 0 => plan' \in {"ok", "body_callback_aborted"}
    BY <1>18 DEF ReqInv, BodyFits, CountRedirect, CloseThen, body
  <2>4. /\ plan' \in {"ok", "input", "redirect"} => pc \notin {"connect", "write"}
        /\ plan' = "input" => pc = "input" /\ redirects' = redirects
        /\ plan' = "redirect" => /\ pc = "dispatch" /\ redirects' = redirects + 1
                               /\ ~(redirects >= MaxRedirects)
    BY <1>18 DEF CountRedirect, CloseThen
  <2> QED BY <1>0, <2>1, <2>2, <2>3, <2>4, ClosingStep
<1>19. CASE OtherStatus
  <2>1. /\ Close /\ pc' = "closing" /\ plan' \in Plans /\ UNCHANGED chain
    BY <1>19 DEF OtherStatus, CloseThen, Plans, Messages
  <2>2. OutsOK' /\ BodyOK' /\ redirects' \in Nat
    BY <1>19, BodyKept DEF ReqInv, TypeOK, OutsOK, OtherStatus
  <2>3. delivered' > 0 => plan' \in {"ok", "body_callback_aborted"}
    BY <1>19 DEF ReqInv, BodyFits, OtherStatus, CloseThen, body
  <2>4. /\ plan' \in {"ok", "input", "redirect"} => pc \notin {"connect", "write"}
        /\ plan' = "input" => pc = "input" /\ redirects' = redirects
        /\ plan' = "redirect" => /\ pc = "dispatch" /\ redirects' = redirects + 1
                               /\ ~(redirects >= MaxRedirects)
    BY <1>19 DEF OtherStatus, CloseThen
  <2> QED BY <1>0, <2>1, <2>2, <2>3, <2>4, ClosingStep
<1>20. CASE FollowRedirect
  <2>1. /\ tpc' = "resolving" /\ pc' = "connect"
        /\ current' \in Urls /\ host' = HostOf[current']
    BY <1>20 DEF FollowRedirect, Follow, Closed, Connect, ReqInv, TypeOK, OutsOK
  <2>2. TypeOK'
    <3>1. /\ via' \in {"start", "redirect", "input"}
          /\ accepted' \in Hosts \cup {NULL} /\ hops' \in Nat
      BY <1>20 DEF ReqInv, TypeOK, ChainOK, FollowRedirect, Follow
    <3>2. ChainOK'
      BY <2>1, <3>1, <1>20 DEF ReqInv, TypeOK, ChainOK, FollowRedirect, Follow
    <3> QED
      BY <1>0, <2>1, <3>1, <3>2, <1>20, OutsKept, ChainKept, BodyKept
      DEF ReqInv, TypeOK, FollowRedirect, Follow, Closed
  <2>3. ConnectionFits' /\ HostFits'
    BY <2>1, <1>20
    DEF ReqInv, ConnectionFits, HostFits, OnConnection, FollowRedirect, Follow,
        Closed, outs, chain, body
  <2>4. SentFits' /\ RedirectsFit' /\ RequestsFit' /\ BodyFits'
    BY <2>1, <1>20
    DEF ReqInv, TypeOK, ChainOK, BodyOK, SentFits, Answered, RequestsFit,
        RedirectsFit, Unsent, Owed, BodyFits, FollowRedirect, Follow, Closed,
        outs, chain, body
  <2> QED BY <1>0, <2>2, <2>3, <2>4 DEF ReqInv
<1>21. ASSUME NEW u \in Urls, FollowInput(u)
      PROVE  ReqInv'
  <2>1. /\ tpc' = "resolving" /\ pc' = "connect"
        /\ current' \in Urls /\ host' = HostOf[current']
    BY <1>21 DEF FollowInput, Follow, Closed, Connect, ReqInv, TypeOK, OutsOK
  <2>2. TypeOK'
    <3>1. ChainOK'
      BY <1>21 DEF ReqInv, TypeOK, ChainOK, FollowInput, Follow
    <3> QED
      BY <1>0, <2>1, <3>1, <1>21, OutsKept, ChainKept, BodyKept
      DEF ReqInv, TypeOK, FollowInput, Follow, Closed
  <2>3. ConnectionFits' /\ HostFits'
    BY <2>1, <1>21
    DEF ReqInv, ConnectionFits, HostFits, OnConnection, FollowInput, Follow,
        Closed, outs, chain, body
  <2>4. SentFits' /\ RedirectsFit' /\ RequestsFit' /\ BodyFits'
    BY <2>1, <1>21
    DEF ReqInv, TypeOK, ChainOK, BodyOK, SentFits, Answered, RequestsFit,
        RedirectsFit, Unsent, Owed, BodyFits, FollowInput, Follow, Closed, outs,
        chain, body
  <2> QED BY <1>0, <2>2, <2>3, <2>4 DEF ReqInv
<1>22. CASE Finish
  <2>1. tpc' = tpc /\ host' = host /\ after' = after
    BY <1>22
    DEF Finish, Closed, ReturnOk, ReturnError, ReturnLimit, ReturnUnresolved,
        ReturnUnencoded, Return, connVars
  <2>2. TypeOK'
    <3>1. err' \in Errs /\ rc' \in {0, -1}
      BY SetErrTyped, LimitTyped, <1>22
      DEF ReqInv, TypeOK, OutsOK, Finish, ReturnOk, ReturnError, ReturnLimit,
          ReturnUnresolved, ReturnUnencoded, Return, Texts, Messages
    <3>2. OutsOK'
      BY <3>1, <1>22 DEF ReqInv, TypeOK, OutsOK, Finish
    <3> QED
      BY <1>0, <2>1, <3>1, <3>2, <1>22, OutsKept, ChainKept, BodyKept
      DEF ReqInv, TypeOK, Finish, Closed, ReturnOk, ReturnError, ReturnLimit,
          ReturnUnresolved, ReturnUnencoded, Return
  <2>3. ConnectionFits' /\ HostFits'
    BY <2>1, <1>22
    DEF ReqInv, ConnectionFits, HostFits, OnConnection, Finish, Closed,
        ReturnOk, ReturnError, ReturnLimit, ReturnUnresolved, ReturnUnencoded,
        Return, outs, chain, body
  <2>4. SentFits'
    BY <2>1, <1>22
    DEF ReqInv, TypeOK, ChainOK, SentFits, Answered, Finish, Closed, ReturnOk,
        ReturnError, ReturnLimit, ReturnUnresolved, ReturnUnencoded, Return,
        outs, chain, body
  <2>5. RedirectsFit'
    BY <2>1, <1>22
    DEF ReqInv, TypeOK, ChainOK, RedirectsFit, Finish, Closed, ReturnOk,
        ReturnError, ReturnLimit, ReturnUnresolved, ReturnUnencoded, Return,
        outs, chain, body
  <2>6. RequestsFit'
    <3>1. pc' = "idle" /\ trail' = trail /\ hops' = hops /\ inputs' = inputs
      BY <1>22
      DEF Finish, Closed, ReturnOk, ReturnError, ReturnLimit, ReturnUnresolved,
          ReturnUnencoded, Return, chain
    <3>2. Unsent \in Nat /\ Owed \in Nat /\ Unsent' = 0 /\ Owed' = 0
      BY <3>1 DEF Unsent, Owed
    <3>3. Len(trail) \in Nat /\ hops \in Nat /\ inputs \in Nat
      BY DEF ReqInv, TypeOK, ChainOK
    <3> QED BY <3>1, <3>2, <3>3 DEF ReqInv, RequestsFit
  <2>7. BodyFits'
    BY <2>1, <1>22
    DEF ReqInv, TypeOK, BodyOK, BodyFits, Finish, Closed, ReturnOk, ReturnError,
        ReturnLimit, ReturnUnresolved, ReturnUnencoded, Return, outs, chain,
        body
  <2> QED BY <1>0, <2>2, <2>3, <2>4, <2>5, <2>6, <2>7 DEF ReqInv
<1>23. CASE UNCHANGED vars
  <2>1. TypeOK'
    BY <1>0, <1>23, OutsKept, ChainKept, BodyKept
    DEF vars, reqVars, ReqInv, TypeOK
  <2>2. /\ ConnectionFits' /\ HostFits' /\ SentFits'
        /\ RedirectsFit' /\ RequestsFit' /\ BodyFits'
    BY <1>23
    DEF vars, reqVars, connVars, outs, chain, body, ReqInv, ConnectionFits,
        HostFits, OnConnection, SentFits, Answered, RedirectsFit, RequestsFit,
        Unsent, Owed, BodyFits
  <2> QED BY <1>0, <2>1, <2>2 DEF ReqInv
<1> QED
  BY <1>1, <1>2, <1>3, <1>4, <1>5, <1>6, <1>7, <1>8, <1>9, <1>10, <1>11, <1>12,
     <1>13, <1>14, <1>15, <1>16, <1>17, <1>18, <1>19, <1>20, <1>21, <1>22, <1>23
  DEF Next, Exchange

(* Before the first call nothing is held and nothing was sent.             *)
LEMMA ReqInvInit == Init => ReqInv
<1> SUFFICES ASSUME Init PROVE ReqInv
  OBVIOUS
<1>1. ConnInv /\ ConnTypeOK
  BY ConnInvInit DEF Init, ConnInv
<1>2. OutsOK /\ BodyOK
  BY DEF Init, OutsOK, BodyOK, NoErr, Errs, Texts
<1>3. ChainOK
  <2>1. trail \in Seq([url : Urls, via : {"start", "redirect", "input"}])
    BY DEF Init
  <2> QED BY <2>1 DEF Init, ChainOK
<1>4. TypeOK
  BY <1>1, <1>2, <1>3 DEF Init, TypeOK, Plans
<1>5. tpc = "idle"
  BY DEF Init, ConnInit
<1>6. ConnectionFits /\ HostFits /\ SentFits /\ RedirectsFit /\ RequestsFit /\ BodyFits
  BY <1>5, MaxRedirectsAssumption
  DEF Init, ConnectionFits, HostFits, SentFits, RedirectsFit, RequestsFit,
      BodyFits,
      OnConnection, Answered, Unsent, Owed
<1> QED BY <1>1, <1>4, <1>6 DEF ReqInv

(* The invariant holds in every reachable state.                           *)
THEOREM RequestInvariant == Spec => []ReqInv
BY ReqInvInit, ReqInvStep, PTL DEF Spec

-----------------------------------------------------------------------------
(* Every variable of nos_gemini_request_stream keeps its type.             *)
THEOREM RequestTypeCorrect == Spec => []TypeOK
<1>1. ReqInv => TypeOK
  BY DEF ReqInv
<1> QED BY <1>1, RequestInvariant, PTL

(* While the caller runs, nothing of the last connection is held.          *)
THEOREM RequestIdleHoldsNothing == Spec => []IdleHoldsNothing
<1>1. ASSUME ReqInv PROVE IdleHoldsNothing
  <2> SUFFICES ASSUME pc = "idle"
               PROVE  /\ pool = Sockets /\ active = {} /\ buffers = {}
                      /\ ctxs = 0 /\ ssls = 0
    BY DEF IdleHoldsNothing
  <2>1. tpc \in {"idle", "failed"}
    BY <1>1 DEF ReqInv, ConnectionFits
  <2> QED BY <1>1, <2>1, IdleIsFree DEF ReqInv, NothingHeldBetweenCalls
<1> QED BY <1>1, RequestInvariant, PTL

(* A chain of redirects ends, also when inputs come between the redirects. *)
THEOREM RequestRedirectsBounded == Spec => []RedirectsBounded
<1>1. ASSUME ReqInv PROVE RedirectsBounded
  <2>1. Len(trail) \in Nat /\ hops \in Nat /\ inputs \in Nat
    BY <1>1 DEF ReqInv, TypeOK, ChainOK
  <2>2. Unsent \in Nat /\ Owed \in Nat
    BY DEF Unsent, Owed
  <2> QED
    BY <1>1, <2>1, <2>2, MaxRedirectsAssumption
    DEF ReqInv, RequestsFit, RedirectsFit, RedirectsBounded
<1> QED BY <1>1, RequestInvariant, PTL

(* The steps that change the list of requests: only SendRequest adds one.  *)
LEMMA TrailSteps ==
    ASSUME [Next]_vars, trail' # trail, trail' # <<>>
    PROVE  SendRequest
BY DEF Next, Exchange, vars, reqVars, chain, ConnStep, Request,
       ConnectReturnsError, CertificateAccepted, CertificateRejected,
       SendRequestFailed, ReadHeader, ReadHeaderFailed, ParseHeaderFailed,
       StartBody, AskInput, CountRedirect, OtherStatus, ReadChunk, CallbackAborts,
       EndBody, UserAnswers, UserAborts, FollowRedirect, FollowInput, Follow, Finish

(* A request leaves only on a connection to its URL's host, and only after *)
(* nos_tofu_check accepted that host's certificate on it.                  *)
THEOREM RequestSendsToTrusted == Spec => SendsOnlyToTrustedHost
<1>1. ASSUME ReqInv, [Next]_vars, trail' # trail, trail' # <<>>
      PROVE  /\ tpc = "up"
             /\ accepted = host
             /\ host = HostOf[trail'[Len(trail')].url]
  <2>1. SendRequest
    BY <1>1, TrailSteps
  <2>2. tpc = "up" /\ accepted = host /\ host = HostOf[current] /\ current \in Urls
    BY <1>1, <2>1
    DEF SendRequest, ReqInv, ConnectionFits, HostFits, OnConnection
  <2>3. trail'[Len(trail')].url = current
    BY <1>1, <2>1, <2>2 DEF SendRequest, ReqInv, TypeOK, ChainOK
  <2> QED BY <2>2, <2>3
<1>2. ReqInv /\ [Next]_vars =>
        [trail' # trail /\ trail' # <<>> =>
           /\ tpc = "up"
           /\ accepted = host
           /\ host = HostOf[trail'[Len(trail')].url]]_vars
  BY <1>1
<1> QED BY <1>2, RequestInvariant, PTL DEF Spec, SendsOnlyToTrustedHost

(* A page is never put together from two responses.                        *)
THEOREM RequestOnePage == Spec => OnePagePerCall
<1>1. ASSUME ReqInv, [Next]_vars, delivered > 0, pc # "idle"
      PROVE  UNCHANGED <<trail, current, resp>>
  <2>1. \/ pc = "body"
        \/ pc = "closing" /\ plan \in {"ok", "body_callback_aborted"}
    BY <1>1 DEF ReqInv, BodyFits
  <2>2. \/ ConnStep \/ Finish \/ UNCHANGED vars
        \/ \E n \in ChunkSizes : ReadChunk(n) \/ CallbackAborts(n)
        \/ \E how \in {"notify", "cut"} : EndBody(how)
    BY <1>1, <2>1
    DEF Next, Exchange, Request, ConnectReturnsError, CertificateAccepted,
        CertificateRejected, SendRequest, SendRequestFailed, ReadHeader,
        ReadHeaderFailed, ParseHeaderFailed, StartBody, AskInput, CountRedirect,
        OtherStatus, UserAnswers, UserAborts, FollowRedirect, FollowInput, Closed
  <2> QED
    BY <2>2
    DEF ConnStep, Finish, ReadChunk, CallbackAborts, EndBody, vars, reqVars,
                chain, outs
<1>2. ReqInv /\ [Next]_vars =>
        [delivered > 0 /\ pc # "idle" => UNCHANGED <<trail, current, resp>>]_vars
  BY <1>1
<1> QED BY <1>2, RequestInvariant, PTL DEF Spec, OnePagePerCall

-----------------------------------------------------------------------------
(* Each step of the call is a step of GeminiFetch, or none.                *)
LEMMA FetchStep == ReqInv /\ [Next]_vars => [Fetch!FetchNext]_(Fetch!fetchVars)
<1> SUFFICES ASSUME ReqInv, [Next]_vars
             PROVE  Fetch!FetchNext \/ UNCHANGED Fetch!fetchVars
  BY DEF Fetch!fetchVars
<1> USE UrlsAssumption DEF Fetch!fetchVars, Fetch!FetchNext
<1>1. ASSUME NEW u \in Urls, Request(u) PROVE Fetch!Begin(u)
  BY <1>1 DEF Request, Fetch!Begin
<1>2. CASE ConnStep
  BY <1>2 DEF ConnStep, reqVars, outs, chain, body
<1>3. CASE ConnectReturnsError
  BY <1>3 DEF ConnectReturnsError, Return, chain, body, Fetch!End
<1>4. CASE CertificateAccepted
  BY <1>4 DEF CertificateAccepted, outs, body
<1>5. CASE SendRequest
  <2>1. /\ current \in Urls /\ ~sent
        /\ trail \in Seq([url : Urls, via : {"start", "redirect", "input"}])
    BY <1>5 DEF SendRequest, ReqInv, HostFits, SentFits, TypeOK, ChainOK
  <2>2. /\ trail' # <<>> /\ trail'[Len(trail')].url = current
        /\ Len(trail') = Len(trail) + 1
    BY <1>5, <2>1 DEF SendRequest
  <2>3. Fetch!Ask
    BY <1>5, <2>1, <2>2 DEF SendRequest, outs, body, Fetch!Ask
  <2> QED BY <2>3
<1>6. CASE StartBody \/ AskInput
  BY <1>6 DEF StartBody, AskInput, outs, chain, body
<1>7. CASE \/ CertificateRejected \/ SendRequestFailed \/ ReadHeaderFailed
           \/ CountRedirect \/ OtherStatus \/ UserAnswers \/ UserAborts
  BY <1>7 DEF CertificateRejected, SendRequestFailed, ReadHeaderFailed,
       CountRedirect, OtherStatus, UserAnswers, UserAborts, CloseThen, outs, chain, body
<1>8. ASSUME NEW st \in Statuses, NEW m,
             ReadHeader(st, m) \/ ParseHeaderFailed(st)
      PROVE  UNCHANGED Fetch!fetchVars
  BY <1>8 DEF ReadHeader, ParseHeaderFailed, CloseThen, chain, body
<1>9. ASSUME NEW n \in ChunkSizes, ReadChunk(n) \/ CallbackAborts(n)
      PROVE  Fetch!Deliver \/ UNCHANGED Fetch!fetchVars
  <2>1. /\ sent /\ pc = "body" /\ pc' # "idle"
        /\ delivered \in Nat /\ delivered' = delivered + n
        /\ UNCHANGED <<sent, current, trail, hops, rc>>
    BY <1>9
    DEF ReadChunk, CallbackAborts, CloseThen, outs, chain, ReqInv, TypeOK,
        BodyOK, SentFits
  <2>2. n \in Nat /\ n > 0
    BY ChunkAssumption
  <2>3. CASE delivered = 0
    BY <2>1, <2>2, <2>3 DEF Fetch!Deliver
  <2>4. CASE delivered > 0
    BY <2>1, <2>2, <2>4
  <2> QED BY <2>1, <2>3, <2>4
<1>10. ASSUME NEW how, EndBody(how) PROVE UNCHANGED Fetch!fetchVars
  BY <1>10 DEF EndBody, CloseThen, chain
<1>11. CASE FollowRedirect
  <2>1. resp.meta \in Urls /\ sent /\ ~(delivered > 0) /\ hops < MaxRedirects
    BY <1>11, MaxRedirectsAssumption
    DEF FollowRedirect, Closed, ReqInv, TypeOK, OutsOK, ChainOK, SentFits,
        Answered,
        BodyFits, RedirectsFit
  <2>2. Fetch!FollowTo(resp.meta)
    BY <1>11, <2>1
    DEF FollowRedirect, Closed, Follow, outs, body, Fetch!FollowTo
  <2> QED BY <2>1, <2>2
<1>12. ASSUME NEW u \in Urls, FollowInput(u) PROVE Fetch!Query(u)
  <2>1. sent /\ ~(delivered > 0) /\ trail # <<>> /\ trail[Len(trail)].url = current
    BY <1>12 DEF FollowInput, Closed, ReqInv, SentFits, Answered, BodyFits
  <2> QED
    BY <1>12, <2>1 DEF FollowInput, Closed, Follow, outs, body, Fetch!Query
<1>13. CASE Finish
  <2>1. /\ pc = "closing" /\ pc' = "idle" /\ UNCHANGED <<sent, trail, hops, delivered>>
        /\ rc' \in {0, -1} /\ (rc' = 0 => plan = "ok")
    BY <1>13
    DEF Finish, Closed, ReturnOk, ReturnError, ReturnLimit, ReturnUnresolved,
        ReturnUnencoded, Return, chain, body
  <2>2. rc' = 0 => sent
    BY <2>1 DEF ReqInv, SentFits, Answered
  <2>3. Fetch!End(rc')
    BY <2>1, <2>2 DEF Fetch!End
  <2> QED BY <2>1, <2>3
<1>14. CASE UNCHANGED vars
  BY <1>14 DEF vars, reqVars, outs, chain, body
<1> QED
  BY <1>1, <1>2, <1>3, <1>4, <1>5, <1>6, <1>7, <1>8, <1>9, <1>10, <1>11, <1>12,
     <1>13, <1>14 DEF Next, Exchange

(* nos_gemini_request_stream keeps the promises of a fetch.                *)
THEOREM RequestImplementsFetch == Spec => ImplementsFetch
<1>1. Init => Fetch!FetchInit
  BY DEF Init, Fetch!FetchInit
<1>2. ReqInv /\ [Next]_vars => [Fetch!FetchNext]_(Fetch!fetchVars)
  BY FetchStep
<1> QED
  BY <1>1, <1>2, RequestInvariant, PTL
  DEF Spec, ImplementsFetch, Fetch!FetchSpec

-----------------------------------------------------------------------------
(***************************************************************************)
(* What the caller of nos_gemini_request_stream is told agrees with what   *)
(* happened, for any range of the unsigned int that counts the body.       *)
(***************************************************************************)

(* What 0 tells the caller.                                                *)
PageTold ==
    /\ ~ (Input(resp.status) \/ Redirect(resp.status))
    /\ sent
    /\ bodyLen = delivered % Word
    /\ delivered > 0 => Success(resp.status)
    /\ Success(resp.status) => bodyEnd # "none"

Succeeding == pc = "closing" /\ plan = "ok"

(* The out-parameters stay as they were reset until the call returns, but  *)
(* for *body_len once the exchange has succeeded; total counts modulo Word *)
(* what the callback got, which comes from a 2x response.                  *)
ResultInv ==
    /\ pc # "idle" => err = NoErr
    /\ pc # "idle" /\ ~Succeeding => bodyLen = 0
    /\ pc = "body" => total = delivered % Word /\ Success(resp.status)
    /\ Succeeding => PageTold
    /\ ResultAgrees

-----------------------------------------------------------------------------
(* The remainder that total keeps.                                         *)
LEMMA Remainder ==
    ASSUME NEW a \in Nat, NEW w \in Nat \ {0}
    PROVE  /\ a % w \in 0..(w - 1) /\ a \div w \in Nat
           /\ a = w * (a \div w) + (a % w)
OBVIOUS

(* Products are out of the solver's reach but for these facts.             *)
LEMMA Distributes ==
    ASSUME NEW w \in Int, NEW p \in Int, NEW q \in Int
    PROVE  /\ w * (p + q) = w * p + w * q
           /\ w * (p - q) = w * p - w * q
           /\ w * p \in Int
OBVIOUS

(* No multiple of w but 0 lies between -w and w.                           *)
LEMMA NoSmallMultiple ==
    ASSUME NEW w \in Nat \ {0}, NEW k \in Int, w * k < w, w * k > -w
    PROVE  k = 0
<1>1. CASE k >= 1
  BY <1>1
<1>2. CASE k <= -1
  BY <1>2
<1> QED BY <1>1, <1>2

(* There is only one remainder.                                            *)
LEMMA RemainderUnique ==
    ASSUME NEW w \in Nat \ {0}, NEW p \in Int, NEW q \in Int,
           NEW r \in 0..(w - 1), NEW s \in 0..(w - 1), w * p + r = w * q + s
    PROVE  r = s
<1>1. w * (p - q) = w * p - w * q /\ w * p \in Int /\ w * q \in Int
  BY Distributes
<1>2. w * (p - q) = s - r
  BY <1>1
<1>3. p - q \in Int /\ s - r < w /\ s - r > -w
  OBVIOUS
<1>4. p - q = 0
  BY <1>2, <1>3, NoSmallMultiple
<1>5. w * 0 = 0
  OBVIOUS
<1> QED BY <1>2, <1>4, <1>5

(* A counter that wraps after every addition holds what one that wraps     *)
(* once would hold.                                                        *)
LEMMA CountsModulo ==
    ASSUME NEW a \in Nat, NEW n \in Nat, NEW w \in Nat \ {0}
    PROVE  ((a % w) + n) % w = (a + n) % w
<1> DEFINE x == (a % w) + n
           q == a \div w
           u == x \div w
           v == (a + n) \div w
<1>1. a % w \in Nat /\ q \in Nat /\ a = w * q + (a % w)
  BY Remainder
<1>2. x \in Nat
  BY <1>1
<1>3. x % w \in 0..(w - 1) /\ u \in Nat /\ x = w * u + (x % w)
  BY <1>2, Remainder
<1>4. /\ (a + n) % w \in 0..(w - 1) /\ v \in Nat
      /\ a + n = w * v + ((a + n) % w)
  <2>1. a + n \in Nat
    OBVIOUS
  <2> QED BY <2>1, Remainder
<1>5. a + n = w * q + x
  <2>1. w * q \in Int
    BY <1>1, Distributes
  <2> QED BY <1>1, <2>1
<1> HIDE DEF x, q, u, v
<1>6. w * (q + u) + (x % w) = w * v + ((a + n) % w)
  <2>1. w * (q + u) = w * q + w * u /\ w * q \in Int /\ w * u \in Int
    BY <1>1, <1>3, Distributes
  <2> QED BY <2>1, <1>2, <1>3, <1>4, <1>5
<1>7. x % w = (a + n) % w
  <2>1. q + u \in Int /\ v \in Int
    BY <1>1, <1>3, <1>4
  <2> QED BY <2>1, <1>3, <1>4, <1>6, RemainderUnique
<1> QED BY <1>7 DEF x

(* An empty body counts as 0.                                              *)
LEMMA ZeroModulo == ASSUME NEW w \in Nat \ {0} PROVE 0 % w = 0
OBVIOUS

-----------------------------------------------------------------------------
(* At the first state nothing was asked for.                               *)
LEMMA ResultInit == Init => ResultInv
BY DEF Init, ResultInv, ResultAgrees, Succeeding, NoErr

(* One step per action: most leave the out-parameters alone.               *)
LEMMA ResultStep == ReqInv /\ ResultInv /\ [Next]_vars => ResultInv'
<1> SUFFICES ASSUME ReqInv, ResultInv, [Next]_vars PROVE ResultInv'
  OBVIOUS
<1> USE DEF ReqInv, TypeOK, BodyOK
<1>1. ASSUME NEW u \in Urls, Request(u) PROVE ResultInv'
  BY <1>1 DEF Request, ResultInv, ResultAgrees, Succeeding
<1>2. CASE UNCHANGED reqVars
  BY <1>2 DEF reqVars, outs, chain, body, ResultInv, ResultAgrees, Succeeding,
              PageTold
<1>3. ASSUME NEW next, next # "ok", CloseThen(next), pc # "idle",
             ~Succeeding, UNCHANGED <<err, bodyLen>>
      PROVE  ResultInv'
  BY <1>3 DEF CloseThen, ResultInv, ResultAgrees, Succeeding
<1>4. ASSUME pc \notin {"idle", "closing"}, pc' \notin {"idle", "closing"},
             pc' # "body", UNCHANGED <<err, bodyLen>>
      PROVE  ResultInv'
  BY <1>4 DEF ResultInv, ResultAgrees, Succeeding
<1>5. CASE ConnectReturnsError
  BY <1>5 DEF ConnectReturnsError, Return, SetErr, NoErr, ResultInv,
              ResultAgrees, Succeeding
<1>6. CASE CertificateAccepted \/ SendRequest \/ AskInput
  BY <1>4, <1>6 DEF CertificateAccepted, SendRequest, AskInput, outs
<1>7. ASSUME NEW st \in Statuses, NEW m, ReadHeader(st, m) PROVE ResultInv'
  BY <1>4, <1>7 DEF ReadHeader
<1>8. CASE CertificateRejected \/ SendRequestFailed \/ ReadHeaderFailed
           \/ CountRedirect \/ UserAnswers \/ UserAborts
  <2>1. pc # "idle" /\ ~Succeeding /\ UNCHANGED <<err, bodyLen>>
    BY <1>8 DEF CertificateRejected, SendRequestFailed, ReadHeaderFailed,
                CountRedirect, UserAnswers, UserAborts, outs, Succeeding
  <2>2. \/ CloseThen("untrusted_certificate") \/ CloseThen("request_too_long")
        \/ CloseThen("TLS_write_failed") \/ CloseThen("header_read_failed")
        \/ CloseThen("redirect_limit_exceeded") \/ CloseThen("redirect")
        \/ CloseThen("input") \/ CloseThen("input_aborted")
    BY <1>8 DEF CertificateRejected, SendRequestFailed, ReadHeaderFailed,
                CountRedirect, UserAnswers, UserAborts
  <2> QED BY <1>3, <2>1, <2>2
<1>9. ASSUME NEW st \in Statuses, ParseHeaderFailed(st) PROVE ResultInv'
  BY <1>3, <1>9 DEF ParseHeaderFailed, Succeeding
<1>10. ASSUME NEW n \in ChunkSizes, CallbackAborts(n) PROVE ResultInv'
  BY <1>3, <1>10 DEF CallbackAborts, Succeeding, outs
<1>11. CASE StartBody
  <2>1. delivered = 0
    BY <1>11 DEF StartBody, BodyFits
  <2>2. delivered % Word = 0
    BY <2>1, ZeroModulo, ChunkAssumption
  <2> QED BY <1>11, <2>2 DEF StartBody, outs, ResultInv, ResultAgrees, Succeeding
<1>12. ASSUME NEW n \in ChunkSizes, ReadChunk(n) PROVE ResultInv'
  <2>1. delivered \in Nat /\ n \in Nat /\ Word \in Nat \ {0}
    BY ChunkAssumption
  <2>2. ((delivered % Word) + n) % Word = (delivered + n) % Word
    BY <2>1, CountsModulo
  <2>3. total' = delivered' % Word
    BY <1>12, <2>2 DEF ReadChunk, ResultInv
  <2> QED BY <1>12, <2>3
          DEF ReadChunk, outs, ResultInv, ResultAgrees, Succeeding
<1>13. ASSUME NEW how \in {"notify", "cut"}, EndBody(how) PROVE ResultInv'
  <2>1. sent
    BY <1>13 DEF EndBody, SentFits
  <2> QED BY <1>13, <2>1
          DEF EndBody, CloseThen, chain, ResultInv, ResultAgrees, Succeeding,
              PageTold, Success, Input, Redirect
<1>14. CASE OtherStatus
  <2>1. sent /\ delivered = 0
    BY <1>14 DEF OtherStatus, SentFits, BodyFits
  <2>2. delivered % Word = 0
    BY <2>1, ZeroModulo, ChunkAssumption
  <2> QED BY <1>14, <2>1, <2>2
          DEF OtherStatus, CloseThen, chain, body, ResultInv, ResultAgrees,
              Succeeding, PageTold
<1>15. ASSUME NEW u, NEW how, Follow(u, how), pc = "closing", plan # "ok"
       PROVE  ResultInv'
  BY <1>15 DEF Follow, outs, ResultInv, ResultAgrees, Succeeding
<1>16. CASE FollowRedirect \/ \E u \in Urls : FollowInput(u)
  BY <1>15, <1>16 DEF FollowRedirect, FollowInput, Closed
<1>17. CASE Finish
  <2>1. err = NoErr
    BY <1>17 DEF Finish, Closed, ResultInv
  <2>2. CASE ReturnOk
    BY <1>17, <2>1, <2>2
    DEF Finish, Closed, ReturnOk, Return, NoErr, ResultInv, ResultAgrees,
        Succeeding, PageTold, chain, body
  <2>3. ASSUME NEW msg, msg # "none", pc' = "idle", rc' = -1,
               err'.code = -1, err'.msg = msg
        PROVE  ResultInv'
    BY <2>3 DEF ResultInv, ResultAgrees, Succeeding
  <2>4. CASE ReturnError \/ ReturnLimit \/ ReturnUnresolved \/ ReturnUnencoded
    BY <2>1, <2>3, <2>4
    DEF ReturnError, ReturnLimit, ReturnUnresolved, ReturnUnencoded, Return,
        SetErr, NoErr, Messages
  <2> QED BY <1>17, <2>2, <2>4 DEF Finish
<1>18. CASE ConnStep \/ UNCHANGED vars
  BY <1>2, <1>18 DEF ConnStep, vars
<1> QED
  BY <1>1, <1>5, <1>6, <1>7, <1>8, <1>9, <1>10, <1>11, <1>12, <1>13, <1>14,
     <1>16, <1>17, <1>18
  DEF Next, Exchange

(* A failure has a message and a success the answer to a request that was  *)
(* sent; *body_len counts what was delivered (gemini.c:184-336).           *)
THEOREM RequestResultAgrees == Spec => []ResultAgrees
<1>1. ResultInv => ResultAgrees
  BY DEF ResultInv
<1> QED BY <1>1, ResultInit, ResultStep, RequestInvariant, PTL DEF Spec
=============================================================================
