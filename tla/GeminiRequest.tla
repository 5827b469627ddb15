---------------------------- MODULE GeminiRequest ----------------------------
(***************************************************************************)
(* nos_gemini_request_stream (src/src/gemini.c): one call connects, checks *)
(* the certificate, sends the request, reads the header and dispatches on  *)
(* the status, again and again until a response ends the chain of          *)
(* redirects and inputs.                                                   *)
(*                                                                         *)
(* The connection is the one of TlsConnection; every step of this module   *)
(* that touches it is one of that module's actions.                        *)
(***************************************************************************)
EXTENDS TlsConnection, Integers, Sequences

CONSTANTS Urls,          \* parsed URLs (nos_url_t)
          HostOf,        \* the host of each
          TooLong,       \* URLs whose request line does not fit request[768]
          Statuses,      \* the two-digit codes that servers answer with
          MaxRedirects,  \* NOS_GEMINI_MAX_REDIRECTS
          ChunkSizes,    \* what one wolfSSL_read returns: 1..512 bytes
          Word,          \* 2^16: the range of unsigned int
          MaxInputs,     \* bound: inputs that servers ask for in one call
          MaxBytes       \* bound: bytes of a response body

ASSUME UrlsAssumption ==
    HostOf \in [Urls -> Hosts] /\ TooLong \subseteq Urls /\ NULL \notin Urls
ASSUME StatusesAssumption == Statuses \subseteq 0..99
ASSUME MaxRedirectsAssumption == MaxRedirects \in Nat
ASSUME ChunkAssumption == ChunkSizes \subseteq Nat \ {0} /\ Word \in Nat \ {0}
ASSUME BoundsAssumption == MaxInputs \in Nat /\ MaxBytes \in Nat

VARIABLES
    pc,         \* where in nos_gemini_request_stream the program is
    current,    \* the URL of this exchange
    redirects,  \* redirects counted so far
    resp,       \* the caller's nos_gemini_resp_t: status, and META as a target
    err,        \* the caller's nos_gemini_err_t
    rc,         \* what the call returned
    total,      \* bytes of body counted, modulo Word
    bodyLen,    \* the caller's *body_len
    plan,       \* what follows the nos_tls_close in progress
    accepted,   \* history: the host this connection's certificate was checked for
    via,        \* history: what led to current: "start", "redirect", "input"
    sent,       \* history: the request for current has been sent
    trail,      \* history: the URLs requested, and what led to each
    hops,       \* history: redirects followed
    inputs,     \* history: inputs asked for
    delivered,  \* history: bytes given to the callback
    bodyEnd     \* history: how the body ended, "notify" or "cut"

outs  == <<resp, err, rc, bodyLen>>
chain == <<current, via, accepted, sent, trail, hops, inputs>>
body  == <<total, delivered, bodyEnd>>
reqVars == <<pc, plan, redirects, outs, chain, body>>
vars == <<connVars, reqVars>>

Success(status)  == status \in 20..29
Input(status)    == status \in 10..19
Redirect(status) == status \in 30..39
\* 4x, 5x and 6x; the rest falls through to the same return with body_len kept
Failed(status)   == status \in 40..69

NoErr == [code |-> 0, tls_err |-> 0, redirect_limit |-> 0, msg |-> "none"]

(* set_err writes every field, redirect_limit with 0.                      *)
SetErr(e, code, tls, msg) ==
    [e EXCEPT !.code = code, !.tls_err = tls, !.redirect_limit = 0, !.msg = msg]

(* The early returns that only close and set an error.                     *)
Messages == {"untrusted_certificate", "request_too_long", "TLS_write_failed",
             "header_read_failed", "header_parse_failed",
             "body_callback_aborted", "input_aborted"}

Init ==
    /\ ConnInit
    /\ pc = "idle"
    /\ current = NULL
    /\ redirects = 0
    /\ resp = [status |-> 0, meta |-> NULL]
    /\ err = NoErr
    /\ rc = 0
    /\ total = 0
    /\ bodyLen = 0
    /\ plan = "ok"
    /\ accepted = NULL
    /\ via = "start"
    /\ sent = FALSE
    /\ trail = <<>>
    /\ hops = 0
    /\ inputs = 0
    /\ delivered = 0
    /\ bodyEnd = "none"

-----------------------------------------------------------------------------
(* The call: the out-parameters are reset and the first connect starts.    *)
Request(u) ==
    /\ pc = "idle"
    /\ Connect(HostOf[u])
    /\ pc' = "connect"
    /\ current' = u /\ via' = "start"
    /\ redirects' = 0
    /\ resp' = [status |-> 0, meta |-> NULL]
    /\ err' = NoErr
    /\ bodyLen' = 0
    /\ accepted' = NULL /\ sent' = FALSE /\ trail' = <<>>
    /\ hops' = 0 /\ inputs' = 0 /\ delivered' = 0 /\ bodyEnd' = "none"
    /\ UNCHANGED <<rc, total, plan>>

(* nos_tls_connect, nos_tls_close, the network and the clock.              *)
ConnStep ==
    /\ Establish \/ CloseDone \/ Network \/ Tick
    /\ UNCHANGED reqVars

Return(code, e) == pc' = "idle" /\ rc' = code /\ err' = e

(* Mutation: the handshake's own error code is returned.                   *)
ConnectReturnsCode ==
    /\ pc = "connect" /\ tpc = "failed"
    /\ Return(1, SetErr(err, -1, -1, "TLS_connect_failed"))
    /\ UNCHANGED <<connVars, plan, redirects, resp, bodyLen, chain, body>>

(* nos_tls_connect returned -1.                                            *)
ConnectReturnsError ==
    /\ pc = "connect" /\ tpc = "failed"
    /\ Return(-1, SetErr(err, -1, -1, "TLS_connect_failed"))
    /\ UNCHANGED <<connVars, plan, redirects, resp, bodyLen, chain, body>>

(* Each early return closes the connection first; the error is set once    *)
(* the blocking close is over.                                             *)
CloseThen(next) ==
    /\ Close
    /\ pc' = "closing"
    /\ plan' = next

(* Mutation: after a redirect the certificate is still checked for the     *)
(* host that was asked for first.                                          *)
CertificateAcceptedForFirstHost ==
    /\ pc = "connect" /\ tpc = "up"
    /\ accepted' = HostOf[IF trail = <<>> THEN current ELSE trail[1].url]
    /\ pc' = "write"
    /\ UNCHANGED <<connVars, plan, redirects, outs, body,
                   current, via, sent, trail, hops, inputs>>

(* nos_tofu_check accepts the peer's certificate for this host ...         *)
CertificateAccepted ==
    /\ pc = "connect" /\ tpc = "up"
    /\ accepted' = HostOf[current]
    /\ pc' = "write"
    /\ UNCHANGED <<connVars, plan, redirects, outs, body,
                   current, via, sent, trail, hops, inputs>>

(* ... or does not: unknown or changed and declined, or the store failed.  *)
CertificateRejected ==
    /\ pc = "connect" /\ tpc = "up"
    /\ CloseThen("untrusted_certificate")
    /\ UNCHANGED <<redirects, outs, chain, body>>

(* The request line is written.                                            *)
SendRequest ==
    /\ pc = "write"
    /\ current \notin TooLong
    /\ trail' = Append(trail, [url |-> current, via |-> via])
    /\ sent' = TRUE
    /\ pc' = "header"
    /\ UNCHANGED <<connVars, plan, redirects, outs, body,
                   current, via, accepted, hops, inputs>>

(* It is too long for the buffer, or wolfSSL_write fails.                  *)
SendRequestFailed ==
    /\ pc = "write"
    /\ CloseThen(IF current \in TooLong THEN "request_too_long" ELSE "TLS_write_failed")
    /\ UNCHANGED <<redirects, outs, chain, body>>

(* read_header_line and parse_header succeed.  META names a URL when it is *)
(* a redirect's; NULL is a META that nos_url_resolve rejects.  Servers are *)
(* bounded in the inputs they ask for.                                     *)
ReadHeader(status, meta) ==
    /\ pc = "header"
    /\ meta = NULL \/ Redirect(status)
    /\ Input(status) => inputs < MaxInputs
    /\ resp' = [status |-> status, meta |-> meta]
    /\ pc' = "dispatch"
    /\ UNCHANGED <<connVars, plan, redirects, err, rc, bodyLen, chain, body>>

(* Mutation: an early return without nos_tls_close.                        *)
ReadHeaderFailedUnclosed ==
    /\ pc = "header"
    /\ Return(-1, SetErr(err, -1, 0, "header_read_failed"))
    /\ UNCHANGED <<connVars, plan, redirects, resp, bodyLen, chain, body>>

(* The connection ends or stays silent, or the line is too long.           *)
ReadHeaderFailed ==
    /\ pc = "header"
    /\ CloseThen("header_read_failed")
    /\ UNCHANGED <<redirects, outs, chain, body>>

(* Not two digits, or a META that does not fit, which is found out after   *)
(* resp->status has been written.                                          *)
ParseHeaderFailed(status) ==
    /\ pc = "header"
    /\ resp' \in {resp, [resp EXCEPT !.status = status]}
    /\ CloseThen("header_parse_failed")
    /\ UNCHANGED <<redirects, err, rc, bodyLen, chain, body>>

-----------------------------------------------------------------------------
(* 2x: the body is streamed to the callback.                               *)
StartBody ==
    /\ pc = "dispatch" /\ Success(resp.status)
    /\ total' = 0
    /\ pc' = "body"
    /\ UNCHANGED <<connVars, plan, redirects, outs, chain, delivered, bodyEnd>>

(* wolfSSL_read returns n bytes and the callback takes them.               *)
ReadChunk(n) ==
    /\ pc = "body"
    /\ delivered + n <= MaxBytes
    /\ delivered' = delivered + n
    /\ total' = (total + n) % Word
    /\ UNCHANGED <<connVars, pc, plan, redirects, outs, chain, bodyEnd>>

(* Mutation: break out of the loop instead of failing.                     *)
CallbackAbortsQuietly(n) ==
    /\ pc = "body"
    /\ delivered + n <= MaxBytes
    /\ delivered' = delivered + n
    /\ CloseThen("ok")
    /\ UNCHANGED <<redirects, outs, chain, total, bodyEnd>>

(* The callback takes them and asks to stop.                               *)
CallbackAborts(n) ==
    /\ pc = "body"
    /\ delivered + n <= MaxBytes
    /\ delivered' = delivered + n
    /\ CloseThen("body_callback_aborted")
    /\ UNCHANGED <<redirects, outs, chain, total, bodyEnd>>

(* Mutation: a body that was cut is asked for again.                       *)
EndBodyRetries(how) ==
    /\ pc = "body"
    /\ bodyEnd' = how
    /\ bodyLen' = total
    /\ CloseThen(IF how = "cut" THEN "input" ELSE "ok")
    /\ UNCHANGED <<redirects, resp, err, rc, chain, total, delivered>>

(* wolfSSL_read returns no more: the peer's close_notify, or an error that *)
(* the loop does not tell from it (a reset, a FIN without close_notify, 15 *)
(* seconds of silence).                                                    *)
EndBody(how) ==
    /\ pc = "body"
    /\ bodyEnd' = how
    /\ bodyLen' = total
    /\ CloseThen("ok")
    /\ UNCHANGED <<redirects, resp, err, rc, chain, total, delivered>>

(* 1x: the user is asked for a line, with the connection still open.       *)
AskInput ==
    /\ pc = "dispatch" /\ Input(resp.status)
    /\ inputs' = inputs + 1
    /\ pc' = "input"
    /\ UNCHANGED <<connVars, plan, redirects, outs, body,
                   current, via, accepted, sent, trail, hops>>

UserAnswers ==
    /\ pc = "input"
    /\ CloseThen("input")
    /\ UNCHANGED <<redirects, outs, chain, body>>

(* End of file on the console.                                             *)
UserAborts ==
    /\ pc = "input"
    /\ CloseThen("input_aborted")
    /\ UNCHANGED <<redirects, outs, chain, body>>

(* Mutation: one redirect too many.                                        *)
CountRedirectLate ==
    /\ pc = "dispatch" /\ Redirect(resp.status)
    /\ redirects' = redirects + 1
    /\ CloseThen(IF redirects > MaxRedirects THEN "redirect_limit_exceeded"
                 ELSE "redirect")
    /\ UNCHANGED <<outs, chain, body>>

(* 3x: redirects++ >= NOS_GEMINI_MAX_REDIRECTS counts the refused one too. *)
CountRedirect ==
    /\ pc = "dispatch" /\ Redirect(resp.status)
    /\ redirects' = redirects + 1
    /\ CloseThen(IF redirects >= MaxRedirects THEN "redirect_limit_exceeded"
                 ELSE "redirect")
    /\ UNCHANGED <<outs, chain, body>>

(* 4x, 5x and 6x, and the codes no case names (0x, 7x and above).          *)
OtherStatus ==
    /\ pc = "dispatch"
    /\ ~ (Success(resp.status) \/ Input(resp.status) \/ Redirect(resp.status))
    /\ bodyLen' = IF Failed(resp.status) THEN 0 ELSE bodyLen
    /\ CloseThen("ok")
    /\ UNCHANGED <<redirects, resp, err, rc, chain, body>>

-----------------------------------------------------------------------------
Closed == pc = "closing" /\ tpc = "idle"

(* The loop goes round with the next URL.                                  *)
Follow(u, how) ==
    /\ Connect(HostOf[u])
    /\ current' = u /\ via' = how
    /\ accepted' = NULL /\ sent' = FALSE
    /\ pc' = "connect"
    /\ UNCHANGED <<plan, redirects, outs, body, trail, inputs>>

(* nos_url_resolve turned META into a URL.                                 *)
FollowRedirect ==
    /\ Closed /\ plan = "redirect"
    /\ resp.meta # NULL
    /\ hops' = hops + 1
    /\ Follow(resp.meta, "redirect")

(* Mutation: the query goes to any URL.                                    *)
FollowInputAnywhere(u) ==
    /\ Closed /\ plan = "input"
    /\ Follow(u, "input")
    /\ UNCHANGED hops

(* apply_query put the answer behind the path: same host, another path.    *)
FollowInput(u) ==
    /\ Closed /\ plan = "input"
    /\ HostOf[u] = HostOf[current]
    /\ Follow(u, "input")
    /\ UNCHANGED hops

ReturnOk == plan = "ok" /\ Return(0, err)

ReturnError == plan \in Messages /\ Return(-1, SetErr(err, -1, 0, plan))

(* The flag is set just before set_err.                                    *)
ReturnLimit ==
    /\ plan = "redirect_limit_exceeded"
    /\ Return(-1, SetErr([err EXCEPT !.redirect_limit = 1], -1, 0, plan))

(* nos_url_resolve rejects META.                                           *)
ReturnUnresolved ==
    /\ plan = "redirect" /\ resp.meta = NULL
    /\ Return(-1, SetErr(err, -1, 0, "redirect_resolve_failed"))

(* apply_query has no room for the encoded answer.                         *)
ReturnUnencoded ==
    /\ plan = "input"
    /\ Return(-1, SetErr(err, -1, 0, "query_encoding_failed"))

(* Mutation: a META that does not resolve is not handled.                  *)
FinishResolved ==
    /\ Closed
    /\ ReturnOk \/ ReturnError \/ ReturnLimit \/ ReturnUnencoded
    /\ UNCHANGED <<connVars, plan, redirects, resp, bodyLen, chain, body>>

(* The call returns.                                                       *)
Finish ==
    /\ Closed
    /\ ReturnOk \/ ReturnError \/ ReturnLimit \/ ReturnUnresolved \/ ReturnUnencoded
    /\ UNCHANGED <<connVars, plan, redirects, resp, bodyLen, chain, body>>

Exchange ==
    \/ ConnectReturnsError \/ CertificateAccepted \/ CertificateRejected
    \/ SendRequest \/ SendRequestFailed
    \/ \E s \in Statuses, m \in Urls \cup {NULL} : ReadHeader(s, m)
    \/ ReadHeaderFailed
    \/ \E s \in Statuses : ParseHeaderFailed(s)
    \/ StartBody \/ AskInput \/ CountRedirect \/ OtherStatus
    \/ \E n \in ChunkSizes : ReadChunk(n) \/ CallbackAborts(n)
    \/ \E how \in {"notify", "cut"} : EndBody(how)
    \/ UserAnswers \/ UserAborts
    \/ FollowRedirect \/ (\E u \in Urls : FollowInput(u)) \/ Finish

Next ==
    \/ \E u \in Urls : Request(u)
    \/ ConnStep
    \/ Exchange

Spec == Init /\ [][Next]_vars

(***************************************************************************)
(* The polling loops leave as in TlsConnection.  A call into wolfSSL       *)
(* returns because nos_tls_recv gives up after 15 seconds, and the user    *)
(* answers, or closes, a prompt.                                           *)
(***************************************************************************)
Fairness ==
    /\ WF_vars(Tick /\ UNCHANGED reqVars)
    /\ WF_vars(Establish /\ UNCHANGED reqVars)
    /\ WF_vars(CloseDone /\ UNCHANGED reqVars)
    /\ WF_vars(Exchange)

FairSpec == Spec /\ Fairness

-----------------------------------------------------------------------------
Plans == {"ok", "input", "redirect", "redirect_limit_exceeded"} \cup Messages

Texts == Messages \cup
         {"none", "TLS_connect_failed", "redirect_limit_exceeded",
          "redirect_resolve_failed", "query_encoding_failed"}

Errs == [code : {0, -1}, tls_err : {0, -1}, redirect_limit : {0, 1}, msg : Texts]

OutsOK ==
    /\ resp \in [status : 0..99, meta : Urls \cup {NULL}]
    /\ err \in Errs
    /\ rc \in {0, -1}
    /\ bodyLen \in Nat

ChainOK ==
    /\ current \in Urls \cup {NULL}
    /\ via \in {"start", "redirect", "input"}
    /\ accepted \in Hosts \cup {NULL}
    /\ sent \in BOOLEAN
    /\ trail \in Seq([url : Urls, via : {"start", "redirect", "input"}])
    /\ hops \in Nat /\ inputs \in Nat

BodyOK ==
    /\ total \in Nat /\ delivered \in Nat
    /\ bodyEnd \in {"none", "notify", "cut"}

(* Every variable has its type.                                            *)
TypeOK ==
    /\ ConnTypeOK
    /\ pc \in {"idle", "connect", "write", "header", "dispatch", "body", "input", "closing"}
    /\ plan \in Plans
    /\ redirects \in Nat
    /\ OutsOK /\ ChainOK /\ BodyOK

(* A request leaves only on a connection made to its URL's host, after the *)
(* handshake, and after that host's certificate passed nos_tofu_check on   *)
(* this very connection, redirects and inputs included.                    *)
SendsOnlyToTrustedHost ==
    [][trail' # trail /\ trail' # <<>> =>
          /\ tpc = "up"
          /\ accepted = host
          /\ host = HostOf[trail'[Len(trail')].url]]_vars

(* While the caller runs, no socket, session or context of the last call   *)
(* is left: the next call finds the one socket free.                       *)
IdleHoldsNothing ==
    pc = "idle" => pool = Sockets /\ active = {} /\ buffers = {} /\ ctxs = 0 /\ ssls = 0

(* A call sends at most 1 + MaxRedirects requests, not counting the ones   *)
(* the user's own answers cause: a redirect loop ends, also when inputs    *)
(* come between the redirects.                                             *)
RedirectsBounded == Len(trail) <= 1 + MaxRedirects + inputs

(* What the caller is told agrees with what happened: a failure has a      *)
(* message, a success is the answer to a request that was sent, and it is  *)
(* not 1x or 3x; *body_len counts (modulo 2^16) the bytes delivered, which *)
(* come from a 2x response whose body was read until the stream ended.     *)
ResultAgrees ==
    pc = "idle" =>
        /\ rc = err.code
        /\ (rc = -1) <=> (err.msg # "none")
        /\ rc = 0 /\ trail # <<>> =>
              /\ ~ (Input(resp.status) \/ Redirect(resp.status))
              /\ sent
              /\ bodyLen = delivered % Word
              /\ delivered > 0 => Success(resp.status)
              /\ Success(resp.status) => bodyEnd # "none"

(* Once a byte of a body was delivered the call sends no further request:  *)
(* a page is never put together from two responses.                        *)
OnePagePerCall ==
    [][delivered > 0 /\ pc # "idle" => UNCHANGED <<trail, current, resp>>]_vars

(* Every call returns, whatever the network and the server do, if the      *)
(* server's inputs and its body are finite.                                *)
RequestReturns == pc # "idle" ~> pc = "idle"
-----------------------------------------------------------------------------
(* The call keeps the promises of a fetch: each request it sends is the    *)
(* one the answer before it called for, and it stops after the page.       *)
Fetch == INSTANCE GeminiFetch WITH
    busy     <- pc # "idle",
    wanted   <- IF pc # "idle" /\ ~sent THEN current ELSE NULL,
    last     <- IF trail = <<>> THEN NULL ELSE trail[Len(trail)].url,
    count    <- Len(trail),
    followed <- hops,
    started  <- delivered > 0,
    outcome  <- rc

ImplementsFetch == Fetch!FetchSpec
=============================================================================
