----------------------------- MODULE GeminiFetch -----------------------------
(***************************************************************************)
(* What a fetch promises, with no connection in sight: from the URL asked  *)
(* for, one request at a time goes out, each next URL is what the previous *)
(* answer calls for (a redirect's target, or the user's query for the same *)
(* host), at most MaxRedirects redirects are followed, and the page that   *)
(* is delivered is the last answer's.                                      *)
(***************************************************************************)
EXTENDS Integers

CONSTANTS Urls, HostOf, MaxRedirects, NULL

VARIABLES busy,     \* a fetch is in progress
          wanted,   \* the URL to request next, NULL when its answer is awaited
          last,     \* the URL requested last
          count,    \* how many requests went out
          followed, \* how many redirects were followed
          started,  \* some of the page was delivered
          outcome   \* of the last fetch: 0, or -1 for a failure

fetchVars == <<busy, wanted, last, count, followed, started, outcome>>

FetchInit ==
    /\ busy = FALSE
    /\ wanted = NULL /\ last = NULL
    /\ count = 0 /\ followed = 0
    /\ started = FALSE
    /\ outcome = 0

Begin(u) ==
    /\ ~busy
    /\ busy' = TRUE
    /\ wanted' = u /\ last' = NULL
    /\ count' = 0 /\ followed' = 0
    /\ started' = FALSE
    /\ UNCHANGED outcome

(* The request for the wanted URL goes out.                                *)
Ask ==
    /\ busy /\ wanted # NULL
    /\ last' = wanted
    /\ wanted' = NULL
    /\ count' = count + 1
    /\ UNCHANGED <<busy, followed, started, outcome>>

(* The answer is a redirect to u.                                          *)
FollowTo(u) ==
    /\ busy /\ wanted = NULL /\ ~started
    /\ followed < MaxRedirects
    /\ followed' = followed + 1
    /\ wanted' = u
    /\ UNCHANGED <<busy, last, count, started, outcome>>

(* The answer asks for input, and the user gives some.                     *)
Query(u) ==
    /\ busy /\ wanted = NULL /\ ~started
    /\ HostOf[u] = HostOf[last]
    /\ wanted' = u
    /\ UNCHANGED <<busy, last, count, followed, started, outcome>>

(* The page starts to arrive.                                              *)
Deliver ==
    /\ busy /\ wanted = NULL /\ ~started
    /\ started' = TRUE
    /\ UNCHANGED <<busy, wanted, last, count, followed, outcome>>

(* Success needs an answer; failure is possible at any time.               *)
End(result) ==
    /\ busy
    /\ result = 0 => wanted = NULL
    /\ busy' = FALSE
    /\ wanted' = NULL
    /\ outcome' = result
    /\ UNCHANGED <<last, count, followed, started>>

FetchNext ==
    \/ \E u \in Urls : Begin(u) \/ FollowTo(u) \/ Query(u)
    \/ Ask \/ Deliver
    \/ \E r \in {0, -1} : End(r)

FetchSpec == FetchInit /\ [][FetchNext]_fetchVars
=============================================================================
