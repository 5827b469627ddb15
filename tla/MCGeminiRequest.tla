--------------------------- MODULE MCGeminiRequest ---------------------------
(* GeminiRequest on a small instance: two hosts, three URLs.               *)
EXTENDS GeminiRequest, TLC
CONSTANTS h1, h2, u1, u2, u3
MCHostOf == (u1 :> h1) @@ (u2 :> h2) @@ (u3 :> h1)
OneUrl == u1 :> h1

(* gemini.h says of redirect_limit: set when redirect limit exceeded.      *)
RedirectLimitReported ==
    pc = "idle" /\ err.msg = "redirect_limit_exceeded" => err.redirect_limit = 1

(* gemini.h says of the result: 0 on success, -1 on internal error.  A     *)
(* body that a reset, a lost connection or a timeout cut off is an error.  *)
SuccessMeansWholeBody == pc = "idle" /\ rc = 0 => bodyEnd # "cut"
=============================================================================
