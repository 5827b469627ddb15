--------------------------------- MODULE Url ---------------------------------
(***************************************************************************)
(* URL parsing and resolution (src/src/url.c).                             *)
(*                                                                         *)
(* A parsed URL (nos_url_t) is a host, a port and a path.  A path is the   *)
(* sequence of the segments behind each of its slashes, and a segment the  *)
(* sequence of its atoms, so that what is appended to a path without a     *)
(* slash, a query, runs into its last segment: "/" is <<Empty>> and "/a?q" *)
(* is << <<"a", "?q">> >>.                                                 *)
(*                                                                         *)
(* A text is what a user, a page or a redirect gives: its kind says how it *)
(* starts.                                                                 *)
(***************************************************************************)
EXTENDS Naturals, Sequences, SequencesExt

CONSTANTS NotAUrl,      \* the result -1
          NoPort,       \* a text without ":port"
          MaxSegments   \* path[512] and segStarts[128], counted in segments

ASSUME MaxSegmentsAssumption == MaxSegments \in Nat \ {0}

NOS_DEFAULT_PORT == 1965
MaxPort == 65535

Empty  == <<>>
Dot    == <<".">>
DotDot == <<"..">>
Root   == <<Empty>>     \* the path "/"

Fits(path) == Len(path) <= MaxSegments

(* Mutation: ".." at the root is kept.                                     *)
normalize_pathAboveRoot(path) ==
    LET Step(out, seg) ==
            IF seg \in {Empty, Dot} THEN out
            ELSE IF seg # DotDot \/ out = <<>> THEN Append(out, seg)
            ELSE Front(out)
        kept == FoldLeft(Step, <<>>, path)
    IN  IF kept = <<>> THEN Root ELSE kept

(* Empty and "." segments are dropped, the one behind a trailing slash     *)
(* too; ".." removes the segment before it, if there is one.               *)
normalize_path(path) ==
    LET Step(out, seg) ==
            IF seg \in {Empty, Dot} THEN out
            ELSE IF seg # DotDot THEN Append(out, seg)
            ELSE IF out = <<>> THEN out ELSE Front(out)
        kept == FoldLeft(Step, <<>>, path)
    IN  IF kept = <<>> THEN Root ELSE kept

WithPath(u, path) ==
    IF Fits(path) THEN [u EXCEPT !.path = normalize_path(path)] ELSE NotAUrl

(* is_all_digits reads to the end of the text, not of the host, so that a  *)
(* port with a path behind it is refused.                                  *)
PortOk(text) ==
    \/ text.port = NoPort
    \/ text.port \in 1..MaxPort /\ text.path = <<>>

nos_url_parse(text) ==
    IF text.kind \notin {"gemini", "GEMINI", "bare"} \/ ~PortOk(text)
    THEN NotAUrl
    ELSE WithPath([host |-> text.host,
                   port |-> IF text.port = NoPort THEN NOS_DEFAULT_PORT
                            ELSE text.port,
                   path |-> Root],
                  IF text.path = <<>> THEN Root ELSE text.path)

(* strcat: no slash comes between the path and what is appended.           *)
Glue(path, more) ==
    Front(path) \o <<Last(path) \o Head(more)>> \o Tail(more)

(* A query is appended as it is, behind a query that is already there too; *)
(* a relative link replaces what follows the last slash, the query's       *)
(* slashes included.                                                       *)
nos_url_resolve(base, link) ==
    CASE link.kind = "empty"    -> base
      [] link.kind \in {"gemini", "GEMINI"} -> nos_url_parse(link)
      [] link.kind = "foreign"  -> NotAUrl
      [] link.kind = "rooted"   -> WithPath(base, link.path)
      [] link.kind = "relative" ->
             WithPath(base, Front(base.path) \o link.path)
      [] link.kind = "query"    ->
             IF Fits(Glue(base.path, link.path))
             THEN [base EXCEPT !.path = Glue(base.path, link.path)]
             ELSE NotAUrl
=============================================================================
