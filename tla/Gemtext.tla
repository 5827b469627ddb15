------------------------------- MODULE Gemtext -------------------------------
(***************************************************************************)
(* nos_gemtext_parse_line (src/src/gemtext.c): the kind of one line, its   *)
(* text, and the toggle of preformatted blocks.                            *)
(*                                                                         *)
(* A line is a sequence of characters.  "SP", "TAB", "CR", "LF", "NUL"     *)
(* and "TICK" are what they say; any other character is only compared.     *)
(***************************************************************************)
EXTENDS Naturals, Sequences, SequencesExt

CONSTANTS UrlSize,   \* sizeof(out->url), 512
          TextSize   \* sizeof(out->text), 1024

ASSUME SizesAssumption == {UrlSize, TextSize} \subseteq Nat \ {0}

Blank == {"SP", "TAB"}

Behind(s, n) == SubSeq(s, n + 1, Len(s))

(* The part of s before the first character of a set, s without one.       *)
UpTo(s, chars) ==
    LET i == SelectInSeq(s, LAMBDA ch : ch \in chars)
    IN  IF i = 0 THEN s ELSE SubSeq(s, 1, i - 1)

trim_left(s) ==
    LET i == SelectInSeq(s, LAMBDA ch : ch \notin Blank)
    IN  IF i = 0 THEN <<>> ELSE Behind(s, i - 1)

Fence == <<"TICK", "TICK", "TICK">>

(* What a line can start with, in the order it is looked for.              *)
Marks == << [type |-> "h3",    mark |-> <<"#", "#", "#">>],
            [type |-> "h2",    mark |-> <<"#", "#">>],
            [type |-> "h1",    mark |-> <<"#">>],
            [type |-> "link",  mark |-> <<"=", ">">>],
            [type |-> "list",  mark |-> <<"*", "SP">>],
            [type |-> "quote", mark |-> <<">">>],
            [type |-> "text",  mark |-> <<>>] >>

Marked(line) == Marks[SelectInSeq(Marks, LAMBDA m : IsPrefix(m.mark, line))]

Parsed(type, url, text, in_pre) ==
    [type |-> type, url |-> url, text |-> text, in_pre |-> in_pre,
     ok |-> Len(url) < UrlSize /\ Len(text) < TextSize]

nos_gemtext_parse_line(line, in_pre) ==
    LET type == Marked(line).type
        rest == Behind(line, Len(Marked(line).mark))
        body == trim_left(rest)
        url  == UpTo(body, Blank)
    IN  IF IsPrefix(Fence, line)
        THEN Parsed("preformat", <<>>, <<>>, ~in_pre)
        ELSE IF in_pre THEN Parsed("preformat", <<>>, line, TRUE)
        ELSE IF type = "link"
        THEN Parsed(type, url, trim_left(Behind(body, Len(url))), FALSE)
        ELSE Parsed(type, <<>>, IF type \in {"list", "text"} THEN rest
                                ELSE body, FALSE)
=============================================================================
