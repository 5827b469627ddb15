----------------------------- MODULE MCPageBody -----------------------------
(* Bodies made of a few pieces: every kind of line, alone, behind another  *)
(* one, inside of a block, behind a block, and without its LF at the end.  *)
EXTENDS PageBody

Line(s) == Append(s, "LF")

McPieces == {
    Line(Fence),
    Line(<<"#", "TAB", "a">>),
    Line(<<"#", "#", "#", "a", "SP", "b">>),
    Line(<<"=", ">", "SP", "u">>),
    Line(<<"=", ">", "u", "SP", "a", "b">>),
    <<"=", ">", "u", "v", "w">>,
    Line(<<"a", "SP", "b", "b">>),
    Line(<<"*", "SP", "a", "b", "b">>),
    <<">", "a", "CR">>,
    <<"b", "NUL", "b">>,
    <<"a", "b", "b", "a">> }

McBodies == McPieces
            \cup {p \o q : p, q \in McPieces}
            \cup {p \o q \o <<"LF">> : p, q \in McPieces}
            \cup {Line(Fence) \o p \o Line(Fence) \o q : p, q \in McPieces}

(* PAGE_LINES is set twice, to a number beyond 16 bits, and to no number.  *)
McDefaults == [HOME |-> "home", PAGE_LINES |-> 3, MAX_BODY |-> 15]
McSetting(v) == [name |-> "PAGE_LINES", value |-> v]
McConfigFiles == {<<McSetting(3), McSetting(18)>>, <<McSetting(0)>>}
=============================================================================
