------------------------------ MODULE MCBrowser ------------------------------
(* A browser in a world of two hosts: a page with more links than can be   *)
(* numbered, a redirect into another directory of another host, a page on  *)
(* a port of its own.                                                      *)
EXTENDS Browser

Path(name) == << <<name>> >>
Page(host, port, path) == [host |-> host, port |-> port, path |-> path]
Text(kind, host, port, path) ==
    [kind |-> kind, host |-> host, port |-> port, path |-> path]
Link(kind, path) == Text(kind, "none", NoPort, path)

Start  == Page("x", 1965, Root)
Moved  == Page("x", 1965, Path("a"))
Target == Page("y", 1965, << <<"d">>, <<"b">> >>)
Other  == Page("y", 1966, Root)

(* NOSGEM.CFG is missing, names the local page in its last HOME line, or   *)
(* names a URL that does not parse.                                        *)
McDefaults == [HOME |-> Text("gemini", "x", NoPort, <<>>),
               PAGE_LINES |-> 24, MAX_BODY |-> 524288]
McHome(text) == [name |-> "HOME", value |-> text]
McConfigFiles ==
    { NoConfig,
      <<McHome(Text("foreign", "x", NoPort, <<>>)),
        [name |-> "none", value |-> 0],
        McHome(Text("GEMINI", "local", NoPort, Path("homepage")))>>,
      <<McHome(Text("bare", "x", 0, <<>>))>> }

McServed ==
    (Start  :> [kind |-> "gemtext",
                links |-> <<Link("relative", Path("a")), Link("empty", <<>>),
                            Text("gemini", "y", NoPort, <<>>)>>]) @@
    (Moved  :> [kind |-> "redirect",
                to |-> Text("gemini", "y", NoPort, << <<"d">>, <<"b">> >>)]) @@
    (Target :> [kind |-> "gemtext",
                links |-> <<Link("relative", <<DotDot, DotDot, <<"c">> >>),
                            Link("query", << <<"?q">> >>)>>]) @@
    (Other  :> [kind |-> "gemtext",
                links |-> <<Link("foreign", <<>>),
                            Link("rooted", << <<"e">>, Dot, DotDot, <<"f">>,
                                              Empty >>)>>])

McHomeLinks == <<Text("gemini", "x", NoPort, <<>>),
                 Link("relative", Path("bookmarks"))>>

McTyped == { Text("gemini", "y", 1966, <<>>),       \* y:1966
             Text("GEMINI", "x", NoPort, <<>>),
             Text("bare", "x", NoPort, Path("a")),
             Text("gemini", "x", 65536, <<>>),
             Text("gemini", "x", NoPort, [i \in 1..6 |-> <<"a">>]),
             Text("gemini", "y", NoPort, << <<"d">>, <<"b">> >>),
             Text("gemini", "y", 1966, Path("a")) }

McGarbage == {<<>>, <<Link("rooted", Path("g"))>>}
=============================================================================
