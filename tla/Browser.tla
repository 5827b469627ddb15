------------------------------- MODULE Browser -------------------------------
(***************************************************************************)
(* The browser: the loop of main (src/src/main.c) with the back history    *)
(* (nav.c), the prompts (ui.c) and the bookmarks file (bookmarks.c).       *)
(*                                                                         *)
(* Every turn shows the current page and reads one command.  What a page   *)
(* is, is the world's: the servers' answers, whether a request succeeds    *)
(* and whether a local file opens.  The request itself is GeminiRequest.   *)
(***************************************************************************)
EXTENDS Url, Config, FiniteSets

CONSTANTS Served,        \* what servers answer: [a set of URLs -> answers]
          HomeLinks,     \* the links of HOMEPAGE.GEM
          Typed,         \* texts the user types as a URL
          Numbers,       \* numbers the user types
          Garbage,       \* what links may hold before the first page
          Faults,        \* of "open", "request", "write": what may fail
          NOS_NAV_MAX,   \* pages of history
          NOS_MAX_LINKS, \* links of a page that can be followed
          MaxRedirects,  \* NOS_GEMINI_MAX_REDIRECTS
          MaxVisits,     \* bound: pages left and not returned to
          MaxBookmarks,  \* bound: lines of BOOKMARKS.GEM
          NoPage

ASSUME BrowserAssumption ==
    /\ {NOS_NAV_MAX, NOS_MAX_LINKS, MaxRedirects} \subseteq Nat
    /\ Numbers \subseteq Nat
    /\ Faults \subseteq {"open", "request", "write"}
    /\ MaxVisits \in Nat /\ MaxBookmarks \in Nat
    /\ \A u \in DOMAIN Served :
           Served[u].kind = "gemtext" =>
               NoPage # [url |-> u, links |-> Served[u].links]

(* What is typed or configured, and what a link or a redirect holds: there *)
(* a text that starts with no scheme is a relative link.                   *)
Kinds == {"bare", "empty", "gemini", "GEMINI", "foreign", "rooted",
          "relative", "query"}
Texts == {text \in [kind : Kinds, host : STRING, port : Nat \cup {NoPort},
                    path : Seq(Seq(STRING))] :
              text.kind = "query" => text.path # <<>>}
Links == {text \in Texts : text.kind # "bare"}

ASSUME WorldAssumption ==
    /\ NoPort \notin Nat
    /\ Typed \subseteq Texts
    /\ HomeLinks \in Seq(Links)
    /\ Garbage \subseteq Seq(Links)
    /\ \A u \in DOMAIN Served :
           /\ Served[u].kind = "gemtext" => Served[u].links \in Seq(Links)
           /\ Served[u].kind = "redirect" => Served[u].to \in Links
    /\ DefaultConfig.HOME \in Texts
    /\ \A file \in ConfigFiles \ {NoConfig} : \A i \in DOMAIN file :
           file[i].name = "HOME" => file[i].value \in Texts

VARIABLES pc,        \* "show", "command", "label" or "ended"
          current,   \* the URL of the page
          history,   \* nos_nav_t: pages to go back to, the last one first
          links,     \* the links that numbers choose from
          bookmarks, \* the links of BOOKMARKS.GEM
          shown,     \* history: the page on the screen, or NoPage
          saved,     \* history: the page each bookmark was made on
          left,      \* history: the pages left and not returned to
          dropped    \* history: a page left was not pushed

vars == <<pc, current, history, links, bookmarks, shown, saved, left, dropped>>

Local(name) == [host |-> "local", port |-> 0, path |-> << <<name>> >>]
HOMEPAGE  == Local("homepage")
BOOKMARKS == Local("bookmarks")

(* So says the language; the provers have to be told.                      *)
ASSUME NamesAssumption == {"local", "homepage", "bookmarks"} \subseteq STRING

(* The port is not looked at.                                              *)
IsPage(u, page) == u.host = page.host /\ u.path = page.path
IsLocal(u) == IsPage(u, HOMEPAGE) \/ IsPage(u, BOOKMARKS)

(* HOME as configured; main ends at once when it does not parse.           *)
HomePages ==
    {nos_url_parse(nos_config_load(file).HOME) : file \in ConfigFiles}
    \ {NotAUrl}

Init ==
    /\ pc = "show"
    /\ current \in HomePages
    /\ history = <<>>
    /\ links \in Garbage
    /\ bookmarks = <<>>
    /\ shown = NoPage
    /\ saved = <<>>
    /\ left = <<>>
    /\ dropped = FALSE

-----------------------------------------------------------------------------
(* Showing a page.  add_link stops counting at NOS_MAX_LINKS.              *)
Numbered(all) == SubSeq(all, 1, IF Len(all) < NOS_MAX_LINKS THEN Len(all)
                                ELSE NOS_MAX_LINKS)

Show(url, all) ==
    /\ links' = Numbered(all)
    /\ shown' = [url |-> url, links |-> all]

(* The screen: nothing but it and the links changes.                       *)
Rendered ==
    /\ pc = "show" /\ pc' = "command"
    /\ UNCHANGED <<current, history, bookmarks, saved, left, dropped>>

(* render_homepage, on either of the local files.                          *)
ShowLocal ==
    /\ IsLocal(current)
    /\ Rendered
    /\ Show(current, IF IsPage(current, HOMEPAGE) THEN HomeLinks
                     ELSE bookmarks)

(* fopen fails: the links of the last page stay.                           *)
LocalFailed ==
    /\ IsLocal(current) /\ "open" \in Faults
    /\ Rendered
    /\ shown' = NoPage
    /\ UNCHANGED links

Answer(u) == IF u \in DOMAIN Served THEN Served[u] ELSE [kind |-> "other"]

(* The URL that answers a request for u, MaxRedirects redirects later at   *)
(* the most.  A request for input is a redirect to what the user answers,  *)
(* and a body that was cut off an answer with fewer links.                 *)
Landing(u) ==
    LET at[n \in 0..MaxRedirects] ==
            IF n = 0 THEN u
            ELSE LET v == at[n - 1]
                 IN  IF v # NotAUrl /\ Answer(v).kind = "redirect"
                     THEN nos_url_resolve(v, Answer(v).to)
                     ELSE v
    IN  at[MaxRedirects]

IsGemtext(u) == u # NotAUrl /\ Answer(u).kind = "gemtext"

(* A 2x answer of type text/gemini.                                        *)
ShowFetched ==
    /\ ~IsLocal(current)
    /\ IsGemtext(Landing(current))
    /\ Rendered
    /\ Show(Landing(current), Answer(Landing(current)).links)

(* Mutation: fetch_and_render does not clear the links of the last page.   *)
NotFetchedKeepsLinks ==
    /\ ~IsLocal(current)
    /\ "request" \in Faults \/ ~IsGemtext(Landing(current))
    /\ Rendered
    /\ shown' = NoPage
    /\ UNCHANGED links

(* Another type, another status, or the request failed, possibly with half *)
(* of the page on the screen: the links were cleared before.               *)
NotFetched ==
    /\ ~IsLocal(current)
    /\ "request" \in Faults \/ ~IsGemtext(Landing(current))
    /\ Rendered
    /\ shown' = NoPage
    /\ links' = <<>>

-----------------------------------------------------------------------------
(* The commands.                                                           *)
(* Mutation: the limit is off by one.                                      *)
PushAtLimit(u) ==
    history' = IF Len(history) <= NOS_NAV_MAX THEN Append(history, u)
               ELSE history

(* nos_nav_push; the callers ignore that it fails when the stack is full.  *)
nos_nav_push(u) ==
    history' = IF Len(history) < NOS_NAV_MAX THEN Append(history, u)
               ELSE history

(* Mutation: the page gone to is pushed, not the page left.                *)
VisitPushesNext(next) ==
    /\ pc = "command" /\ pc' = "show"
    /\ Len(left) < MaxVisits
    /\ nos_nav_push(next)
    /\ current' = next
    /\ left' = Append(left, current)
    /\ dropped' = (dropped \/ ~(Len(history) < NOS_NAV_MAX))
    /\ UNCHANGED <<links, bookmarks, shown, saved>>

(* Leaving the page on the screen for another one.                         *)
Visit(next) ==
    /\ pc = "command" /\ pc' = "show"
    /\ Len(left) < MaxVisits
    /\ nos_nav_push(current)
    /\ current' = next
    /\ left' = Append(left, current)
    /\ dropped' = (dropped \/ ~(Len(history) < NOS_NAV_MAX))
    /\ UNCHANGED <<links, bookmarks, shown, saved>>

Home == Visit(HOMEPAGE)
ShowBookmarks == Visit(BOOKMARKS)

(* A number: atoi in an unsigned int.                                      *)
Chosen(n) == n % Word
FollowLink(n) ==
    /\ Chosen(n) \in 1..Len(links)
    /\ nos_url_resolve(current, links[Chosen(n)]) # NotAUrl
    /\ Visit(nos_url_resolve(current, links[Chosen(n)]))

(* parse_user_url knows "gemini://" in small letters only.                 *)
parse_user_url(text) ==
    IF text.kind = "GEMINI" THEN NotAUrl ELSE nos_url_parse(text)
TypeUrl(text) ==
    /\ parse_user_url(text) # NotAUrl
    /\ Visit(parse_user_url(text))

(* b                                                                       *)
Back ==
    /\ pc = "command" /\ pc' = "show"
    /\ history # <<>>
    /\ current' = Last(history)
    /\ history' = Front(history)
    /\ left' = Front(left)
    /\ UNCHANGED <<links, bookmarks, shown, saved, dropped>>

(* r, an empty line and every command that is refused: the page is shown   *)
(* again.                                                                  *)
Again ==
    /\ pc = "command" /\ pc' = "show"
    /\ UNCHANGED <<current, history, links, bookmarks, shown, saved,
                   left, dropped>>

(* a                                                                       *)
AskLabel ==
    /\ pc = "command" /\ pc' = "label"
    /\ UNCHANGED <<current, history, links, bookmarks, shown, saved,
                   left, dropped>>

make_current_url(u) ==
    [kind |-> "gemini", host |-> u.host, path |-> u.path,
     port |-> IF u.port = NOS_DEFAULT_PORT THEN NoPort ELSE u.port]

(* nos_bookmarks_add appends one line.                                     *)
AddBookmark ==
    /\ pc = "label" /\ pc' = "show"
    /\ Len(bookmarks) < MaxBookmarks
    /\ bookmarks' = Append(bookmarks, make_current_url(current))
    /\ saved' = Append(saved, current)
    /\ UNCHANGED <<current, history, links, shown, left, dropped>>

(* The file cannot be opened, or the URL is too long for urlbuf.           *)
BookmarkFailed ==
    /\ pc = "label" /\ "write" \in Faults
    /\ pc' = "show"
    /\ UNCHANGED <<current, history, links, bookmarks, shown, saved,
                   left, dropped>>

(* q, or the end of stdin.                                                 *)
Quit ==
    /\ pc = "command" /\ pc' = "ended"
    /\ UNCHANGED <<current, history, links, bookmarks, shown, saved,
                   left, dropped>>

Turn == ShowLocal \/ LocalFailed \/ ShowFetched \/ NotFetched

Command ==
    \/ Home \/ ShowBookmarks \/ Back \/ Again \/ AskLabel \/ Quit
    \/ \E n \in Numbers : FollowLink(n)
    \/ \E text \in Typed : TypeUrl(text)

Next == Turn \/ Command \/ AddBookmark \/ BookmarkFailed

Spec == Init /\ [][Next]_vars

-----------------------------------------------------------------------------
(* Properties.                                                             *)

UrlOK(u) ==
    /\ DOMAIN u = {"host", "port", "path"}
    /\ u.port \in 0..MaxPort
    /\ u.path # <<>> /\ Fits(u.path)

(* The history never outgrows items[NOS_NAV_MAX] (nav.c:16), the links     *)
(* never outgrow links[NOS_MAX_LINKS] (render.c:91), and everything that   *)
(* is visited or can be returned to is a URL (main.c:284-313).             *)
TypeOK ==
    /\ pc \in {"show", "command", "label", "ended"}
    /\ UrlOK(current)
    /\ Len(history) <= NOS_NAV_MAX
    /\ \A i \in DOMAIN history : UrlOK(history[i])
    /\ links \in Garbage \/ Len(links) <= NOS_MAX_LINKS
    /\ Len(bookmarks) = Len(saved)
    /\ Len(left) \in 0..MaxVisits
    /\ dropped \in BOOLEAN

(* Once a page was fetched or opened, the numbers choose from its links    *)
(* and from no other page's: when the screen shows a page, from the first  *)
(* ones of that page, and when a request brought none, from nothing        *)
(* (main.c:98, 120 and 143).                                               *)
LinksOfPage ==
    pc = "command" =>
        /\ shown # NoPage => links = Numbered(shown.links)
        /\ shown = NoPage /\ ~IsLocal(current) => links = <<>>

(* b returns to the page that was left last, as long as the history was    *)
(* never full (nav.c:13-28, main.c:284-291).                               *)
BackRetraces == [][Back /\ ~dropped => current' = Last(left)]_vars

(* A segment stays unless the ".." behind it outnumber the names between.  *)
NamesLeft(segments) ==
    LET names == {k \in DOMAIN segments :
                      segments[k] \notin {Empty, Dot, DotDot}}
        ups   == {k \in DOMAIN segments : segments[k] = DotDot}
        stays == {i \in names :
                    \A j \in i..Len(segments) :
                        Cardinality(ups \cap (i..j))
                            < Cardinality(names \cap (i..j))}
    IN  [k \in 1..Cardinality(stays) |-> segments[SetToSortSeq(stays, <)[k]]]

(* A link without a host stays on the server and leads to the names that   *)
(* no ".." takes back, counted from the directory of the page or from the  *)
(* root; ".." cannot leave the root (url.c:33-88 and 183-219).             *)
FollowsDots ==
    [][\A n \in Numbers :
           LET link == links[Chosen(n)]
               from == IF link.kind = "rooted" THEN <<>>
                       ELSE Front(current.path)
               path == NamesLeft(from \o link.path)
           IN  FollowLink(n) /\ link.kind \in {"relative", "rooted"} =>
                   current' = [current EXCEPT
                                 !.path = IF path = <<>> THEN Root
                                          ELSE path]]_vars

(* A number N that is followed leads where link N of the page on the       *)
(* screen leads: "Number | Follow link N" (src/PLAN.md:191).               *)
FollowsLinkN ==
    [][\A n \in Numbers :
           FollowLink(n) /\ shown # NoPage =>
               /\ n \in DOMAIN shown.links
               /\ current' = nos_url_resolve(shown.url, shown.links[n])]_vars

(* A page of a server that is bookmarked can be opened again: the URL that *)
(* a writes (main.c:265-282) is parsed to the one it was made from, as     *)
(* url.c is to parse "gemini://host[:port]/path" (src/PLAN.md:87).          *)
BookmarkReopens ==
    \A i \in DOMAIN bookmarks :
        ~IsLocal(saved[i]) => nos_url_parse(bookmarks[i]) = saved[i]
=============================================================================
