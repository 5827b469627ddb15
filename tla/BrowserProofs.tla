---------------------------- MODULE BrowserProofs ----------------------------
(* The back history of Browser, for every size of the stack, every world   *)
(* and every sequence of commands.                                         *)
EXTENDS Browser, FoldLemmas

(* While nothing was dropped the stack holds exactly the pages that were   *)
(* left and not returned to (nav.c:13-28).                                 *)
HistoryIsLeft ==
    /\ dropped \in BOOLEAN
    /\ ~dropped => history = left

(* Leaving a page either puts it on both or records that it was dropped.   *)
LEMMA VisitKeepsHistory ==
    ASSUME HistoryIsLeft, NEW next, Visit(next)
    PROVE  HistoryIsLeft'
<1>1. left' = Append(left, current)
  BY DEF Visit
<1>2. CASE Len(history) < NOS_NAV_MAX
  <2>1. history' = Append(history, current)
    BY <1>2 DEF Visit, nos_nav_push
  <2>2. dropped' = dropped
    BY <1>2, ZenonT(20) DEF Visit, HistoryIsLeft
  <2> QED  BY <1>1, <2>1, <2>2 DEF HistoryIsLeft
<1>3. CASE ~(Len(history) < NOS_NAV_MAX)
  <2>1. dropped' = TRUE
    BY <1>3, ZenonT(20) DEF Visit, HistoryIsLeft
  <2> QED  BY <2>1 DEF HistoryIsLeft
<1> QED  BY <1>2, <1>3

(* Every other step leaves the three alone, but b, which takes the last    *)
(* page off both.                                                          *)
LEMMA StepKeepsHistory ==
    ASSUME HistoryIsLeft, [Next]_vars
    PROVE  HistoryIsLeft'
<1>1. CASE Turn
  BY <1>1 DEF Turn, ShowLocal, LocalFailed, ShowFetched, NotFetched,
              Rendered, HistoryIsLeft
<1>2. CASE Home \/ ShowBookmarks
  BY <1>2, VisitKeepsHistory DEF Home, ShowBookmarks
<1>3. CASE Back
  BY <1>3 DEF Back, HistoryIsLeft
<1>4. CASE Again \/ AskLabel \/ Quit \/ AddBookmark \/ BookmarkFailed
  BY <1>4 DEF Again, AskLabel, Quit, AddBookmark, BookmarkFailed,
              HistoryIsLeft
<1>5. ASSUME NEW n \in Numbers, FollowLink(n) PROVE HistoryIsLeft'
  BY <1>5, VisitKeepsHistory DEF FollowLink
<1>6. ASSUME NEW text \in Typed, TypeUrl(text) PROVE HistoryIsLeft'
  BY <1>6, VisitKeepsHistory DEF TypeUrl
<1>7. CASE UNCHANGED vars
  BY <1>7 DEF vars, HistoryIsLeft
<1> QED
  BY <1>1, <1>2, <1>3, <1>4, <1>5, <1>6, <1>7 DEF Next, Command

(* The stack agrees with what a reader of the screen remembers.            *)
THEOREM HistoryAgrees == Spec => []HistoryIsLeft
<1>1. Init => HistoryIsLeft
  BY DEF Init, HistoryIsLeft
<1>2. HistoryIsLeft /\ [Next]_vars => HistoryIsLeft'
  BY StepKeepsHistory
<1> QED  BY <1>1, <1>2, PTL DEF Spec

(* b returns to the page that was left last (main.c:284-291).              *)
THEOREM BackReturns == Spec => BackRetraces
<1>1. HistoryIsLeft /\ [Next]_vars =>
        [Back /\ ~dropped => current' = Last(left)]_vars
  BY DEF Back, HistoryIsLeft
<1> QED  BY <1>1, HistoryAgrees, PTL DEF Spec, BackRetraces

(* Whatever page a request lands on, the record of it is no NoPage.        *)
LEMMA FetchedIsPage ==
    ASSUME ShowFetched
    PROVE  shown' # NoPage /\ links' = Numbered(shown'.links)
<1> DEFINE u == Landing(current)
<1>1. Answer(u).kind = "gemtext"
  BY DEF ShowFetched, IsGemtext
<1>2. /\ links' = Numbered(Answer(u).links)
      /\ shown' = [url |-> u, links |-> Answer(u).links]
  BY DEF ShowFetched, Show
<1> HIDE DEF u
<1>3. u \in DOMAIN Served /\ Answer(u) = Served[u]
  BY <1>1 DEF Answer
<1> QED
  BY <1>1, <1>2, <1>3, BrowserAssumption DEF BrowserAssumption

(* Whenever a number can be typed, it chooses from the links of the page   *)
(* on the screen, or of none: only showing a page ends in "command", and   *)
(* it sets both (main.c:98, 120 and 143).                                  *)
THEOREM LinksAreThePages == Spec => []LinksOfPage
<1>1. Init => LinksOfPage
  BY DEF Init, LinksOfPage
<1>2. ASSUME LinksOfPage, [Next]_vars PROVE LinksOfPage'
  <2>1. CASE ShowLocal
    <3>1. /\ IsLocal(current) /\ current' = current
          /\ links' = Numbered(shown'.links)
      BY <2>1 DEF ShowLocal, Rendered, Show
    <3>2. IsLocal(current')
      BY <3>1
    <3> QED  BY <3>1, <3>2 DEF LinksOfPage, IsLocal, IsPage
  <2>2. CASE LocalFailed
    <3>1. IsLocal(current) /\ current' = current /\ shown' = NoPage
      BY <2>2 DEF LocalFailed, Rendered
    <3> QED  BY <3>1 DEF LinksOfPage, IsLocal, IsPage
  <2>3. CASE ShowFetched
    BY <2>3, FetchedIsPage DEF LinksOfPage
  <2>4. CASE NotFetched
    BY <2>4 DEF NotFetched, LinksOfPage
  <2>5. ASSUME NEW next, Visit(next) PROVE LinksOfPage'
    BY <2>5 DEF Visit, LinksOfPage
  <2>6. CASE Back \/ Again \/ AskLabel \/ Quit \/ AddBookmark \/ BookmarkFailed
    BY <2>6 DEF Back, Again, AskLabel, Quit, AddBookmark, BookmarkFailed,
                LinksOfPage
  <2>7. CASE UNCHANGED vars
    BY <2>7, <1>2 DEF vars, LinksOfPage, IsLocal, IsPage
  <2>8. CASE Home \/ ShowBookmarks
    BY <2>8, <2>5 DEF Home, ShowBookmarks
  <2>9. ASSUME NEW n \in Numbers, FollowLink(n) PROVE LinksOfPage'
    BY <2>9, <2>5 DEF FollowLink
  <2>10. ASSUME NEW text \in Typed, TypeUrl(text) PROVE LinksOfPage'
    BY <2>10, <2>5 DEF TypeUrl
  <2> QED
    BY <1>2, <2>1, <2>2, <2>3, <2>4, <2>6, <2>7, <2>8, <2>9, <2>10
    DEF Next, Command, Turn
<1> QED  BY <1>1, <1>2, PTL DEF Spec

-----------------------------------------------------------------------------
(* URLs.                                                                   *)
Paths == Seq(Seq(STRING))

PagePaths == {path \in Paths : path # <<>> /\ Fits(path)}
Ports == 0..MaxPort
Urls == [host : STRING, port : Ports, path : PagePaths]

(* The ports that are not typed.                                           *)
LEMMA FixedPorts == 0 \in Ports /\ NOS_DEFAULT_PORT \in Ports
<1>1. /\ MaxPort \in Nat /\ NOS_DEFAULT_PORT \in Nat
      /\ NOS_DEFAULT_PORT <= MaxPort
  BY DEF MaxPort, NOS_DEFAULT_PORT
<1> QED  BY <1>1 DEF Ports

(* What a text is made of, without the set of all texts.                   *)
LEMMA TextParts ==
    ASSUME NEW text \in Texts
    PROVE  /\ text.kind \in Kinds
           /\ text.host \in STRING
           /\ text.port \in Nat \cup {NoPort}
           /\ text.path \in Paths
           /\ text.kind = "query" => text.path # <<>>
BY Zenon DEF Texts, Paths

(* A URL with another path.                                                *)
LEMMA UrlExcept ==
    ASSUME NEW P, NEW Q, NEW u \in [host : STRING, port : Ports, path : P],
           NEW path \in Q
    PROVE  [u EXCEPT !.path = path] \in [host : STRING, port : Ports, path : Q]
OBVIOUS

(* One segment of normalize_path, as in Url.                               *)
NormalStep(out, seg) ==
    IF seg \in {Empty, Dot} THEN out
    ELSE IF seg # DotDot THEN Append(out, seg)
    ELSE IF out = <<>> THEN out ELSE Front(out)

(* normalize_path is a loop over the segments.                             *)
NormalizeRun(f, C, b, seq) ==
    /\ f \in [0..Len(seq) -> C]
    /\ f[0] = b
    /\ \A k \in 1..Len(seq) : f[k] = NormalStep(f[k - 1], seq[k])

LEMMA NormalizeLoop ==
    ASSUME NEW C, NEW A, NEW b \in C, NEW seq \in Seq(A),
           \A c \in C, k \in 1..Len(seq) : NormalStep(c, seq[k]) \in C
    PROVE  \E f : /\ NormalizeRun(f, C, b, seq)
                  /\ f[Len(seq)] = FoldLeft(NormalStep, b, seq)
<1> DEFINE n == Len(seq)
           st == [k \in 1..n |-> [c \in C |-> NormalStep(c, seq[k])]]
           eq(g) == [s \in SUBSET (1..n) |->
                       IF s = {} THEN b
                       ELSE NormalStep(g[s \ {Max(s)}], seq[Max(s)])]
           iter == CHOOSE g : g = eq(g)
<1>1. n \in Nat /\ DOMAIN seq = 1..n
  OBVIOUS
<1>2. st \in [1..n -> [C -> C]]
  OBVIOUS
<1> HIDE DEF n
<1>3. PICK g : IsIter(g, n, C, b, st)
  BY <1>1, <1>2, IterExists
<1>4. \A s \in SUBSET (1..n) :
          s # {} => Max(s) \in 1..n /\ s \ {Max(s)} \in SUBSET (1..n)
  BY <1>1, MaxIsUpper
<1>5. g = eq(g)
  <2>1. g \in [SUBSET (1..n) -> C] /\ g[{}] = b
    BY <1>3 DEF IsIter
  <2>2. ASSUME NEW s \in SUBSET (1..n), s # {}
        PROVE  g[s] = NormalStep(g[s \ {Max(s)}], seq[Max(s)])
    BY <1>3, <1>4, <2>2 DEF IsIter
  <2> QED  BY <2>1, <2>2
<1>6. iter = eq(iter)
  <2> HIDE DEF eq
  <2> QED  BY <1>5
<1>7. FoldLeft(NormalStep, b, seq) = iter[1..n]
  BY <1>1, Zenon DEF FoldLeft, MapThenFoldSet
<1> HIDE DEF iter
<1>8. iter[{}] = b
  BY <1>6
<1>9. ASSUME NEW s \in SUBSET (1..n), s # {}, iter[s \ {Max(s)}] \in C
      PROVE  iter[s] = st[Max(s)][iter[s \ {Max(s)}]]
  BY <1>4, <1>6, <1>9
<1>10. Unfolds(iter, n, C, b, st)
  BY <1>8, <1>9 DEF Unfolds
<1>11. PICK f : IsLoop(f, n, C, b, st) /\ f[n] = iter[1..n]
  <2> HIDE DEF st
  <2> QED  BY <1>1, <1>2, <1>10, IterLoop
<1>12. ASSUME NEW k \in 1..n PROVE f[k] = NormalStep(f[k - 1], seq[k])
  <2>1. k - 1 \in 0..n
    BY <1>1
  <2>2. f[k - 1] \in C /\ f[k] = st[k][f[k - 1]]
    BY <1>11, <2>1 DEF IsLoop
  <2> QED  BY <2>2
<1>13. f \in [0..n -> C] /\ f[0] = b /\ f[n] = FoldLeft(NormalStep, b, seq)
  BY <1>7, <1>11 DEF IsLoop
<1> QED  BY <1>12, <1>13 DEF n, NormalizeRun

(* It leaves a path, which is no longer than it was but for the slash of   *)
(* an empty one.                                                           *)
LEMMA NormalizeType ==
    ASSUME NEW path \in Paths
    PROVE  /\ normalize_path(path) \in Paths
           /\ normalize_path(path) # <<>>
           /\ Fits(path) => Fits(normalize_path(path))
<1> DEFINE n == Len(path)
           kept == FoldLeft(NormalStep, <<>>, path)
<1>1. ASSUME NEW c \in Paths, NEW k \in 1..n
      PROVE  NormalStep(c, path[k]) \in Paths
  <2>1. path[k] \in Seq(STRING)
    BY DEF Paths
  <2>2. Append(c, path[k]) \in Paths /\ (c # <<>> => Front(c) \in Paths)
    BY <2>1 DEF Paths, Front
  <2> QED  BY <2>2 DEF NormalStep
<1>2. PICK f : NormalizeRun(f, Paths, <<>>, path) /\ f[n] = kept
  <2>1. <<>> \in Paths /\ path \in Seq(Seq(STRING))
    BY DEF Paths
  <2> HIDE DEF Paths
  <2> QED  BY <1>1, <2>1, NormalizeLoop
<1>3. /\ f \in [0..n -> Paths] /\ f[0] = <<>>
      /\ \A k \in 1..n : f[k] = NormalStep(f[k - 1], path[k])
  BY <1>2 DEF NormalizeRun
<1> DEFINE Z == {k \in 0..n : Len(f[k]) <= k}
<1>4. 0 \in Z
  BY <1>3
<1>5. ASSUME NEW k \in 1..n, k - 1 \in Z PROVE k \in Z
  <2>1. f[k - 1] \in Paths /\ Len(f[k - 1]) <= k - 1
    BY <1>3, <1>5
  <2>2. Len(NormalStep(f[k - 1], path[k])) <= k
    BY <2>1 DEF NormalStep, Paths, Front
  <2> QED  BY <1>3, <2>2
<1>6. n \in Nat /\ n \in 0..n
  BY DEF Paths
<1>7. \A k \in 0..n : k \in Z
  <2> HIDE DEF Z, n
  <2> QED  BY <1>4, <1>5, <1>6, LoopInduction
<1>8. kept \in Paths /\ Len(kept) <= n
  BY <1>2, <1>3, <1>6, <1>7
<1>9. normalize_path(path) = IF kept = <<>> THEN Root ELSE kept
  BY Zenon DEF normalize_path, NormalStep, FoldLeft, MapThenFoldSet
<1>10. Root \in Paths /\ Len(Root) = 1 /\ Root # <<>>
  BY DEF Root, Empty, Paths
<1> HIDE DEF kept
<1>11. CASE kept = <<>>
  <2>1. normalize_path(path) = Root
    BY <1>9, <1>11
  <2>2. Fits(Root)
    BY <1>10, MaxSegmentsAssumption DEF MaxSegmentsAssumption, Fits
  <2> QED  BY <1>10, <2>1, <2>2
<1>12. CASE kept # <<>>
  <2>1. Len(kept) \in Nat
    BY <1>8 DEF Paths
  <2> QED
    BY <1>6, <1>8, <1>9, <1>12, <2>1, MaxSegmentsAssumption
    DEF MaxSegmentsAssumption, Fits
<1> QED  BY <1>11, <1>12

(* What fits into path[512] is stored normalized.                          *)
LEMMA WithPathType ==
    ASSUME NEW P, NEW u \in [host : STRING, port : Ports, path : P],
           NEW path \in Paths, WithPath(u, path) # NotAUrl
    PROVE  WithPath(u, path) \in Urls
<1>1. /\ Fits(path)
      /\ WithPath(u, path) = [u EXCEPT !.path = normalize_path(path)]
  BY Zenon DEF WithPath
<1>2. normalize_path(path) \in PagePaths
  BY <1>1, NormalizeType DEF PagePaths
<1> QED  BY <1>1, <1>2, UrlExcept, Zenon DEF Urls

(* nos_url_parse returns a URL or -1,                                      *)
LEMMA ParseType ==
    ASSUME NEW text \in Texts, nos_url_parse(text) # NotAUrl
    PROVE  nos_url_parse(text) \in Urls
<1> DEFINE port == IF text.port = NoPort THEN NOS_DEFAULT_PORT ELSE text.port
           path == IF text.path = <<>> THEN Root ELSE text.path
           u == [host |-> text.host, port |-> port, path |-> Root]
<1>1. PortOk(text) /\ nos_url_parse(text) = WithPath(u, path)
  BY Zenon DEF nos_url_parse
<1>2. port \in Ports
  <2>1. text.port = NoPort \/ text.port \in 1..MaxPort
    BY <1>1 DEF PortOk
  <2>2. text.port \in 1..MaxPort => text.port \in Ports
    BY DEF Ports
  <2> QED  BY <2>1, <2>2, FixedPorts
<1>3. Root \in Paths /\ path \in Paths /\ text.host \in STRING
  <2>1. Root \in Paths
    BY DEF Root, Empty, Paths
  <2> QED  BY <2>1, TextParts
<1>4. u \in [host : STRING, port : Ports, path : Paths]
  BY <1>2, <1>3
<1> HIDE DEF u, path
<1> QED  BY <1>1, <1>3, <1>4, WithPathType

(* The query runs into the last segment.                                   *)
LEMMA GlueType ==
    ASSUME NEW path \in Paths, NEW more \in Paths, path # <<>>, more # <<>>
    PROVE  Glue(path, more) \in Paths /\ Glue(path, more) # <<>>
<1>1. Last(path) \in Seq(STRING) /\ Head(more) \in Seq(STRING)
  BY DEF Paths, Last
<1>2. Last(path) \o Head(more) \in Seq(STRING)
  BY <1>1
<1>3. Front(path) \in Paths /\ Tail(more) \in Paths
  BY DEF Front, Paths
<1> HIDE DEF Paths
<1>4. <<Last(path) \o Head(more)>> \in Seq(Seq(STRING))
  BY <1>2
<1> QED  BY <1>3, <1>4 DEF Glue, Paths

(* and nos_url_resolve too, whatever the link.                             *)
LEMMA ResolveType ==
    ASSUME NEW base \in Urls, NEW link \in Links,
           nos_url_resolve(base, link) # NotAUrl
    PROVE  nos_url_resolve(base, link) \in Urls
<1>1. /\ base \in [host : STRING, port : Ports, path : PagePaths]
      /\ base.path \in PagePaths
  BY DEF Urls
<1>2. base.path \in Paths /\ base.path # <<>>
  BY <1>1 DEF PagePaths
<1>3. link.path \in Paths /\ (link.kind = "query" => link.path # <<>>)
  BY TextParts DEF Links
<1>4. CASE link.kind = "empty"
  BY <1>4, Zenon DEF nos_url_resolve
<1>5. CASE link.kind \in {"gemini", "GEMINI"}
  <2>1. nos_url_resolve(base, link) = nos_url_parse(link)
    BY <1>5 DEF nos_url_resolve
  <2> QED  BY <2>1, ParseType DEF Links
<1>6. CASE link.kind = "rooted"
  <2>1. nos_url_resolve(base, link) = WithPath(base, link.path)
    BY <1>6 DEF nos_url_resolve
  <2> QED  BY <1>1, <1>3, <2>1, WithPathType
<1>7. CASE link.kind = "relative"
  <2>1. nos_url_resolve(base, link)
            = WithPath(base, Front(base.path) \o link.path)
    BY <1>7 DEF nos_url_resolve
  <2>2. Front(base.path) \o link.path \in Paths
    BY <1>2, <1>3 DEF Front, Paths
  <2> QED  BY <1>1, <2>1, <2>2, WithPathType
<1>8. CASE link.kind = "query"
  <2> DEFINE glued == Glue(base.path, link.path)
  <2>1. glued \in Paths /\ glued # <<>>
    BY <1>2, <1>3, <1>8, GlueType
  <2>2. /\ Fits(glued)
        /\ nos_url_resolve(base, link) = [base EXCEPT !.path = glued]
    BY <1>8 DEF nos_url_resolve
  <2> HIDE DEF glued
  <2>3. glued \in PagePaths
    BY <2>1, <2>2 DEF PagePaths
  <2> QED  BY <1>1, <2>2, <2>3, UrlExcept DEF Urls
<1>9. CASE link.kind = "foreign"
  BY <1>9 DEF nos_url_resolve
<1>10. link.kind \in Kinds /\ link.kind # "bare"
  BY TextParts DEF Links
<1> QED  BY <1>4, <1>5, <1>6, <1>7, <1>8, <1>9, <1>10
        DEF Kinds

-----------------------------------------------------------------------------
(* Types.  What is followed is a link, and what is visited came out of     *)
(* nos_url_parse or nos_url_resolve.                                       *)
BrowserInv ==
    /\ pc \in {"show", "command", "label", "ended"}
    /\ current \in Urls
    /\ history \in Seq(Urls) /\ Len(history) <= NOS_NAV_MAX
    /\ links \in Seq(Links)
    /\ links \in Garbage \/ Len(links) <= NOS_MAX_LINKS
    /\ bookmarks \in Seq(Links) /\ saved \in Seq(Urls)
    /\ Len(bookmarks) = Len(saved)
    /\ left \in Seq(Urls) /\ Len(left) <= MaxVisits
    /\ dropped \in BOOLEAN

(* What nos_url_parse returns is what the type invariant asks of a page.   *)
LEMMA UrlsAreOK ==
    ASSUME NEW u \in Urls
    PROVE  UrlOK(u)
<1>1. /\ DOMAIN u = {"host", "port", "path"}
      /\ u.port \in Ports /\ u.path \in PagePaths
  BY DEF Urls
<1> QED  BY <1>1 DEF UrlOK, Ports, PagePaths

(* The inductive invariant says at least what the type invariant says.     *)
LEMMA InvGivesTypes == BrowserInv => TypeOK
<1> SUFFICES ASSUME BrowserInv PROVE TypeOK
  OBVIOUS
<1>1. \A i \in DOMAIN history : history[i] \in Urls
  BY DEF BrowserInv
<1>2. UrlOK(current) /\ \A i \in DOMAIN history : UrlOK(history[i])
  BY <1>1, UrlsAreOK DEF BrowserInv
<1>3. Len(left) \in 0..MaxVisits
  BY BrowserAssumption DEF BrowserInv, BrowserAssumption
<1> QED  BY <1>2, <1>3 DEF BrowserInv, TypeOK

(* The two local pages.                                                    *)
LEMMA OneSegment ==
    ASSUME NEW S, NEW name \in S
    PROVE  /\ << <<name>> >> \in Seq(Seq(S))
           /\ << <<name>> >> # <<>> /\ Len(<< <<name>> >>) = 1
OBVIOUS

LEMMA LocalType == HOMEPAGE \in Urls /\ BOOKMARKS \in Urls
<1>1. ASSUME NEW name, name \in STRING PROVE Local(name) \in Urls
  <2> DEFINE path == << <<name>> >>
  <2>1. path \in Paths /\ path # <<>> /\ Len(path) = 1
    BY <1>1, OneSegment DEF Paths
  <2> HIDE DEF path
  <2>2. path \in PagePaths
    BY <2>1, MaxSegmentsAssumption DEF MaxSegmentsAssumption, Fits, PagePaths
  <2>3. "local" \in STRING
    BY NamesAssumption DEF NamesAssumption
  <2>4. [host |-> "local", port |-> 0, path |-> path]
            \in [host : STRING, port : Ports, path : PagePaths]
    BY <2>2, <2>3, FixedPorts
  <2> QED  BY <2>4 DEF Local, Urls, path
<1>2. "homepage" \in STRING /\ "bookmarks" \in STRING
  BY NamesAssumption DEF NamesAssumption
<1> QED  BY <1>1, <1>2, Zenon DEF HOMEPAGE, BOOKMARKS

(* What the numbers choose from is part of a page's links.                 *)
LEMMA NumberedType ==
    ASSUME NEW all \in Seq(Links)
    PROVE  Numbered(all) \in Seq(Links) /\ Len(Numbered(all)) <= NOS_MAX_LINKS
<1>1. NOS_MAX_LINKS \in Nat
  BY BrowserAssumption DEF BrowserAssumption
<1> HIDE DEF Links
<1> QED  BY <1>1 DEF Numbered

(* main starts with the HOME of NOSGEM.CFG, parsed.                        *)
LEMMA InitTypes == Init => BrowserInv
<1> SUFFICES ASSUME Init PROVE BrowserInv
  OBVIOUS
<1>1. PICK file \in ConfigFiles :
          /\ current = nos_url_parse(nos_config_load(file).HOME)
          /\ current # NotAUrl
  BY DEF Init, HomePages
<1>2. "HOME" \in DOMAIN DefaultConfig
  BY ConfigAssumption DEF ConfigAssumption
<1>3. nos_config_load(file).HOME \in Texts
  <2>1. CASE nos_config_load(file).HOME = DefaultConfig.HOME
    BY <2>1, WorldAssumption DEF WorldAssumption
  <2>2. ASSUME file # NoConfig, NEW i \in DOMAIN file,
               file[i].name = "HOME",
               nos_config_load(file).HOME = Converted(file[i])
        PROVE  nos_config_load(file).HOME \in Texts
    <3>1. Converted(file[i]) = file[i].value
      BY <2>2 DEF Converted
    <3> QED  BY <2>2, <3>1, WorldAssumption DEF WorldAssumption
  <2>3. LET cfg == nos_config_load(file)
        IN  \/ cfg["HOME"] = DefaultConfig["HOME"]
            \/ /\ file # NoConfig
               /\ \E i \in DOMAIN file :
                      /\ file[i].name = "HOME"
                      /\ cfg["HOME"] = Converted(file[i])
    BY <1>2, ConfigSettings
  <2> QED  BY <2>1, <2>2, <2>3
<1>4. current \in Urls
  BY <1>1, <1>3, ParseType
<1>5. links \in Garbage /\ links \in Seq(Links)
  BY WorldAssumption DEF Init, WorldAssumption
<1>6. {NOS_NAV_MAX, MaxVisits} \subseteq Nat
  BY BrowserAssumption DEF BrowserAssumption
<1>7. /\ <<>> \in Seq(Urls) /\ <<>> \in Seq(Links)
      /\ Len(<<>>) <= NOS_NAV_MAX /\ Len(<<>>) <= MaxVisits
  BY <1>6
<1>8. /\ pc = "show" /\ history = <<>> /\ bookmarks = <<>> /\ saved = <<>>
      /\ left = <<>> /\ dropped = FALSE
  BY DEF Init
<1> QED  BY <1>4, <1>5, <1>7, <1>8, Zenon DEF BrowserInv

(* Leaving the page on the screen for a URL.                               *)
LEMMA VisitTypes ==
    ASSUME BrowserInv, NEW next \in Urls, Visit(next)
    PROVE  BrowserInv'
<1>1. /\ pc' = "show" /\ current' = next
      /\ UNCHANGED <<links, bookmarks, saved>>
      /\ left' = Append(left, current)
      /\ Len(left) < MaxVisits
  BY DEF Visit
<1>2. dropped' \in BOOLEAN
  BY Zenon DEF Visit
<1>3. NOS_NAV_MAX \in Nat /\ MaxVisits \in Nat
  BY BrowserAssumption DEF BrowserAssumption
<1>4. left' \in Seq(Urls) /\ Len(left') <= MaxVisits
  BY <1>1, <1>3 DEF BrowserInv
<1>5. history' \in Seq(Urls) /\ Len(history') <= NOS_NAV_MAX
  BY <1>3 DEF Visit, nos_nav_push, BrowserInv
<1> QED  BY <1>1, <1>2, <1>4, <1>5 DEF BrowserInv

(* Showing a page.                                                         *)
LEMMA ShowTypes ==
    ASSUME BrowserInv, Rendered, NEW all \in Seq(Links),
           links' = links \/ links' = Numbered(all)
    PROVE  BrowserInv'
<1>1. /\ pc' = "command"
      /\ UNCHANGED <<current, history, bookmarks, saved, left, dropped>>
  BY DEF Rendered
<1>2. /\ links' \in Seq(Links)
      /\ links' \in Garbage \/ Len(links') <= NOS_MAX_LINKS
  BY NumberedType DEF BrowserInv
<1> QED  BY <1>1, <1>2 DEF BrowserInv

(* A bookmark is a link like any other.                                    *)
LEMMA MadeType ==
    ASSUME NEW u \in Urls
    PROVE  make_current_url(u) \in Links
<1>1. u.host \in STRING /\ u.port \in Ports /\ u.path \in PagePaths
  BY DEF Urls
<1>2. u.path \in Seq(Seq(STRING)) /\ u.port \in Nat
  BY <1>1 DEF Ports, PagePaths, Paths
<1> DEFINE port == IF u.port = NOS_DEFAULT_PORT THEN NoPort ELSE u.port
           made == [kind |-> "gemini", host |-> u.host, path |-> u.path,
                    port |-> port]
<1>3. port \in Nat \cup {NoPort}
  BY <1>2
<1>4. "gemini" \in Kinds /\ "gemini" # "query" /\ "gemini" # "bare"
  BY DEF Kinds
<1> HIDE DEF port
<1>5. /\ made \in [kind : Kinds, host : STRING, port : Nat \cup {NoPort},
                   path : Seq(Seq(STRING))]
      /\ made.kind = "gemini"
  BY <1>1, <1>2, <1>3, <1>4
<1>6. make_current_url(u) = made
  BY Zenon DEF make_current_url, port
<1> HIDE DEF made
<1> QED  BY <1>4, <1>5, <1>6, Zenon DEF Links, Texts

(* Every command of the loop, and what it shows.                           *)
LEMMA StepTypes ==
    ASSUME BrowserInv, [Next]_vars
    PROVE  BrowserInv'
<1>1. CASE ShowLocal
  <2>1. HomeLinks \in Seq(Links) /\ bookmarks \in Seq(Links)
    BY WorldAssumption DEF WorldAssumption, BrowserInv
  <2> DEFINE all == IF IsPage(current, HOMEPAGE) THEN HomeLinks ELSE bookmarks
  <2>2. all \in Seq(Links)
    BY <2>1
  <2>3. Rendered /\ links' = Numbered(all)
    BY <1>1 DEF ShowLocal, Show
  <2> HIDE DEF all
  <2> QED  BY <2>2, <2>3, ShowTypes
<1>2. CASE LocalFailed
  <2>1. <<>> \in Seq(Links)
    OBVIOUS
  <2> QED  BY <1>2, <2>1, ShowTypes DEF LocalFailed
<1>3. CASE ShowFetched
  <2> DEFINE u == Landing(current)
  <2>1. /\ Rendered /\ links' = Numbered(Answer(u).links)
        /\ Answer(u).kind = "gemtext"
    BY <1>3 DEF ShowFetched, Show, IsGemtext
  <2> HIDE DEF u
  <2>2. u \in DOMAIN Served /\ Answer(u) = Served[u]
    BY <2>1 DEF Answer
  <2>3. Answer(u).links \in Seq(Links)
    BY <2>1, <2>2, WorldAssumption DEF WorldAssumption
  <2> QED  BY <2>1, <2>3, ShowTypes
<1>4. CASE NotFetched
  <2>1. Numbered(<<>>) = <<>> /\ <<>> \in Seq(Links)
    BY BrowserAssumption DEF BrowserAssumption, Numbered
  <2> QED  BY <1>4, <2>1, ShowTypes DEF NotFetched
<1>5. CASE Home \/ ShowBookmarks
  BY <1>5, LocalType, VisitTypes DEF Home, ShowBookmarks
<1>6. CASE Back
  <2>1. /\ pc' = "show" /\ history # <<>>
        /\ current' = Last(history)
        /\ history' = Front(history)
        /\ left' = Front(left)
        /\ UNCHANGED <<links, bookmarks, saved, dropped>>
    BY <1>6 DEF Back
  <2>2. /\ current' \in Urls /\ history' \in Seq(Urls)
        /\ Len(history') <= Len(history)
    BY <2>1 DEF BrowserInv, Front, Last
  <2>3. left' \in Seq(Urls) /\ Len(left') <= Len(left)
    BY <2>1 DEF BrowserInv, Front
  <2>4. NOS_NAV_MAX \in Nat /\ MaxVisits \in Nat
    BY BrowserAssumption DEF BrowserAssumption
  <2>5. Len(history') <= NOS_NAV_MAX /\ Len(left') <= MaxVisits
    <3>1. {Len(history), Len(left), Len(history'), Len(left')} \subseteq Nat
      BY <2>2, <2>3 DEF BrowserInv
    <3> QED  BY <2>2, <2>3, <2>4, <3>1 DEF BrowserInv
  <2> QED  BY <2>1, <2>2, <2>3, <2>5 DEF BrowserInv
<1>7. CASE Again \/ AskLabel \/ Quit \/ BookmarkFailed
  BY <1>7 DEF Again, AskLabel, Quit, BookmarkFailed, BrowserInv
<1>8. ASSUME NEW n \in Numbers, FollowLink(n) PROVE BrowserInv'
  <2>1. /\ Chosen(n) \in 1..Len(links)
        /\ nos_url_resolve(current, links[Chosen(n)]) # NotAUrl
        /\ Visit(nos_url_resolve(current, links[Chosen(n)]))
    BY <1>8 DEF FollowLink
  <2>2. links[Chosen(n)] \in Links /\ current \in Urls
    BY <2>1 DEF BrowserInv
  <2>3. nos_url_resolve(current, links[Chosen(n)]) \in Urls
    BY <2>1, <2>2, ResolveType
  <2> QED  BY <2>1, <2>3, VisitTypes
<1>9. ASSUME NEW text \in Typed, TypeUrl(text) PROVE BrowserInv'
  <2>1. text \in Texts
    BY WorldAssumption DEF WorldAssumption
  <2>2. parse_user_url(text) # NotAUrl /\ Visit(parse_user_url(text))
    BY <1>9 DEF TypeUrl
  <2>3. parse_user_url(text) = nos_url_parse(text)
    BY <2>2 DEF parse_user_url
  <2>4. parse_user_url(text) \in Urls
    BY <2>1, <2>2, <2>3, ParseType
  <2> QED  BY <2>2, <2>4, VisitTypes
<1>10. CASE AddBookmark
  <2> DEFINE made == make_current_url(current)
  <2>1. /\ pc' = "show" /\ bookmarks' = Append(bookmarks, made)
        /\ saved' = Append(saved, current)
        /\ UNCHANGED <<current, history, links, left, dropped>>
    BY <1>10 DEF AddBookmark
  <2>2. current \in Urls
    BY DEF BrowserInv
  <2>3. made \in Links
    BY <2>2, MadeType
  <2> HIDE DEF made
  <2>4. bookmarks' \in Seq(Links) /\ saved' \in Seq(Urls)
        /\ Len(bookmarks') = Len(saved')
    BY <2>1, <2>2, <2>3 DEF BrowserInv
  <2> QED  BY <2>1, <2>4 DEF BrowserInv
<1>11. CASE UNCHANGED vars
  BY <1>11 DEF vars, BrowserInv
<1> QED
  BY <1>1, <1>2, <1>3, <1>4, <1>5, <1>6, <1>7, <1>8, <1>9, <1>10, <1>11
  DEF Next, Turn, Command

(* Whatever is typed, served or configured, the stack, the links and the   *)
(* bookmarks keep their bounds, and everything that is visited or can be   *)
(* returned to is a URL (nav.c:16, render.c:91, main.c:284-313).           *)
THEOREM BrowserTypeCorrect == Spec => []TypeOK
<1>1. Init => BrowserInv
  BY InitTypes
<1>2. BrowserInv /\ [Next]_vars => BrowserInv'
  BY StepTypes
<1>3. BrowserInv => TypeOK
  BY InvGivesTypes
<1> QED  BY <1>1, <1>2, <1>3, PTL DEF Spec
=============================================================================
