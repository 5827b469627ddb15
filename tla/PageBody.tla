------------------------------ MODULE PageBody ------------------------------
(***************************************************************************)
(* What becomes of the body of a page: the chunks that wolfSSL_read or     *)
(* fread return, one callback per chunk, and what the end of the body      *)
(* flushes.                                                                *)
(*                                                                         *)
(* Four sinks take a body: body_cb of main.c renders gemtext ("gemtext")   *)
(* or prints anything else ("raw"), render_homepage renders a local file   *)
(* ("home"), and nos_gemini_request copies into a buffer ("buffer").  The  *)
(* cuts between the chunks are the network's and mean nothing.             *)
(***************************************************************************)
EXTENDS Gemtext, Config, FiniteSets

CONSTANTS Bodies,         \* the bodies to be read, sequences of characters
          MaxChunk,       \* sizeof(chunk) of gemini.c, sizeof(buf) of main.c
          LineSize,       \* sizeof(st->line), 1024
          WordSize,       \* sizeof(word) and sizeof(label), 256
          NOS_WRAP_COLS,  \* 80
          NOS_MAX_LINKS,  \* 256
          DefaultLines,   \* the page of a fetch when PAGE_LINES is 0, 24
          BufferSizes     \* body_max of nos_gemini_request

ASSUME BodyAssumption ==
    /\ {MaxChunk, LineSize, WordSize, NOS_WRAP_COLS, NOS_MAX_LINKS,
         DefaultLines} \subseteq Nat \ {0}
    /\ BufferSizes \subseteq 1..(Word - 1)
    /\ \A b \in Bodies : b \in Seq(Range(b))

VARIABLES body,    \* the body, whole
          how,     \* where it goes: the sink, page_lines, body_max
          pos,     \* characters read so far
          status,  \* "reading", "done" or "aborted"
          st       \* nos_render_stream_t, its context and the screen

vars == <<body, how, pos, status, st>>

Sinks == {"gemtext", "raw", "home", "buffer"}

Row(of, num, text) == [of |-> of, num |-> num, text |-> text]
More == Row("more", 0, <<>>)     \* --More--, and the key that is waited for

Fresh(page_lines) ==
    [line |-> <<>>, in_pre |-> FALSE, links |-> <<>>, lines_printed |-> 0,
     page_lines |-> page_lines, out |-> <<>>, total |-> 0, ok |-> TRUE]

(* fetch_and_render has a page where the setting has none; render_homepage *)
(* then never stops.                                                       *)
Init ==
    /\ body \in Bodies
    /\ \E sink \in Sinks, file \in ConfigFiles, max \in BufferSizes :
           LET lines == nos_config_load(file).PAGE_LINES
           IN  how = [sink |-> sink, max |-> max,
                      page_lines |-> IF lines = 0 /\ sink # "home"
                                     THEN DefaultLines ELSE lines]
    /\ pos = 0
    /\ status = "reading"
    /\ st = Fresh(how.page_lines)

-----------------------------------------------------------------------------
(* The renderer.                                                           *)
Put(s, row) == [s EXCEPT !.out = Append(@, row)]

(* Characters that follow what was written last.                           *)
Write(s, of, data) ==
    IF s.out # <<>> /\ Last(s.out).of = of
    THEN [s EXCEPT !.out[Len(s.out)].text = @ \o data]
    ELSE Put(s, Row(of, 0, data))

render_line_break(s) ==
    IF s.page_lines > 0 /\ s.lines_printed + 1 >= s.page_lines
    THEN [Put(s, More) EXCEPT !.lines_printed = 0]
    ELSE [s EXCEPT !.lines_printed = @ + 1]

Digits(n) == IF n < 10 THEN 1 ELSE IF n < 100 THEN 2 ELSE 3

PrefixWidth(of, num) ==
    CASE of \in {"h1", "list", "quote"} -> 2
      [] of = "h2"   -> 3
      [] of = "h3"   -> 4
      [] of = "link" -> 3 + Digits(num)
      [] OTHER       -> 0

(* The words of a text, the last one still growing.                        *)
Closed(w) == IF w.word = <<>> THEN w.words ELSE Append(w.words, w.word)

(* Mutation: what does not fit into word[] is lost.                        *)
TruncateWord(w, ch) ==
    IF ch \in Blank THEN [words |-> Closed(w), word |-> <<>>]
    ELSE IF Len(w.word) = WordSize - 1 THEN w
    ELSE [w EXCEPT !.word = Append(@, ch)]

(* word[] cuts a long word into several.                                   *)
AddToWord(w, ch) ==
    IF ch \in Blank THEN [words |-> Closed(w), word |-> <<>>]
    ELSE IF Len(w.word) = WordSize - 1
    THEN [words |-> Closed(w), word |-> <<ch>>]
    ELSE [w EXCEPT !.word = Append(@, ch)]

Words(text) ==
    Closed(FoldLeft(AddToWord, [words |-> <<>>, word |-> <<>>], text))

(* Mutation: the blank before the word is not counted.                     *)
OverflowsWithoutGap(col, word) == col + Len(word) > NOS_WRAP_COLS

Overflows(col, word) ==
    col + (IF col > 0 THEN 1 ELSE 0) + Len(word) > NOS_WRAP_COLS

(* A prefix ends with a blank and still gets one before the first word.    *)
Place(of, num, w, word) ==
    IF Overflows(w.col, word)
    THEN [rows |-> Append(w.rows, Row(of, num, word)),
          col  |-> PrefixWidth(of, num) + Len(word)]
    ELSE LET more == IF w.col > 0 THEN <<"SP">> \o word ELSE word
         IN  [rows |-> [w.rows EXCEPT ![Len(w.rows)].text = @ \o more],
              col  |-> w.col + Len(more)]

Wrapped(of, num, text) ==
    FoldLeft(LAMBDA w, word : Place(of, num, w, word),
             [rows |-> <<Row(of, num, <<>>)>>, col |-> PrefixWidth(of, num)],
             Words(text)).rows

(* The rows of one line are one line to the pager.                         *)
print_wrapped(s, of, num, text) ==
    render_line_break([s EXCEPT !.out = @ \o Wrapped(of, num, text)])

add_link(s, url) ==
    IF Len(s.links) >= NOS_MAX_LINKS THEN s
    ELSE [s EXCEPT !.links = Append(@, url)]

Label(p) ==
    LET full == IF p.text = <<>> THEN p.url ELSE p.text
    IN  SubSeq(full, 1, IF Len(full) < WordSize THEN Len(full)
                        ELSE WordSize - 1)

render_parsed(s, p) ==
    CASE p.type \in {"h1", "h2", "h3"} ->
             print_wrapped(render_line_break(Put(s, Row("text", 0, <<>>))),
                           p.type, 0, p.text)
      [] p.type = "link" ->
             LET added == add_link(s, p.url)
             IN  print_wrapped(added, "link", Len(added.links), Label(p))
      [] p.type = "preformat" ->
             render_line_break(Put(s, Row("preformat", 0, p.text)))
      [] OTHER -> print_wrapped(s, p.type, 0, p.text)

(* st->line is a C string: what follows a NUL is not seen.                 *)
EndLine(s) ==
    LET p == nos_gemtext_parse_line(UpTo(s.line, {"NUL"}), s.in_pre)
    IN  IF p.ok
        THEN [render_parsed(s, p) EXCEPT !.line = <<>>, !.in_pre = p.in_pre]
        ELSE [s EXCEPT !.ok = FALSE]

(* Mutation: a line may fill the array, and its NUL has no place.          *)
FeedOneMore(s, ch) ==
    IF ~s.ok \/ ch = "CR" THEN s
    ELSE IF ch = "LF" THEN EndLine(s)
    ELSE IF Len(s.line) >= LineSize THEN [s EXCEPT !.ok = FALSE]
    ELSE [s EXCEPT !.line = Append(@, ch)]

FeedChar(s, ch) ==
    IF ~s.ok \/ ch = "CR" THEN s
    ELSE IF ch = "LF" THEN EndLine(s)
    ELSE IF Len(s.line) + 1 >= LineSize THEN [s EXCEPT !.ok = FALSE]
    ELSE [s EXCEPT !.line = Append(@, ch)]

(* Mutation: every chunk starts outside of preformatted text.              *)
FeedForgetsBlock(s, data) ==
    FoldLeft(FeedChar, [s EXCEPT !.in_pre = FALSE], data)

(* Mutation: the line in progress ends with its chunk.                     *)
FeedEndsLine(s, data) ==
    LET fed == FoldLeft(FeedChar, s, data)
    IN  IF fed.ok /\ fed.line # <<>> THEN EndLine(fed) ELSE fed

nos_render_stream_feed(s, data) == FoldLeft(FeedChar, s, data)

(* Also after a line that was refused, which is then tried again.          *)
nos_render_stream_flush(s) ==
    IF s.line = <<>> THEN s ELSE EndLine(s)

-----------------------------------------------------------------------------
(* The sinks: one step per chunk and one for the end.                      *)
Read(n) ==
    /\ status = "reading"
    /\ n <= Len(body) - pos
    /\ pos' = pos + n
    /\ UNCHANGED <<body, how>>

Data(n) == SubSeq(body, pos + 1, pos + n)

(* body_cb with gemtext: -1 ends the request, and with it the page.        *)
GemtextChunk(n) ==
    /\ how.sink = "gemtext"
    /\ Read(n)
    /\ st' = nos_render_stream_feed(st, Data(n))
    /\ status' = IF st'.ok THEN "reading" ELSE "aborted"

RawChar(s, ch) == IF ch = "LF" THEN render_line_break(s) ELSE s

(* Mutation: the pauses of a chunk start a page of their own.              *)
RawChunkFromZero(n) ==
    /\ how.sink = "raw"
    /\ Read(n)
    /\ st' = FoldLeft(RawChar,
                      [Write(st, "raw", Data(n)) EXCEPT !.lines_printed = 0],
                      Data(n))
    /\ UNCHANGED status

(* body_cb with any other type: the whole chunk is written, then its lines *)
(* are counted, so that a pause comes late.                                *)
RawChunk(n) ==
    /\ how.sink = "raw"
    /\ Read(n)
    /\ st' = FoldLeft(RawChar, Write(st, "raw", Data(n)), Data(n))
    /\ UNCHANGED status

(* render_homepage: a line that is refused ends the loop, not the page.    *)
HomeChunk(n) ==
    /\ how.sink = "home"
    /\ Read(n)
    /\ LET fed == nos_render_stream_feed(st, Data(n))
       IN  /\ st' = IF fed.ok THEN fed ELSE nos_render_stream_flush(fed)
           /\ status' = IF fed.ok THEN "reading" ELSE "done"

(* Mutation: the chunk alone is compared with the size.                    *)
TotalOfChunk(n) == n

(* The sum is an unsigned int.                                             *)
Total(n) == (st.total + n) % Word

(* buffer_writer_cb.                                                       *)
BufferChunk(n) ==
    /\ how.sink = "buffer"
    /\ Read(n)
    /\ IF Total(n) > how.max
       THEN status' = "aborted" /\ UNCHANGED st
       ELSE /\ st' = [Write(st, "kept", Data(n)) EXCEPT
                          !.total = (@ + n) % Word]
            /\ UNCHANGED status

(* The end of the body.  A fetch that delivered nothing never started the  *)
(* renderer, and a last line that is refused leaves the page as it is.     *)
Finish ==
    /\ status = "reading" /\ pos = Len(body)
    /\ status' = "done"
    /\ st' = IF how.sink \in {"gemtext", "home"}
             THEN nos_render_stream_flush(st) ELSE st
    /\ UNCHANGED <<body, how, pos>>

Chunk(n) == GemtextChunk(n) \/ RawChunk(n) \/ HomeChunk(n) \/ BufferChunk(n)

Next == Finish \/ \E n \in 1..MaxChunk : Chunk(n)

Spec == Init /\ [][Next]_vars

(* The links that main's numbers choose from: those of a fetched page are  *)
(* handed over at the end, those of a local file are main's own array.     *)
links == IF how.sink = "home" \/ status = "done" THEN st.links ELSE <<>>

-----------------------------------------------------------------------------
(* Properties.  They say what a body means without following the renderer: *)
(* its lines are what its LFs separate.                                    *)

Renders == how.sink \in {"gemtext", "home"}

Arrived == SubSeq(body, 1, pos)

Places(s, chars) == {i \in DOMAIN s : s[i] \in chars}

(* The lines of what arrived, the last one without its LF.                 *)
AddToLine(lines, ch) ==
    IF ch = "CR" THEN lines
    ELSE IF ch = "LF" THEN Append(lines, <<>>)
    ELSE Append(Front(lines), Append(Last(lines), ch))

Lines == FoldLeft(AddToLine, << <<>> >>, Arrived)

(* A line is seen up to a NUL.                                             *)
Seen(lines) == [k \in DOMAIN lines |-> UpTo(lines[k], {"NUL"})]

(* Those that are rendered: the last one not before the body has ended.    *)
Rendered ==
    Seen(IF status = "done" /\ Last(Lines) # <<>> /\ st.line = <<>>
         THEN Lines ELSE Front(Lines))

(* Line k is inside of a preformatted block, k = Len + 1 the next one too. *)
Inside(lines, k) ==
    Cardinality({j \in 1..(k - 1) : IsPrefix(Fence, lines[j])}) % 2 = 1

Meaning(lines, k) == nos_gemtext_parse_line(lines[k], Inside(lines, k))

OfType(lines, types) ==
    {k \in DOMAIN lines : Meaning(lines, k).type \in types}

(* The links of the lines, in their order, as many as there is room for.   *)
AreLinksOf(urls, lines) ==
    LET all == OfType(lines, {"link"})
        place(k) == Cardinality({j \in all : j <= k})
    IN  /\ Len(urls) = IF Cardinality(all) < NOS_MAX_LINKS
                       THEN Cardinality(all) ELSE NOS_MAX_LINKS
        /\ \A k \in all : place(k) <= NOS_MAX_LINKS =>
               urls[place(k)] = Meaning(lines, k).url

(* What is left of texts without their blanks.                             *)
AddDense(dense, ch) == IF ch \in Blank THEN dense ELSE Append(dense, ch)
Dense(text) == FoldLeft(AddDense, <<>>, text)
AddText(dense, text) == dense \o Dense(text)
AllDense(texts) == FoldLeft(AddText, <<>>, texts)

(* A link shows its label, and a fence nothing.                            *)
Visible(lines, k) ==
    LET m == Meaning(lines, k)
    IN  IF m.type = "link" THEN Label(m) ELSE m.text

(* The buffers keep their sizes (render.c:88-100 and 183-200).             *)
BodyTypeOK ==
    /\ pos \in 0..Len(body)
    /\ status \in {"reading", "done", "aborted"}
    /\ Len(st.line) < LineSize
    /\ Len(st.links) <= NOS_MAX_LINKS
    /\ st.total \in 0..(Word - 1)

(* Wherever the network cuts a body into chunks, the screen and the links  *)
(* are those of a body that arrives in one piece (render.c:183-218,        *)
(* main.c:76-120 and 143-150).                                             *)
CutsDoNotMatter ==
    Renders =>
        LET whole == FoldLeft(FeedChar, Fresh(how.page_lines), Arrived)
        IN  st = IF status = "done" THEN nos_render_stream_flush(whole)
                 ELSE whole

(* The links that numbers choose from are those of the lines outside of    *)
(* preformatted blocks, in their order, and the block and the line in      *)
(* progress are those of the text so far (render.c:183-218, main.c:76-120, *)
(* gemini.c:266-275).                                                      *)
PageMatchesBody ==
    Renders /\ st.ok =>
        /\ AreLinksOf(st.links, Rendered)
        /\ st.in_pre = Inside(Rendered, Len(Rendered) + 1)
        /\ st.line = IF status = "done" THEN <<>> ELSE Last(Lines)
        /\ AreLinksOf(links, IF how.sink = "gemtext" /\ status # "done"
                             THEN <<>> ELSE Rendered)

(* Wrapping loses no character of the text and repeats none, words longer  *)
(* than word[] included (render.c:47-84).                                  *)
ScreenHasAllWords ==
    Renders /\ st.ok =>
        AllDense([i \in DOMAIN st.out |-> st.out[i].text])
        = AllDense([k \in DOMAIN Rendered |-> Visible(Rendered, k)])

(* A row is wider than the screen only if it is preformatted or one word   *)
(* (render.c:66-81), whatever prefix is in front of it.                    *)
RowsFit ==
    Renders =>
        \A i \in DOMAIN st.out :
            LET row == st.out[i]
            IN  \/ row.of \in {"preformat", "more"}
                \/ PrefixWidth(row.of, row.num) + Len(row.text)
                       <= NOS_WRAP_COLS
                \/ Places(row.text, Blank) = {}

(* Screens: a heading is two lines, and --More-- comes after every         *)
(* page_lines lines, wherever the chunks end and whatever the lines hold   *)
(* (render.c:21-33, main.c:49-58).                                         *)
LinesPaged ==
    IF how.sink = "raw" THEN Cardinality(Places(Arrived, {"LF"}))
    ELSE Len(Rendered) + Cardinality(OfType(Rendered, {"h1", "h2", "h3"}))

PausesEveryPage ==
    how.sink # "buffer" /\ st.ok =>
        /\ Cardinality(Places(st.out, {More})) * how.page_lines
               + st.lines_printed = LinesPaged
        /\ how.page_lines > 0 => st.lines_printed < how.page_lines

(* A page is given up for a line that does not fit and for nothing else:   *)
(* what came before does not count (render.c:192-199, gemtext.c:57).       *)
StopsOnlyForLongLines ==
    Renders =>
        (st.ok <=> \A k \in DOMAIN Lines :
            /\ Len(Lines[k]) < LineSize
            /\ k < Len(Lines) \/ (status = "done" /\ Lines[k] # <<>>) =>
                   Meaning(Seen(Lines), k).ok)

(* Where total + len cannot wrap, nos_gemini_request keeps exactly what    *)
(* arrived and never more than the buffer holds, and refuses a body only   *)
(* when it does not fit (gemini.c:151-159).                                *)
BufferKeepsBody ==
    how.sink = "buffer" /\ how.max + MaxChunk < Word =>
        LET kept == FlattenSeq([i \in DOMAIN st.out |-> st.out[i].text])
        IN  /\ Len(kept) <= how.max
            /\ kept = Arrived \/ status = "aborted"
            /\ status = "aborted" => pos > how.max
=============================================================================
