--------------------------- MODULE PageBodyProofs ---------------------------
(***************************************************************************)
(* Theorems about the body of a page, for every body, every cut of it into *)
(* chunks, every configuration and every size of the buffers.              *)
(*                                                                         *)
(* First the types: every operator of the renderer maps a page to a page,  *)
(* where the set Pages already says that its rows fit.  A lemma for each   *)
(* loop of the code (words, rows, characters, lines) turns the fold that   *)
(* models it into a run, a function from the steps of the loop to its      *)
(* states, over which the proofs go by induction.                          *)
(***************************************************************************)
EXTENDS PageBody, FoldLemmas

Chars == (UNION {Range(b) : b \in Bodies}) \cup {"SP"}

RowKinds == {"more", "raw", "kept", "text", "h1", "h2", "h3", "link", "list",
             "quote", "preformat"}
Rows == [of : RowKinds, num : Nat, text : Seq(Chars)]

(* The state of the renderer, with rows from R and pages of lines lines.   *)
ShortTexts == {text \in Seq(Chars) : Len(text) < LineSize}
FewLinks == {urls \in Seq(Seq(Chars)) : Len(urls) <= NOS_MAX_LINKS}
Counts(lines) == {n \in Nat : lines > 0 => n < lines}
Totals == 0..(Word - 1)

Streams(R, lines) ==
    [line : ShortTexts, in_pre : BOOLEAN, links : FewLinks,
     lines_printed : Counts(lines), page_lines : {lines}, out : Seq(R),
     total : Totals, ok : BOOLEAN]

(* What one field is changed to, and what the others keep.                 *)
LEMMA RecordExcept ==
    ASSUME NEW T1, NEW T2, NEW T3, NEW T4, NEW T5, NEW T6, NEW T7, NEW T8,
           NEW s \in [line : T1, in_pre : T2, links : T3, lines_printed : T4,
                      page_lines : T5, out : T6, total : T7, ok : T8]
    PROVE  LET S == [line : T1, in_pre : T2, links : T3, lines_printed : T4,
                     page_lines : T5, out : T6, total : T7, ok : T8]
           IN  /\ \A x \in T1 : [s EXCEPT !.line = x] \in S
               /\ \A x \in T1, y \in T2 :
                      [s EXCEPT !.line = x, !.in_pre = y] \in S
               /\ \A x \in T3 : [s EXCEPT !.links = x] \in S
               /\ \A x \in T4 : [s EXCEPT !.lines_printed = x] \in S
               /\ \A x \in T6 : [s EXCEPT !.out = x] \in S
               /\ \A x \in T7 : [s EXCEPT !.total = x] \in S
               /\ \A x \in T8 : [s EXCEPT !.ok = x] \in S
OBVIOUS

(* One field changed to a value of its type, field by field.               *)
LEMMA SetLine ==
    ASSUME NEW R, NEW lines, NEW s \in Streams(R, lines),
           NEW x \in ShortTexts
    PROVE  [s EXCEPT !.line = x] \in Streams(R, lines)
BY RecordExcept, Zenon DEF Streams

(* Fields that change together.                                            *)
LEMMA SetLineAndBlock ==
    ASSUME NEW R, NEW lines, NEW s \in Streams(R, lines),
           NEW x \in ShortTexts, NEW y \in BOOLEAN
    PROVE  [s EXCEPT !.line = x, !.in_pre = y] \in Streams(R, lines)
BY RecordExcept, Zenon DEF Streams

LEMMA SetLinks ==
    ASSUME NEW R, NEW lines, NEW s \in Streams(R, lines),
           NEW x \in FewLinks
    PROVE  [s EXCEPT !.links = x] \in Streams(R, lines)
BY RecordExcept, Zenon DEF Streams

LEMMA SetPrinted ==
    ASSUME NEW R, NEW lines, NEW s \in Streams(R, lines),
           NEW x \in Counts(lines)
    PROVE  [s EXCEPT !.lines_printed = x] \in Streams(R, lines)
BY RecordExcept, Zenon DEF Streams

LEMMA SetOut ==
    ASSUME NEW R, NEW lines, NEW s \in Streams(R, lines),
           NEW x \in Seq(R)
    PROVE  [s EXCEPT !.out = x] \in Streams(R, lines)
BY RecordExcept, Zenon DEF Streams

LEMMA SetTotal ==
    ASSUME NEW R, NEW lines, NEW s \in Streams(R, lines),
           NEW x \in Totals
    PROVE  [s EXCEPT !.total = x] \in Streams(R, lines)
BY RecordExcept, Zenon DEF Streams

LEMMA SetOk ==
    ASSUME NEW R, NEW lines, NEW s \in Streams(R, lines),
           NEW x \in BOOLEAN
    PROVE  [s EXCEPT !.ok = x] \in Streams(R, lines)
BY RecordExcept, Zenon DEF Streams

(* The types of the fields.                                                *)
LEMMA StreamFields ==
    ASSUME NEW R, NEW lines, NEW s \in Streams(R, lines)
    PROVE  /\ s.line \in ShortTexts /\ s.in_pre \in BOOLEAN
           /\ s.links \in FewLinks
           /\ s.lines_printed \in Counts(lines) /\ s.page_lines = lines
           /\ s.out \in Seq(R) /\ s.total \in Totals /\ s.ok \in BOOLEAN
BY DEF Streams

(* A row that is put together from its parts.                              *)
LEMMA RowsAreRows ==
    ASSUME NEW of \in RowKinds, NEW num \in Nat, NEW text \in Seq(Chars)
    PROVE  Row(of, num, text) \in Rows
BY Zenon DEF Row, Rows

(* --More-- is a row as well.                                              *)
LEMMA MoreIsRow == More \in Rows
<1>1. "more" \in RowKinds /\ 0 \in Nat /\ <<>> \in Seq(Chars)
  BY DEF RowKinds
<1> QED  BY <1>1, RowsAreRows DEF More

(* A row more on the screen.                                               *)
LEMMA PutType ==
    ASSUME NEW R, NEW lines, NEW s \in Streams(R, lines), NEW row \in R
    PROVE  Put(s, row) \in Streams(R, lines)
<1>1. Append(s.out, row) \in Seq(R)
  BY StreamFields
<1> QED  BY <1>1, SetOut, Zenon DEF Put

(* The end of a line leaves less than a page printed since the last        *)
(* --More--.                                                               *)
LEMMA BreakType ==
    ASSUME NEW R, NEW lines \in Nat, NEW s \in Streams(R, lines), More \in R
    PROVE  render_line_break(s) \in Streams(R, lines)
<1>1. Put(s, More) \in Streams(R, lines)
  BY PutType
<1>0. s.page_lines = lines /\ s.lines_printed \in Counts(lines)
  BY StreamFields
<1>2. CASE lines > 0 /\ s.lines_printed + 1 >= lines
  <2>1. 0 \in Counts(lines)
    BY DEF Counts
  <2> DEFINE t == Put(s, More)
  <2>2. render_line_break(s) = [t EXCEPT !.lines_printed = 0]
    BY <1>0, <1>2 DEF render_line_break
  <2> HIDE DEF t
  <2>3. t \in Streams(R, lines)
    BY <1>1 DEF t
  <2>4. [t EXCEPT !.lines_printed = 0] \in Streams(R, lines)
    BY <2>1, <2>3, SetPrinted, Zenon
  <2> QED  BY <2>2, <2>4
<1>3. CASE ~(lines > 0 /\ s.lines_printed + 1 >= lines)
  <2>1. s.lines_printed + 1 \in Counts(lines)
    BY <1>0, <1>3 DEF Counts
  <2>2. render_line_break(s)
            = [s EXCEPT !.lines_printed = s.lines_printed + 1]
    BY <1>0, <1>3 DEF render_line_break
  <2> QED  BY <2>1, <2>2, SetPrinted, Zenon
<1> QED  BY <1>2, <1>3

(* A set of numbers has a least element.                                   *)
LEMMA MinIsLower ==
    ASSUME NEW S, S \subseteq Nat, S # {}
    PROVE  Min(S) \in S /\ \A x \in S : Min(S) <= x
<1>1. PICK k \in S : \A j \in S : ~(<<j, k>> \in OpToRel(<, Nat))
  BY NatLessThanWellFounded, WFMin
<1>2. ASSUME NEW x \in S PROVE k <= x
  <2>1. k \in Nat /\ x \in Nat
    OBVIOUS
  <2>2. ~(x < k)
    BY <1>1, <2>1 DEF OpToRel
  <2> QED  BY <2>1, <2>2
<1> QED  BY <1>2 DEF Min

(* What is taken from a text is a text over the same characters.           *)
LEMMA UpToType ==
    ASSUME NEW A, NEW s \in Seq(A), NEW chars
    PROVE  UpTo(s, chars) \in Seq(A)
<1> DEFINE I == {i \in 1..Len(s) : s[i] \in chars}
           i == IF I # {} THEN Min(I) ELSE 0
<1>1. UpTo(s, chars) = IF i = 0 THEN s ELSE SubSeq(s, 1, i - 1)
  BY Zenon DEF UpTo, SelectInSeq
<1>2. I # {} => Min(I) \in I
  <2>1. I \subseteq Nat
    OBVIOUS
  <2> HIDE DEF I
  <2> QED BY <2>1, MinIsLower
<1>3. i \in 0..Len(s)
  BY <1>2
<1> HIDE DEF i
<1> QED  BY <1>1, <1>3

(* Text without the blanks around it is text.                              *)
LEMMA TrimType ==
    ASSUME NEW A, NEW s \in Seq(A)
    PROVE  trim_left(s) \in Seq(A)
<1> DEFINE I == {i \in 1..Len(s) : s[i] \notin Blank}
           i == IF I # {} THEN Min(I) ELSE 0
<1>1. trim_left(s) = IF i = 0 THEN <<>> ELSE SubSeq(s, i - 1 + 1, Len(s))
  BY Zenon DEF trim_left, SelectInSeq, Behind
<1>2. I # {} => Min(I) \in I
  <2>1. I \subseteq Nat
    OBVIOUS
  <2> HIDE DEF I
  <2> QED BY <2>1, MinIsLower
<1>3. i \in 0..Len(s)
  BY <1>2
<1> HIDE DEF i
<1> QED  BY <1>1, <1>3

LineTypes == {"text", "h1", "h2", "h3", "link", "list", "quote", "preformat"}

(* A line without any other mark is a line of text.                        *)
LEMMA MarkedType ==
    ASSUME NEW A, NEW line \in Seq(A)
    PROVE  /\ Marked(line).type \in LineTypes \ {"preformat"}
           /\ Len(Marked(line).mark) \in Nat
<1> DEFINE I == {i \in 1..Len(Marks) : IsPrefix(Marks[i].mark, line)}
<1>1. Len(Marks) = 7 /\ Marks[7].mark = <<>>
  BY DEF Marks
<1>2. 7 \in I
  BY <1>1 DEF IsPrefix
<1>3. Min(I) \in I
  <2>1. I \subseteq Nat
    OBVIOUS
  <2> HIDE DEF I
  <2> QED BY <1>2, <2>1, MinIsLower
<1>4. Marked(line) = Marks[Min(I)]
  BY <1>2, Zenon DEF Marked, SelectInSeq
<1>5. \A i \in 1..7 : /\ Marks[i].type \in LineTypes \ {"preformat"}
                      /\ Len(Marks[i].mark) \in Nat
  BY DEF Marks, LineTypes
<1> QED  BY <1>1, <1>3, <1>4, <1>5

(* So is what is behind a mark.                                            *)
LEMMA BehindType ==
   ASSUME NEW A, NEW s \in Seq(A), NEW n \in Nat
   PROVE  Behind(s, n) \in Seq(A)
BY DEF Behind

(* What a line is parsed into.                                             *)
LEMMA ParseType ==
    ASSUME NEW A, NEW line \in Seq(A), NEW in_pre \in BOOLEAN
    PROVE  LET p == nos_gemtext_parse_line(line, in_pre)
           IN  /\ p.type \in LineTypes
               /\ p.url \in Seq(A) /\ p.text \in Seq(A)
               /\ p.in_pre \in BOOLEAN /\ p.ok \in BOOLEAN
<1> DEFINE type == Marked(line).type
           rest == Behind(line, Len(Marked(line).mark))
           txt == trim_left(rest)
           url == UpTo(txt, Blank)
           label == trim_left(Behind(txt, Len(url)))
<1>1. type \in LineTypes /\ rest \in Seq(A)
  BY MarkedType, BehindType
<1>2. txt \in Seq(A)
  BY <1>1, TrimType
<1>3. url \in Seq(A)
  BY <1>2, UpToType
<1>4. label \in Seq(A)
  BY <1>2, <1>3, TrimType, BehindType
<1>5. <<>> \in Seq(A) /\ "preformat" \in LineTypes
  BY DEF LineTypes
<1>6. nos_gemtext_parse_line(line, in_pre) =
         IF IsPrefix(Fence, line)
        THEN Parsed("preformat", <<>>, <<>>, ~in_pre)
        ELSE IF in_pre THEN Parsed("preformat", <<>>, line, TRUE)
        ELSE IF type = "link"
        THEN Parsed(type, url, label, FALSE)
        ELSE Parsed(type, <<>>, IF type \in {"list", "text"} THEN rest
                                ELSE txt, FALSE)
  BY Zenon DEF nos_gemtext_parse_line
<1> DEFINE IsLine(p) == /\ p.type \in LineTypes
                        /\ p.url \in Seq(A) /\ p.text \in Seq(A)
                        /\ p.in_pre \in BOOLEAN /\ p.ok \in BOOLEAN
<1>7. ASSUME NEW t \in LineTypes, NEW u \in Seq(A), NEW x \in Seq(A),
             NEW pre \in BOOLEAN
      PROVE  IsLine(Parsed(t, u, x, pre))
  BY <1>7 DEF Parsed
<1> HIDE DEF type, rest, txt, url, label
<1>8. IsLine(nos_gemtext_parse_line(line, in_pre))
  <2> HIDE DEF IsLine
  <2>1. /\ IsLine(Parsed("preformat", <<>>, <<>>, ~in_pre))
        /\ IsLine(Parsed("preformat", <<>>, line, TRUE))
        /\ IsLine(Parsed(type, url, label, FALSE))
        /\ IsLine(Parsed(type, <<>>, rest, FALSE))
        /\ IsLine(Parsed(type, <<>>, txt, FALSE))
    BY <1>1, <1>2, <1>3, <1>4, <1>5, <1>7
  <2> QED  BY <1>6, <2>1, Zenon
<1> QED  BY <1>8

(* print_wrapped reads word[] character by character.                     *)
WordRun(f, C, b, seq) ==
    /\ f \in [0..Len(seq) -> C]
    /\ f[0] = b
    /\ \A k \in 1..Len(seq) : f[k] = AddToWord(f[k - 1], seq[k])

(* FoldLeft with AddToWord goes through the states of a run.               *)
LEMMA WordLoop ==
    ASSUME NEW C, NEW A, NEW b \in C, NEW seq \in Seq(A),
           \A c \in C, k \in 1..Len(seq) : AddToWord(c, seq[k]) \in C
    PROVE  \E f : /\ WordRun(f, C, b, seq)
                  /\ f[Len(seq)] = FoldLeft(AddToWord, b, seq)
<1> DEFINE n == Len(seq)
           step == [k \in 1..n |-> [c \in C |-> AddToWord(c, seq[k])]]
           eq(g) == [s \in SUBSET (1..n) |->
                       IF s = {} THEN b
                       ELSE AddToWord(g[s \ {Max(s)}], seq[Max(s)])]
           iter == CHOOSE g : g = eq(g)
<1>0. b \in C
  OBVIOUS
<1>1. n \in Nat /\ DOMAIN seq = 1..n
  OBVIOUS
<1>2. step \in [1..n -> [C -> C]]
  OBVIOUS
<1> HIDE DEF n
<1>3. PICK g : IsIter(g, n, C, b, step)
  BY <1>1, <1>2, IterExists
<1>4. \A s \in SUBSET (1..n) :
          s # {} => Max(s) \in 1..n /\ s \ {Max(s)} \in SUBSET (1..n)
  BY <1>1, MaxIsUpper
<1>5. g = eq(g)
  <2>1. g \in [SUBSET (1..n) -> C] /\ g[{}] = b
    BY <1>3 DEF IsIter
  <2>2. ASSUME NEW s \in SUBSET (1..n), s # {}
        PROVE  g[s] = AddToWord(g[s \ {Max(s)}], seq[Max(s)])
    BY <1>3, <1>4, <2>2 DEF IsIter
  <2> QED  BY <2>1, <2>2
<1>6. iter = eq(iter)
  <2> HIDE DEF eq
  <2> QED  BY <1>5
<1>7. FoldLeft(AddToWord, b, seq) = iter[1..n]
  BY <1>1, Zenon DEF FoldLeft, MapThenFoldSet
<1> HIDE DEF iter
<1>8. iter[{}] = b
  BY <1>6
<1>9. ASSUME NEW s \in SUBSET (1..n), s # {}, iter[s \ {Max(s)}] \in C
      PROVE  iter[s] = step[Max(s)][iter[s \ {Max(s)}]]
  BY <1>4, <1>6, <1>9
<1>10. Unfolds(iter, n, C, b, step)
  BY <1>8, <1>9 DEF Unfolds
<1>11. PICK f : IsLoop(f, n, C, b, step) /\ f[n] = iter[1..n]
  <2> HIDE DEF step
  <2> QED  BY ONLY <1>0, <1>1, <1>2, <1>10, IterLoop
<1>12. ASSUME NEW k \in 1..n PROVE f[k] = AddToWord(f[k - 1], seq[k])
  <2>1. k - 1 \in 0..n
    BY <1>1
  <2>2. f[k - 1] \in C /\ f[k] = step[k][f[k - 1]]
    BY <1>11, <2>1 DEF IsLoop
  <2> QED  BY <2>2
<1>13. f \in [0..n -> C] /\ f[0] = b /\ f[n] = FoldLeft(AddToWord, b, seq)
  BY <1>7, <1>11 DEF IsLoop
<1> QED  BY <1>12, <1>13 DEF n, WordRun

(* print_wrapped places word after word.                                   *)
PlaceFold(of, num, b, seq) ==
    FoldLeft(LAMBDA w, word : Place(of, num, w, word), b, seq)

PlaceRun(of, num, f, C, b, seq) ==
    /\ f \in [0..Len(seq) -> C]
    /\ f[0] = b
    /\ \A k \in 1..Len(seq) : f[k] = Place(of, num, f[k - 1], seq[k])

(* The fold of Wrapped goes through the states of a run.                   *)
LEMMA PlaceLoop ==
    ASSUME NEW of, NEW num, NEW C, NEW A, NEW b \in C, NEW seq \in Seq(A),
           \A c \in C, k \in 1..Len(seq) : Place(of, num, c, seq[k]) \in C
    PROVE  \E f : /\ PlaceRun(of, num, f, C, b, seq)
                  /\ f[Len(seq)] = PlaceFold(of, num, b, seq)
<1> DEFINE n == Len(seq)
           step == [k \in 1..n |-> [c \in C |-> Place(of, num, c, seq[k])]]
           eq(g) == [s \in SUBSET (1..n) |->
                       IF s = {} THEN b
                       ELSE Place(of, num, g[s \ {Max(s)}], seq[Max(s)])]
           iter == CHOOSE g : g = eq(g)
<1>0. b \in C
  OBVIOUS
<1>1. n \in Nat /\ DOMAIN seq = 1..n
  OBVIOUS
<1>2. step \in [1..n -> [C -> C]]
  OBVIOUS
<1> HIDE DEF n
<1>3. PICK g : IsIter(g, n, C, b, step)
  BY <1>1, <1>2, IterExists
<1>4. \A s \in SUBSET (1..n) :
          s # {} => Max(s) \in 1..n /\ s \ {Max(s)} \in SUBSET (1..n)
  BY <1>1, MaxIsUpper
<1>5. g = eq(g)
  <2>1. g \in [SUBSET (1..n) -> C] /\ g[{}] = b
    BY <1>3 DEF IsIter
  <2>2. ASSUME NEW s \in SUBSET (1..n), s # {}
        PROVE  g[s] = Place(of, num, g[s \ {Max(s)}], seq[Max(s)])
    BY <1>3, <1>4, <2>2 DEF IsIter
  <2> QED  BY <2>1, <2>2
<1>6. iter = eq(iter)
  <2> HIDE DEF eq
  <2> QED  BY <1>5
<1>7. PlaceFold(of, num, b, seq) = iter[1..n]
  BY <1>1, Zenon DEF PlaceFold, FoldLeft, MapThenFoldSet
<1> HIDE DEF iter
<1>8. iter[{}] = b
  BY <1>6
<1>9. ASSUME NEW s \in SUBSET (1..n), s # {}, iter[s \ {Max(s)}] \in C
      PROVE  iter[s] = step[Max(s)][iter[s \ {Max(s)}]]
  BY <1>4, <1>6, <1>9
<1>10. Unfolds(iter, n, C, b, step)
  BY <1>8, <1>9 DEF Unfolds
<1>11. PICK f : IsLoop(f, n, C, b, step) /\ f[n] = iter[1..n]
  <2> HIDE DEF step
  <2> QED  BY ONLY <1>0, <1>1, <1>2, <1>10, IterLoop
<1>12. ASSUME NEW k \in 1..n PROVE f[k] = Place(of, num, f[k - 1], seq[k])
  <2>1. k - 1 \in 0..n
    BY <1>1
  <2>2. f[k - 1] \in C /\ f[k] = step[k][f[k - 1]]
    BY <1>11, <2>1 DEF IsLoop
  <2> QED  BY <2>2
<1>13. f \in [0..n -> C] /\ f[0] = b /\ f[n] = PlaceFold(of, num, b, seq)
  BY <1>7, <1>11 DEF IsLoop
<1> QED  BY <1>12, <1>13 DEF n, PlaceRun

(* The renderer is fed character by character.                             *)
FeedRun(f, C, b, seq) ==
    /\ f \in [0..Len(seq) -> C]
    /\ f[0] = b
    /\ \A k \in 1..Len(seq) : f[k] = FeedChar(f[k - 1], seq[k])

(* FoldLeft with FeedChar goes through the states of a run.                *)
LEMMA FeedLoop ==
    ASSUME NEW C, NEW A, NEW b \in C, NEW seq \in Seq(A),
           \A c \in C, k \in 1..Len(seq) : FeedChar(c, seq[k]) \in C
    PROVE  \E f : /\ FeedRun(f, C, b, seq)
                  /\ f[Len(seq)] = FoldLeft(FeedChar, b, seq)
<1> DEFINE n == Len(seq)
           step == [k \in 1..n |-> [c \in C |-> FeedChar(c, seq[k])]]
           eq(g) == [s \in SUBSET (1..n) |->
                       IF s = {} THEN b
                       ELSE FeedChar(g[s \ {Max(s)}], seq[Max(s)])]
           iter == CHOOSE g : g = eq(g)
<1>0. b \in C
  OBVIOUS
<1>1. n \in Nat /\ DOMAIN seq = 1..n
  OBVIOUS
<1>2. step \in [1..n -> [C -> C]]
  OBVIOUS
<1> HIDE DEF n
<1>3. PICK g : IsIter(g, n, C, b, step)
  BY <1>1, <1>2, IterExists
<1>4. \A s \in SUBSET (1..n) :
          s # {} => Max(s) \in 1..n /\ s \ {Max(s)} \in SUBSET (1..n)
  BY <1>1, MaxIsUpper
<1>5. g = eq(g)
  <2>1. g \in [SUBSET (1..n) -> C] /\ g[{}] = b
    BY <1>3 DEF IsIter
  <2>2. ASSUME NEW s \in SUBSET (1..n), s # {}
        PROVE  g[s] = FeedChar(g[s \ {Max(s)}], seq[Max(s)])
    BY <1>3, <1>4, <2>2 DEF IsIter
  <2> QED  BY <2>1, <2>2
<1>6. iter = eq(iter)
  <2> HIDE DEF eq
  <2> QED  BY <1>5
<1>7. FoldLeft(FeedChar, b, seq) = iter[1..n]
  BY <1>1, Zenon DEF FoldLeft, MapThenFoldSet
<1> HIDE DEF iter
<1>8. iter[{}] = b
  BY <1>6
<1>9. ASSUME NEW s \in SUBSET (1..n), s # {}, iter[s \ {Max(s)}] \in C
      PROVE  iter[s] = step[Max(s)][iter[s \ {Max(s)}]]
  BY <1>4, <1>6, <1>9
<1>10. Unfolds(iter, n, C, b, step)
  BY <1>8, <1>9 DEF Unfolds
<1>11. PICK f : IsLoop(f, n, C, b, step) /\ f[n] = iter[1..n]
  <2> HIDE DEF step
  <2> QED  BY ONLY <1>0, <1>1, <1>2, <1>10, IterLoop
<1>12. ASSUME NEW k \in 1..n PROVE f[k] = FeedChar(f[k - 1], seq[k])
  <2>1. k - 1 \in 0..n
    BY <1>1
  <2>2. f[k - 1] \in C /\ f[k] = step[k][f[k - 1]]
    BY <1>11, <2>1 DEF IsLoop
  <2> QED  BY <2>2
<1>13. f \in [0..n -> C] /\ f[0] = b /\ f[n] = FoldLeft(FeedChar, b, seq)
  BY <1>7, <1>11 DEF IsLoop
<1> QED  BY <1>12, <1>13 DEF n, FeedRun

(* The lines of a chunk that is not gemtext.                               *)
RawRun(f, C, b, seq) ==
    /\ f \in [0..Len(seq) -> C]
    /\ f[0] = b
    /\ \A k \in 1..Len(seq) : f[k] = RawChar(f[k - 1], seq[k])

(* FoldLeft with RawChar goes through the states of a run.                 *)
LEMMA RawLoop ==
    ASSUME NEW C, NEW A, NEW b \in C, NEW seq \in Seq(A),
           \A c \in C, k \in 1..Len(seq) : RawChar(c, seq[k]) \in C
    PROVE  \E f : /\ RawRun(f, C, b, seq)
                  /\ f[Len(seq)] = FoldLeft(RawChar, b, seq)
<1> DEFINE n == Len(seq)
           step == [k \in 1..n |-> [c \in C |-> RawChar(c, seq[k])]]
           eq(g) == [s \in SUBSET (1..n) |->
                       IF s = {} THEN b
                       ELSE RawChar(g[s \ {Max(s)}], seq[Max(s)])]
           iter == CHOOSE g : g = eq(g)
<1>0. b \in C
  OBVIOUS
<1>1. n \in Nat /\ DOMAIN seq = 1..n
  OBVIOUS
<1>2. step \in [1..n -> [C -> C]]
  OBVIOUS
<1> HIDE DEF n
<1>3. PICK g : IsIter(g, n, C, b, step)
  BY <1>1, <1>2, IterExists
<1>4. \A s \in SUBSET (1..n) :
          s # {} => Max(s) \in 1..n /\ s \ {Max(s)} \in SUBSET (1..n)
  BY <1>1, MaxIsUpper
<1>5. g = eq(g)
  <2>1. g \in [SUBSET (1..n) -> C] /\ g[{}] = b
    BY <1>3 DEF IsIter
  <2>2. ASSUME NEW s \in SUBSET (1..n), s # {}
        PROVE  g[s] = RawChar(g[s \ {Max(s)}], seq[Max(s)])
    BY <1>3, <1>4, <2>2 DEF IsIter
  <2> QED  BY <2>1, <2>2
<1>6. iter = eq(iter)
  <2> HIDE DEF eq
  <2> QED  BY <1>5
<1>7. FoldLeft(RawChar, b, seq) = iter[1..n]
  BY <1>1, Zenon DEF FoldLeft, MapThenFoldSet
<1> HIDE DEF iter
<1>8. iter[{}] = b
  BY <1>6
<1>9. ASSUME NEW s \in SUBSET (1..n), s # {}, iter[s \ {Max(s)}] \in C
      PROVE  iter[s] = step[Max(s)][iter[s \ {Max(s)}]]
  BY <1>4, <1>6, <1>9
<1>10. Unfolds(iter, n, C, b, step)
  BY <1>8, <1>9 DEF Unfolds
<1>11. PICK f : IsLoop(f, n, C, b, step) /\ f[n] = iter[1..n]
  <2> HIDE DEF step
  <2> QED  BY ONLY <1>0, <1>1, <1>2, <1>10, IterLoop
<1>12. ASSUME NEW k \in 1..n PROVE f[k] = RawChar(f[k - 1], seq[k])
  <2>1. k - 1 \in 0..n
    BY <1>1
  <2>2. f[k - 1] \in C /\ f[k] = step[k][f[k - 1]]
    BY <1>11, <2>1 DEF IsLoop
  <2> QED  BY <2>2
<1>13. f \in [0..n -> C] /\ f[0] = b /\ f[n] = FoldLeft(RawChar, b, seq)
  BY <1>7, <1>11 DEF IsLoop
<1> QED  BY <1>12, <1>13 DEF n, RawRun

(* The lines of a text, character by character.                            *)
LineRun(f, C, b, seq) ==
    /\ f \in [0..Len(seq) -> C]
    /\ f[0] = b
    /\ \A k \in 1..Len(seq) : f[k] = AddToLine(f[k - 1], seq[k])

(* FoldLeft with AddToLine goes through the states of a run.               *)
LEMMA LineLoop ==
    ASSUME NEW C, NEW A, NEW b \in C, NEW seq \in Seq(A),
           \A c \in C, k \in 1..Len(seq) : AddToLine(c, seq[k]) \in C
    PROVE  \E f : /\ LineRun(f, C, b, seq)
                  /\ f[Len(seq)] = FoldLeft(AddToLine, b, seq)
<1> DEFINE n == Len(seq)
           step == [k \in 1..n |-> [c \in C |-> AddToLine(c, seq[k])]]
           eq(g) == [s \in SUBSET (1..n) |->
                       IF s = {} THEN b
                       ELSE AddToLine(g[s \ {Max(s)}], seq[Max(s)])]
           iter == CHOOSE g : g = eq(g)
<1>0. b \in C
  OBVIOUS
<1>1. n \in Nat /\ DOMAIN seq = 1..n
  OBVIOUS
<1>2. step \in [1..n -> [C -> C]]
  OBVIOUS
<1> HIDE DEF n
<1>3. PICK g : IsIter(g, n, C, b, step)
  BY <1>1, <1>2, IterExists
<1>4. \A s \in SUBSET (1..n) :
          s # {} => Max(s) \in 1..n /\ s \ {Max(s)} \in SUBSET (1..n)
  BY <1>1, MaxIsUpper
<1>5. g = eq(g)
  <2>1. g \in [SUBSET (1..n) -> C] /\ g[{}] = b
    BY <1>3 DEF IsIter
  <2>2. ASSUME NEW s \in SUBSET (1..n), s # {}
        PROVE  g[s] = AddToLine(g[s \ {Max(s)}], seq[Max(s)])
    BY <1>3, <1>4, <2>2 DEF IsIter
  <2> QED  BY <2>1, <2>2
<1>6. iter = eq(iter)
  <2> HIDE DEF eq
  <2> QED  BY <1>5
<1>7. FoldLeft(AddToLine, b, seq) = iter[1..n]
  BY <1>1, Zenon DEF FoldLeft, MapThenFoldSet
<1> HIDE DEF iter
<1>8. iter[{}] = b
  BY <1>6
<1>9. ASSUME NEW s \in SUBSET (1..n), s # {}, iter[s \ {Max(s)}] \in C
      PROVE  iter[s] = step[Max(s)][iter[s \ {Max(s)}]]
  BY <1>4, <1>6, <1>9
<1>10. Unfolds(iter, n, C, b, step)
  BY <1>8, <1>9 DEF Unfolds
<1>11. PICK f : IsLoop(f, n, C, b, step) /\ f[n] = iter[1..n]
  <2> HIDE DEF step
  <2> QED  BY ONLY <1>0, <1>1, <1>2, <1>10, IterLoop
<1>12. ASSUME NEW k \in 1..n PROVE f[k] = AddToLine(f[k - 1], seq[k])
  <2>1. k - 1 \in 0..n
    BY <1>1
  <2>2. f[k - 1] \in C /\ f[k] = step[k][f[k - 1]]
    BY <1>11, <2>1 DEF IsLoop
  <2> QED  BY <2>2
<1>13. f \in [0..n -> C] /\ f[0] = b /\ f[n] = FoldLeft(AddToLine, b, seq)
  BY <1>7, <1>11 DEF IsLoop
<1> QED  BY <1>12, <1>13 DEF n, LineRun

(* A text without blanks, which is how print_wrapped makes its words.      *)
Solid(A) == Seq(A \ Blank)

WordStates(A) == [words : Seq(Solid(A)), word : Solid(A)]

(* The words of a text have no blanks in them.                             *)
LEMMA ClosedType ==
    ASSUME NEW A, NEW w \in WordStates(A)
    PROVE  Closed(w) \in Seq(Solid(A))
<1>1. w.words \in Seq(Solid(A)) /\ w.word \in Solid(A)
  BY DEF WordStates
<1> HIDE DEF Solid
<1> QED  BY <1>1 DEF Closed

(* A character closes a word or goes into one without blanks.              *)
LEMMA WordStepType ==
    ASSUME NEW A, NEW w \in WordStates(A), NEW ch \in A
    PROVE  AddToWord(w, ch) \in WordStates(A)
<1>1. /\ w.words \in Seq(Solid(A)) /\ w.word \in Solid(A)
      /\ Closed(w) \in Seq(Solid(A))
  BY ClosedType DEF WordStates
<1>2. ASSUME ch \notin Blank
      PROVE  Append(w.word, ch) \in Solid(A) /\ <<ch>> \in Solid(A)
  BY <1>1, <1>2 DEF Solid
<1>3. <<>> \in Solid(A)
  BY DEF Solid
<1>4. ASSUME NEW ws \in Seq(Solid(A)), NEW word \in Solid(A)
      PROVE  [words |-> ws, word |-> word] \in WordStates(A)
  BY <1>4, Zenon DEF WordStates
<1>5. ASSUME NEW word \in Solid(A)
      PROVE  [w EXCEPT !.word = word] \in WordStates(A)
  <2> HIDE DEF Solid
  <2> QED BY <1>5 DEF WordStates
<1> QED  BY <1>1, <1>2, <1>3, <1>4, <1>5 DEF AddToWord

(* The words of a text have no blanks in them.                             *)
LEMMA WordsType ==
    ASSUME NEW A, NEW text \in Seq(A)
    PROVE  Words(text) \in Seq(Solid(A))
<1> DEFINE b == [words |-> <<>>, word |-> <<>>]
<1>1. b \in WordStates(A)
  <2>1. <<>> \in Solid(A) /\ <<>> \in Seq(Solid(A))
    BY DEF Solid
  <2> QED  BY <2>1, Zenon DEF WordStates
<1>2. \A c \in WordStates(A), k \in 1..Len(text) :
          AddToWord(c, text[k]) \in WordStates(A)
  BY WordStepType
<1> HIDE DEF b
<1>3. PICK f : /\ WordRun(f, WordStates(A), b, text)
               /\ f[Len(text)] = FoldLeft(AddToWord, b, text)
  BY <1>1, <1>2, WordLoop
<1>4. f[Len(text)] \in WordStates(A)
  BY <1>3 DEF WordRun
<1> QED  BY <1>3, <1>4, ClosedType DEF Words, b

(* The rows of one line of a page.                                         *)
RowFits(row) ==
    \/ row.of \in {"preformat", "more"}
    \/ PrefixWidth(row.of, row.num) + Len(row.text) <= NOS_WRAP_COLS
    \/ Places(row.text, Blank) = {}

LineRows(of, num) ==
    {row \in Rows : row.of = of /\ row.num = num /\ RowFits(row)}

Placed(of, num) ==
    {w \in [rows : Seq(LineRows(of, num)), col : Nat] :
        /\ w.rows # <<>>
        /\ w.col = PrefixWidth(of, num) + Len(w.rows[Len(w.rows)].text)}

(* The width of a prefix is a number.                                      *)
LEMMA WidthIsNat ==
    ASSUME NEW of, NEW num
    PROVE  PrefixWidth(of, num) \in Nat
BY DEF PrefixWidth, Digits

(* A word goes to a row where it fits, or to a row of its own, and the     *)
(* column that is counted is the width of the last row.                    *)
LEMMA PlaceType ==
    ASSUME NEW of \in RowKinds, NEW num \in Nat,
           NEW w \in Placed(of, num), NEW word \in Solid(Chars)
    PROVE  Place(of, num, w, word) \in Placed(of, num)
<1> DEFINE S == LineRows(of, num)
           n == Len(w.rows)
           width == PrefixWidth(of, num)
           last == w.rows[n]
<1>1. /\ w.rows \in Seq(S) /\ w.rows # <<>> /\ w.col \in Nat
      /\ w.col = width + Len(last.text)
  BY DEF Placed
<1>2. n \in Nat \ {0} /\ last \in S
  BY <1>1
<1>3. /\ last \in Rows /\ last.of = of /\ last.num = num
      /\ last.text \in Seq(Chars)
  BY <1>2 DEF LineRows, Rows
<1>4. width \in Nat
  BY WidthIsNat
<1>5. word \in Seq(Chars) /\ Places(word, Blank) = {} /\ Len(word) \in Nat
  BY DEF Solid, Places
<1>6. CASE Overflows(w.col, word)
  <2> DEFINE row == Row(of, num, word)
  <2>1. row \in Rows /\ row.of = of /\ row.num = num /\ row.text = word
    BY <1>5, RowsAreRows DEF Row
  <2>2. row \in S
    BY <1>5, <2>1 DEF LineRows, RowFits
  <2> HIDE DEF row
  <2> DEFINE rows == Append(w.rows, row)
  <2>3. rows \in Seq(S) /\ rows # <<>> /\ rows[Len(rows)] = row
    <3> HIDE DEF S
    <3> QED BY <1>1, <2>2
  <2> HIDE DEF rows
  <2>4. width + Len(word) \in Nat
    BY <1>4, <1>5
  <2>5. [rows |-> rows, col |-> width + Len(word)] \in Placed(of, num)
    BY <2>1, <2>3, <2>4 DEF Placed
  <2> QED  BY <1>6, <2>5 DEF Place, rows, row
<1>7. CASE ~Overflows(w.col, word)
  <2> DEFINE more == IF w.col > 0 THEN <<"SP">> \o word ELSE word
             row == [last EXCEPT !.text = @ \o more]
             rows == [w.rows EXCEPT ![n].text = @ \o more]
  <2>1. more \in Seq(Chars) /\ w.col + Len(more) <= NOS_WRAP_COLS
    <3>1. <<"SP">> \in Seq(Chars) /\ Len(<<"SP">>) = 1
      <4>1. "SP" \in Chars
        BY DEF Chars
      <4> QED  BY <4>1
    <3>2. /\ <<"SP">> \o word \in Seq(Chars)
          /\ Len(<<"SP">> \o word) = 1 + Len(word)
      BY <1>5, <3>1
    <3>3. NOS_WRAP_COLS \in Nat
      BY BodyAssumption DEF BodyAssumption
    <3>4. CASE w.col > 0
      <4>1. more = <<"SP">> \o word
        BY <3>4 DEF more
      <4> QED  BY <1>1, <1>5, <1>7, <3>2, <3>3, <3>4, <4>1 DEF Overflows
    <3>5. CASE ~(w.col > 0)
      <4>1. more = word /\ w.col = 0
        BY <1>1, <3>5 DEF more
      <4> QED  BY <1>1, <1>5, <1>7, <3>3, <4>1 DEF Overflows
    <3> QED  BY <3>4, <3>5
  <2> HIDE DEF more
  <2>2. /\ last.text \o more \in Seq(Chars)
        /\ Len(last.text \o more) = Len(last.text) + Len(more)
    BY <1>3, <2>1
  <2>3. /\ row \in Rows /\ row.of = of /\ row.num = num
        /\ row.text = last.text \o more
    BY <1>3, <2>2 DEF Rows
  <2>4. width + Len(row.text) = w.col + Len(more)
    <3>1. Len(last.text) \in Nat /\ Len(more) \in Nat
      BY <1>3, <2>1
    <3> HIDE DEF width, last, row
    <3> QED  BY <1>1, <1>4, <2>2, <2>3, <3>1
  <2>5. row \in S
    BY <2>1, <2>3, <2>4 DEF LineRows, RowFits
  <2>6. rows = [w.rows EXCEPT ![n] = row]
    OBVIOUS
  <2>7. rows \in Seq(S) /\ rows # <<>> /\ Len(rows) = n /\ rows[n] = row
    <3> HIDE DEF S, row, rows
    <3> QED BY <1>1, <1>2, <2>5, <2>6
  <2>8. w.col + Len(more) \in Nat
    BY <1>1, <2>1
  <2>9. Place(of, num, w, word) = [rows |-> rows, col |-> w.col + Len(more)]
    BY <1>7, Zenon DEF Place, more
  <2> HIDE DEF rows, row
  <2> QED  BY <2>4, <2>7, <2>8, <2>9 DEF Placed
<1> QED  BY <1>6, <1>7

(* Before the first word there is one row, with nothing but its prefix.    *)
LEMMA WrapStart ==
    ASSUME NEW of \in RowKinds, NEW num \in Nat
    PROVE  [rows |-> <<Row(of, num, <<>>)>>, col |-> PrefixWidth(of, num)]
               \in Placed(of, num)
<1> DEFINE first == Row(of, num, <<>>)
<1>1. first \in LineRows(of, num) /\ first.text = <<>>
  <2>1. /\ first \in Rows /\ first.of = of /\ first.num = num
        /\ first.text = <<>>
    <3>1. <<>> \in Seq(Chars)
      OBVIOUS
    <3> QED  BY <3>1, RowsAreRows DEF Row
  <2> QED  BY <2>1 DEF LineRows, RowFits, Places
<1> HIDE DEF first
<1>2. <<first>> \in Seq(LineRows(of, num)) /\ <<first>> # <<>>
      /\ Len(<<first>>) = 1 /\ <<first>>[1] = first
  BY <1>1
<1>3. PrefixWidth(of, num) \in Nat
  BY WidthIsNat
<1>4. [rows |-> <<first>>, col |-> PrefixWidth(of, num)]
          \in [rows : Seq(LineRows(of, num)), col : Nat]
  BY <1>2, <1>3
<1>5. PrefixWidth(of, num) = PrefixWidth(of, num) + Len(first.text)
  BY <1>1, <1>3
<1>6. [rows |-> <<first>>, col |-> PrefixWidth(of, num)] \in Placed(of, num)
  BY <1>2, <1>4, <1>5, Zenon DEF Placed
<1> QED  BY <1>6 DEF first

(* Every row of a wrapped text fits, or is one word.                       *)
LEMMA WrappedType ==
    ASSUME NEW of \in RowKinds, NEW num \in Nat, NEW text \in Seq(Chars)
    PROVE  /\ Wrapped(of, num, text) \in Seq(LineRows(of, num))
           /\ Wrapped(of, num, text) # <<>>
<1> DEFINE first == Row(of, num, <<>>)
           b == [rows |-> <<first>>, col |-> PrefixWidth(of, num)]
           C == Placed(of, num)
           words == Words(text)
<1>1. words \in Seq(Solid(Chars))
  BY WordsType
<1>2. b \in C
  BY WrapStart
<1>4. \A c \in C, k \in 1..Len(words) : Place(of, num, c, words[k]) \in C
  <2> HIDE DEF C, words
  <2> SUFFICES ASSUME NEW c \in C, NEW k \in 1..Len(words)
               PROVE  Place(of, num, c, words[k]) \in C
    OBVIOUS
  <2>1. words[k] \in Solid(Chars)
    BY <1>1
  <2> QED  BY <2>1, PlaceType DEF C
<1> HIDE DEF b, C, words
<1>5. PICK f : /\ PlaceRun(of, num, f, C, b, words)
               /\ f[Len(words)] = PlaceFold(of, num, b, words)
  BY <1>1, <1>2, <1>4, PlaceLoop
<1>6. f[Len(words)] \in C
  <2>1. f \in [0..Len(words) -> C] /\ Len(words) \in 0..Len(words)
    BY <1>1, <1>5 DEF PlaceRun
  <2> QED  BY <2>1
<1>7. Wrapped(of, num, text) = f[Len(words)].rows
  BY <1>5, Zenon DEF Wrapped, PlaceFold, b, first, words
<1> QED  BY <1>6, <1>7 DEF C, Placed

FitRows == {row \in Rows : RowFits(row)}

Pages(lines) == Streams(FitRows, lines)

(* print_wrapped leaves a page of rows that fit.                           *)
LEMMA PrintType ==
    ASSUME NEW lines \in Nat, NEW s \in Pages(lines),
           NEW of \in RowKinds, NEW num \in Nat, NEW text \in Seq(Chars)
    PROVE  print_wrapped(s, of, num, text) \in Pages(lines)
<1> DEFINE rows == Wrapped(of, num, text)
           t == [s EXCEPT !.out = s.out \o rows]
<1>1. rows \in Seq(FitRows)
  <2>1. rows \in Seq(LineRows(of, num)) /\ LineRows(of, num) \subseteq FitRows
    BY WrappedType DEF LineRows, FitRows
  <2> HIDE DEF rows
  <2> QED  BY <2>1
<1> HIDE DEF rows
<1>2. s \in Streams(FitRows, lines)
  BY DEF Pages
<1>3. s.out \o rows \in Seq(FitRows)
  BY <1>1, <1>2, StreamFields
<1>4. t \in Streams(FitRows, lines)
  BY <1>2, <1>3, SetOut, Zenon
<1>5. print_wrapped(s, of, num, text) = render_line_break(t)
  BY Zenon DEF print_wrapped, rows
<1>6. More \in FitRows
  BY MoreIsRow DEF FitRows, RowFits, More, Row
<1> HIDE DEF t
<1> QED  BY <1>4, <1>5, <1>6, BreakType DEF Pages

(* A link is added only where there is room.                               *)
LEMMA AddLinkType ==
    ASSUME NEW lines \in Nat, NEW s \in Pages(lines), NEW url \in Seq(Chars)
    PROVE  /\ add_link(s, url) \in Pages(lines)
           /\ Len(add_link(s, url).links) \in Nat
<1>1. s \in Streams(FitRows, lines)
  BY DEF Pages
<1>2. /\ s.links \in FewLinks /\ s.links \in Seq(Seq(Chars))
      /\ Len(s.links) \in Nat
  BY <1>1, StreamFields DEF FewLinks
<1>3. NOS_MAX_LINKS \in Nat
  BY BodyAssumption DEF BodyAssumption
<1> DEFINE more == Append(s.links, url)
           t == [s EXCEPT !.links = more]
<1>4. ASSUME Len(s.links) < NOS_MAX_LINKS
      PROVE  more \in FewLinks
  <2>1. more \in Seq(Seq(Chars)) /\ Len(more) = Len(s.links) + 1
    BY <1>2
  <2> HIDE DEF more
  <2> QED  BY <1>2, <1>3, <1>4, <2>1 DEF FewLinks
<1>5. ASSUME Len(s.links) < NOS_MAX_LINKS
      PROVE  t \in Streams(FitRows, lines)
  <2> HIDE DEF more
  <2> QED BY <1>1, <1>4, <1>5, SetLinks, Zenon
<1>6. add_link(s, url) = IF Len(s.links) >= NOS_MAX_LINKS THEN s ELSE t
  BY Zenon DEF add_link
<1> HIDE DEF t, more
<1>7. add_link(s, url) \in Streams(FitRows, lines)
  BY <1>1, <1>2, <1>3, <1>5, <1>6
<1>8. add_link(s, url).links \in FewLinks
  BY <1>7, StreamFields
<1> QED  BY <1>7, <1>8 DEF Pages, FewLinks

(* The label of a link is its text or its address, cut to label[].         *)
LEMMA LabelType ==
    ASSUME NEW p, p.text \in Seq(Chars), p.url \in Seq(Chars)
    PROVE  Label(p) \in Seq(Chars)
<1> DEFINE full == IF p.text = <<>> THEN p.url ELSE p.text
           n == IF Len(full) < WordSize THEN Len(full) ELSE WordSize - 1
<1>1. full \in Seq(Chars)
  OBVIOUS
<1>2. Label(p) = SubSeq(full, 1, n)
  BY DEF Label
<1>3. n \in 0..Len(full)
  BY <1>1, BodyAssumption DEF BodyAssumption
<1> HIDE DEF full, n
<1> QED  BY <1>1, <1>2, <1>3

(* Every kind of line leaves a page of rows that fit.                      *)
LEMMA RenderType ==
    ASSUME NEW lines \in Nat, NEW s \in Pages(lines), NEW p,
           p.type \in LineTypes, p.url \in Seq(Chars), p.text \in Seq(Chars)
    PROVE  render_parsed(s, p) \in Pages(lines)
<1>1. /\ p.type \in RowKinds /\ "text" \in RowKinds /\ "link" \in RowKinds
      /\ "preformat" \in RowKinds /\ 0 \in Nat /\ <<>> \in Seq(Chars)
  BY DEF LineTypes, RowKinds
<1>2. More \in FitRows
  BY MoreIsRow DEF FitRows, RowFits, More, Row
<1>3. ASSUME NEW row \in FitRows
      PROVE  render_line_break(Put(s, row)) \in Pages(lines)
  BY <1>2, <1>3, PutType, BreakType DEF Pages
<1>4. CASE p.type \in {"h1", "h2", "h3"}
  <2> DEFINE blank == Row("text", 0, <<>>)
  <2>1. blank \in FitRows
    <3>1. blank \in Rows /\ blank.text = <<>>
      BY <1>1, RowsAreRows DEF Row
    <3> QED  BY <3>1 DEF FitRows, RowFits, Places
  <2> DEFINE t == render_line_break(Put(s, blank))
  <2>2. render_parsed(s, p) = print_wrapped(t, p.type, 0, p.text)
    BY <1>4 DEF render_parsed
  <2>3. t \in Pages(lines)
    BY <1>3, <2>1
  <2> HIDE DEF t
  <2> QED  BY <1>1, <2>2, <2>3, PrintType
<1>5. CASE p.type = "link"
  <2> DEFINE added == add_link(s, p.url)
  <2>1. /\ added \in Pages(lines) /\ Len(added.links) \in Nat
        /\ Label(p) \in Seq(Chars)
    BY AddLinkType, LabelType
  <2>2. render_parsed(s, p)
            = print_wrapped(added, "link", Len(added.links), Label(p))
    BY <1>5 DEF render_parsed
  <2> HIDE DEF added
  <2> QED  BY <1>1, <2>1, <2>2, PrintType
<1>6. CASE p.type = "preformat"
  <2> DEFINE row == Row("preformat", 0, p.text)
  <2>1. row \in FitRows
    <3>1. row \in Rows /\ row.of = "preformat"
      BY <1>1, RowsAreRows DEF Row
    <3> QED  BY <3>1 DEF FitRows, RowFits
  <2>2. render_parsed(s, p) = render_line_break(Put(s, row))
    BY <1>6 DEF render_parsed
  <2> QED  BY <1>3, <2>1, <2>2
<1>7. CASE p.type \notin {"h1", "h2", "h3", "link", "preformat"}
  <2>1. render_parsed(s, p) = print_wrapped(s, p.type, 0, p.text)
    BY <1>7 DEF render_parsed
  <2> QED  BY <1>1, <2>1, PrintType
<1> QED  BY <1>4, <1>5, <1>6, <1>7

(* The end of a line leaves a page of rows that fit, and no line.          *)
LEMMA EndLineType ==
    ASSUME NEW lines \in Nat, NEW s \in Pages(lines)
    PROVE  EndLine(s) \in Pages(lines)
<1> DEFINE line == UpTo(s.line, {"NUL"})
           p == nos_gemtext_parse_line(line, s.in_pre)
           t == render_parsed(s, p)
<1>1. s \in Streams(FitRows, lines)
  BY DEF Pages
<1>2. s.line \in Seq(Chars) /\ s.in_pre \in BOOLEAN
  BY <1>1, StreamFields DEF ShortTexts
<1>3. line \in Seq(Chars)
  BY <1>2, UpToType
<1>4. /\ p.type \in LineTypes /\ p.url \in Seq(Chars) /\ p.text \in Seq(Chars)
      /\ p.in_pre \in BOOLEAN
  <2> HIDE DEF line
  <2> QED  BY <1>2, <1>3, ParseType
<1> HIDE DEF p
<1>5. t \in Streams(FitRows, lines)
  BY <1>4, RenderType DEF Pages
<1>6. <<>> \in ShortTexts
  BY BodyAssumption DEF BodyAssumption, ShortTexts
<1>7. EndLine(s) = IF p.ok THEN [t EXCEPT !.line = <<>>, !.in_pre = p.in_pre]
                   ELSE [s EXCEPT !.ok = FALSE]
  BY Zenon DEF EndLine, p
<1> HIDE DEF t
<1>8. [t EXCEPT !.line = <<>>, !.in_pre = p.in_pre] \in Streams(FitRows, lines)
  BY <1>4, <1>5, <1>6, SetLineAndBlock, Zenon
<1>9. [s EXCEPT !.ok = FALSE] \in Streams(FitRows, lines)
  <2>1. FALSE \in BOOLEAN
    OBVIOUS
  <2> QED  BY <1>1, <2>1, SetOk, Zenon
<1> QED  BY <1>7, <1>8, <1>9 DEF Pages

(* So does every character, and the line stays shorter than its array.     *)
LEMMA FeedType ==
    ASSUME NEW lines \in Nat, NEW s \in Pages(lines), NEW ch \in Chars
    PROVE  FeedChar(s, ch) \in Pages(lines)
<1> DEFINE more == Append(s.line, ch)
<1>1. s \in Streams(FitRows, lines)
  BY DEF Pages
<1>2. s.line \in Seq(Chars) /\ Len(s.line) \in Nat
  BY <1>1, StreamFields DEF ShortTexts
<1>3. ASSUME ~(Len(s.line) + 1 >= LineSize) PROVE more \in ShortTexts
  BY <1>2, <1>3, BodyAssumption DEF BodyAssumption, ShortTexts
<1>4. ASSUME more \in ShortTexts
      PROVE  [s EXCEPT !.line = more] \in Streams(FitRows, lines)
  <2> HIDE DEF more
  <2> QED  BY <1>1, <1>4, SetLine, Zenon
<1>5. [s EXCEPT !.ok = FALSE] \in Streams(FitRows, lines)
  <2>1. FALSE \in BOOLEAN
    OBVIOUS
  <2> QED  BY <1>1, <2>1, SetOk, Zenon
<1>6. FeedChar(s, ch) =
          IF ~s.ok \/ ch = "CR" THEN s
          ELSE IF ch = "LF" THEN EndLine(s)
          ELSE IF Len(s.line) + 1 >= LineSize THEN [s EXCEPT !.ok = FALSE]
          ELSE [s EXCEPT !.line = more]
  BY Zenon DEF FeedChar
<1>7. EndLine(s) \in Streams(FitRows, lines)
  BY EndLineType DEF Pages
<1> QED  BY <1>1, <1>3, <1>4, <1>5, <1>6, <1>7, Zenon DEF Pages

(* Feeding a text to the renderer.                                         *)
LEMMA FeedData ==
    ASSUME NEW lines \in Nat, NEW s \in Pages(lines), NEW data \in Seq(Chars)
    PROVE  /\ FoldLeft(FeedChar, s, data) \in Pages(lines)
           /\ \E f : /\ FeedRun(f, Pages(lines), s, data)
                     /\ f[Len(data)] = FoldLeft(FeedChar, s, data)
<1> DEFINE C == Pages(lines)
<1>1. \A c \in C, k \in 1..Len(data) : FeedChar(c, data[k]) \in C
  BY FeedType
<1> HIDE DEF C
<1>2. PICK f : /\ FeedRun(f, C, s, data)
               /\ f[Len(data)] = FoldLeft(FeedChar, s, data)
  <2>1. s \in C
    BY DEF C
  <2> QED  BY <1>1, <2>1, FeedLoop
<1>3. f[Len(data)] \in C
  <2>1. f \in [0..Len(data) -> C] /\ Len(data) \in 0..Len(data)
    BY <1>2 DEF FeedRun
  <2> QED  BY <2>1
<1> QED  BY <1>2, <1>3 DEF C

(* A text in two pieces is the text in one.                                *)
LEMMA FeedConcat ==
    ASSUME NEW lines \in Nat, NEW s \in Pages(lines),
           NEW a \in Seq(Chars), NEW b \in Seq(Chars)
    PROVE  FoldLeft(FeedChar, s, a \o b)
               = FoldLeft(FeedChar, FoldLeft(FeedChar, s, a), b)
<1> DEFINE C == Pages(lines)
           m == Len(a)
           n == Len(b)
           ab == a \o b
           t == FoldLeft(FeedChar, s, a)
<1>1. /\ m \in Nat /\ n \in Nat /\ ab \in Seq(Chars) /\ Len(ab) = m + n
      /\ \A k \in 1..m : ab[k] = a[k]
      /\ \A k \in 1..n : ab[m + k] = b[k]
  OBVIOUS
<1>2. PICK f : FeedRun(f, C, s, a) /\ f[m] = t
  BY FeedData
<1>3. t \in C
  BY FeedData
<1> HIDE DEF t
<1>4. PICK g : FeedRun(g, C, t, b) /\ g[n] = FoldLeft(FeedChar, t, b)
  BY <1>3, FeedData
<1> HIDE DEF ab
<1>5. PICK h : /\ FeedRun(h, C, s, ab)
               /\ h[Len(ab)] = FoldLeft(FeedChar, s, ab)
  BY <1>1, FeedData
<1> HIDE DEF m, n, C
<1>6. /\ f[0] = s /\ g[0] = t /\ h[0] = s
      /\ \A k \in 1..m : f[k] = FeedChar(f[k - 1], a[k])
      /\ \A k \in 1..n : g[k] = FeedChar(g[k - 1], b[k])
      /\ \A k \in 1..(m + n) : h[k] = FeedChar(h[k - 1], ab[k])
  BY <1>1, <1>2, <1>4, <1>5 DEF FeedRun, m, n
<1> DEFINE Y == {k \in 0..m : h[k] = f[k]}
           Z == {k \in 0..n : h[m + k] = g[k]}
<1>7. \A k \in 0..m : k \in Y
  <2>1. 0 \in Y
    BY <1>1, <1>6
  <2>2. ASSUME NEW k \in 1..m, k - 1 \in Y PROVE k \in Y
    <3>1. k \in 1..(m + n) /\ k \in 0..m
      BY <1>1
    <3> QED  BY <1>1, <1>6, <2>2, <3>1
  <2> HIDE DEF Y
  <2> QED  BY <1>1, <2>1, <2>2, LoopInduction
<1>8. h[m] = t
  <2>1. m \in 0..m
    BY <1>1
  <2> QED  BY <1>2, <1>7, <2>1
<1>9. \A k \in 0..n : k \in Z
  <2>1. 0 \in Z
    BY <1>1, <1>6, <1>8
  <2>2. ASSUME NEW k \in 1..n, k - 1 \in Z PROVE k \in Z
    <3>1. /\ m + k \in 1..(m + n) /\ k \in 0..n /\ (m + k) - 1 = m + (k - 1)
      BY <1>1
    <3>2. h[m + k] = FeedChar(h[m + (k - 1)], ab[m + k])
      BY <1>6, <3>1
    <3> QED  BY <1>1, <1>6, <2>2, <3>1, <3>2
  <2> HIDE DEF Z
  <2> QED  BY <1>1, <2>1, <2>2, LoopInduction
<1>10. h[m + n] = g[n]
  <2>1. n \in 0..n
    BY <1>1
  <2> QED  BY <1>9, <2>1
<1> QED  BY <1>1, <1>4, <1>5, <1>10 DEF ab, t

(* So does the end of the body.                                            *)
LEMMA FlushType ==
    ASSUME NEW lines \in Nat, NEW s \in Pages(lines)
    PROVE  nos_render_stream_flush(s) \in Pages(lines)
BY EndLineType DEF nos_render_stream_flush

(* The renderer starts with an empty page.                                 *)
LEMMA FreshType ==
    ASSUME NEW lines \in Nat
    PROVE  Fresh(lines) \in Pages(lines)
<1>1. /\ <<>> \in ShortTexts /\ <<>> \in FewLinks /\ 0 \in Totals
      /\ 0 \in Counts(lines) /\ <<>> \in Seq(FitRows) /\ lines \in {lines}
      /\ FALSE \in BOOLEAN /\ TRUE \in BOOLEAN
  BY BodyAssumption, ConfigAssumption
  DEF BodyAssumption, ConfigAssumption, ShortTexts, FewLinks, Totals, Counts
<1> QED  BY <1>1, Zenon DEF Fresh, Pages, Streams

(* A page whose rows fit is a page.                                        *)
LEMMA PagesAreStreams ==
    ASSUME NEW lines
    PROVE  Pages(lines) \subseteq Streams(Rows, lines)
<1>1. Seq(FitRows) \subseteq Seq(Rows)
  <2>1. FitRows \subseteq Rows
    BY DEF FitRows
  <2> QED  BY <2>1
<1> QED  BY <1>1 DEF Pages, Streams

(* What is written to the other sinks.                                     *)
LEMMA WriteType ==
    ASSUME NEW lines, NEW s \in Streams(Rows, lines),
           NEW of \in RowKinds, NEW data \in Seq(Chars)
    PROVE  Write(s, of, data) \in Streams(Rows, lines)
<1> DEFINE n == Len(s.out)
           last == s.out[n]
           text == last.text \o data
           out == [s.out EXCEPT ![n].text = text]
<1>1. s.out \in Seq(Rows)
  BY StreamFields
<1>2. CASE s.out # <<>> /\ Last(s.out).of = of
  <2>1. n \in 1..n /\ n \in Nat /\ last \in Rows
    BY <1>1, <1>2
  <2>2. text \in Seq(Chars)
    BY <2>1 DEF Rows
  <2>3. [last EXCEPT !.text = text] \in Rows
    <3> HIDE DEF last, text
    <3> QED BY <2>1, <2>2 DEF Rows
  <2>4. out = [s.out EXCEPT ![n] = [last EXCEPT !.text = text]]
    OBVIOUS
  <2>5. out \in Seq(Rows)
    <3> HIDE DEF text, out, last
    <3> QED BY <1>1, <2>1, <2>3, <2>4
  <2>6. Write(s, of, data) = [s EXCEPT !.out = out]
    BY <1>2 DEF Write
  <2> HIDE DEF out
  <2>7. [s EXCEPT !.out = out] \in Streams(Rows, lines)
    BY ONLY <2>5, SetOut, s \in Streams(Rows, lines), Zenon
  <2> QED  BY ONLY <2>6, <2>7
<1>3. CASE ~(s.out # <<>> /\ Last(s.out).of = of)
  <2>1. Row(of, 0, data) \in Rows
    BY RowsAreRows
  <2>2. Write(s, of, data) = Put(s, Row(of, 0, data))
    BY <1>3 DEF Write
  <2> QED  BY <2>1, <2>2, PutType
<1> QED  BY <1>2, <1>3

(* The lines of a chunk that is not rendered are counted.                  *)
LEMMA RawType ==
    ASSUME NEW lines \in Nat, NEW s \in Streams(Rows, lines),
           NEW data \in Seq(Chars)
    PROVE  FoldLeft(RawChar, s, data) \in Streams(Rows, lines)
<1> DEFINE C == Streams(Rows, lines)
<1>1. \A c \in C, k \in 1..Len(data) : RawChar(c, data[k]) \in C
  BY BreakType, MoreIsRow DEF RawChar
<1> HIDE DEF C
<1>2. PICK f : /\ RawRun(f, C, s, data)
               /\ f[Len(data)] = FoldLeft(RawChar, s, data)
  <2>1. s \in C
    BY DEF C
  <2> QED  BY <1>1, <2>1, RawLoop
<1>3. f[Len(data)] \in C
  <2>1. f \in [0..Len(data) -> C] /\ Len(data) \in 0..Len(data)
    BY <1>2 DEF RawRun
  <2> QED  BY <2>1
<1> QED  BY <1>2, <1>3 DEF C

-----------------------------------------------------------------------------
BodyInv ==
    /\ body \in Seq(Chars)
    /\ how.sink \in Sinks /\ how.max \in BufferSizes /\ how.page_lines \in Nat
    /\ pos \in 0..Len(body)
    /\ status \in {"reading", "done", "aborted"}
    /\ st \in Streams(Rows, how.page_lines)
    /\ Renders => st \in Pages(how.page_lines)

(* A chunk is the next piece of the body.                                  *)
LEMMA ArrivedGrows ==
    ASSUME BodyInv, NEW n \in 1..MaxChunk, Read(n)
    PROVE  /\ Data(n) \in Seq(Chars) /\ Len(Data(n)) = n
           /\ pos' \in 0..Len(body)
           /\ Arrived \in Seq(Chars) /\ Arrived' = Arrived \o Data(n)
<1>1. /\ body \in Seq(Chars) /\ pos \in 0..Len(body) /\ n \in Nat
      /\ n <= Len(body) - pos /\ pos' = pos + n /\ body' = body
  BY BodyAssumption DEF BodyInv, Read, BodyAssumption
<1> QED  BY <1>1 DEF Data, Arrived

(* The invariant holds at the start, whatever the configuration says.      *)
LEMMA InitInv == Init => BodyInv
<1> SUFFICES ASSUME Init PROVE BodyInv
  OBVIOUS
<1>1. body \in Seq(Chars)
  <2>1. body \in Bodies /\ body \in Seq(Range(body))
    BY BodyAssumption DEF Init, BodyAssumption
  <2>2. Range(body) \subseteq Chars
    BY <2>1 DEF Chars
  <2> HIDE DEF Chars
  <2> QED  BY <2>1, <2>2
<1>2. PICK sink \in Sinks, file \in ConfigFiles, max \in BufferSizes :
          LET lines == nos_config_load(file).PAGE_LINES
          IN  how = [sink |-> sink, max |-> max,
                     page_lines |-> IF lines = 0 /\ sink # "home"
                                    THEN DefaultLines ELSE lines]
  BY DEF Init
<1>3. nos_config_load(file).PAGE_LINES \in Nat
  <2> DEFINE cfg == nos_config_load(file)
  <2>1. "PAGE_LINES" \in DOMAIN DefaultConfig
    BY ConfigAssumption DEF ConfigAssumption
  <2>2. \/ cfg["PAGE_LINES"] = DefaultConfig["PAGE_LINES"]
        \/ /\ file # NoConfig
           /\ \E i \in DOMAIN file :
                  /\ file[i].name = "PAGE_LINES"
                  /\ cfg["PAGE_LINES"] = Converted(file[i])
    BY <2>1, ConfigSettings
  <2>3. DefaultConfig.PAGE_LINES \in Nat /\ Word \in Nat \ {0}
    BY ConfigAssumption DEF ConfigAssumption
  <2>4. ASSUME file # NoConfig, NEW i \in DOMAIN file,
               file[i].name = "PAGE_LINES"
        PROVE  Converted(file[i]) \in Nat
    <3>1. file[i].value \in Int
      BY <2>4, ConfigAssumption DEF ConfigAssumption
    <3> QED  BY <2>3, <2>4, <3>1 DEF Converted
  <2> HIDE DEF cfg
  <2>5. cfg.PAGE_LINES \in Nat
    BY <2>2, <2>3, <2>4
  <2> QED BY <2>5 DEF cfg
<1>4. /\ how.sink \in Sinks /\ how.max \in BufferSizes
      /\ how.page_lines \in Nat
  BY <1>2, <1>3, BodyAssumption DEF BodyAssumption
<1>5. st \in Pages(how.page_lines)
  BY <1>4, FreshType DEF Init
<1>6. st \in Streams(Rows, how.page_lines)
  BY <1>5, PagesAreStreams
<1>7. pos \in 0..Len(body) /\ status = "reading"
  BY <1>1 DEF Init
<1> QED  BY <1>1, <1>4, <1>5, <1>6, <1>7 DEF BodyInv

(* Every chunk and the end of the body keep the invariant.                 *)
LEMMA StepInv == BodyInv /\ [Next]_vars => BodyInv'
<1> SUFFICES ASSUME BodyInv, [Next]_vars PROVE BodyInv'
  OBVIOUS
<1> DEFINE lines == how.page_lines
           S == Streams(Rows, lines)
<1>1. ASSUME NEW n \in 1..MaxChunk, GemtextChunk(n) PROVE BodyInv'
  <2>1. /\ how.sink = "gemtext" /\ Read(n)
        /\ st' = FoldLeft(FeedChar, st, Data(n))
        /\ status' \in {"reading", "aborted"}
    BY <1>1 DEF GemtextChunk, nos_render_stream_feed
  <2>2. Data(n) \in Seq(Chars) /\ pos' \in 0..Len(body)
    BY <2>1, ArrivedGrows
  <2>3. st' \in Pages(lines)
    <3>1. st \in Pages(lines) /\ lines \in Nat
      BY <2>1 DEF BodyInv, Renders
    <3> QED  BY <2>1, <2>2, <3>1, FeedData
  <2>4. st' \in S
    BY <2>3, PagesAreStreams
  <2> QED  BY <2>1, <2>2, <2>3, <2>4 DEF BodyInv, Read, Renders
<1>2. ASSUME NEW n \in 1..MaxChunk, RawChunk(n) PROVE BodyInv'
  <2>1. /\ how.sink = "raw" /\ Read(n) /\ status' = status
        /\ st' = FoldLeft(RawChar, Write(st, "raw", Data(n)), Data(n))
    BY <1>2 DEF RawChunk
  <2>2. Data(n) \in Seq(Chars) /\ pos' \in 0..Len(body)
    BY <2>1, ArrivedGrows
  <2>3. Write(st, "raw", Data(n)) \in S
    <3>1. "raw" \in RowKinds /\ st \in S
      BY DEF RowKinds, BodyInv
    <3> QED  BY <2>2, <3>1, WriteType
  <2>4. st' \in S
    <3>1. lines \in Nat
      BY DEF BodyInv
    <3> QED  BY <2>1, <2>2, <2>3, <3>1, RawType
  <2> QED  BY <2>1, <2>2, <2>4 DEF BodyInv, Read, Renders
<1>3. ASSUME NEW n \in 1..MaxChunk, HomeChunk(n) PROVE BodyInv'
  <2> DEFINE fed == FoldLeft(FeedChar, st, Data(n))
  <2>1. /\ how.sink = "home" /\ Read(n)
        /\ st' = IF fed.ok THEN fed ELSE nos_render_stream_flush(fed)
        /\ status' \in {"reading", "done"}
    BY <1>3 DEF HomeChunk, nos_render_stream_feed
  <2>2. Data(n) \in Seq(Chars) /\ pos' \in 0..Len(body)
    BY <2>1, ArrivedGrows
  <2>3. lines \in Nat /\ fed \in Pages(lines)
    <3>1. st \in Pages(lines) /\ lines \in Nat
      BY <2>1 DEF BodyInv, Renders
    <3> QED  BY <2>2, <3>1, FeedData
  <2> HIDE DEF fed
  <2>4. st' \in Pages(lines)
    BY <2>1, <2>3, FlushType
  <2>5. st' \in S
    BY <2>4, PagesAreStreams
  <2> QED  BY <2>1, <2>2, <2>4, <2>5 DEF BodyInv, Read, Renders
<1>4. ASSUME NEW n \in 1..MaxChunk, BufferChunk(n) PROVE BodyInv'
  <2> DEFINE kept == Write(st, "kept", Data(n))
  <2>1. /\ how.sink = "buffer" /\ Read(n)
        /\ \/ status' = "aborted" /\ st' = st
           \/ /\ st' = [kept EXCEPT !.total = (kept.total + n) % Word]
              /\ status' = status
    BY <1>4 DEF BufferChunk
  <2>2. Data(n) \in Seq(Chars) /\ pos' \in 0..Len(body)
    BY <2>1, ArrivedGrows
  <2>3. kept \in S
    <3>1. "kept" \in RowKinds /\ st \in S
      BY DEF RowKinds, BodyInv
    <3> QED  BY <2>2, <3>1, WriteType
  <2> DEFINE total == (kept.total + n) % Word
  <2>4. total \in Totals
    <3>1. kept.total \in Totals
      BY <2>3, StreamFields
    <3>2. Word \in Nat \ {0} /\ n \in Nat
      BY ConfigAssumption, BodyAssumption DEF ConfigAssumption, BodyAssumption
    <3> HIDE DEF kept
    <3> QED  BY <3>1, <3>2 DEF Totals
  <2> HIDE DEF kept, total
  <2>5. [kept EXCEPT !.total = total] \in S
    BY <2>3, <2>4, SetTotal, Zenon
  <2>6. st' \in S
    BY <2>1, <2>5 DEF BodyInv, total
  <2> QED  BY <2>1, <2>2, <2>6 DEF BodyInv, Read, Renders
<1>5. CASE Finish
  <2>1. st' \in S /\ (Renders => st' \in Pages(lines))
    <3>1. /\ st' = IF Renders THEN nos_render_stream_flush(st) ELSE st
          /\ lines \in Nat /\ st \in S /\ (Renders => st \in Pages(lines))
      BY <1>5 DEF Finish, BodyInv, Renders
    <3> QED  BY <3>1, FlushType, PagesAreStreams
  <2> QED  BY <1>5, <2>1 DEF Finish, BodyInv, Renders
<1>6. CASE UNCHANGED vars
  BY <1>6 DEF vars, BodyInv, Renders
<1> QED  BY <1>1, <1>2, <1>3, <1>4, <1>5, <1>6 DEF Next, Chunk

(* Every state of a body that is being read is well formed, and the rows   *)
(* of a page that is rendered fit (render.c:36-84, gemini.c:151-159).      *)
THEOREM BodyInvariant == Spec => []BodyInv
BY InitInv, StepInv, PTL DEF Spec

(* No buffer of the renderer is ever full beyond its size, whatever the    *)
(* body is and wherever it is cut (render.c:88-100 and 183-200).           *)
THEOREM BodyTypeCorrect == Spec => []BodyTypeOK
<1>1. BodyInv => BodyTypeOK
  <2> SUFFICES ASSUME BodyInv PROVE BodyTypeOK
    OBVIOUS
  <2>1. /\ st.line \in ShortTexts /\ st.links \in FewLinks
        /\ st.total \in Totals
    BY StreamFields DEF BodyInv
  <2> QED  BY <2>1 DEF BodyInv, BodyTypeOK, ShortTexts, FewLinks, Totals
<1> QED  BY <1>1, BodyInvariant, PTL

(* Whatever the body is, a row is wider than the screen only if it is      *)
(* preformatted or one word (render.c:66-81).                              *)
THEOREM RowsAlwaysFit == Spec => []RowsFit
<1>1. BodyInv => RowsFit
  <2> SUFFICES ASSUME BodyInv, Renders PROVE RowsFit
    BY DEF RowsFit
  <2>1. st.out \in Seq(FitRows)
    BY StreamFields DEF BodyInv, Pages
  <2>2. \A i \in DOMAIN st.out : RowFits(st.out[i])
    BY <2>1 DEF FitRows
  <2> QED  BY <2>2 DEF RowsFit, RowFits
<1> QED  BY <1>1, BodyInvariant, PTL

(* The renderer after a text that arrived in one piece.                    *)
Whole(lines, text) == FoldLeft(FeedChar, Fresh(lines), text)

(* What a text that arrives in one piece leaves is a page.                 *)
LEMMA WholeType ==
    ASSUME NEW lines \in Nat, NEW text \in Seq(Chars)
    PROVE  Whole(lines, text) \in Pages(lines)
BY FreshType, FeedData DEF Whole

(* An empty text leaves the renderer as it was.                            *)
LEMMA WholeOfNothing ==
    ASSUME NEW lines \in Nat
    PROVE  Whole(lines, <<>>) = Fresh(lines)
<1>1. <<>> \in Seq(Chars) /\ Len(<<>>) = 0
  OBVIOUS
<1>2. PICK f : /\ FeedRun(f, Pages(lines), Fresh(lines), <<>>)
               /\ f[Len(<<>>)] = FoldLeft(FeedChar, Fresh(lines), <<>>)
  BY <1>1, FreshType, FeedData
<1> QED  BY <1>1, <1>2 DEF FeedRun, Whole

(* A text in two pieces leaves what it leaves in one.                      *)
LEMMA WholeConcat ==
    ASSUME NEW lines \in Nat, NEW a \in Seq(Chars), NEW b \in Seq(Chars)
    PROVE  Whole(lines, a \o b) = FoldLeft(FeedChar, Whole(lines, a), b)
BY FreshType, FeedConcat DEF Whole

(* Nothing has arrived at the start.                                       *)
LEMMA CutsInit == Init => CutsDoNotMatter
<1> SUFFICES ASSUME Init PROVE CutsDoNotMatter
  OBVIOUS
<1>1. /\ how.page_lines \in Nat /\ body \in Seq(Chars)
      /\ pos = 0 /\ status = "reading" /\ st = Fresh(how.page_lines)
  BY InitInv DEF BodyInv, Init
<1>2. Arrived = <<>>
  BY <1>1 DEF Arrived
<1> QED  BY <1>1, <1>2, WholeOfNothing DEF CutsDoNotMatter, Whole

(* A chunk continues where the one before it has stopped.                  *)
LEMMA CutsStep == BodyInv /\ CutsDoNotMatter /\ [Next]_vars => CutsDoNotMatter'
<1> SUFFICES ASSUME BodyInv, CutsDoNotMatter, [Next]_vars
             PROVE  CutsDoNotMatter'
  OBVIOUS
<1> DEFINE lines == how.page_lines
<1>0. lines \in Nat
  BY DEF BodyInv
<1>1. ASSUME NEW n \in 1..MaxChunk, Read(n), Renders
      PROVE  /\ FoldLeft(FeedChar, st, Data(n)) = Whole(lines, Arrived')
             /\ how' = how
  <2>1. /\ Data(n) \in Seq(Chars) /\ Arrived \in Seq(Chars)
        /\ Arrived' = Arrived \o Data(n)
    BY <1>1, ArrivedGrows
  <2>2. st = Whole(lines, Arrived)
    BY <1>1 DEF CutsDoNotMatter, Whole, Read
  <2>3. how' = how
    BY <1>1 DEF Read
  <2> QED  BY <1>0, <2>1, <2>2, <2>3, WholeConcat
<1>2. ASSUME NEW n \in 1..MaxChunk, GemtextChunk(n) PROVE CutsDoNotMatter'
  <2>1. /\ Renders /\ Read(n) /\ status' # "done"
        /\ st' = FoldLeft(FeedChar, st, Data(n))
    BY <1>2 DEF GemtextChunk, nos_render_stream_feed, Renders
  <2> QED  BY <1>1, <2>1 DEF CutsDoNotMatter, Whole
<1>3. ASSUME NEW n \in 1..MaxChunk, HomeChunk(n) PROVE CutsDoNotMatter'
  <2> DEFINE fed == FoldLeft(FeedChar, st, Data(n))
  <2>1. /\ Renders /\ Read(n)
        /\ st' = IF fed.ok THEN fed ELSE nos_render_stream_flush(fed)
        /\ status' = IF fed.ok THEN "reading" ELSE "done"
    BY <1>3 DEF HomeChunk, nos_render_stream_feed, Renders
  <2>2. fed = Whole(lines, Arrived') /\ how' = how
    BY <1>1, <2>1
  <2> HIDE DEF fed
  <2>3. st' = IF status' = "done" THEN nos_render_stream_flush(fed) ELSE fed
    BY <2>1
  <2> QED  BY <2>2, <2>3 DEF CutsDoNotMatter, Whole
<1>4. ASSUME NEW n \in 1..MaxChunk, RawChunk(n) \/ BufferChunk(n)
      PROVE  CutsDoNotMatter'
  BY <1>4 DEF RawChunk, BufferChunk, Read, CutsDoNotMatter, Renders
<1>5. CASE Finish
  <2>1. ASSUME Renders PROVE CutsDoNotMatter'
    <3>1. /\ status = "reading" /\ status' = "done"
          /\ st' = nos_render_stream_flush(st)
          /\ UNCHANGED <<body, how, pos>>
      BY <1>5, <2>1 DEF Finish, Renders
    <3>2. st = Whole(lines, Arrived)
      BY <2>1, <3>1 DEF CutsDoNotMatter, Whole
    <3>3. Arrived' = Arrived
      BY <3>1 DEF Arrived
    <3> QED  BY <3>1, <3>2, <3>3 DEF CutsDoNotMatter, Whole
  <2>2. ASSUME ~Renders PROVE CutsDoNotMatter'
    BY <1>5, <2>2 DEF Finish, CutsDoNotMatter, Renders
  <2> QED  BY <2>1, <2>2
<1>6. CASE UNCHANGED vars
  BY <1>6 DEF vars, CutsDoNotMatter, Renders, Arrived
<1> QED  BY <1>2, <1>3, <1>4, <1>5, <1>6 DEF Next, Chunk

(* The page is a function of what has arrived: a body that the network     *)
(* delivers in other pieces leaves the same rows, links and pauses         *)
(* (render.c:183-218, main.c:76-120 and 143-150).                          *)
THEOREM CutsNeverMatter == Spec => []CutsDoNotMatter
BY CutsInit, CutsStep, BodyInvariant, PTL DEF Spec

(* FlattenSeq of no text, and of one.                                      *)
LEMMA FlattenNothing == FlattenSeq(<<>>) = <<>>
<1>1. Len(<<>>) = 0
  OBVIOUS
<1> QED  BY <1>1, Zenon DEF FlattenSeq

(* A sum that does not wrap.                                               *)
LEMMA SmallSum ==
    ASSUME NEW w \in Nat \ {0}, NEW a \in 0..(w - 1)
    PROVE  a % w = a
OBVIOUS

(* The length of two texts together.                                       *)
LEMMA ConcatLength ==
    ASSUME NEW S, NEW a \in Seq(S), NEW b \in Seq(S)
    PROVE  /\ a \o b \in Seq(S)
           /\ Len(a \o b) = Len(a) + Len(b)
OBVIOUS

(* One text is what it is.                                                 *)
LEMMA FlattenOne ==
    ASSUME NEW seqs, Len(seqs) = 1
    PROVE  FlattenSeq(seqs) = seqs[1]
<1> DEFINE eq(g) == [i \in 1..Len(seqs) |->
                        IF i = 1 THEN seqs[i] ELSE g[i - 1] \o seqs[i]]
           flatten == CHOOSE g : g = eq(g)
           one == [i \in 1..1 |-> seqs[i]]
<1>1. one = eq(one)
  OBVIOUS
<1>2. flatten = eq(flatten)
  <2> HIDE DEF one, eq
  <2> QED  BY <1>1
<1>3. flatten[1] = seqs[1]
  <2> HIDE DEF flatten
  <2> QED  BY <1>2
<1>4. FlattenSeq(seqs) = flatten[Len(seqs)]
  <2>1. Len(seqs) # 0
    OBVIOUS
  <2> QED  BY <2>1, Zenon DEF FlattenSeq
<1> HIDE DEF flatten
<1> QED  BY <1>3, <1>4

(* What nos_gemini_request has kept.                                       *)
Kept == IF st.out = <<>> THEN <<>> ELSE st.out[1].text

BufferInv ==
    how.sink = "buffer" =>
        /\ Len(st.out) \in {0, 1}
        /\ st.out # <<>> => st.out[1].of = "kept"
        /\ how.max + MaxChunk < Word =>
               /\ Len(Kept) = st.total /\ st.total <= how.max
               /\ status # "aborted" => Kept = Arrived
               /\ status = "aborted" => pos > how.max

(* Write appends to the one row that nos_gemini_request keeps.             *)
LEMMA KeptGrows ==
    ASSUME NEW lines, NEW s \in Streams(Rows, lines), NEW data \in Seq(Chars),
           Len(s.out) \in {0, 1}, s.out # <<>> => s.out[1].of = "kept"
    PROVE  LET t   == Write(s, "kept", data)
               had == IF s.out = <<>> THEN <<>> ELSE s.out[1].text
           IN  /\ Len(t.out) = 1 /\ t.out[1].of = "kept"
               /\ t.out[1].text = had \o data
               /\ t.total = s.total
<1>1. /\ s.out \in Seq(Rows)
      /\ DOMAIN s = {"line", "in_pre", "links", "lines_printed", "page_lines",
                     "out", "total", "ok"}
  BY DEF Streams
<1>2. CASE s.out = <<>>
  <2>1. Write(s, "kept", data) = [s EXCEPT !.out = <<Row("kept", 0, data)>>]
    BY <1>2 DEF Write, Put
  <2> QED  BY <1>1, <1>2, <2>1 DEF Row
<1>3. CASE s.out # <<>>
  <2>1. Len(s.out) = 1 /\ s.out[1] \in Rows
    <3>1. Len(s.out) # 0
      BY <1>1, <1>3
    <3>2. Len(s.out) = 1
      BY <3>1
    <3> QED  BY <1>1, <3>2
  <2> DEFINE out == [s.out EXCEPT ![1].text = @ \o data]
  <2>2. Write(s, "kept", data) = [s EXCEPT !.out = out]
    BY <1>3, <2>1 DEF Write, Last
  <2>3. /\ Len(out) = 1 /\ out[1].of = "kept"
        /\ out[1].text = s.out[1].text \o data
    BY <1>1, <1>3, <2>1 DEF Rows
  <2> HIDE DEF out
  <2> QED  BY <1>1, <1>3, <2>2, <2>3
<1> QED  BY <1>2, <1>3

(* A chunk that is kept is added to what is kept, and one that is refused  *)
(* leaves it alone.                                                        *)
LEMMA BufferStep == BodyInv /\ BufferInv /\ [Next]_vars => BufferInv'
<1> SUFFICES ASSUME BodyInv, BufferInv, [Next]_vars PROVE BufferInv'
  OBVIOUS
<1>1. ASSUME NEW n \in 1..MaxChunk, BufferChunk(n) PROVE BufferInv'
  <2> DEFINE kept == Write(st, "kept", Data(n))
  <2>1. /\ how.sink = "buffer" /\ Read(n) /\ status = "reading"
        /\ pos' = pos + n /\ how' = how
    BY <1>1 DEF BufferChunk, Read
  <2>2. /\ Data(n) \in Seq(Chars) /\ Len(Data(n)) = n
        /\ Arrived \in Seq(Chars) /\ Arrived' = Arrived \o Data(n)
    BY <2>1, ArrivedGrows
  <2>3. /\ Len(st.out) \in {0, 1} /\ (st.out # <<>> => st.out[1].of = "kept")
        /\ st \in Streams(Rows, how.page_lines)
    BY <2>1 DEF BufferInv, BodyInv
  <2>4. /\ Len(kept.out) = 1 /\ kept.out[1].of = "kept"
        /\ kept.out[1].text = Kept \o Data(n) /\ kept.total = st.total
    BY <2>2, <2>3, KeptGrows DEF Kept
  <2>5. /\ n \in Nat /\ how.max \in Nat /\ Word \in Nat \ {0}
        /\ MaxChunk \in Nat /\ n <= MaxChunk /\ pos \in Nat /\ st.total \in Nat
        /\ body \in Seq(Chars) /\ pos \in 0..Len(body)
    <3>1. st.total \in Totals
      BY <2>3, StreamFields
    <3> QED  BY <3>1, BodyAssumption, ConfigAssumption
             DEF BodyInv, BodyAssumption, ConfigAssumption, Totals
  <2>6. Len(Arrived) = pos
    BY <2>5 DEF Arrived
  <2> HIDE DEF kept
  <2>7. ASSUME how.max + MaxChunk < Word
        PROVE  /\ Len(Kept) = st.total /\ st.total <= how.max
               /\ Kept = Arrived /\ Total(n) = st.total + n
    <3>1. Len(Kept) = st.total /\ st.total <= how.max /\ Kept = Arrived
      BY <2>1, <2>7 DEF BufferInv
    <3>2. st.total + n \in 0..(Word - 1)
      BY <2>5, <2>7, <3>1
    <3>3. (st.total + n) % Word = st.total + n
      BY ONLY <2>5, <3>2, SmallSum
    <3> QED  BY <3>1, <3>3 DEF Total
  <2>8. CASE Total(n) > how.max
    <3>1. status' = "aborted" /\ st' = st /\ Kept' = Kept
      BY <1>1, <2>8 DEF BufferChunk, Kept
    <3> QED  BY <2>1, <2>3, <2>5, <2>6, <2>7, <2>8, <3>1 DEF BufferInv
  <2>9. CASE ~(Total(n) > how.max)
    <3> DEFINE total == (kept.total + n) % Word
    <3>1. status' = "reading" /\ st' = [kept EXCEPT !.total = total]
      BY <1>1, <2>1, <2>9 DEF BufferChunk, kept
    <3>2. total = Total(n)
      BY <2>4 DEF Total
    <3>3. kept \in Streams(Rows, how.page_lines)
      BY <2>2, <2>3, WriteType DEF kept, RowKinds
    <3> HIDE DEF total
    <3>4. st'.out = kept.out /\ st'.total = Total(n)
      BY <3>1, <3>2, <3>3 DEF Streams
    <3>5. Kept' = Kept \o Data(n)
      BY <2>4, <3>4 DEF Kept
    <3>6. ASSUME how.max + MaxChunk < Word
          PROVE  /\ Kept \o Data(n) = Arrived'
                 /\ Len(Kept \o Data(n)) = Total(n)
      <4>1. Kept \in Seq(Chars) /\ Len(Kept) = st.total
        BY <2>2, <2>7, <3>6
      <4>2. Len(Kept \o Data(n)) = Len(Kept) + Len(Data(n))
        BY <2>2, <4>1, ConcatLength, Zenon
      <4>3. Len(Kept \o Data(n)) = st.total + n
        BY <2>2, <4>1, <4>2
      <4> QED  BY <2>2, <2>7, <3>6, <4>3
    <3>7. ASSUME how.max + MaxChunk < Word PROVE Total(n) <= how.max
      <4>1. Total(n) \in Nat
        BY <2>5, <2>7, <3>7
      <4> QED  BY <2>5, <2>9, <4>1
    <3>8. /\ Len(st'.out) = 1 /\ st'.out[1].of = "kept"
          /\ status' # "aborted"
      BY <2>4, <3>1, <3>4
    <3> QED  BY <2>1, <3>4, <3>5, <3>6, <3>7, <3>8 DEF BufferInv
  <2> QED  BY <2>8, <2>9
<1>2. ASSUME NEW n \in 1..MaxChunk,
             GemtextChunk(n) \/ RawChunk(n) \/ HomeChunk(n)
      PROVE  BufferInv'
  BY <1>2 DEF GemtextChunk, RawChunk, HomeChunk, Read, BufferInv
<1>3. CASE Finish
  <2>1. how.sink = "buffer" => /\ st' = st /\ status # "aborted"
                               /\ status' # "aborted"
    BY <1>3 DEF Finish
  <2> QED  BY <1>3, <2>1 DEF Finish, BufferInv, Kept, Arrived
<1>4. CASE UNCHANGED vars
  BY <1>4 DEF vars, BufferInv, Kept, Arrived
<1> QED  BY <1>1, <1>2, <1>3, <1>4 DEF Next, Chunk

(* nos_gemini_request keeps exactly what arrived, never more than the      *)
(* buffer holds, and refuses a body only if it does not fit, wherever the  *)
(* sum cannot wrap (gemini.c:151-159).                                     *)
THEOREM BufferIsBody == Spec => []BufferKeepsBody
<1>1. Init => BufferInv
  <2> SUFFICES ASSUME Init, how.sink = "buffer" PROVE BufferInv
    BY DEF BufferInv
  <2>1. /\ st.out = <<>> /\ st.total = 0 /\ pos = 0 /\ status = "reading"
        /\ how.max \in Nat
    BY InitInv, BodyAssumption, ConfigAssumption
    DEF Init, Fresh, BodyInv, BodyAssumption, ConfigAssumption
  <2>2. Kept = <<>> /\ Arrived = <<>>
    BY <2>1, InitInv DEF Kept, Arrived, BodyInv
  <2> QED  BY <2>1, <2>2 DEF BufferInv
<1>2. BodyInv /\ BufferInv => BufferKeepsBody
  <2> SUFFICES ASSUME BodyInv, BufferInv, how.sink = "buffer",
                      how.max + MaxChunk < Word
               PROVE  BufferKeepsBody
    BY DEF BufferKeepsBody
  <2> DEFINE texts == [i \in DOMAIN st.out |-> st.out[i].text]
  <2>1. FlattenSeq(texts) = Kept
    <3>1. st.out \in Seq(Rows) /\ Len(st.out) \in {0, 1}
      BY StreamFields DEF BodyInv, BufferInv
    <3>2. CASE st.out = <<>>
      <4>1. texts = <<>>
        BY <3>2
      <4> QED  BY <3>2, <4>1, FlattenNothing DEF Kept
    <3>3. CASE st.out # <<>>
      <4>1. Len(texts) = 1 /\ texts[1] = Kept
        BY <3>1, <3>3 DEF Kept
      <4> HIDE DEF texts
      <4> QED  BY <4>1, FlattenOne
    <3> QED  BY <3>2, <3>3
  <2> HIDE DEF texts
  <2> QED  BY <2>1, Zenon DEF BufferKeepsBody, BufferInv, texts
<1> QED  BY <1>1, <1>2, BufferStep, BodyInvariant, PTL DEF Spec
=============================================================================
