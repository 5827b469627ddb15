------------------------- MODULE PageContentProofs -------------------------
(***************************************************************************)
(* What a page shows is what its body means, for every body, every cut of  *)
(* it into chunks, every configuration and every size of the buffers.      *)
(*                                                                         *)
(* Image says of a page that it is what some lines mean: the block they    *)
(* end in, their links, their text and their number.  A line that ends     *)
(* adds its part to each of them (ImageStep).  Match says it of the lines  *)
(* that have ended and adds the one in progress; it goes through the text  *)
(* character by character (MatchChar, WholeMatch).  The cuts between the   *)
(* chunks are gone before that: CutsNeverMatter has made one text of them. *)
(***************************************************************************)
EXTENDS PageBodyProofs, FiniteSetTheorems

(* The characters of a text that are not blank.                            *)
DenseFold(b, seq) == FoldLeft(AddDense, b, seq)

DenseRun(f, C, b, seq) ==
    /\ f \in [0..Len(seq) -> C]
    /\ f[0] = b
    /\ \A k \in 1..Len(seq) : f[k] = AddDense(f[k - 1], seq[k])

(* FoldLeft with AddDense goes through the states of a run.                *)
LEMMA DenseLoop ==
    ASSUME NEW C, NEW A, NEW b \in C, NEW seq \in Seq(A),
           \A c \in C, k \in 1..Len(seq) : AddDense(c, seq[k]) \in C
    PROVE  \E f : /\ DenseRun(f, C, b, seq)
                  /\ f[Len(seq)] = DenseFold(b, seq)
<1> DEFINE n == Len(seq)
           step == [k \in 1..n |-> [c \in C |-> AddDense(c, seq[k])]]
           eq(g) == [s \in SUBSET (1..n) |->
                       IF s = {} THEN b
                       ELSE AddDense(g[s \ {Max(s)}], seq[Max(s)])]
           iter == CHOOSE g : g = eq(g)
<1>0. b \in C
  OBVIOUS
<1>1. n \in Nat /\ DOMAIN seq = 1..n
  OBVIOUS
<1>2. step \in [1..n -> [C -> C]]
  OBVIOUS
<1> HIDE DEF n
<1>3. PICK g : IsIter(g, n, C, b, step)
  BY <1>1, <1>2, IterExists
<1>4. \A s \in SUBSET (1..n) :
          s # {} => Max(s) \in 1..n /\ s \ {Max(s)} \in SUBSET (1..n)
  BY <1>1, MaxIsUpper
<1>5. g = eq(g)
  <2>1. g \in [SUBSET (1..n) -> C] /\ g[{}] = b
    BY <1>3 DEF IsIter
  <2>2. ASSUME NEW s \in SUBSET (1..n), s # {}
        PROVE  g[s] = AddDense(g[s \ {Max(s)}], seq[Max(s)])
    BY <1>3, <1>4, <2>2 DEF IsIter
  <2> QED  BY <2>1, <2>2
<1>6. iter = eq(iter)
  <2> HIDE DEF eq
  <2> QED  BY <1>5
<1>7. DenseFold(b, seq) = iter[1..n]
  BY <1>1, Zenon DEF DenseFold, FoldLeft, MapThenFoldSet
<1> HIDE DEF iter
<1>8. iter[{}] = b
  BY <1>6
<1>9. ASSUME NEW s \in SUBSET (1..n), s # {}, iter[s \ {Max(s)}] \in C
      PROVE  iter[s] = step[Max(s)][iter[s \ {Max(s)}]]
  BY <1>4, <1>6, <1>9
<1>10. Unfolds(iter, n, C, b, step)
  BY <1>8, <1>9 DEF Unfolds
<1>11. PICK f : IsLoop(f, n, C, b, step) /\ f[n] = iter[1..n]
  <2> HIDE DEF step
  <2> QED  BY ONLY <1>0, <1>1, <1>2, <1>10, IterLoop
<1>12. ASSUME NEW k \in 1..n PROVE f[k] = AddDense(f[k - 1], seq[k])
  <2>1. k - 1 \in 0..n
    BY <1>1
  <2>2. f[k - 1] \in C /\ f[k] = step[k][f[k - 1]]
    BY <1>11, <2>1 DEF IsLoop
  <2> QED  BY <2>2
<1>13. f \in [0..n -> C] /\ f[0] = b /\ f[n] = DenseFold(b, seq)
  BY <1>7, <1>11 DEF IsLoop
<1> QED  BY <1>12, <1>13 DEF n, DenseRun

(* Two texts, one after the other.                                         *)
LEMMA DenseConcat ==
    ASSUME NEW C, NEW A, NEW b \in C, NEW x \in Seq(A), NEW y \in Seq(A),
           \A c \in C, a \in A : AddDense(c, a) \in C
    PROVE  /\ DenseFold(b, x) \in C
           /\ DenseFold(b, x \o y)
                  = DenseFold(DenseFold(b, x), y)
<1> DEFINE m == Len(x)
           n == Len(y)
           xy == x \o y
           t == DenseFold(b, x)
<1>1. /\ m \in Nat /\ n \in Nat /\ xy \in Seq(A) /\ Len(xy) = m + n
      /\ \A k \in 1..m : xy[k] = x[k]
      /\ \A k \in 1..n : xy[m + k] = y[k]
  OBVIOUS
<1> HIDE DEF xy
<1>2. /\ \A c \in C, k \in 1..Len(x) : AddDense(c, x[k]) \in C
      /\ \A c \in C, k \in 1..Len(y) : AddDense(c, y[k]) \in C
      /\ \A c \in C, k \in 1..Len(xy) : AddDense(c, xy[k]) \in C
  BY <1>1
<1>3. PICK f : DenseRun(f, C, b, x) /\ f[Len(x)] = t
  BY <1>2, DenseLoop
<1> HIDE DEF t
<1>4. t \in C
  <2>1. f \in [0..Len(x) -> C] /\ Len(x) \in 0..Len(x)
    BY <1>3 DEF DenseRun
  <2> QED  BY <1>3, <2>1
<1>5. PICK g : DenseRun(g, C, t, y) /\ g[Len(y)] = DenseFold(t, y)
  BY <1>2, <1>4, DenseLoop
<1>6. PICK h : DenseRun(h, C, b, xy) /\ h[Len(xy)] = DenseFold(b, xy)
  BY <1>1, <1>2, DenseLoop
<1> HIDE DEF m, n
<1>7. /\ f[0] = b /\ g[0] = t /\ h[0] = b /\ f[m] = t
      /\ \A k \in 1..m : f[k] = AddDense(f[k - 1], x[k])
      /\ \A k \in 1..n : g[k] = AddDense(g[k - 1], y[k])
      /\ \A k \in 1..(m + n) : h[k] = AddDense(h[k - 1], xy[k])
  BY <1>1, <1>3, <1>5, <1>6 DEF DenseRun, m, n
<1> DEFINE Y == {k \in 0..m : h[k] = f[k]}
           Z == {k \in 0..n : h[m + k] = g[k]}
<1>8. \A k \in 0..m : k \in Y
  <2>1. 0 \in Y
    BY <1>1, <1>7
  <2>2. ASSUME NEW k \in 1..m, k - 1 \in Y PROVE k \in Y
    <3>1. k \in 1..(m + n) /\ k \in 0..m
      BY <1>1
    <3> QED  BY <1>1, <1>7, <2>2, <3>1
  <2> HIDE DEF Y
  <2> QED  BY <1>1, <2>1, <2>2, LoopInduction
<1>9. h[m] = t
  <2>1. m \in 0..m
    BY <1>1
  <2> QED  BY <1>7, <1>8, <2>1
<1>10. \A k \in 0..n : k \in Z
  <2>1. 0 \in Z
    BY <1>1, <1>9, <1>7
  <2>2. ASSUME NEW k \in 1..n, k - 1 \in Z PROVE k \in Z
    <3>1. /\ m + k \in 1..(m + n) /\ k \in 0..n /\ (m + k) - 1 = m + (k - 1)
      BY <1>1
    <3>2. h[m + k] = AddDense(h[m + (k - 1)], xy[m + k])
      BY <1>7, <3>1
    <3> QED  BY <1>1, <1>7, <2>2, <3>1, <3>2
  <2> HIDE DEF Z
  <2> QED  BY <1>1, <2>1, <2>2, LoopInduction
<1>11. h[m + n] = g[n]
  <2>1. n \in 0..n
    BY <1>1
  <2> QED  BY <1>10, <2>1
<1> QED  BY <1>1, <1>4, <1>5, <1>6, <1>11 DEF xy, t, n

(* No text, and one character.                                             *)
LEMMA DenseEnds ==
    ASSUME NEW C, NEW A, NEW b \in C,
           \A c \in C, a \in A : AddDense(c, a) \in C
    PROVE  /\ DenseFold(b, <<>>) = b
           /\ \A a \in A : DenseFold(b, <<a>>) = AddDense(b, a)
<1>1. DenseFold(b, <<>>) = b
  <2> DEFINE s == <<>>
  <2>1. s \in Seq(A) /\ Len(s) = 0
    OBVIOUS
  <2> HIDE DEF s
  <2>2. \A c \in C, k \in 1..Len(s) : AddDense(c, s[k]) \in C
    BY <2>1
  <2>3. PICK f : DenseRun(f, C, b, s) /\ f[Len(s)] = DenseFold(b, s)
    BY <2>1, <2>2, DenseLoop
  <2> QED  BY <2>1, <2>3 DEF DenseRun, s
<1>2. ASSUME NEW a \in A PROVE DenseFold(b, <<a>>) = AddDense(b, a)
  <2> DEFINE s == <<a>>
  <2>1. s \in Seq(A) /\ Len(s) = 1 /\ s[1] = a
    OBVIOUS
  <2> HIDE DEF s
  <2>2. \A c \in C, k \in 1..Len(s) : AddDense(c, s[k]) \in C
    BY <2>1
  <2>3. PICK f : DenseRun(f, C, b, s) /\ f[Len(s)] = DenseFold(b, s)
    BY <2>1, <2>2, DenseLoop
  <2>4. 1 \in 1..Len(s) /\ 1 - 1 = 0
    BY <2>1
  <2>5. f[0] = b /\ f[1] = AddDense(f[0], s[1])
    BY <2>3, <2>4 DEF DenseRun
  <2> QED  BY <2>1, <2>3, <2>5 DEF s
<1> QED  BY <1>1, <1>2

(* The characters of texts that are not blank.                             *)
TextFold(b, seq) == FoldLeft(AddText, b, seq)

TextRun(f, C, b, seq) ==
    /\ f \in [0..Len(seq) -> C]
    /\ f[0] = b
    /\ \A k \in 1..Len(seq) : f[k] = AddText(f[k - 1], seq[k])

(* FoldLeft with AddText goes through the states of a run.                 *)
LEMMA TextLoop ==
    ASSUME NEW C, NEW A, NEW b \in C, NEW seq \in Seq(A),
           \A c \in C, k \in 1..Len(seq) : AddText(c, seq[k]) \in C
    PROVE  \E f : /\ TextRun(f, C, b, seq)
                  /\ f[Len(seq)] = TextFold(b, seq)
<1> DEFINE n == Len(seq)
           step == [k \in 1..n |-> [c \in C |-> AddText(c, seq[k])]]
           eq(g) == [s \in SUBSET (1..n) |->
                       IF s = {} THEN b
                       ELSE AddText(g[s \ {Max(s)}], seq[Max(s)])]
           iter == CHOOSE g : g = eq(g)
<1>0. b \in C
  OBVIOUS
<1>1. n \in Nat /\ DOMAIN seq = 1..n
  OBVIOUS
<1>2. step \in [1..n -> [C -> C]]
  OBVIOUS
<1> HIDE DEF n
<1>3. PICK g : IsIter(g, n, C, b, step)
  BY <1>1, <1>2, IterExists
<1>4. \A s \in SUBSET (1..n) :
          s # {} => Max(s) \in 1..n /\ s \ {Max(s)} \in SUBSET (1..n)
  BY <1>1, MaxIsUpper
<1>5. g = eq(g)
  <2>1. g \in [SUBSET (1..n) -> C] /\ g[{}] = b
    BY <1>3 DEF IsIter
  <2>2. ASSUME NEW s \in SUBSET (1..n), s # {}
        PROVE  g[s] = AddText(g[s \ {Max(s)}], seq[Max(s)])
    BY <1>3, <1>4, <2>2 DEF IsIter
  <2> QED  BY <2>1, <2>2
<1>6. iter = eq(iter)
  <2> HIDE DEF eq
  <2> QED  BY <1>5
<1>7. TextFold(b, seq) = iter[1..n]
  BY <1>1, Zenon DEF TextFold, FoldLeft, MapThenFoldSet
<1> HIDE DEF iter
<1>8. iter[{}] = b
  BY <1>6
<1>9. ASSUME NEW s \in SUBSET (1..n), s # {}, iter[s \ {Max(s)}] \in C
      PROVE  iter[s] = step[Max(s)][iter[s \ {Max(s)}]]
  BY <1>4, <1>6, <1>9
<1>10. Unfolds(iter, n, C, b, step)
  BY <1>8, <1>9 DEF Unfolds
<1>11. PICK f : IsLoop(f, n, C, b, step) /\ f[n] = iter[1..n]
  <2> HIDE DEF step
  <2> QED  BY ONLY <1>0, <1>1, <1>2, <1>10, IterLoop
<1>12. ASSUME NEW k \in 1..n PROVE f[k] = AddText(f[k - 1], seq[k])
  <2>1. k - 1 \in 0..n
    BY <1>1
  <2>2. f[k - 1] \in C /\ f[k] = step[k][f[k - 1]]
    BY <1>11, <2>1 DEF IsLoop
  <2> QED  BY <2>2
<1>13. f \in [0..n -> C] /\ f[0] = b /\ f[n] = TextFold(b, seq)
  BY <1>7, <1>11 DEF IsLoop
<1> QED  BY <1>12, <1>13 DEF n, TextRun

(* Two lists of texts, one after the other.                                *)
LEMMA TextConcat ==
    ASSUME NEW C, NEW A, NEW b \in C, NEW x \in Seq(A), NEW y \in Seq(A),
           \A c \in C, a \in A : AddText(c, a) \in C
    PROVE  /\ TextFold(b, x) \in C
           /\ TextFold(b, x \o y)
                  = TextFold(TextFold(b, x), y)
<1> DEFINE m == Len(x)
           n == Len(y)
           xy == x \o y
           t == TextFold(b, x)
<1>1. /\ m \in Nat /\ n \in Nat /\ xy \in Seq(A) /\ Len(xy) = m + n
      /\ \A k \in 1..m : xy[k] = x[k]
      /\ \A k \in 1..n : xy[m + k] = y[k]
  OBVIOUS
<1> HIDE DEF xy
<1>2. /\ \A c \in C, k \in 1..Len(x) : AddText(c, x[k]) \in C
      /\ \A c \in C, k \in 1..Len(y) : AddText(c, y[k]) \in C
      /\ \A c \in C, k \in 1..Len(xy) : AddText(c, xy[k]) \in C
  BY <1>1
<1>3. PICK f : TextRun(f, C, b, x) /\ f[Len(x)] = t
  BY <1>2, TextLoop
<1> HIDE DEF t
<1>4. t \in C
  <2>1. f \in [0..Len(x) -> C] /\ Len(x) \in 0..Len(x)
    BY <1>3 DEF TextRun
  <2> QED  BY <1>3, <2>1
<1>5. PICK g : TextRun(g, C, t, y) /\ g[Len(y)] = TextFold(t, y)
  BY <1>2, <1>4, TextLoop
<1>6. PICK h : TextRun(h, C, b, xy) /\ h[Len(xy)] = TextFold(b, xy)
  BY <1>1, <1>2, TextLoop
<1> HIDE DEF m, n
<1>7. /\ f[0] = b /\ g[0] = t /\ h[0] = b /\ f[m] = t
      /\ \A k \in 1..m : f[k] = AddText(f[k - 1], x[k])
      /\ \A k \in 1..n : g[k] = AddText(g[k - 1], y[k])
      /\ \A k \in 1..(m + n) : h[k] = AddText(h[k - 1], xy[k])
  BY <1>1, <1>3, <1>5, <1>6 DEF TextRun, m, n
<1> DEFINE Y == {k \in 0..m : h[k] = f[k]}
           Z == {k \in 0..n : h[m + k] = g[k]}
<1>8. \A k \in 0..m : k \in Y
  <2>1. 0 \in Y
    BY <1>1, <1>7
  <2>2. ASSUME NEW k \in 1..m, k - 1 \in Y PROVE k \in Y
    <3>1. k \in 1..(m + n) /\ k \in 0..m
      BY <1>1
    <3> QED  BY <1>1, <1>7, <2>2, <3>1
  <2> HIDE DEF Y
  <2> QED  BY <1>1, <2>1, <2>2, LoopInduction
<1>9. h[m] = t
  <2>1. m \in 0..m
    BY <1>1
  <2> QED  BY <1>7, <1>8, <2>1
<1>10. \A k \in 0..n : k \in Z
  <2>1. 0 \in Z
    BY <1>1, <1>9, <1>7
  <2>2. ASSUME NEW k \in 1..n, k - 1 \in Z PROVE k \in Z
    <3>1. /\ m + k \in 1..(m + n) /\ k \in 0..n /\ (m + k) - 1 = m + (k - 1)
      BY <1>1
    <3>2. h[m + k] = AddText(h[m + (k - 1)], xy[m + k])
      BY <1>7, <3>1
    <3> QED  BY <1>1, <1>7, <2>2, <3>1, <3>2
  <2> HIDE DEF Z
  <2> QED  BY <1>1, <2>1, <2>2, LoopInduction
<1>11. h[m + n] = g[n]
  <2>1. n \in 0..n
    BY <1>1
  <2> QED  BY <1>10, <2>1
<1> QED  BY <1>1, <1>4, <1>5, <1>6, <1>11 DEF xy, t, n

(* No texts, and one.                                                      *)
LEMMA TextEnds ==
    ASSUME NEW C, NEW A, NEW b \in C,
           \A c \in C, a \in A : AddText(c, a) \in C
    PROVE  /\ TextFold(b, <<>>) = b
           /\ \A a \in A : TextFold(b, <<a>>) = AddText(b, a)
<1>1. TextFold(b, <<>>) = b
  <2> DEFINE s == <<>>
  <2>1. s \in Seq(A) /\ Len(s) = 0
    OBVIOUS
  <2> HIDE DEF s
  <2>2. \A c \in C, k \in 1..Len(s) : AddText(c, s[k]) \in C
    BY <2>1
  <2>3. PICK f : TextRun(f, C, b, s) /\ f[Len(s)] = TextFold(b, s)
    BY <2>1, <2>2, TextLoop
  <2> QED  BY <2>1, <2>3 DEF TextRun, s
<1>2. ASSUME NEW a \in A PROVE TextFold(b, <<a>>) = AddText(b, a)
  <2> DEFINE s == <<a>>
  <2>1. s \in Seq(A) /\ Len(s) = 1 /\ s[1] = a
    OBVIOUS
  <2> HIDE DEF s
  <2>2. \A c \in C, k \in 1..Len(s) : AddText(c, s[k]) \in C
    BY <2>1
  <2>3. PICK f : TextRun(f, C, b, s) /\ f[Len(s)] = TextFold(b, s)
    BY <2>1, <2>2, TextLoop
  <2>4. 1 \in 1..Len(s) /\ 1 - 1 = 0
    BY <2>1
  <2>5. f[0] = b /\ f[1] = AddText(f[0], s[1])
    BY <2>3, <2>4 DEF TextRun
  <2> QED  BY <2>1, <2>3, <2>5 DEF s
<1> QED  BY <1>1, <1>2

(* Texts put together.                                                     *)
LEMMA JoinAssoc ==
    ASSUME NEW A, NEW x \in Seq(A), NEW y \in Seq(A), NEW z \in Seq(A)
    PROVE  (x \o y) \o z = x \o (y \o z)
OBVIOUS

(* One element more at the end of the second.                              *)
LEMMA JoinAppend ==
    ASSUME NEW A, NEW x \in Seq(A), NEW y \in Seq(A), NEW a \in A
    PROVE  x \o Append(y, a) = Append(x \o y, a)
OBVIOUS

(* Where the elements of both are.                                         *)
LEMMA JoinElements ==
    ASSUME NEW A, NEW x \in Seq(A), NEW y \in Seq(A)
    PROVE  \A i \in 1..(Len(x) + Len(y)) :
               (x \o y)[i] = IF i <= Len(x) THEN x[i] ELSE y[i - Len(x)]
OBVIOUS

(* Sequences with the same elements are the same.                          *)
LEMMA SameText ==
    ASSUME NEW A, NEW x \in Seq(A), NEW y \in Seq(A), Len(x) = Len(y),
           \A i \in 1..Len(x) : x[i] = y[i]
    PROVE  x = y
OBVIOUS

(* A character more is in the text that is left, or is blank.              *)
LEMMA DenseStep ==
    ASSUME NEW A, NEW c \in Solid(A), NEW a \in A
    PROVE  AddDense(c, a) \in Solid(A)
BY DEF AddDense, Solid

(* What is left of a text has no blanks in it.                             *)
LEMMA DenseType ==
    ASSUME NEW A, NEW text \in Seq(A)
    PROVE  Dense(text) \in Solid(A)
<1>1. <<>> \in Solid(A) /\ text \o <<>> = text
  BY DEF Solid
<1>2. \A c \in Solid(A), a \in A : AddDense(c, a) \in Solid(A)
  BY DenseStep
<1> QED  BY <1>1, <1>2, DenseConcat DEF Dense, DenseFold

(* What is left of nothing and of one character.                           *)
LEMMA DenseEdges ==
    ASSUME NEW A
    PROVE  /\ Dense(<<>>) = <<>>
           /\ \A a \in A : Dense(<<a>>) = IF a \in Blank THEN <<>> ELSE <<a>>
<1>1. <<>> \in Solid(A)
  BY DEF Solid
<1>2. \A c \in Solid(A), a \in A : AddDense(c, a) \in Solid(A)
  BY DenseStep
<1>3. \A a \in A : AddDense(<<>>, a) = IF a \in Blank THEN <<>> ELSE <<a>>
  BY DEF AddDense
<1>4. /\ DenseFold(<<>>, <<>>) = <<>>
      /\ \A a \in A : DenseFold(<<>>, <<a>>) = AddDense(<<>>, a)
  <2> DEFINE C == Solid(A)
  <2>1. <<>> \in C /\ \A c \in C, a \in A : AddDense(c, a) \in C
    BY <1>1, <1>2
  <2> HIDE DEF C
  <2> QED  BY <2>1, DenseEnds
<1> QED  BY <1>3, <1>4, Zenon DEF Dense, DenseFold

(* What is left of a text is added to what is there.                       *)
LEMMA DenseFrom ==
    ASSUME NEW A, NEW s \in Solid(A), NEW text \in Seq(A)
    PROVE  DenseFold(s, text) = s \o Dense(text)
<1> DEFINE C == Solid(A)
           n == Len(text)
<1>1. <<>> \in C /\ n \in Nat /\ n \in 0..n
  BY DEF Solid
<1>2. \A c \in C, k \in 1..Len(text) : AddDense(c, text[k]) \in C
  BY DenseStep
<1>3. s \in Seq(A \ Blank)
  BY DEF Solid
<1> HIDE DEF C
<1>4. PICK f : /\ DenseRun(f, C, s, text)
               /\ f[Len(text)] = DenseFold(s, text)
  <2>1. s \in C
    BY DEF C
  <2> QED  BY <1>2, <2>1, DenseLoop
<1>5. PICK g : /\ DenseRun(g, C, <<>>, text)
               /\ g[Len(text)] = DenseFold(<<>>, text)
  BY <1>1, <1>2, DenseLoop
<1> HIDE DEF n
<1>6. /\ f[0] = s /\ g[0] = <<>> /\ g \in [0..n -> C]
      /\ \A k \in 1..n : f[k] = AddDense(f[k - 1], text[k])
      /\ \A k \in 1..n : g[k] = AddDense(g[k - 1], text[k])
  BY <1>4, <1>5 DEF DenseRun, n
<1> DEFINE Z == {k \in 0..n : f[k] = s \o g[k]}
<1>7. 0 \in Z
  BY <1>1, <1>3, <1>6
<1>8. ASSUME NEW k \in 1..n, k - 1 \in Z PROVE k \in Z
  <2>1. k \in 0..n /\ k - 1 \in 0..n
    BY <1>1
  <2>2. g[k - 1] \in Seq(A \ Blank) /\ f[k - 1] = s \o g[k - 1]
    BY <1>6, <1>8, <2>1 DEF C, Solid
  <2>3. CASE text[k] \in Blank
    BY <1>6, <2>1, <2>2, <2>3 DEF AddDense
  <2>4. CASE text[k] \notin Blank
    <3>1. text[k] \in A \ Blank
      BY <1>1, <2>4 DEF n
    <3> DEFINE u == g[k - 1]
               a == text[k]
    <3>2. s \o Append(u, a) = Append(s \o u, a)
      <4>1. s \in Seq(A \ Blank) /\ u \in Seq(A \ Blank) /\ a \in A \ Blank
        BY <1>3, <2>2, <3>1
      <4> HIDE DEF u, a
      <4> QED  BY ONLY <4>1, JoinAppend
    <3>3. /\ f[k] = Append(f[k - 1], text[k])
          /\ g[k] = Append(g[k - 1], text[k])
      BY <1>6, <2>4 DEF AddDense
    <3> QED  BY <2>1, <2>2, <3>2, <3>3
  <2> QED  BY <2>3, <2>4
<1>9. \A k \in 0..n : k \in Z
  <2> HIDE DEF Z
  <2> QED  BY <1>1, <1>7, <1>8, LoopInduction
<1>10. f[n] = s \o g[n]
  BY <1>1, <1>9
<1> QED  BY <1>4, <1>5, <1>10 DEF Dense, DenseFold, n

(* What is left of two texts together.                                     *)
LEMMA DenseJoin ==
    ASSUME NEW A, NEW x \in Seq(A), NEW y \in Seq(A)
    PROVE  Dense(x \o y) = Dense(x) \o Dense(y)
<1>1. <<>> \in Solid(A) /\ Dense(x) \in Solid(A)
  BY DenseType DEF Solid
<1>2. \A c \in Solid(A), a \in A : AddDense(c, a) \in Solid(A)
  BY DenseStep
<1>3. Dense(x \o y) = DenseFold(Dense(x), y)
  <2>1. DenseFold(<<>>, x \o y) = DenseFold(DenseFold(<<>>, x), y)
    BY <1>1, <1>2, DenseConcat
  <2> QED  BY <2>1, Zenon DEF Dense, DenseFold
<1> QED  BY <1>1, <1>3, DenseFrom

(* A word is all there is of it.                                           *)
LEMMA SolidDense ==
    ASSUME NEW A, NEW word \in Solid(A)
    PROVE  Dense(word) = word
<1> DEFINE B == A \ Blank
           n == Len(word)
           C == Seq(B)
<1>1. word \in Seq(B) /\ n \in Nat /\ n \in 0..n /\ <<>> \in C
  BY DEF Solid
<1>2. \A c \in C, k \in 1..Len(word) : AddDense(c, word[k]) \in C
  BY <1>1 DEF AddDense
<1> HIDE DEF B, C
<1>3. PICK g : /\ DenseRun(g, C, <<>>, word)
               /\ g[Len(word)] = DenseFold(<<>>, word)
  BY <1>1, <1>2, DenseLoop
<1> HIDE DEF n
<1>4. /\ g[0] = <<>>
      /\ \A k \in 1..n : g[k] = AddDense(g[k - 1], word[k])
  BY <1>3 DEF DenseRun, n
<1> DEFINE Z == {k \in 0..n : g[k] = SubSeq(word, 1, k)}
<1>5. 0 \in Z
  <2>1. SubSeq(word, 1, 0) = <<>> /\ 0 \in 0..n
    BY <1>1
  <2> QED  BY <1>4, <2>1
<1>6. ASSUME NEW k \in 1..n, k - 1 \in Z PROVE k \in Z
  <2>1. k \in 0..n /\ word[k] \in B /\ word[k] \notin Blank
    BY <1>1 DEF n, B
  <2>2. g[k] = Append(SubSeq(word, 1, k - 1), word[k])
    BY <1>4, <1>6, <2>1 DEF AddDense
  <2>3. Append(SubSeq(word, 1, k - 1), word[k]) = SubSeq(word, 1, k)
    BY <1>1, <2>1 DEF n
  <2> QED  BY <2>1, <2>2, <2>3
<1>7. \A k \in 0..n : k \in Z
  <2> HIDE DEF Z
  <2> QED  BY <1>1, <1>5, <1>6, LoopInduction
<1>8. g[n] = SubSeq(word, 1, n)
  BY <1>1, <1>7
<1>9. SubSeq(word, 1, n) = word
  BY <1>1 DEF n
<1> QED  BY <1>3, <1>8, <1>9 DEF Dense, DenseFold, n

(* Texts one after the other.                                              *)
LEMMA TextStep ==
    ASSUME NEW A, NEW c \in Solid(A), NEW text \in Seq(A)
    PROVE  AddText(c, text) \in Solid(A)
<1>1. Dense(text) \in Solid(A)
  BY DenseType
<1> QED  BY <1>1 DEF AddText, Solid

(* What is left of texts has no blanks in it.                              *)
LEMMA AllDenseType ==
    ASSUME NEW A, NEW texts \in Seq(Seq(A))
    PROVE  AllDense(texts) \in Solid(A)
<1>1. <<>> \in Solid(A) /\ <<>> \in Seq(Seq(A))
  BY DEF Solid
<1>2. \A c \in Solid(A), a \in Seq(A) : AddText(c, a) \in Solid(A)
  BY TextStep
<1>3. TextFold(<<>>, texts) \in Solid(A)
  BY <1>1, <1>2, TextConcat
<1> QED  BY <1>3, Zenon DEF AllDense, TextFold

(* One text more.                                                          *)
LEMMA AllDenseAppend ==
    ASSUME NEW A, NEW texts \in Seq(Seq(A)), NEW text \in Seq(A)
    PROVE  AllDense(Append(texts, text)) = AllDense(texts) \o Dense(text)
<1> DEFINE C == Solid(A)
           B == Seq(A)
           d == TextFold(<<>>, texts)
           one == <<text>>
<1>1. <<>> \in C
  BY DEF Solid
<1>2. \A c \in C, a \in B : AddText(c, a) \in C
  BY TextStep
<1>3. texts \in Seq(B) /\ text \in B /\ one \in Seq(B)
      /\ Append(texts, text) = texts \o one
  OBVIOUS
<1> HIDE DEF B, C
<1>4. d \in C /\ TextFold(<<>>, texts \o one) = TextFold(d, one)
  <2> HIDE DEF one
  <2> QED  BY <1>1, <1>2, <1>3, TextConcat
<1> HIDE DEF d
<1>5. TextFold(d, one) = AddText(d, text)
  BY <1>2, <1>3, <1>4, TextEnds
<1> HIDE DEF one
<1>6. TextFold(<<>>, Append(texts, text)) = AddText(d, text)
  BY <1>3, <1>4, <1>5
<1> QED  BY <1>6, Zenon DEF AllDense, TextFold, d, AddText

(* No texts leave nothing.                                                 *)
LEMMA AllDenseNothing == AllDense(<<>>) = <<>>
<1> DEFINE C == Solid({})
           B == Seq({})
<1>1. <<>> \in C
  BY DEF Solid
<1>2. \A c \in C, a \in B : AddText(c, a) \in C
  BY TextStep
<1> HIDE DEF B, C
<1>3. TextFold(<<>>, <<>>) = <<>>
  BY <1>1, <1>2, TextEnds
<1> QED  BY <1>3, Zenon DEF AllDense, TextFold

(* A text without blanks is a text.                                        *)
LEMMA SolidIsText ==
    ASSUME NEW A
    PROVE  Solid(A) \subseteq Seq(A)
<1>1. A \ Blank \subseteq A
  OBVIOUS
<1> HIDE DEF Blank
<1>2. \A B : B \subseteq A => Seq(B) \subseteq Seq(A)
  OBVIOUS
<1> QED  BY <1>1, <1>2 DEF Solid

(* What is left of texts is added to what is there.                        *)
LEMMA TextFrom ==
    ASSUME NEW A, NEW d \in Solid(A), NEW texts \in Seq(Seq(A))
    PROVE  TextFold(d, texts) = d \o AllDense(texts)
<1> DEFINE C == Solid(A)
           n == Len(texts)
<1>1. <<>> \in C /\ d \in C /\ n \in Nat /\ n \in 0..n
  BY DEF Solid
<1>2. \A c \in C, k \in 1..Len(texts) : AddText(c, texts[k]) \in C
  BY TextStep
<1> HIDE DEF C
<1>3. PICK f : TextRun(f, C, d, texts) /\ f[Len(texts)] = TextFold(d, texts)
  BY <1>1, <1>2, TextLoop
<1>4. PICK g : /\ TextRun(g, C, <<>>, texts)
               /\ g[Len(texts)] = TextFold(<<>>, texts)
  BY <1>1, <1>2, TextLoop
<1> HIDE DEF n
<1>5. /\ f[0] = d /\ g[0] = <<>> /\ g \in [0..n -> C]
      /\ \A k \in 1..n : f[k] = AddText(f[k - 1], texts[k])
      /\ \A k \in 1..n : g[k] = AddText(g[k - 1], texts[k])
  BY <1>3, <1>4 DEF TextRun, n
<1> DEFINE Z == {k \in 0..n : f[k] = d \o g[k]}
<1>6. 0 \in Z
  <2>1. d \o <<>> = d
    BY DEF Solid
  <2>2. f[0] = d \o g[0]
    BY <1>5, <2>1
  <2> QED  BY <1>1, <2>2
<1>7. ASSUME NEW k \in 1..n, k - 1 \in Z PROVE k \in Z
  <2>1. k \in 0..n /\ k - 1 \in 0..n
    BY <1>1
  <2>2. g[k - 1] \in Solid(A) /\ f[k - 1] = d \o g[k - 1]
    BY <1>5, <1>7, <2>1 DEF C
  <2>3. Dense(texts[k]) \in Solid(A)
    BY <1>1, DenseType DEF n
  <2>4. f[k] = (d \o g[k - 1]) \o Dense(texts[k])
    BY <1>5, <2>2 DEF AddText
  <2>5. g[k] = g[k - 1] \o Dense(texts[k])
    BY <1>5 DEF AddText
  <2>6. f[k] = d \o g[k]
    <3> DEFINE u == g[k - 1]
               v == Dense(texts[k])
    <3>1. d \in Seq(A) /\ u \in Seq(A) /\ v \in Seq(A)
      BY <2>2, <2>3, SolidIsText
    <3> HIDE DEF u, v
    <3>2. (d \o u) \o v = d \o (u \o v)
      BY ONLY <3>1
    <3> QED  BY <2>4, <2>5, <3>2 DEF u, v
  <2> QED  BY <2>1, <2>6
<1>8. \A k \in 0..n : k \in Z
  <2> HIDE DEF Z
  <2> QED  BY <1>1, <1>6, <1>7, LoopInduction
<1>9. f[n] = d \o g[n]
  BY <1>1, <1>8
<1>10. TextFold(d, texts) = d \o TextFold(<<>>, texts)
  BY <1>3, <1>4, <1>9 DEF n
<1> QED  BY <1>10, Zenon DEF AllDense, TextFold

(* What is left of two lists of texts together.                            *)
LEMMA AllDenseJoin ==
    ASSUME NEW A, NEW x \in Seq(Seq(A)), NEW y \in Seq(Seq(A))
    PROVE  AllDense(x \o y) = AllDense(x) \o AllDense(y)
<1> DEFINE C == Solid(A)
           B == Seq(A)
           d == TextFold(<<>>, x)
<1>1. <<>> \in C
  BY DEF Solid
<1>2. \A c \in C, a \in B : AddText(c, a) \in C
  BY TextStep
<1>3. x \in Seq(B) /\ y \in Seq(B)
  OBVIOUS
<1> HIDE DEF C, B
<1>4. d \in C /\ TextFold(<<>>, x \o y) = TextFold(d, y)
  BY <1>1, <1>2, <1>3, TextConcat
<1> HIDE DEF d
<1>5. TextFold(d, y) = d \o AllDense(y)
  BY <1>4, TextFrom DEF C
<1> QED  BY <1>4, <1>5, Zenon DEF AllDense, TextFold, d

-----------------------------------------------------------------------------
(* What a screen shows.                                                    *)
Texts(rows) == [i \in DOMAIN rows |-> rows[i].text]
Shown(rows) == AllDense(Texts(rows))

(* The texts of rows, of one row more, and of rows together.               *)
LEMMA TextsOf ==
    ASSUME NEW rows \in Seq(Rows)
    PROVE  /\ Texts(rows) \in Seq(Seq(Chars))
           /\ \A row \in Rows :
                  Texts(Append(rows, row)) = Append(Texts(rows), row.text)
           /\ \A more \in Seq(Rows) :
                  Texts(rows \o more) = Texts(rows) \o Texts(more)
<1>1. \A row \in Rows : row.text \in Seq(Chars)
  BY DEF Rows
<1>2. \A r \in Seq(Rows) :
          Texts(r) \in Seq(Seq(Chars)) /\ Len(Texts(r)) = Len(r)
  BY <1>1 DEF Texts
<1>3. ASSUME NEW row \in Rows
      PROVE  Texts(Append(rows, row)) = Append(Texts(rows), row.text)
  BY <1>1, <1>2 DEF Texts
<1>4. ASSUME NEW more \in Seq(Rows)
      PROVE  Texts(rows \o more) = Texts(rows) \o Texts(more)
  <2> DEFINE m == Len(rows)
             n == Len(more)
             x == Texts(rows)
             y == Texts(more)
             z == Texts(rows \o more)
  <2>1. /\ rows \o more \in Seq(Rows) /\ Len(rows \o more) = m + n
        /\ m \in Nat /\ n \in Nat
    OBVIOUS
  <2>2. /\ x \in Seq(Seq(Chars)) /\ y \in Seq(Seq(Chars))
        /\ z \in Seq(Seq(Chars))
        /\ Len(x) = m /\ Len(y) = n /\ Len(z) = m + n
    <3> HIDE DEF m, n
    <3> QED  BY <1>2, <2>1 DEF m, n
  <2>3. ASSUME NEW i \in 1..(m + n)
        PROVE  z[i] = IF i <= m THEN x[i] ELSE y[i - m]
    BY <2>1 DEF Texts
  <2> HIDE DEF m, n, x, y, z
  <2>4. x \o y \in Seq(Seq(Chars)) /\ Len(x \o y) = m + n
    BY <2>2, ConcatLength
  <2>5. \A i \in 1..(m + n) :
            (x \o y)[i] = IF i <= m THEN x[i] ELSE y[i - m]
    BY <2>2, JoinElements
  <2>6. z = x \o y
    <3> DEFINE S == Seq(Chars)
    <3>1. z \in Seq(S) /\ x \o y \in Seq(S) /\ Len(z) = Len(x \o y)
      BY <2>2, <2>4
    <3> HIDE DEF S
    <3>2. \A i \in 1..Len(z) : z[i] = (x \o y)[i]
      BY <2>2, <2>3, <2>5
    <3> QED  BY <3>1, <3>2, SameText
  <2> QED  BY <2>6 DEF x, y, z
<1> QED  BY <1>2, <1>3, <1>4

(* A row more shows its text.                                              *)
LEMMA ShownAppend ==
    ASSUME NEW rows \in Seq(Rows), NEW row \in Rows
    PROVE  /\ Shown(Append(rows, row)) = Shown(rows) \o Dense(row.text)
           /\ Shown(rows) \in Seq(Chars)
<1>1. Texts(rows) \in Seq(Seq(Chars)) /\ row.text \in Seq(Chars)
      /\ Texts(Append(rows, row)) = Append(Texts(rows), row.text)
  BY TextsOf DEF Rows
<1>2. AllDense(Append(Texts(rows), row.text))
          = AllDense(Texts(rows)) \o Dense(row.text)
  BY <1>1, AllDenseAppend
<1>3. AllDense(Texts(rows)) \in Seq(Chars)
  BY <1>1, AllDenseType, SolidIsText
<1> QED  BY <1>1, <1>2, <1>3 DEF Shown

(* Rows together show what each of them shows.                             *)
LEMMA ShownJoin ==
    ASSUME NEW rows \in Seq(Rows), NEW more \in Seq(Rows)
    PROVE  Shown(rows \o more) = Shown(rows) \o Shown(more)
<1>1. /\ Texts(rows) \in Seq(Seq(Chars)) /\ Texts(more) \in Seq(Seq(Chars))
      /\ Texts(rows \o more) = Texts(rows) \o Texts(more)
  BY TextsOf
<1> QED  BY <1>1, AllDenseJoin DEF Shown

(* All elements but the last one.                                          *)
LEMMA FrontLength ==
    ASSUME NEW S, NEW s \in Seq(S), Len(s) \in Nat \ {0}
    PROVE  /\ Len(SubSeq(s, 1, Len(s) - 1)) = Len(s) - 1
           /\ SubSeq(s, 1, Len(s) - 1) \in Seq(S)
<1>1. ASSUME NEW m \in 0..Len(s)
      PROVE  Len(SubSeq(s, 1, m)) = m /\ SubSeq(s, 1, m) \in Seq(S)
  OBVIOUS
<1>2. Len(s) - 1 \in 0..Len(s)
  OBVIOUS
<1> QED  BY <1>1, <1>2

(* The text of the last row continued.                                     *)
LEMMA ShownLast ==
    ASSUME NEW rows \in Seq(Rows), rows # <<>>, NEW more \in Seq(Chars)
    PROVE  Shown([rows EXCEPT ![Len(rows)].text = @ \o more])
               = Shown(rows) \o Dense(more)
<1> DEFINE n == Len(rows)
           last == rows[n]
           front == SubSeq(rows, 1, n - 1)
           row == [last EXCEPT !.text = last.text \o more]
           out == [rows EXCEPT ![n].text = @ \o more]
<1>1. n \in Nat \ {0} /\ last \in Rows /\ front \in Seq(Rows)
  OBVIOUS
<1>2. last.text \in Seq(Chars)
  BY <1>1 DEF Rows
<1>3. row \in Rows /\ row.text = last.text \o more
  <2> DEFINE text == last.text \o more
  <2>1. text \in Seq(Chars)
    BY <1>2
  <2> HIDE DEF last, text
  <2>2. [last EXCEPT !.text = text] \in Rows
    BY <1>1, <2>1 DEF Rows
  <2>3. [last EXCEPT !.text = text].text = text
    BY <1>1 DEF Rows
  <2> QED  BY <2>2, <2>3 DEF text
<1>4. out = [rows EXCEPT ![n] = row]
  OBVIOUS
<1>5. rows = Append(front, last)
  BY <1>1
<1>6. out = Append(front, row)
  <2> HIDE DEF row, out
  <2>1. Append(front, row) \in Seq(Rows) /\ Len(Append(front, row)) = n
    <3> HIDE DEF front, n
    <3>1. Len(front) = n - 1
      BY FrontLength, <1>1 DEF front, n
    <3> QED  BY <1>1, <1>3, <3>1
  <2>2. out \in Seq(Rows) /\ Len(out) = n
    <3>1. n \in 1..Len(rows)
      BY <1>1
    <3> HIDE DEF n, last
    <3>2. [rows EXCEPT ![n] = row] \in Seq(Rows)
      BY <3>1, <1>3
    <3>3. Len([rows EXCEPT ![n] = row]) = Len(rows)
      BY <3>1, <1>3
    <3> QED  BY <3>2, <3>3, <1>4 DEF n
  <2>3. \A i \in 1..n : out[i] = Append(front, row)[i]
    BY <1>1, <1>4
  <2> QED  BY <2>1, <2>2, <2>3, SameText
<1>7. Shown(rows) = Shown(front) \o Dense(last.text)
  <2> HIDE DEF front, last
  <2> QED  BY <1>1, <1>5, ShownAppend
<1>8. Shown(out) = Shown(front) \o Dense(last.text \o more)
  <2> HIDE DEF front, row, out, last
  <2> QED  BY <1>1, <1>3, <1>6, ShownAppend
<1>9. Dense(last.text \o more) = Dense(last.text) \o Dense(more)
  BY <1>2, DenseJoin
<1>10. /\ Shown(front) \in Seq(Chars) /\ Dense(last.text) \in Seq(Chars)
       /\ Dense(more) \in Seq(Chars)
  <2>1. Shown(front) \in Seq(Chars)
    <3> HIDE DEF front, last
    <3> QED  BY <1>1, ShownAppend
  <2> QED  BY <2>1, <1>2, DenseType, SolidIsText
<1> DEFINE u == Shown(front)
           v == Dense(last.text)
           w == Dense(more)
<1>11. (u \o v) \o w = u \o (v \o w)
  <2>1. u \in Seq(Chars) /\ v \in Seq(Chars) /\ w \in Seq(Chars)
    BY <1>10
  <2> HIDE DEF u, v, w
  <2> QED  BY ONLY <2>1
<1> HIDE DEF front, last, out
<1>12. Shown(out) = Shown(rows) \o Dense(more)
  BY <1>7, <1>8, <1>9, <1>11
<1> QED  BY <1>12 DEF out

(* The words that are read and the one that is growing.                    *)
LEMMA ClosedDense ==
    ASSUME NEW A, NEW w \in WordStates(A)
    PROVE  /\ AllDense(Closed(w)) = AllDense(w.words) \o w.word
           /\ AllDense(w.words) \in Seq(A) /\ w.word \in Seq(A)
<1>1. w.words \in Seq(Solid(A)) /\ w.word \in Solid(A)
  BY DEF WordStates
<1>2. Seq(Solid(A)) \subseteq Seq(Seq(A))
  BY SolidIsText
<1> DEFINE ws == w.words
           d == AllDense(ws)
<1>3. d \in Seq(A) /\ w.word \in Seq(A) /\ ws \in Seq(Seq(A))
  BY <1>1, <1>2, AllDenseType, SolidIsText
<1>4. CASE w.word = <<>>
  <2>1. Closed(w) = ws
    BY <1>4 DEF Closed
  <2>2. d \o <<>> = d
    <3> HIDE DEF d
    <3> QED  BY <1>3
  <2> QED  BY <1>3, <1>4, <2>1, <2>2
<1>5. CASE w.word # <<>>
  <2>1. Closed(w) = Append(ws, w.word)
    BY <1>5 DEF Closed
  <2>2. AllDense(Append(ws, w.word)) = d \o Dense(w.word)
    BY <1>3, AllDenseAppend
  <2>3. Dense(w.word) = w.word
    BY <1>1, SolidDense
  <2> QED  BY <1>3, <2>1, <2>2, <2>3
<1> QED  BY <1>4, <1>5

(* What the words have of the text so far.                                 *)
Worded(w) == AllDense(w.words) \o w.word

(* A character goes into a word, or is blank; nothing else is lost where   *)
(* word[] is full.                                                         *)
LEMMA WordStepDense ==
    ASSUME NEW A, NEW w \in WordStates(A), NEW ch \in A
    PROVE  Worded(AddToWord(w, ch)) = AddDense(Worded(w), ch)
<1> DEFINE d == AllDense(w.words)
           word == w.word
           t == AddToWord(w, ch)
<1>1. /\ d \in Seq(A) /\ word \in Seq(A) /\ AllDense(Closed(w)) = d \o word
      /\ Worded(w) = d \o word
  BY ClosedDense DEF Worded
<1>2. CASE ch \in Blank
  <2>1. t.words = Closed(w) /\ t.word = <<>>
    BY <1>2 DEF AddToWord
  <2>2. AddDense(d \o word, ch) = d \o word
    BY <1>2 DEF AddDense
  <2>3. (d \o word) \o <<>> = d \o word
    <3> HIDE DEF d, word
    <3> QED  BY ONLY <1>1
  <2> HIDE DEF t, d, word
  <2> QED  BY <1>1, <2>1, <2>2, <2>3 DEF Worded, t
<1>3. CASE ch \notin Blank /\ Len(w.word) = WordSize - 1
  <2>1. t.words = Closed(w) /\ t.word = <<ch>>
    BY <1>3 DEF AddToWord
  <2>2. AddDense(d \o word, ch) = Append(d \o word, ch)
    BY <1>3 DEF AddDense
  <2>3. (d \o word) \o <<ch>> = Append(d \o word, ch)
    <3> HIDE DEF d, word
    <3> QED  BY ONLY <1>1, ch \in A
  <2> HIDE DEF t, d, word
  <2> QED  BY <1>1, <2>1, <2>2, <2>3 DEF Worded, t
<1>4. CASE ch \notin Blank /\ Len(w.word) # WordSize - 1
  <2>1. t.words = w.words /\ t.word = Append(word, ch)
    BY <1>4 DEF AddToWord, WordStates
  <2>2. AddDense(d \o word, ch) = Append(d \o word, ch)
    BY <1>4 DEF AddDense
  <2>3. d \o Append(word, ch) = Append(d \o word, ch)
    <3> HIDE DEF d, word
    <3> QED  BY ONLY <1>1, ch \in A, JoinAppend
  <2>4. AllDense(t.words) = d
    BY <2>1
  <2> HIDE DEF t, d, word
  <2> QED  BY <1>1, <2>1, <2>2, <2>3, <2>4 DEF Worded, t
<1> QED  BY <1>2, <1>3, <1>4

(* The words of a text are its characters without the blanks.              *)
LEMMA WordsDense ==
    ASSUME NEW A, NEW text \in Seq(A)
    PROVE  AllDense(Words(text)) = Dense(text)
<1> DEFINE b == [words |-> <<>>, word |-> <<>>]
           n == Len(text)
           C == WordStates(A)
           D == Solid(A)
<1>1. b \in C /\ <<>> \in D /\ n \in Nat /\ n \in 0..n
  <2>1. <<>> \in Solid(A) /\ <<>> \in Seq(Solid(A))
    BY DEF Solid
  <2>2. b \in C
    BY <2>1, Zenon DEF WordStates
  <2> QED  BY <2>1, <2>2
<1>2. \A c \in C, k \in 1..Len(text) : AddToWord(c, text[k]) \in C
  BY WordStepType
<1>3. \A c \in D, k \in 1..Len(text) : AddDense(c, text[k]) \in D
  BY DenseStep
<1>4. Worded(b) = <<>>
  BY AllDenseNothing DEF Worded
<1> HIDE DEF b, C, D
<1>5. PICK f : /\ WordRun(f, C, b, text)
               /\ f[Len(text)] = FoldLeft(AddToWord, b, text)
  BY <1>1, <1>2, WordLoop
<1>6. PICK g : /\ DenseRun(g, D, <<>>, text)
               /\ g[Len(text)] = DenseFold(<<>>, text)
  BY <1>1, <1>3, DenseLoop
<1> HIDE DEF n
<1>7. /\ f[0] = b /\ g[0] = <<>> /\ f \in [0..n -> C]
      /\ \A k \in 1..n : f[k] = AddToWord(f[k - 1], text[k])
      /\ \A k \in 1..n : g[k] = AddDense(g[k - 1], text[k])
  BY <1>5, <1>6 DEF WordRun, DenseRun, n
<1> DEFINE Z == {k \in 0..n : Worded(f[k]) = g[k]}
<1>8. 0 \in Z
  BY <1>1, <1>4, <1>7
<1>9. ASSUME NEW k \in 1..n, k - 1 \in Z PROVE k \in Z
  <2>1. k \in 0..n /\ k - 1 \in 0..n /\ text[k] \in A
    BY <1>1 DEF n
  <2>2. f[k - 1] \in WordStates(A) /\ Worded(f[k - 1]) = g[k - 1]
    BY <1>7, <1>9, <2>1 DEF C
  <2>3. Worded(AddToWord(f[k - 1], text[k])) = AddDense(g[k - 1], text[k])
    BY <2>1, <2>2, WordStepDense
  <2> QED  BY <1>7, <2>1, <2>3
<1>10. \A k \in 0..n : k \in Z
  <2> HIDE DEF Z
  <2> QED  BY <1>1, <1>8, <1>9, LoopInduction
<1>11. Worded(f[n]) = g[n] /\ f[n] \in C
  BY <1>1, <1>7, <1>10
<1>12. AllDense(Closed(f[n])) = g[n]
  BY <1>11, ClosedDense DEF C, Worded
<1>13. Words(text) = Closed(f[n])
  BY <1>5, Zenon DEF Words, b, n
<1>14. Dense(text) = g[n]
  BY <1>6, Zenon DEF Dense, DenseFold, n
<1> QED  BY <1>12, <1>13, <1>14

(* A word that is placed is shown.                                         *)
LEMMA PlaceShown ==
    ASSUME NEW of \in RowKinds, NEW num \in Nat,
           NEW w \in Placed(of, num), NEW word \in Solid(Chars)
    PROVE  Shown(Place(of, num, w, word).rows) = Shown(w.rows) \o Dense(word)
<1> DEFINE n == Len(w.rows)
<1>1. w.rows \in Seq(Rows) /\ w.rows # <<>>
  <2>1. LineRows(of, num) \subseteq Rows
    BY DEF LineRows
  <2> QED  BY <2>1 DEF Placed
<1>2. word \in Seq(Chars) /\ Dense(word) \in Seq(Chars)
  BY DenseType, SolidIsText
<1>3. CASE Overflows(w.col, word)
  <2> DEFINE row == Row(of, num, word)
  <2>1. row \in Rows /\ row.text = word
    BY <1>2, RowsAreRows DEF Row
  <2>2. Place(of, num, w, word).rows = Append(w.rows, row)
    BY <1>3 DEF Place
  <2> HIDE DEF row
  <2> QED  BY <1>1, <2>1, <2>2, ShownAppend
<1>4. CASE ~Overflows(w.col, word)
  <2> DEFINE more == IF w.col > 0 THEN <<"SP">> \o word ELSE word
  <2>1. "SP" \in Chars /\ <<"SP">> \in Seq(Chars) /\ "SP" \in Blank
    <3>1. "SP" \in Chars
      BY DEF Chars
    <3> QED  BY <3>1 DEF Blank
  <2>2. Dense(<<"SP">> \o word) = Dense(word)
    <3>1. Dense(<<"SP">>) = <<>>
      BY <2>1, DenseEdges
    <3>2. Dense(<<"SP">> \o word) = Dense(<<"SP">>) \o Dense(word)
      BY <1>2, <2>1, DenseJoin
    <3>3. <<>> \o Dense(word) = Dense(word)
      BY <1>2
    <3> QED  BY <3>1, <3>2, <3>3
  <2>3. more \in Seq(Chars) /\ Dense(more) = Dense(word)
    BY <1>2, <2>1, <2>2
  <2>4. Place(of, num, w, word).rows
            = [w.rows EXCEPT ![Len(w.rows)].text = @ \o more]
    BY <1>4, Zenon DEF Place, more
  <2> HIDE DEF more
  <2> QED  BY <1>1, <2>3, <2>4, ShownLast
<1> QED  BY <1>3, <1>4

(* Wrapping loses no character that is not blank, and adds none.           *)
LEMMA WrappedShown ==
    ASSUME NEW of \in RowKinds, NEW num \in Nat, NEW text \in Seq(Chars)
    PROVE  Shown(Wrapped(of, num, text)) = Dense(text)
<1> DEFINE first == Row(of, num, <<>>)
           b == [rows |-> <<first>>, col |-> PrefixWidth(of, num)]
           C == Placed(of, num)
           D == Solid(Chars)
           words == Words(text)
           n == Len(words)
<1>1. words \in Seq(Solid(Chars)) /\ n \in Nat /\ n \in 0..n
  <2>1. words \in Seq(Solid(Chars))
    BY WordsType
  <2> HIDE DEF words
  <2> QED  BY <2>1
<1>2. b \in C /\ \A c \in C, k \in 1..Len(words) :
                     Place(of, num, c, words[k]) \in C
  BY WrapStart, <1>1, PlaceType
<1>3. <<>> \in D /\ \A c \in D, k \in 1..Len(words) :
                        AddText(c, words[k]) \in D
  <2>1. <<>> \in D
    BY DEF Solid
  <2>2. \A k \in 1..Len(words) : words[k] \in Seq(Chars)
    <3> HIDE DEF words
    <3> QED  BY <1>1, SolidIsText
  <2> QED  BY <2>1, <2>2, TextStep
<1>4. Shown(b.rows) = <<>>
  <2>1. <<>> \in Seq(Rows) /\ first \in Rows /\ first.text = <<>>
        /\ b.rows = Append(<<>>, first)
    <3>1. <<>> \in Seq(Chars)
      OBVIOUS
    <3>2. first \in Rows /\ first.text = <<>>
      BY <3>1, RowsAreRows DEF Row
    <3> HIDE DEF first
    <3> QED  BY <3>2
  <2>2. Shown(<<>>) = <<>>
    BY AllDenseNothing DEF Shown, Texts
  <2>3. Dense(<<>>) = <<>>
    BY DenseEdges
  <2>4. Shown(Append(<<>>, first)) = Shown(<<>>) \o Dense(first.text)
    <3> HIDE DEF first
    <3> QED  BY <2>1, ShownAppend
  <2>5. <<>> \o <<>> = <<>>
    OBVIOUS
  <2> HIDE DEF first
  <2> QED  BY <2>1, <2>2, <2>3, <2>4, <2>5
<1> HIDE DEF b, C, D, words
<1>5. PICK f : /\ PlaceRun(of, num, f, C, b, words)
               /\ f[Len(words)] = PlaceFold(of, num, b, words)
  BY <1>1, <1>2, PlaceLoop
<1>6. PICK g : /\ TextRun(g, D, <<>>, words)
               /\ g[Len(words)] = TextFold(<<>>, words)
  BY <1>1, <1>3, TextLoop
<1> HIDE DEF n
<1>7. /\ f[0] = b /\ g[0] = <<>> /\ f \in [0..n -> C]
      /\ \A k \in 1..n : f[k] = Place(of, num, f[k - 1], words[k])
      /\ \A k \in 1..n : g[k] = AddText(g[k - 1], words[k])
  BY <1>5, <1>6 DEF PlaceRun, TextRun, n
<1> DEFINE Z == {k \in 0..n : Shown(f[k].rows) = g[k]}
<1>8. 0 \in Z
  BY <1>1, <1>4, <1>7
<1>9. ASSUME NEW k \in 1..n, k - 1 \in Z PROVE k \in Z
  <2>1. k \in 0..n /\ k - 1 \in 0..n /\ words[k] \in Solid(Chars)
    BY <1>1 DEF n
  <2>2. f[k - 1] \in Placed(of, num) /\ Shown(f[k - 1].rows) = g[k - 1]
    BY <1>7, <1>9, <2>1 DEF C
  <2>3. Shown(f[k].rows) = Shown(f[k - 1].rows) \o Dense(words[k])
    <3> DEFINE w == f[k - 1]
               word == words[k]
    <3>1. w \in Placed(of, num) /\ word \in Solid(Chars)
      BY <2>1, <2>2
    <3> HIDE DEF w, word
    <3>2. Shown(Place(of, num, w, word).rows)
              = Shown(w.rows) \o Dense(word)
      BY <3>1, PlaceShown
    <3>3. f[k] = Place(of, num, w, word)
      BY <1>7, Zenon DEF w, word
    <3> QED  BY <3>2, <3>3, Zenon DEF w, word
  <2> QED  BY <1>7, <2>1, <2>2, <2>3 DEF AddText
<1>10. \A k \in 0..n : k \in Z
  <2> HIDE DEF Z
  <2> QED  BY <1>1, <1>8, <1>9, LoopInduction
<1>11. Shown(f[n].rows) = g[n]
  BY <1>1, <1>10
<1>12. Wrapped(of, num, text) = f[n].rows
  BY <1>5, Zenon DEF Wrapped, PlaceFold, b, words, n
<1>13. AllDense(words) = g[n]
  BY <1>6, Zenon DEF AllDense, TextFold, n
<1> QED  BY <1>11, <1>12, <1>13, WordsDense DEF words

(* Counting along a sequence.                                              *)
LEMMA CountUpTo ==
    ASSUME NEW T, NEW m \in Nat
    PROVE  /\ IsFiniteSet((1..m) \cap T)
           /\ Cardinality((1..m) \cap T) \in Nat
           /\ Cardinality((1..(m + 1)) \cap T)
                  = Cardinality((1..m) \cap T)
                        + (IF m + 1 \in T THEN 1 ELSE 0)
           /\ Cardinality((1..0) \cap T) = 0
<1> DEFINE S == (1..m) \cap T
           U == (1..(m + 1)) \cap T
           one == IF m + 1 \in T THEN 1 ELSE 0
<1>1. IsFiniteSet(1..m)
  BY FS_Interval
<1>2. IsFiniteSet(S) /\ Cardinality(S) \in Nat
  BY <1>1, FS_Subset, FS_CardinalityType
<1>3. Cardinality((1..0) \cap T) = 0
  <2>1. (1..0) \cap T = {}
    OBVIOUS
  <2> QED  BY <2>1, FS_EmptySet, Zenon
<1>4. Cardinality(U) = Cardinality(S) + one
  <2>1. CASE m + 1 \in T
    <3>1. U = S \cup {m + 1} /\ m + 1 \notin S /\ one = 1
      BY <2>1
    <3> HIDE DEF S, U, one
    <3>2. Cardinality(S \cup {m + 1}) = Cardinality(S) + 1
      BY <1>2, <3>1, FS_AddElement
    <3> QED  BY <3>1, <3>2
  <2>2. CASE m + 1 \notin T
    <3>1. U = S /\ one = 0
      BY <2>2
    <3> HIDE DEF S, U, one
    <3>2. Cardinality(S) = Cardinality(S) + 0
      BY <1>2
    <3> QED  BY <3>1, <3>2
  <2> QED  BY <2>1, <2>2
<1> QED  BY <1>2, <1>3, <1>4, Zenon DEF S, U, one

(* How many lines the pager has counted: whole pages and a rest.           *)
Pauses(rows) == Cardinality(Places(rows, {More}))
Paged(s) == Pauses(s.out) * s.page_lines + s.lines_printed

(* Only --More-- itself is a pause.                                        *)
LEMMA PausesOf ==
    ASSUME NEW rows \in Seq(Rows)
    PROVE  /\ Pauses(rows) \in Nat
           /\ Pauses(Append(rows, More)) = Pauses(rows) + 1
           /\ \A more \in Seq(Rows) :
                  (\A i \in 1..Len(more) : more[i] # More)
                      => Pauses(rows \o more) = Pauses(rows)
<1> DEFINE n == Len(rows)
           S == Places(rows, {More})
<1>1. n \in Nat /\ DOMAIN rows = 1..n /\ S \subseteq 1..n
  BY DEF Places
<1>2. IsFiniteSet(S) /\ Cardinality(S) \in Nat
  <2> HIDE DEF S
  <2>1. IsFiniteSet(1..n)
    <3> HIDE DEF n
    <3> QED  BY <1>1, FS_Interval
  <2>2. S \in SUBSET (1..n)
    BY <1>1
  <2> QED  BY <2>1, <2>2, FS_Subset, FS_CardinalityType
<1>3. Places(Append(rows, More), {More}) = S \cup {n + 1} /\ n + 1 \notin S
  BY <1>1 DEF Places
<1>4. Cardinality(S \cup {n + 1}) = Cardinality(S) + 1
  <2> HIDE DEF S
  <2> QED  BY <1>2, <1>3, FS_AddElement
<1>5. ASSUME NEW more \in Seq(Rows), \A i \in 1..Len(more) : more[i] # More
      PROVE  Places(rows \o more, {More}) = S
  <2> DEFINE k == Len(more)
             all == rows \o more
  <2>1. k \in Nat /\ DOMAIN all = 1..(n + k)
    BY <1>1
  <2>2. \A i \in 1..(n + k) : all[i] = IF i <= n THEN rows[i] ELSE more[i - n]
    BY <1>1, <2>1
  <2>3. \A i \in 1..(n + k) : all[i] = More <=> i <= n /\ rows[i] = More
    BY <1>1, <1>5, <2>1, <2>2
  <2> HIDE DEF all, k, n
  <2>4. \A i : i \in Places(all, {More}) <=> i \in S
    BY <1>1, <2>1, <2>3 DEF Places
  <2> QED  BY <2>4 DEF all
<1> QED  BY <1>2, <1>3, <1>4, <1>5 DEF Pauses

(* The end of a line counts it, and changes nothing else.                  *)
LEMMA BreakEffect ==
    ASSUME NEW lines \in Nat, NEW s \in Streams(Rows, lines)
    PROVE  LET t == render_line_break(s)
           IN  /\ t \in Streams(Rows, lines)
               /\ Paged(t) = Paged(s) + 1
               /\ Shown(t.out) = Shown(s.out)
               /\ t.links = s.links /\ t.ok = s.ok
<1> DEFINE t == render_line_break(s)
<1>0. t \in Streams(Rows, lines)
  BY BreakType, MoreIsRow
<1>1. /\ s.out \in Seq(Rows) /\ s.page_lines = lines
      /\ s.lines_printed \in Nat /\ (lines > 0 => s.lines_printed < lines)
      /\ t.page_lines = lines
  BY <1>0, StreamFields DEF Counts
<1>2. Pauses(s.out) \in Nat /\ Pauses(Append(s.out, More)) = Pauses(s.out) + 1
  BY <1>1, PausesOf
<1>3. Shown(Append(s.out, More)) = Shown(s.out)
  <2>1. /\ Shown(Append(s.out, More)) = Shown(s.out) \o Dense(More.text)
        /\ Shown(s.out) \in Seq(Chars)
    BY <1>1, MoreIsRow, ShownAppend
  <2>2. Dense(More.text) = <<>>
    BY DenseEdges DEF More, Row
  <2> QED  BY <2>1, <2>2
<1>4. CASE lines > 0 /\ s.lines_printed + 1 >= lines
  <2>1. t = [Put(s, More) EXCEPT !.lines_printed = 0]
    BY <1>1, <1>4 DEF render_line_break
  <2>2. /\ t.out = Append(s.out, More) /\ t.lines_printed = 0
        /\ t.links = s.links /\ t.ok = s.ok
    BY <2>1 DEF Put, Streams
  <2>3. s.lines_printed + 1 = lines
    BY <1>1, <1>4
  <2> DEFINE c == Pauses(s.out)
             p == s.lines_printed
  <2>4. (c + 1) * lines + 0 = (c * lines + p) + 1
    <3>1. c \in Nat /\ p \in Nat /\ p + 1 = lines
      BY <1>1, <1>2, <2>3
    <3> HIDE DEF c, p
    <3> QED  BY ONLY <3>1, lines \in Nat
  <2>5. Pauses(t.out) = c + 1
    BY <1>2, <2>2
  <2> HIDE DEF t, c, p
  <2> QED  BY <1>0, <1>1, <1>3, <2>2, <2>4, <2>5 DEF Paged, c, p, t
<1>5. CASE ~(lines > 0 /\ s.lines_printed + 1 >= lines)
  <2>1. t = [s EXCEPT !.lines_printed = @ + 1]
    BY <1>1, <1>5 DEF render_line_break
  <2>2. /\ t.out = s.out /\ t.lines_printed = s.lines_printed + 1
        /\ t.links = s.links /\ t.ok = s.ok
    BY <2>1 DEF Streams
  <2> DEFINE q == Pauses(s.out) * lines
  <2>3. q \in Nat
    BY <1>2
  <2> HIDE DEF t, q
  <2>4. q + (s.lines_printed + 1) = (q + s.lines_printed) + 1
    BY <1>1, <2>3
  <2> QED  BY <1>0, <1>1, <2>2, <2>4 DEF Paged, q, t
<1> QED  BY <1>4, <1>5

(* From a state of the renderer to a later one: n lines more for the       *)
(* pager, and a text more on the screen.                                   *)
Shows(s, t, n, text) ==
    /\ Paged(t) = Paged(s) + n
    /\ Shown(t.out) = Shown(s.out) \o text
    /\ t.links = s.links /\ t.ok = s.ok

(* Rows that are followed by the end of a line.                            *)
LEMMA PutEffect ==
    ASSUME NEW lines \in Nat, NEW s \in Streams(Rows, lines),
           NEW rows \in Seq(Rows), \A i \in 1..Len(rows) : rows[i].of # "more"
    PROVE  LET t == [s EXCEPT !.out = @ \o rows]
           IN  /\ t \in Streams(Rows, lines)
               /\ Shows(s, render_line_break(t), 1, Shown(rows))
<1> DEFINE out == s.out \o rows
           t == [s EXCEPT !.out = out]
           u == render_line_break(t)
<1>1. s.out \in Seq(Rows) /\ out \in Seq(Rows)
  BY StreamFields
<1>2. t \in Streams(Rows, lines)
  <2> HIDE DEF out
  <2> QED  BY <1>1, SetOut, Zenon
<1>3. /\ t.out = out /\ t.lines_printed = s.lines_printed
      /\ t.page_lines = s.page_lines /\ t.links = s.links /\ t.ok = s.ok
  <2> HIDE DEF out
  <2> QED  BY DEF Streams
<1>4. Pauses(out) = Pauses(s.out)
  <2>1. \A i \in 1..Len(rows) : rows[i] # More
    BY DEF More, Row
  <2> QED  BY <1>1, <2>1, PausesOf
<1>5. Shown(out) = Shown(s.out) \o Shown(rows)
  BY <1>1, ShownJoin
<1> HIDE DEF t, out
<1>6. /\ Paged(u) = Paged(t) + 1 /\ Shown(u.out) = Shown(t.out)
      /\ u.links = t.links /\ u.ok = t.ok
  BY <1>2, BreakEffect
<1>7. Paged(t) = Paged(s)
  BY <1>3, <1>4 DEF Paged
<1> HIDE DEF u
<1>8. Shows(s, u, 1, Shown(rows))
  BY <1>3, <1>5, <1>6, <1>7 DEF Shows
<1> QED  BY <1>2, <1>8, Zenon DEF t, u, out

(* print_wrapped shows the text, as one line.                              *)
LEMMA PrintEffect ==
    ASSUME NEW lines \in Nat, NEW s \in Streams(Rows, lines),
           NEW of \in LineTypes, NEW num \in Nat, NEW text \in Seq(Chars)
    PROVE  Shows(s, print_wrapped(s, of, num, text), 1, Dense(text))
<1> DEFINE rows == Wrapped(of, num, text)
<1>1. of \in RowKinds
  BY DEF LineTypes, RowKinds
<1>2. rows \in Seq(LineRows(of, num)) /\ Shown(rows) = Dense(text)
  BY <1>1, WrappedType, WrappedShown
<1> HIDE DEF rows
<1>3. LineRows(of, num) \subseteq Rows
  BY DEF LineRows
<1>4. rows \in Seq(Rows)
  BY <1>2, <1>3
<1>5. \A i \in 1..Len(rows) : rows[i].of # "more"
  <2>1. \A i \in 1..Len(rows) : rows[i] \in LineRows(of, num)
    BY <1>2
  <2>2. \A row \in LineRows(of, num) : row.of = of
    BY DEF LineRows
  <2>3. of # "more"
    BY DEF LineTypes
  <2> QED  BY <2>1, <2>2, <2>3
<1>6. Shows(s, render_line_break([s EXCEPT !.out = @ \o rows]), 1, Dense(text))
  BY <1>2, <1>4, <1>5, PutEffect
<1> QED  BY <1>6, Zenon DEF print_wrapped, rows

(* So does a row that is not wrapped.                                      *)
LEMMA RowEffect ==
    ASSUME NEW lines \in Nat, NEW s \in Streams(Rows, lines),
           NEW row \in Rows, row.of # "more"
    PROVE  Shows(s, render_line_break(Put(s, row)), 1, Dense(row.text))
<1> DEFINE rows == <<row>>
<1>1. rows \in Seq(Rows) /\ Len(rows) = 1 /\ rows[1] = row
  OBVIOUS
<1>2. Shown(rows) = Dense(row.text)
  <2>1. <<>> \in Seq(Rows) /\ rows = Append(<<>>, row)
    OBVIOUS
  <2>2. Shown(<<>>) = <<>>
    BY AllDenseNothing DEF Shown, Texts
  <2>3. Shown(Append(<<>>, row)) = <<>> \o Dense(row.text)
    BY <2>1, <2>2, ShownAppend
  <2>4. Dense(row.text) \in Seq(Chars)
    BY DenseType, SolidIsText DEF Rows
  <2>5. <<>> \o Dense(row.text) = Dense(row.text)
    BY <2>4
  <2> QED  BY <2>1, <2>3, <2>5
<1>3. Put(s, row) = [s EXCEPT !.out = @ \o rows]
  <2>1. Append(s.out, row) = s.out \o rows
    BY StreamFields
  <2> QED  BY <2>1, Zenon DEF Put
<1> HIDE DEF rows
<1>4. \A i \in 1..Len(rows) : rows[i].of # "more"
  BY <1>1
<1>5. Shows(s, render_line_break([s EXCEPT !.out = @ \o rows]), 1, Shown(rows))
  BY <1>1, <1>4, PutEffect, Zenon
<1> QED  BY <1>2, <1>3, <1>5

Headings == {"h1", "h2", "h3"}

(* What a line shows and how many lines it is to the pager.                *)
Sight(p) == IF p.type = "link" THEN Label(p) ELSE p.text
Height(p) == IF p.type \in Headings THEN 2 ELSE 1

ShowsLine(s, t, p) ==
    /\ Paged(t) = Paged(s) + Height(p)
    /\ Shown(t.out) = Shown(s.out) \o Dense(Sight(p))
    /\ t.links = IF p.type = "link" THEN add_link(s, p.url).links ELSE s.links
    /\ t.ok = s.ok

(* add_link changes nothing but the links.                                 *)
LEMMA AddLinkEffect ==
    ASSUME NEW lines, NEW s \in Streams(Rows, lines), NEW url
    PROVE  LET t == add_link(s, url)
           IN  /\ t.out = s.out /\ t.lines_printed = s.lines_printed
               /\ t.page_lines = s.page_lines /\ t.ok = s.ok
               /\ t.links = IF Len(s.links) >= NOS_MAX_LINKS THEN s.links
                            ELSE Append(s.links, url)
<1> DEFINE more == Append(s.links, url)
<1>1. add_link(s, url) = IF Len(s.links) >= NOS_MAX_LINKS THEN s
                         ELSE [s EXCEPT !.links = more]
  BY Zenon DEF add_link
<1> HIDE DEF more
<1>2. CASE Len(s.links) >= NOS_MAX_LINKS
  <2>1. add_link(s, url) = s
    BY <1>1, <1>2
  <2> QED  BY <1>2, <2>1
<1>3. CASE ~(Len(s.links) >= NOS_MAX_LINKS)
  <2> DEFINE t == [s EXCEPT !.links = more]
  <2>1. add_link(s, url) = t
    BY <1>1, <1>3
  <2>2. /\ t.out = s.out /\ t.lines_printed = s.lines_printed
        /\ t.page_lines = s.page_lines /\ t.ok = s.ok /\ t.links = more
    BY DEF Streams
  <2> HIDE DEF t
  <2> QED  BY <1>3, <2>1, <2>2 DEF more
<1> QED  BY <1>2, <1>3

(* Every kind of line shows what its meaning is.                           *)
LEMMA RenderEffect ==
    ASSUME NEW lines \in Nat, NEW s \in Pages(lines), NEW p,
           p.type \in LineTypes, p.url \in Seq(Chars), p.text \in Seq(Chars)
    PROVE  ShowsLine(s, render_parsed(s, p), p)
<1>1. s \in Streams(Rows, lines)
  BY PagesAreStreams
<1>2. 0 \in Nat /\ <<>> \in Seq(Chars) /\ Dense(p.text) \in Seq(Chars)
      /\ Shown(s.out) \in Seq(Chars) /\ s.out \in Seq(Rows)
  <2>1. Dense(p.text) \in Seq(Chars)
    BY DenseType, SolidIsText
  <2>2. s.out \in Seq(Rows)
    BY <1>1, StreamFields
  <2>3. Shown(s.out) \in Seq(Chars)
    BY <2>2, ShownAppend, MoreIsRow
  <2> QED  BY <2>1, <2>2, <2>3
<1>3. Paged(s) \in Nat
  <2>1. /\ Pauses(s.out) \in Nat /\ s.page_lines \in Nat
        /\ s.lines_printed \in Nat
    BY <1>1, <1>2, StreamFields, PausesOf DEF Counts
  <2> QED  BY <2>1 DEF Paged
<1>4. CASE p.type \in Headings
  <2> DEFINE blank == Row("text", 0, <<>>)
             t == render_line_break(Put(s, blank))
             u == print_wrapped(t, p.type, 0, p.text)
  <2>1. blank \in Rows /\ blank.of # "more" /\ blank.text = <<>>
        /\ blank \in FitRows
    <3>1. "text" \in RowKinds
      BY DEF RowKinds
    <3>2. blank \in Rows /\ blank.of = "text" /\ blank.text = <<>>
      BY <1>2, <3>1, RowsAreRows DEF Row
    <3> QED  BY <3>2 DEF FitRows, RowFits, Places
  <2>2. render_parsed(s, p) = u
    BY <1>4 DEF render_parsed, Headings
  <2>3. Shows(s, t, 1, <<>>)
    <3>1. Dense(blank.text) = <<>>
      BY <2>1, DenseEdges
    <3> HIDE DEF blank
    <3> QED  BY <1>1, <2>1, <3>1, RowEffect
  <2>4. t \in Streams(Rows, lines)
    <3> HIDE DEF blank
    <3> QED  BY <1>1, <2>1, PutType, BreakType, MoreIsRow
  <2> HIDE DEF t
  <2>5. Shows(t, u, 1, Dense(p.text))
    BY <1>2, <2>4, PrintEffect
  <2>6. Shown(s.out) \o <<>> = Shown(s.out)
    BY <1>2
  <2>7. /\ Height(p) = 2 /\ Sight(p) = p.text /\ p.type # "link"
    BY <1>4 DEF Height, Sight, Headings
  <2> HIDE DEF u
  <2>8. ShowsLine(s, u, p)
    BY <1>3, <2>3, <2>5, <2>6, <2>7 DEF Shows, ShowsLine
  <2> QED  BY <2>2, <2>8
<1>5. CASE p.type = "link"
  <2> DEFINE added == add_link(s, p.url)
             num == Len(added.links)
             u == print_wrapped(added, "link", num, Label(p))
  <2>1. /\ added \in Pages(lines) /\ num \in Nat /\ Label(p) \in Seq(Chars)
    BY AddLinkType, LabelType
  <2>2. render_parsed(s, p) = u
    BY <1>5 DEF render_parsed
  <2>3. /\ added.out = s.out /\ added.ok = s.ok
        /\ Paged(added) = Paged(s)
    BY <1>1, AddLinkEffect DEF Paged
  <2>4. added \in Streams(Rows, lines)
    BY <2>1, PagesAreStreams
  <2> HIDE DEF added, num
  <2>5. Shows(added, u, 1, Dense(Label(p)))
    <3>1. "link" \in LineTypes
      BY DEF LineTypes
    <3> QED  BY <2>1, <2>4, <3>1, PrintEffect
  <2>6. Height(p) = 1 /\ Sight(p) = Label(p)
    BY <1>5 DEF Height, Sight, Headings
  <2> HIDE DEF u
  <2>7. ShowsLine(s, u, p)
    BY <1>5, <2>3, <2>5, <2>6 DEF Shows, ShowsLine, added
  <2> QED  BY <2>2, <2>7
<1>6. CASE p.type = "preformat"
  <2> DEFINE row == Row("preformat", 0, p.text)
             u == render_line_break(Put(s, row))
  <2>1. row \in Rows /\ row.of # "more" /\ row.text = p.text
    <3>1. "preformat" \in RowKinds
      BY DEF RowKinds
    <3> QED  BY <1>2, <3>1, RowsAreRows DEF Row
  <2>2. render_parsed(s, p) = u
    BY <1>6 DEF render_parsed
  <2>3. Shows(s, u, 1, Dense(p.text))
    <3> HIDE DEF row
    <3> QED  BY <1>1, <2>1, RowEffect
  <2>4. Height(p) = 1 /\ Sight(p) = p.text
    BY <1>6 DEF Height, Sight, Headings
  <2> HIDE DEF u
  <2>5. ShowsLine(s, u, p)
    BY <1>6, <2>3, <2>4 DEF Shows, ShowsLine
  <2> QED  BY <2>2, <2>5
<1>7. CASE p.type \notin Headings \cup {"link", "preformat"}
  <2> DEFINE u == print_wrapped(s, p.type, 0, p.text)
  <2>1. render_parsed(s, p) = u
    BY <1>7 DEF render_parsed, Headings
  <2>2. Shows(s, u, 1, Dense(p.text))
    BY <1>1, <1>2, PrintEffect
  <2>3. Height(p) = 1 /\ Sight(p) = p.text
    BY <1>7 DEF Height, Sight, Headings
  <2> HIDE DEF u
  <2>4. ShowsLine(s, u, p)
    BY <1>7, <2>2, <2>3 DEF Shows, ShowsLine
  <2> QED  BY <2>1, <2>4
<1> QED  BY <1>4, <1>5, <1>6, <1>7

(* The end of a line shows it, or the parser has refused it.               *)
LEMMA EndLineEffect ==
    ASSUME NEW lines \in Nat, NEW s \in Pages(lines)
    PROVE  LET p == nos_gemtext_parse_line(UpTo(s.line, {"NUL"}), s.in_pre)
               t == EndLine(s)
           IN  /\ p.ok => /\ ShowsLine(s, t, p)
                          /\ t.line = <<>> /\ t.in_pre = p.in_pre
               /\ ~p.ok => t = [s EXCEPT !.ok = FALSE] /\ ~t.ok
<1> DEFINE line == UpTo(s.line, {"NUL"})
           p == nos_gemtext_parse_line(line, s.in_pre)
           u == render_parsed(s, p)
           t == [u EXCEPT !.line = <<>>, !.in_pre = p.in_pre]
           v == [s EXCEPT !.ok = FALSE]
<1>1. s \in Streams(FitRows, lines)
  BY DEF Pages
<1>2. line \in Seq(Chars) /\ s.in_pre \in BOOLEAN
  <2>1. s.line \in Seq(Chars) /\ s.in_pre \in BOOLEAN
    BY <1>1, StreamFields DEF ShortTexts
  <2> QED  BY <2>1, UpToType
<1>3. /\ p.type \in LineTypes /\ p.url \in Seq(Chars) /\ p.text \in Seq(Chars)
  <2> HIDE DEF line
  <2> QED  BY <1>2, ParseType
<1>4. EndLine(s) = IF p.ok THEN t ELSE v
  BY Zenon DEF EndLine, p, u, line
<1> HIDE DEF p
<1>5. ShowsLine(s, u, p) /\ u \in Streams(FitRows, lines)
  BY <1>3, RenderEffect, RenderType DEF Pages
<1> HIDE DEF u
<1>6. /\ t.out = u.out /\ t.links = u.links /\ t.ok = u.ok
      /\ t.lines_printed = u.lines_printed /\ t.page_lines = u.page_lines
      /\ t.line = <<>> /\ t.in_pre = p.in_pre
  BY <1>5 DEF Streams
<1>7. v.ok = FALSE
  BY <1>1 DEF Streams
<1> HIDE DEF t, v
<1>8. ShowsLine(s, t, p)
  BY <1>5, <1>6 DEF ShowsLine, Paged
<1>9. /\ p.ok => /\ ShowsLine(s, EndLine(s), p)
                 /\ EndLine(s).line = <<>> /\ EndLine(s).in_pre = p.in_pre
      /\ ~p.ok => EndLine(s) = v /\ ~EndLine(s).ok
  BY <1>4, <1>6, <1>7, <1>8
<1> QED  BY <1>9, Zenon DEF p, line, v

-----------------------------------------------------------------------------
(* One line more.                                                          *)
LEMMA Parity ==
    ASSUME NEW c \in Nat
    PROVE  (c + 1) % 2 = 1 <=> ~(c % 2 = 1)
OBVIOUS

(* A line more changes nothing for the lines before it, and toggles the    *)
(* block if it is a fence.                                                 *)
LEMMA InsideStep ==
    ASSUME NEW seen \in Seq(Seq(Chars)), NEW line \in Seq(Chars)
    PROVE  LET n    == Len(seen)
               more == Append(seen, line)
           IN  /\ \A k \in 1..(n + 1) : Inside(more, k) = Inside(seen, k)
               /\ Inside(more, n + 2)
                      = IF IsPrefix(Fence, line) THEN ~Inside(seen, n + 1)
                        ELSE Inside(seen, n + 1)
               /\ Inside(seen, n + 1) \in BOOLEAN
<1> DEFINE n == Len(seen)
           more == Append(seen, line)
           T == {j \in 1..(n + 1) : IsPrefix(Fence, more[j])}
<1>1. /\ n \in Nat /\ more \in Seq(Seq(Chars)) /\ Len(more) = n + 1
      /\ more[n + 1] = line /\ \A j \in 1..n : more[j] = seen[j]
  OBVIOUS
<1> HIDE DEF more, n
<1>2. ASSUME NEW k \in 1..(n + 1) PROVE Inside(more, k) = Inside(seen, k)
  <2>1. {j \in 1..(k - 1) : IsPrefix(Fence, more[j])}
            = {j \in 1..(k - 1) : IsPrefix(Fence, seen[j])}
    <3>1. \A j \in 1..(k - 1) : more[j] = seen[j]
      BY <1>1
    <3> QED  BY <3>1, Zenon
  <2> QED  BY <2>1, Zenon DEF Inside
<1>3. ASSUME NEW k \in 1..(n + 2)
      PROVE  Inside(more, k) = (Cardinality((1..(k - 1)) \cap T) % 2 = 1)
  <2>1. {j \in 1..(k - 1) : IsPrefix(Fence, more[j])} = (1..(k - 1)) \cap T
    <3>1. \A j \in 1..(k - 1) : j \in 1..(n + 1)
      BY <1>1
    <3> QED  BY <3>1, Zenon DEF T
  <2> QED  BY <2>1, Zenon DEF Inside
<1>4. n + 1 \in T <=> IsPrefix(Fence, line)
  BY <1>1
<1> HIDE DEF T
<1> DEFINE c == Cardinality((1..n) \cap T)
           d == Cardinality((1..(n + 1)) \cap T)
<1>5. c \in Nat /\ d = c + (IF n + 1 \in T THEN 1 ELSE 0)
  BY <1>1, CountUpTo
<1>6. Inside(more, n + 2) = (d % 2 = 1) /\ Inside(more, n + 1) = (c % 2 = 1)
  <2>1. /\ n + 2 \in 1..(n + 2) /\ n + 1 \in 1..(n + 2)
        /\ (n + 2) - 1 = n + 1 /\ (n + 1) - 1 = n
    BY <1>1
  <2> QED  BY <1>3, <2>1
<1>7. Inside(seen, n + 1) = (c % 2 = 1)
  <2>1. n + 1 \in 1..(n + 1)
    BY <1>1
  <2> QED  BY <1>2, <1>6, <2>1
<1> HIDE DEF c, d
<1>8. CASE IsPrefix(Fence, line)
  <2>1. d = c + 1
    BY <1>4, <1>5, <1>8
  <2>2. d % 2 = 1 <=> ~(c % 2 = 1)
    BY <1>5, <2>1, Parity
  <2> QED  BY <1>2, <1>6, <1>7, <1>8, <2>2 DEF n, more
<1>9. CASE ~IsPrefix(Fence, line)
  <2>1. d = c
    BY <1>4, <1>5, <1>9
  <2> QED  BY <1>2, <1>6, <1>7, <1>9, <2>1 DEF n, more
<1> QED  BY <1>8, <1>9

(* The lines before keep their meaning; the new one has that of the block  *)
(* it is in.                                                               *)
LEMMA MeaningStep ==
    ASSUME NEW seen \in Seq(Seq(Chars)), NEW line \in Seq(Chars)
    PROVE  LET n    == Len(seen)
               more == Append(seen, line)
           IN  /\ \A k \in 1..n : Meaning(more, k) = Meaning(seen, k)
               /\ Meaning(more, n + 1)
                      = nos_gemtext_parse_line(line, Inside(seen, n + 1))
<1> DEFINE n == Len(seen)
           more == Append(seen, line)
<1>1. /\ n \in Nat /\ more[n + 1] = line
      /\ \A k \in 1..n : more[k] = seen[k] /\ k \in 1..(n + 1)
      /\ n + 1 \in 1..(n + 1)
  OBVIOUS
<1>2. \A k \in 1..(n + 1) : Inside(more, k) = Inside(seen, k)
  BY InsideStep
<1> HIDE DEF n, more
<1>3. /\ \A k \in 1..n : Meaning(more, k) = Meaning(seen, k)
      /\ Meaning(more, n + 1)
             = nos_gemtext_parse_line(line, Inside(seen, n + 1))
  BY <1>1, <1>2, Zenon DEF Meaning
<1> QED  BY <1>3 DEF n, more

(* The lines of some types, and one more.                                  *)
LEMMA TypesStep ==
    ASSUME NEW seen \in Seq(Seq(Chars)), NEW line \in Seq(Chars), NEW types
    PROVE  LET n    == Len(seen)
               more == Append(seen, line)
               p    == nos_gemtext_parse_line(line, Inside(seen, n + 1))
               all  == OfType(seen, types)
           IN  /\ n \in Nat /\ IsFiniteSet(all) /\ Cardinality(all) \in Nat
               /\ all \subseteq 1..n
               /\ OfType(more, types)
                      = IF p.type \in types THEN all \cup {n + 1} ELSE all
               /\ Cardinality(OfType(more, types))
                      = IF p.type \in types THEN Cardinality(all) + 1
                        ELSE Cardinality(all)
<1> DEFINE n == Len(seen)
           more == Append(seen, line)
           p == nos_gemtext_parse_line(line, Inside(seen, n + 1))
           all == OfType(seen, types)
           new == OfType(more, types)
<1>1. /\ n \in Nat /\ DOMAIN seen = 1..n /\ DOMAIN more = 1..(n + 1)
  OBVIOUS
<1>2. /\ \A k \in 1..n : Meaning(more, k) = Meaning(seen, k)
      /\ Meaning(more, n + 1) = p
  BY MeaningStep
<1> HIDE DEF n, more, p
<1>3. all \subseteq 1..n
  BY <1>1 DEF OfType
<1>4. IsFiniteSet(all) /\ Cardinality(all) \in Nat
  <2> HIDE DEF all
  <2>1. IsFiniteSet(1..n)
    BY <1>1, FS_Interval
  <2>2. all \in SUBSET (1..n)
    BY <1>3
  <2> QED  BY <2>1, <2>2, FS_Subset, FS_CardinalityType
<1>5. new = IF p.type \in types THEN all \cup {n + 1} ELSE all
  <2>1. 1..(n + 1) = (1..n) \cup {n + 1}
    BY <1>1
  <2>2. \A k : k \in new <=> k \in all \/ (k = n + 1 /\ p.type \in types)
    BY <1>1, <1>2, <2>1, Zenon DEF OfType
  <2> HIDE DEF all, new
  <2> QED  BY <2>2
<1>6. n + 1 \notin all
  BY <1>1, <1>3
<1> HIDE DEF all, new
<1>7. Cardinality(new) = IF p.type \in types THEN Cardinality(all) + 1
                         ELSE Cardinality(all)
  <2>1. CASE p.type \in types
    <3>1. new = all \cup {n + 1}
      BY <1>5, <2>1
    <3>2. Cardinality(all \cup {n + 1}) = Cardinality(all) + 1
      BY <1>4, <1>6, FS_AddElement
    <3> QED  BY <2>1, <3>1, <3>2
  <2>2. CASE p.type \notin types
    BY <1>5, <2>2
  <2> QED  BY <2>1, <2>2
<1> QED  BY <1>1, <1>3, <1>4, <1>5, <1>7 DEF n, more, p, all, new

(* A link more is handed over where there is room.                         *)
LEMMA LinksStep ==
    ASSUME NEW seen \in Seq(Seq(Chars)), NEW line \in Seq(Chars),
           NEW urls \in Seq(Seq(Chars)), AreLinksOf(urls, seen)
    PROVE  LET n == Len(seen)
               p == nos_gemtext_parse_line(line, Inside(seen, n + 1))
           IN  AreLinksOf(IF p.type # "link" \/ Len(urls) >= NOS_MAX_LINKS
                          THEN urls ELSE Append(urls, p.url),
                          Append(seen, line))
<1> DEFINE n == Len(seen)
           more == Append(seen, line)
           p == nos_gemtext_parse_line(line, Inside(seen, n + 1))
           all == OfType(seen, {"link"})
           new == OfType(more, {"link"})
           isLink == p.type = "link"
           Before(S, k) == {j \in S : j <= k}
           max == NOS_MAX_LINKS
           c == Cardinality(all)
           d == Cardinality(new)
           urls2 == IF ~isLink \/ Len(urls) >= max THEN urls
                    ELSE Append(urls, p.url)
<1>1. /\ n \in Nat /\ IsFiniteSet(all) /\ c \in Nat /\ all \subseteq 1..n
      /\ new = IF isLink THEN all \cup {n + 1} ELSE all
      /\ d = IF isLink THEN c + 1 ELSE c
  <2> DEFINE types == {"link"}
  <2>1. isLink <=> p.type \in types
    OBVIOUS
  <2>2. all = OfType(seen, types) /\ new = OfType(more, types)
    OBVIOUS
  <2> HIDE DEF types, all, new, isLink
  <2>3. /\ n \in Nat /\ IsFiniteSet(all) /\ c \in Nat /\ all \subseteq 1..n
        /\ new = IF p.type \in types THEN all \cup {n + 1} ELSE all
        /\ d = IF p.type \in types THEN c + 1 ELSE c
    BY <2>2, TypesStep
  <2> HIDE DEF c, d, p, n
  <2> QED  BY <2>1, <2>3
<1>2. /\ \A k \in 1..n : Meaning(more, k) = Meaning(seen, k)
      /\ Meaning(more, n + 1) = p
  BY MeaningStep
<1>3. max \in Nat \ {0} /\ urls \in Seq(Seq(Chars))
  BY BodyAssumption DEF BodyAssumption
<1>4. /\ Len(urls) = IF c < max THEN c ELSE max
      /\ \A k \in all : Cardinality(Before(all, k)) <= max =>
             urls[Cardinality(Before(all, k))] = Meaning(seen, k).url
  BY Zenon DEF AreLinksOf
<1> HIDE DEF n, more, p, all, new, max, c, d, isLink
<1>5. ASSUME NEW k \in all
      PROVE  /\ Before(new, k) = Before(all, k)
             /\ Cardinality(Before(all, k)) \in 1..c
             /\ Meaning(more, k) = Meaning(seen, k)
  <2>1. k \in 1..n
    BY <1>1
  <2>2. Before(new, k) = Before(all, k)
    BY <1>1, <2>1
  <2>3. Before(all, k) \in SUBSET all /\ k \in Before(all, k)
    BY <2>1
  <2> HIDE DEF Before
  <2>4. /\ IsFiniteSet(Before(all, k)) /\ Cardinality(Before(all, k)) <= c
        /\ Cardinality(Before(all, k)) \in Nat
    BY <1>1, <2>3, FS_Subset, FS_CardinalityType DEF c
  <2>5. Cardinality(Before(all, k)) # 0
    BY <2>3, <2>4, FS_EmptySet
  <2> QED  BY <1>1, <1>2, <2>1, <2>2, <2>4, <2>5
<1>6. Before(new, n + 1) = new
  <2>1. \A j \in new : j \in Nat /\ j <= n + 1
    BY <1>1
  <2> QED  BY <2>1
<1> HIDE DEF Before
<1>7. ASSUME NEW k \in new, Cardinality(Before(new, k)) <= max
      PROVE  urls2[Cardinality(Before(new, k))] = Meaning(more, k).url
  <2>1. CASE k \in all
    <3> DEFINE place == Cardinality(Before(all, k))
    <3>1. place \in 1..c /\ place <= max /\ urls[place] = Meaning(more, k).url
      BY <1>4, <1>5, <1>7, <2>1
    <3>2. place \in 1..Len(urls)
      BY <1>1, <1>3, <1>4, <3>1
    <3> HIDE DEF place
    <3>3. urls2[place] = urls[place]
      BY <1>3, <3>2
    <3> HIDE DEF urls2
    <3> QED  BY <1>5, <2>1, <3>1, <3>3 DEF place
  <2>2. CASE k \notin all
    <3>1. isLink /\ k = n + 1 /\ d = c + 1 /\ Cardinality(Before(new, k)) = d
      BY <1>1, <1>6, <2>2 DEF d
    <3>2. c < max /\ Len(urls) = c
      BY <1>1, <1>3, <1>4, <1>7, <3>1
    <3>3. urls2 = Append(urls, p.url)
      BY <1>1, <1>3, <3>1, <3>2
    <3>4. Append(urls, p.url)[c + 1] = p.url
      BY <1>3, <3>2
    <3> HIDE DEF urls2
    <3> QED  BY <1>2, <3>1, <3>3, <3>4
  <2> QED  BY <2>1, <2>2
<1>8. Len(urls2) = IF d < max THEN d ELSE max
  <2>1. CASE ~isLink
    BY <1>1, <1>4, <2>1
  <2>2. CASE isLink /\ c < max
    <3>1. urls2 = Append(urls, p.url)
      BY <1>1, <1>3, <1>4, <2>2
    <3>2. Len(Append(urls, p.url)) = c + 1
      BY <1>3, <1>4, <2>2
    <3> HIDE DEF urls2
    <3> QED  BY <1>1, <1>3, <2>2, <3>1, <3>2
  <2>3. CASE isLink /\ ~(c < max)
    <3>1. urls2 = urls
      BY <1>1, <1>3, <1>4, <2>3
    <3> HIDE DEF urls2
    <3> QED  BY <1>1, <1>3, <1>4, <2>3, <3>1
  <2> QED  BY <2>1, <2>2, <2>3
<1> HIDE DEF urls2
<1>9. AreLinksOf(urls2, more)
  BY <1>7, <1>8, Zenon DEF AreLinksOf, Before, new, d, max
<1> QED  BY <1>9, Zenon DEF urls2, more, isLink, p, n, max

(* The parser and the count of fences agree.                               *)
LEMMA FenceToggles ==
    ASSUME NEW line, NEW in_pre \in BOOLEAN
    PROVE  nos_gemtext_parse_line(line, in_pre).in_pre
               = IF IsPrefix(Fence, line) THEN ~in_pre ELSE in_pre
<1> DEFINE p == nos_gemtext_parse_line(line, in_pre)
<1>1. \A t, u, x, pre : Parsed(t, u, x, pre).in_pre = pre
  BY DEF Parsed
<1>2. CASE IsPrefix(Fence, line)
  <2>1. p = Parsed("preformat", <<>>, <<>>, ~in_pre)
    BY <1>2, Zenon DEF nos_gemtext_parse_line
  <2> QED  BY <1>1, <1>2, <2>1
<1>3. CASE ~IsPrefix(Fence, line) /\ in_pre
  <2>1. p = Parsed("preformat", <<>>, line, TRUE)
    BY <1>3, Zenon DEF nos_gemtext_parse_line
  <2> HIDE DEF p
  <2>2. p.in_pre = TRUE
    BY <2>1 DEF Parsed
  <2> QED  BY <1>3, <2>2 DEF p
<1>4. CASE ~IsPrefix(Fence, line) /\ ~in_pre
  <2>1. \E t, u, x : p = Parsed(t, u, x, FALSE)
    BY <1>4, Zenon DEF nos_gemtext_parse_line
  <2>2. p.in_pre = FALSE
    <3> HIDE DEF p
    <3>1. PICK t, u, x : p = Parsed(t, u, x, FALSE)
      BY <2>1
    <3> QED  BY <3>1 DEF Parsed
  <2> HIDE DEF p
  <2> QED  BY <1>4, <2>2 DEF p
<1> QED  BY <1>2, <1>3, <1>4

(* What lines show.                                                        *)
Sights(seen) == [k \in DOMAIN seen |-> Visible(seen, k)]

(* A line more shows what its meaning is.                                  *)
LEMMA SightsStep ==
    ASSUME NEW seen \in Seq(Seq(Chars)), NEW line \in Seq(Chars)
    PROVE  LET p == nos_gemtext_parse_line(line, Inside(seen, Len(seen) + 1))
           IN  AllDense(Sights(Append(seen, line)))
                   = AllDense(Sights(seen)) \o Dense(Sight(p))
<1> DEFINE n == Len(seen)
           more == Append(seen, line)
           p == nos_gemtext_parse_line(line, Inside(seen, n + 1))
           x == Sights(seen)
           y == Sights(more)
<1>1. /\ n \in Nat /\ DOMAIN seen = 1..n /\ DOMAIN more = 1..(n + 1)
      /\ \A k \in 1..n : seen[k] \in Seq(Chars)
  OBVIOUS
<1>2. /\ \A k \in 1..n : Meaning(more, k) = Meaning(seen, k)
      /\ Meaning(more, n + 1) = p
  BY MeaningStep
<1>3. ASSUME NEW text \in Seq(Chars), NEW in_pre \in BOOLEAN
      PROVE  Sight(nos_gemtext_parse_line(text, in_pre)) \in Seq(Chars)
  <2> DEFINE q == nos_gemtext_parse_line(text, in_pre)
  <2>1. q.url \in Seq(Chars) /\ q.text \in Seq(Chars)
    BY <1>3, ParseType
  <2> HIDE DEF q
  <2>2. Label(q) \in Seq(Chars)
    BY <2>1, LabelType
  <2>3. Sight(q) \in Seq(Chars)
    BY <2>1, <2>2 DEF Sight
  <2> QED  BY <2>3 DEF q
<1>4. \A s, k : Visible(s, k) = Sight(Meaning(s, k))
  BY Zenon DEF Visible, Sight
<1>5. ASSUME NEW k \in 1..n PROVE Visible(seen, k) \in Seq(Chars)
  <2>1. Inside(seen, k) \in BOOLEAN
    BY DEF Inside
  <2>2. Sight(nos_gemtext_parse_line(seen[k], Inside(seen, k))) \in Seq(Chars)
    BY <1>1, <1>3, <2>1
  <2> QED  BY <1>4, <2>2, Zenon DEF Meaning
<1>6. Sight(p) \in Seq(Chars)
  <2>1. Inside(seen, n + 1) \in BOOLEAN
    BY DEF Inside
  <2> QED  BY <1>3, <2>1
<1> HIDE DEF n, more, p
<1>7. x \in Seq(Seq(Chars)) /\ Len(x) = n
  BY <1>1, <1>5 DEF Sights
<1>8. /\ DOMAIN y = 1..(n + 1) /\ y[n + 1] = Sight(p)
      /\ \A k \in 1..n : y[k] = x[k]
  <2>1. n + 1 \in 1..(n + 1) /\ \A k \in 1..n : k \in 1..(n + 1)
    BY <1>1
  <2> QED  BY <1>1, <1>2, <1>4, <2>1, Zenon DEF Sights
<1>9. y = Append(x, Sight(p))
  <2>1. y = [k \in 1..(n + 1) |-> y[k]]
    BY <1>8 DEF Sights
  <2> HIDE DEF x, y
  <2> DEFINE T == Seq(Chars)
  <2>2. \A k \in 1..(n + 1) : y[k] \in T
    BY <1>1, <1>6, <1>7, <1>8
  <2>3. x \in Seq(T) /\ Sight(p) \in T
    BY <1>6, <1>7
  <2> HIDE DEF T
  <2>4. y \in Seq(T) /\ Len(y) = n + 1
    BY <1>1, <2>1, <2>2
  <2>5. Append(x, Sight(p)) \in Seq(T) /\ Len(Append(x, Sight(p))) = n + 1
    BY <1>7, <2>3
  <2>6. \A k \in 1..(n + 1) : y[k] = Append(x, Sight(p))[k]
    BY <1>1, <1>7, <1>8, <2>3
  <2> QED  BY <2>4, <2>5, <2>6, SameText
<1>10. AllDense(Append(x, Sight(p))) = AllDense(x) \o Dense(Sight(p))
  <2> HIDE DEF x
  <2> QED  BY <1>6, <1>7, AllDenseAppend
<1>11. AllDense(y) = AllDense(x) \o Dense(Sight(p))
  <2> HIDE DEF x, y
  <2> QED  BY <1>9, <1>10
<1> QED  BY <1>11 DEF x, y, p, n, more

-----------------------------------------------------------------------------
(* What the renderer has made of lines that have ended.                    *)
Image(s, seen) ==
    /\ s.in_pre = Inside(seen, Len(seen) + 1)
    /\ AreLinksOf(s.links, seen)
    /\ Paged(s) = Len(seen) + Cardinality(OfType(seen, Headings))
    /\ Shown(s.out) = AllDense(Sights(seen))

(* An empty page is what no lines mean.                                    *)
LEMMA ImageOfNothing ==
    ASSUME NEW lines \in Nat
    PROVE  Image(Fresh(lines), <<>>)
<1> DEFINE s == Fresh(lines)
           seen == <<>>
<1>1. /\ s.in_pre = FALSE /\ s.links = <<>> /\ s.out = <<>>
      /\ s.page_lines = lines /\ s.lines_printed = 0
  BY DEF Fresh
<1>2. Len(seen) = 0 /\ DOMAIN seen = {} /\ Len(<<>>) = 0
  OBVIOUS
<1>3. Cardinality({}) = 0
  BY FS_EmptySet
<1> HIDE DEF s, seen
<1>4. Inside(seen, Len(seen) + 1) = FALSE
  <2>1. {j \in 1..((Len(seen) + 1) - 1) : IsPrefix(Fence, seen[j])} = {}
    BY <1>2
  <2>2. ~(0 % 2 = 1)
    OBVIOUS
  <2>3. Inside(seen, Len(seen) + 1) = (Cardinality({}) % 2 = 1)
    BY <2>1, Zenon DEF Inside
  <2> QED  BY <1>3, <2>2, <2>3
<1>5. \A types : OfType(seen, types) = {}
  BY <1>2 DEF OfType
<1>6. AreLinksOf(s.links, seen)
  <2>1. NOS_MAX_LINKS \in Nat \ {0}
    BY BodyAssumption DEF BodyAssumption
  <2> DEFINE urls == s.links
             all == OfType(seen, {"link"})
  <2>2. all = {} /\ Cardinality(all) = 0 /\ Len(urls) = 0
    BY <1>1, <1>2, <1>3, <1>5
  <2> HIDE DEF all, urls
  <2>3. Len(urls) = IF Cardinality(all) < NOS_MAX_LINKS THEN Cardinality(all)
                    ELSE NOS_MAX_LINKS
    BY <2>1, <2>2
  <2>4. \A k \in all : FALSE
    BY <2>2
  <2> QED  BY <2>3, <2>4, Zenon DEF AreLinksOf, all, urls
<1>7. Paged(s) = Len(seen) + Cardinality(OfType(seen, Headings))
  <2>1. Pauses(<<>>) = 0
    <3>1. Places(<<>>, {More}) = {}
      BY DEF Places
    <3> QED  BY <1>3, <3>1 DEF Pauses
  <2>2. 0 * lines + 0 = 0
    OBVIOUS
  <2>3. Cardinality(OfType(seen, Headings)) = 0
    BY <1>3, <1>5
  <2>4. Paged(s) = 0
    BY <1>1, <2>1, <2>2 DEF Paged
  <2> QED  BY <1>2, <2>3, <2>4
<1>8. Shown(s.out) = AllDense(Sights(seen))
  <2>1. Texts(<<>>) = <<>>
    BY DEF Texts
  <2>2. Sights(<<>>) = <<>>
    BY DEF Sights
  <2> QED  BY <1>1, <2>1, <2>2 DEF Shown, seen
<1> QED  BY <1>1, <1>4, <1>6, <1>7, <1>8 DEF Image, s, seen

(* The end of a line that the parser takes keeps the page the image of the *)
(* lines.                                                                  *)
LEMMA ImageStep ==
    ASSUME NEW lines \in Nat, NEW s \in Pages(lines),
           NEW seen \in Seq(Seq(Chars)), Image(s, seen),
           nos_gemtext_parse_line(UpTo(s.line, {"NUL"}), s.in_pre).ok
    PROVE  Image(EndLine(s), Append(seen, UpTo(s.line, {"NUL"})))
<1> DEFINE n == Len(seen)
           line == UpTo(s.line, {"NUL"})
           more == Append(seen, line)
           p == nos_gemtext_parse_line(line, s.in_pre)
           q == nos_gemtext_parse_line(line, Inside(seen, n + 1))
           t == EndLine(s)
<1>1. s \in Streams(Rows, lines)
  BY PagesAreStreams
<1>2. /\ s.line \in Seq(Chars) /\ s.in_pre \in BOOLEAN
      /\ s.links \in Seq(Seq(Chars)) /\ s.out \in Seq(Rows)
  BY <1>1, StreamFields DEF ShortTexts, FewLinks
<1>3. line \in Seq(Chars) /\ n \in Nat /\ Len(more) = n + 1
  BY <1>2, UpToType
<1>4. p = q /\ p.ok
  BY Zenon DEF Image
<1>5. ShowsLine(s, t, p) /\ t.in_pre = p.in_pre
  BY <1>4, EndLineEffect
<1>6. t.in_pre = Inside(more, Len(more) + 1)
  <2>1. (n + 1) + 1 = n + 2
    BY <1>3
  <2>2. Inside(more, n + 2) = IF IsPrefix(Fence, line)
                              THEN ~Inside(seen, n + 1)
                              ELSE Inside(seen, n + 1)
    <3> HIDE DEF line
    <3> QED  BY <1>3, InsideStep
  <2>3. s.in_pre = Inside(seen, n + 1)
    BY DEF Image
  <2>4. p.in_pre = IF IsPrefix(Fence, line) THEN ~s.in_pre ELSE s.in_pre
    BY <1>2, FenceToggles
  <2> HIDE DEF p, line, more, n, t
  <2> QED  BY <1>3, <1>5, <2>1, <2>2, <2>3, <2>4
<1> HIDE DEF t, line
<1>7. AreLinksOf(t.links, more)
  <2> DEFINE urls == IF q.type # "link" \/ Len(s.links) >= NOS_MAX_LINKS
                     THEN s.links ELSE Append(s.links, q.url)
  <2>1. AreLinksOf(urls, more)
    <3>1. AreLinksOf(s.links, seen)
      BY DEF Image
    <3> QED  BY <1>2, <1>3, <3>1, LinksStep
  <2>2. add_link(s, p.url).links
            = IF Len(s.links) >= NOS_MAX_LINKS THEN s.links
              ELSE Append(s.links, p.url)
    BY <1>1, AddLinkEffect
  <2>3. t.links = IF p.type = "link" THEN add_link(s, p.url).links
                  ELSE s.links
    BY <1>5 DEF ShowsLine
  <2> HIDE DEF p, q
  <2>4. t.links = urls
    BY <1>4, <2>2, <2>3
  <2> QED  BY <2>1, <2>4
<1>8. Paged(t) = Len(more) + Cardinality(OfType(more, Headings))
  <2> DEFINE c == Cardinality(OfType(seen, Headings))
             d == Cardinality(OfType(more, Headings))
  <2>1. c \in Nat /\ d = IF q.type \in Headings THEN c + 1 ELSE c
    BY <1>3, TypesStep
  <2>2. Paged(s) = n + c
    BY DEF Image
  <2>3. Paged(t) = Paged(s) + (IF p.type \in Headings THEN 2 ELSE 1)
    BY <1>5 DEF ShowsLine, Height
  <2> HIDE DEF c, d, n, p, q, more
  <2> QED  BY <1>3, <1>4, <2>1, <2>2, <2>3 DEF d
<1>9. Shown(t.out) = AllDense(Sights(more))
  <2>1. Shown(t.out) = Shown(s.out) \o Dense(Sight(p))
    BY <1>5 DEF ShowsLine
  <2>2. Shown(s.out) = AllDense(Sights(seen))
    BY DEF Image
  <2>3. AllDense(Sights(more)) = AllDense(Sights(seen)) \o Dense(Sight(q))
    BY <1>3, SightsStep
  <2> HIDE DEF p, q, more
  <2> QED  BY <1>4, <2>1, <2>2, <2>3
<1> HIDE DEF more
<1>10. Image(t, more)
  BY <1>6, <1>7, <1>8, <1>9 DEF Image
<1> QED  BY <1>10 DEF t, more, line

(* A sequence is its front and its last element.                           *)
LEMMA FrontAndLast ==
    ASSUME NEW S, NEW s \in Seq(S), s # <<>>
    PROVE  /\ Front(s) \in Seq(S) /\ Last(s) \in S
           /\ s = Append(Front(s), Last(s)) /\ Len(Front(s)) = Len(s) - 1
<1>1. Len(s) \in Nat \ {0}
  OBVIOUS
<1>2. Front(s) \in Seq(S) /\ Len(Front(s)) = Len(s) - 1
  BY <1>1, FrontLength DEF Front
<1>3. Last(s) \in S
  BY <1>1 DEF Last
<1>4. \A i \in 1..(Len(s) - 1) : Front(s)[i] = s[i]
  BY <1>1 DEF Front
<1>5. s = Append(Front(s), Last(s))
  <2> DEFINE t == Append(Front(s), Last(s))
  <2>1. t \in Seq(S) /\ Len(t) = Len(s)
    BY <1>1, <1>2, <1>3
  <2>2. \A i \in 1..Len(s) : s[i] = t[i]
    BY <1>1, <1>2, <1>3, <1>4 DEF Last
  <2> HIDE DEF t
  <2>3. s = t
    BY <2>1, <2>2, SameText
  <2> QED  BY <2>3 DEF t
<1> QED  BY <1>2, <1>3, <1>5

(* And the other way round.                                                *)
LEMMA FrontOfAppend ==
    ASSUME NEW S, NEW s \in Seq(S), NEW x \in S
    PROVE  /\ Front(Append(s, x)) = s /\ Last(Append(s, x)) = x
           /\ Append(s, x) # <<>> /\ Append(s, x) \in Seq(S)
<1> DEFINE t == Append(s, x)
           n == Len(s)
<1>1. t \in Seq(S) /\ Len(t) = n + 1 /\ t[n + 1] = x /\ n \in Nat
      /\ \A i \in 1..n : t[i] = s[i]
  OBVIOUS
<1> HIDE DEF t, n
<1>2. t # <<>>
  BY <1>1
<1>3. Front(t) \in Seq(S) /\ Len(Front(t)) = (n + 1) - 1
  BY <1>1, <1>2, FrontAndLast
<1>4. \A i \in 1..n : Front(t)[i] = t[i]
  BY <1>1 DEF Front
<1>5. Front(t) = s
  <2>1. Len(Front(t)) = n
    BY <1>1, <1>3
  <2>2. \A i \in 1..Len(Front(t)) : Front(t)[i] = s[i]
    BY <1>1, <1>4, <2>1
  <2> QED  BY <1>3, <2>1, <2>2, SameText DEF n
<1>6. Last(t) = x
  BY <1>1 DEF Last
<1> QED  BY <1>1, <1>2, <1>5, <1>6 DEF t

(* A function on 1..n is a sequence.                                       *)
LEMMA AsSequence ==
    ASSUME NEW T, NEW n \in Nat, NEW y, y = [k \in 1..n |-> y[k]],
           \A k \in 1..n : y[k] \in T
    PROVE  y \in Seq(T) /\ Len(y) = n
<1>1. [k \in 1..n |-> y[k]] \in Seq(T)
  OBVIOUS
<1>2. Len([k \in 1..n |-> y[k]]) = n
  OBVIOUS
<1> QED  BY <1>1, <1>2

(* A line more that is seen up to a NUL.                                   *)
LEMMA SeenAppend ==
    ASSUME NEW F \in Seq(Seq(Chars)), NEW x \in Seq(Chars)
    PROVE  /\ Seen(F) \in Seq(Seq(Chars)) /\ Len(Seen(F)) = Len(F)
           /\ Seen(Append(F, x)) = Append(Seen(F), UpTo(x, {"NUL"}))
<1> DEFINE T == Seq(Chars)
           n == Len(F)
           a == Append(F, x)
           u == UpTo(x, {"NUL"})
           y == Seen(F)
           z == Seen(a)
<1>1. /\ F \in Seq(T) /\ n \in Nat /\ DOMAIN F = 1..n /\ a \in Seq(T)
      /\ DOMAIN a = 1..(n + 1) /\ a[n + 1] = x /\ \A k \in 1..n : a[k] = F[k]
      /\ \A k \in 1..n : F[k] \in Seq(Chars)
  OBVIOUS
<1>2. \A t \in Seq(Chars) : UpTo(t, {"NUL"}) \in T
  BY UpToType
<1>3. y = [k \in 1..n |-> UpTo(F[k], {"NUL"})]
  BY <1>1 DEF Seen
<1>4. z = [k \in 1..(n + 1) |-> UpTo(a[k], {"NUL"})]
  BY <1>1 DEF Seen
<1> HIDE DEF n, a, y, z
<1>5. /\ \A k \in 1..n : y[k] = UpTo(F[k], {"NUL"}) /\ y[k] \in T
      /\ \A k \in 1..n : z[k] = UpTo(F[k], {"NUL"}) /\ z[k] \in T
      /\ z[n + 1] = u /\ u \in T
  BY <1>1, <1>2, <1>3, <1>4
<1> HIDE DEF T, u
<1>6. y \in Seq(T) /\ Len(y) = n
  <2>1. y = [k \in 1..n |-> y[k]]
    BY <1>3
  <2>2. n \in Nat /\ \A k \in 1..n : y[k] \in T
    BY <1>1, <1>5
  <2> QED  BY ONLY <2>1, <2>2, AsSequence
<1>7. z \in Seq(T) /\ Len(z) = n + 1
  <2>1. z = [k \in 1..(n + 1) |-> z[k]]
    BY <1>4
  <2>2. \A k \in 1..(n + 1) : z[k] \in T
    BY <1>1, <1>5
  <2>3. n + 1 \in Nat
    BY <1>1
  <2> QED  BY ONLY <2>1, <2>2, <2>3, AsSequence
<1>8. Append(y, u) \in Seq(T) /\ Len(Append(y, u)) = n + 1
  BY <1>5, <1>6
<1>9. \A k \in 1..(n + 1) : z[k] = Append(y, u)[k]
  BY <1>1, <1>5, <1>6
<1>10. z = Append(y, u)
  BY <1>7, <1>8, <1>9, SameText
<1> QED  BY <1>6, <1>10 DEF T, n, a, u, y, z

-----------------------------------------------------------------------------
(* The lines F have ended and x is in progress: all of them fit.           *)
FitsAll(F, x) ==
    /\ \A k \in DOMAIN F : Len(F[k]) < LineSize /\ Meaning(Seen(F), k).ok
    /\ Len(x) < LineSize

(* The renderer is where the text is.                                      *)
Match(s, F, x) ==
    /\ s.ok = FitsAll(F, x)
    /\ s.ok => Image(s, Seen(F)) /\ s.line = x

(* All lines fit if those before do and the parser takes the last one.     *)
LEMMA FitsMore ==
    ASSUME NEW F \in Seq(Seq(Chars)), NEW x \in Seq(Chars)
    PROVE  FitsAll(Append(F, x), <<>>)
               = (/\ FitsAll(F, x)
                  /\ nos_gemtext_parse_line(UpTo(x, {"NUL"}),
                                    Inside(Seen(F), Len(F) + 1)).ok)
<1> DEFINE n == Len(F)
           a == Append(F, x)
           u == UpTo(x, {"NUL"})
           p == nos_gemtext_parse_line(u, Inside(Seen(F), n + 1))
<1>1. /\ n \in Nat /\ DOMAIN F = 1..n /\ DOMAIN a = 1..(n + 1)
      /\ a[n + 1] = x /\ \A k \in 1..n : a[k] = F[k]
  OBVIOUS
<1>2. u \in Seq(Chars)
  BY UpToType
<1>3. /\ Seen(F) \in Seq(Seq(Chars)) /\ Len(Seen(F)) = n
      /\ Seen(a) = Append(Seen(F), u)
  BY SeenAppend
<1> HIDE DEF u
<1>4. /\ \A k \in 1..n : Meaning(Append(Seen(F), u), k) = Meaning(Seen(F), k)
      /\ Meaning(Append(Seen(F), u), n + 1) = p
  BY <1>2, <1>3, MeaningStep
<1> HIDE DEF n, a, p
<1>5. Len(<<>>) < LineSize
  BY BodyAssumption DEF BodyAssumption
<1>6. /\ \A k \in 1..n : Meaning(Seen(a), k) = Meaning(Seen(F), k)
      /\ Meaning(Seen(a), n + 1) = p
  BY <1>3, <1>4
<1> DEFINE G(k) == Len(a[k]) < LineSize /\ Meaning(Seen(a), k).ok
           H(k) == Len(F[k]) < LineSize /\ Meaning(Seen(F), k).ok
<1>7. \A k \in 1..n : G(k) <=> H(k)
  BY <1>1, <1>6
<1>8. G(n + 1) <=> Len(x) < LineSize /\ p.ok
  BY <1>1, <1>6
<1> HIDE DEF G, H
<1>9. (\A k \in 1..(n + 1) : G(k)) <=> (\A k \in 1..n : H(k)) /\ G(n + 1)
  BY <1>1, <1>7
<1>10. FitsAll(a, <<>>) <=> \A k \in 1..(n + 1) : G(k)
  BY <1>1, <1>5, Zenon DEF FitsAll, G
<1>11. FitsAll(F, x) <=> (\A k \in 1..n : H(k)) /\ Len(x) < LineSize
  BY <1>1, Zenon DEF FitsAll, H
<1>12. FitsAll(a, <<>>) <=> FitsAll(F, x) /\ p.ok
  BY <1>8, <1>9, <1>10, <1>11, Zenon
<1>13. p.ok \in BOOLEAN
  <2>1. Inside(Seen(F), n + 1) \in BOOLEAN
    BY DEF Inside
  <2> QED  BY <1>2, <2>1, ParseType DEF p
<1>14. FitsAll(a, <<>>) \in BOOLEAN
  BY DEF FitsAll
<1>15. FitsAll(a, <<>>) = (FitsAll(F, x) /\ p.ok)
  BY <1>12, <1>13, <1>14
<1> QED  BY <1>15 DEF a, p, u, n

(* What does not touch the page keeps its image.                           *)
LEMMA SameImage ==
    ASSUME NEW s, NEW t, NEW seen, Image(s, seen), t.out = s.out,
           t.links = s.links, t.in_pre = s.in_pre, t.page_lines = s.page_lines,
           t.lines_printed = s.lines_printed
    PROVE  Image(t, seen)
BY DEF Image, Paged

(* Match from its parts.                                                   *)
LEMMA IsMatch ==
    ASSUME NEW s, NEW F, NEW x, s.ok \in BOOLEAN, s.ok <=> FitsAll(F, x),
           s.ok => Image(s, Seen(F)) /\ s.line = x
    PROVE  Match(s, F, x)
<1>1. FitsAll(F, x) \in BOOLEAN
  BY DEF FitsAll
<1>2. s.ok = FitsAll(F, x)
  BY <1>1
<1> QED  BY <1>2 DEF Match

(* At the end of a line the one in progress joins those that have ended.   *)
LEMMA MatchLine ==
    ASSUME NEW lines \in Nat, NEW s \in Pages(lines),
           NEW F \in Seq(Seq(Chars)), NEW x \in Seq(Chars), Match(s, F, x)
    PROVE  IF s.ok THEN Match(EndLine(s), Append(F, x), <<>>)
           ELSE Match(s, Append(F, x), <<>>)
<1> DEFINE a == Append(F, x)
           u == UpTo(x, {"NUL"})
           p == nos_gemtext_parse_line(u, Inside(Seen(F), Len(F) + 1))
<1>1. FitsAll(a, <<>>) = (FitsAll(F, x) /\ p.ok)
  BY FitsMore
<1>2. Len(Seen(F)) = Len(F) /\ Seen(a) = Append(Seen(F), u)
      /\ Seen(F) \in Seq(Seq(Chars))
  BY SeenAppend
<1>3. s.ok = FitsAll(F, x) /\ FitsAll(a, <<>>) \in BOOLEAN
  BY DEF Match, FitsAll
<1>4. CASE ~s.ok
  <2> HIDE DEF a, p
  <2>1. ~FitsAll(a, <<>>)
    BY <1>1, <1>3, <1>4
  <2>2. s.ok \in BOOLEAN
    BY <1>3 DEF FitsAll
  <2>3. Match(s, a, <<>>)
    BY <1>3, <1>4, <2>1, <2>2 DEF Match
  <2> QED  BY <1>4, <2>3 DEF a
<1>5. CASE s.ok
  <2> DEFINE q == nos_gemtext_parse_line(UpTo(s.line, {"NUL"}), s.in_pre)
             t == EndLine(s)
  <2>1. Image(s, Seen(F)) /\ s.line = x
    BY <1>5 DEF Match
  <2>2. p = q
    <3>1. s.in_pre = Inside(Seen(F), Len(F) + 1)
      BY <1>2, <2>1 DEF Image
    <3> QED  BY <2>1, <3>1, Zenon
  <2>3. /\ q.ok => ShowsLine(s, t, q) /\ t.line = <<>>
        /\ ~q.ok => t = [s EXCEPT !.ok = FALSE] /\ ~t.ok
    BY EndLineEffect
  <2>4. q.ok => Image(t, Seen(a))
    BY <1>2, <2>1, ImageStep
  <2>5. t \in Streams(FitRows, lines)
    BY EndLineType DEF Pages
  <2>6. t.ok \in BOOLEAN
    BY <2>5, StreamFields
  <2> HIDE DEF p, q, t, a
  <2>7. q.ok => t.ok
    BY <1>5, <2>3 DEF ShowsLine
  <2>8. Match(t, a, <<>>)
    <3>1. t.ok <=> FitsAll(a, <<>>)
      BY <1>1, <1>3, <1>5, <2>2, <2>3, <2>7
    <3>2. t.ok = FitsAll(a, <<>>)
      BY <1>3, <2>6, <3>1
    <3>3. t.ok => Image(t, Seen(a)) /\ t.line = <<>>
      BY <2>3, <2>4
    <3> QED  BY <3>2, <3>3 DEF Match
  <2> QED  BY <1>5, <2>8 DEF a, t
<1> QED  BY <1>4, <1>5

(* Every character keeps the renderer where the text is.                   *)
LEMMA MatchChar ==
    ASSUME NEW lines \in Nat, NEW s \in Pages(lines),
           NEW F \in Seq(Seq(Chars)), NEW x \in Seq(Chars), Match(s, F, x),
           NEW ch \in Chars
    PROVE  LET t == FeedChar(s, ch)
           IN  CASE ch = "CR" -> Match(t, F, x)
                 [] ch = "LF" -> Match(t, Append(F, x), <<>>)
                 [] OTHER     -> Match(t, F, Append(x, ch))
<1> DEFINE t == FeedChar(s, ch)
           more == Append(x, ch)
<1>1. s \in Streams(FitRows, lines) /\ s.ok \in BOOLEAN
  BY StreamFields DEF Pages
<1>2. CASE ch = "CR"
  BY <1>2, Zenon DEF FeedChar
<1>3. CASE ch = "LF"
  <2>1. t = IF s.ok THEN EndLine(s) ELSE s
    BY <1>3 DEF FeedChar
  <2>2. Match(t, Append(F, x), <<>>)
    BY <2>1, MatchLine
  <2> QED  BY <1>3, <2>2
<1>4. CASE ch \notin {"CR", "LF"}
  <2> DEFINE y == [s EXCEPT !.line = Append(@, ch)]
             z == [s EXCEPT !.ok = FALSE]
             G == \A k \in DOMAIN F : Len(F[k]) < LineSize
                                      /\ Meaning(Seen(F), k).ok
  <2>1. t = IF ~s.ok THEN s ELSE IF Len(s.line) + 1 >= LineSize THEN z ELSE y
    BY <1>4, Zenon DEF FeedChar
  <2>2. /\ z.ok = FALSE /\ y.line = Append(s.line, ch) /\ y.ok = s.ok
        /\ y.out = s.out /\ y.links = s.links /\ y.in_pre = s.in_pre
        /\ y.page_lines = s.page_lines /\ y.lines_printed = s.lines_printed
    BY <1>1 DEF Streams
  <2>3. /\ FitsAll(F, x) <=> G /\ Len(x) < LineSize
        /\ FitsAll(F, more) <=> G /\ Len(more) < LineSize
    BY Zenon DEF FitsAll
  <2>4. Len(more) = Len(x) + 1 /\ Len(x) \in Nat /\ LineSize \in Nat
    BY BodyAssumption DEF BodyAssumption
  <2>5. /\ s.ok <=> FitsAll(F, x)
        /\ s.ok => Image(s, Seen(F)) /\ s.line = x
    BY DEF Match
  <2>6. t.ok \in BOOLEAN
    BY FeedType, StreamFields DEF Pages
  <2> HIDE DEF G, t, y, z, more
  <2>7. ASSUME ~s.ok PROVE Match(t, F, more)
    <3>1. ~FitsAll(F, more)
      BY <2>3, <2>4, <2>5, <2>7
    <3>2. ~t.ok
      BY <2>1, <2>7
    <3> QED  BY <2>6, <3>1, <3>2, IsMatch
  <2>8. ASSUME s.ok, Len(s.line) + 1 >= LineSize PROVE Match(t, F, more)
    <3>1. ~FitsAll(F, more)
      BY <2>3, <2>4, <2>5, <2>8
    <3>2. ~t.ok
      BY <2>1, <2>2, <2>8
    <3> QED  BY <2>6, <3>1, <3>2, IsMatch
  <2>9. ASSUME s.ok, ~(Len(s.line) + 1 >= LineSize) PROVE Match(t, F, more)
    <3>1. FitsAll(F, more)
      BY <2>3, <2>4, <2>5, <2>9
    <3>2. t = y
      BY <2>1, <2>9
    <3>3. t.ok /\ t.line = more
      BY <2>2, <2>5, <2>9, <3>2 DEF more
    <3>4. Image(t, Seen(F))
      BY <2>2, <2>5, <2>9, <3>2, SameImage
    <3>5. t.ok <=> FitsAll(F, more)
      BY <3>1, <3>3
    <3>6. t.ok => Image(t, Seen(F)) /\ t.line = more
      BY <3>3, <3>4
    <3> QED  BY <2>6, <3>5, <3>6, IsMatch
  <2>10. Match(t, F, more)
    BY <2>7, <2>8, <2>9
  <2> QED  BY <1>4, <2>10 DEF t, more
<1> QED  BY <1>2, <1>3, <1>4

Split(text) == FoldLeft(AddToLine, << <<>> >>, text)

(* There is always a line in progress.                                     *)
Splits == Seq(Seq(Chars)) \ {<<>>}

(* What a character does to the lines of a text.                           *)
LEMMA LineStep ==
    ASSUME NEW c \in Splits, NEW ch \in Chars
    PROVE  LET d == AddToLine(c, ch)
           IN  /\ d \in Splits
               /\ Front(c) \in Seq(Seq(Chars)) /\ Last(c) \in Seq(Chars)
               /\ ch = "CR" => d = c
               /\ ch = "LF" => /\ Front(d) = Append(Front(c), Last(c))
                               /\ Last(d) = <<>>
               /\ ch \notin {"CR", "LF"} => /\ Front(d) = Front(c)
                                            /\ Last(d) = Append(Last(c), ch)
<1> DEFINE d == AddToLine(c, ch)
           T == Seq(Chars)
           front == Front(c)
           last == Last(c)
           more == Append(last, ch)
<1>1. c \in Seq(T) /\ c # <<>> /\ <<>> \in T
  BY DEF Splits
<1>2. front \in Seq(T) /\ last \in T /\ c = Append(front, last)
  <2> HIDE DEF T
  <2> QED  BY <1>1, FrontAndLast
<1>3. more \in T
  BY <1>2
<1>4. CASE ch = "CR"
  <2>1. d = c
    BY <1>4 DEF AddToLine
  <2> HIDE DEF d, front, last
  <2> QED  BY <1>2, <1>4, <2>1 DEF d, front, last
<1>5. CASE ch = "LF"
  <2>1. d = Append(c, <<>>)
    BY <1>5 DEF AddToLine
  <2>2. /\ Front(d) = c /\ Last(d) = <<>> /\ d # <<>> /\ d \in Seq(T)
    <3> HIDE DEF T
    <3> QED  BY <1>1, <2>1, FrontOfAppend
  <2> HIDE DEF d, front, last
  <2>3. d \in Splits
    BY <2>2 DEF Splits
  <2> QED  BY <1>2, <1>5, <2>2, <2>3 DEF d, front, last
<1>6. CASE ch \notin {"CR", "LF"}
  <2>1. d = Append(front, more)
    BY <1>6 DEF AddToLine
  <2>2. /\ Front(d) = front /\ Last(d) = more /\ d # <<>> /\ d \in Seq(T)
    <3> HIDE DEF T, front, more
    <3> QED  BY <1>2, <1>3, <2>1, FrontOfAppend
  <2> HIDE DEF d, front, last
  <2>3. d \in Splits
    BY <2>2 DEF Splits
  <2> QED  BY <1>2, <1>6, <2>2, <2>3 DEF d, front, last
<1> QED  BY <1>4, <1>5, <1>6

(* At the start nothing has ended and nothing is in progress.              *)
LEMMA FreshMatches ==
    ASSUME NEW lines \in Nat
    PROVE  /\ << <<>> >> \in Splits
           /\ Match(Fresh(lines), Front(<< <<>> >>), Last(<< <<>> >>))
<1> DEFINE T == Seq(Chars)
           one == << <<>> >>
           s == Fresh(lines)
<1>1. <<>> \in T /\ <<>> \in Seq(T) /\ one = Append(<<>>, <<>>)
  OBVIOUS
<1>2. Front(one) = <<>> /\ Last(one) = <<>> /\ one # <<>> /\ one \in Seq(T)
  <2> HIDE DEF T, one
  <2> QED  BY <1>1, FrontOfAppend
<1>3. s.ok = TRUE /\ s.line = <<>>
  BY DEF Fresh
<1>4. Seen(<<>>) = <<>>
  BY DEF Seen
<1>5. Image(s, Seen(<<>>))
  BY <1>4, ImageOfNothing
<1>6. FitsAll(<<>>, <<>>)
  <2>1. Len(<<>>) < LineSize
    BY BodyAssumption DEF BodyAssumption
  <2>2. \A k \in DOMAIN <<>> : FALSE
    OBVIOUS
  <2> QED  BY <2>1, <2>2 DEF FitsAll
<1> HIDE DEF s, one
<1>7. Match(s, <<>>, <<>>)
  <2>1. s.ok \in BOOLEAN /\ (s.ok <=> FitsAll(<<>>, <<>>))
    BY <1>3, <1>6
  <2>2. s.ok => Image(s, Seen(<<>>)) /\ s.line = <<>>
    BY <1>3, <1>5
  <2> QED  BY <2>1, <2>2, IsMatch
<1> QED  BY <1>2, <1>7 DEF s, one, Splits

(* After a text the renderer is where the text is.                         *)
LEMMA WholeMatch ==
    ASSUME NEW lines \in Nat, NEW text \in Seq(Chars)
    PROVE  /\ Split(text) \in Splits
           /\ Match(Whole(lines, text), Front(Split(text)), Last(Split(text)))
<1> DEFINE n == Len(text)
           s == Fresh(lines)
           b == << <<>> >>
<1>1. n \in Nat /\ \A k \in 1..n : text[k] \in Chars
  OBVIOUS
<1>2. \A c \in Splits, k \in 1..n : AddToLine(c, text[k]) \in Splits
  BY <1>1, LineStep
<1>3. /\ b \in Splits /\ Match(s, Front(b), Last(b)) /\ s \in Pages(lines)
  BY FreshMatches, FreshType
<1> HIDE DEF s, b
<1>4. PICK g : /\ LineRun(g, Splits, b, text)
               /\ g[n] = FoldLeft(AddToLine, b, text)
  BY <1>2, <1>3, LineLoop
<1>5. PICK f : /\ FeedRun(f, Pages(lines), s, text)
               /\ f[n] = FoldLeft(FeedChar, s, text)
  BY <1>3, FeedData
<1>6. /\ f[0] = s /\ g[0] = b
      /\ \A k \in 0..n : f[k] \in Pages(lines) /\ g[k] \in Splits
      /\ \A k \in 1..n : f[k] = FeedChar(f[k - 1], text[k])
      /\ \A k \in 1..n : g[k] = AddToLine(g[k - 1], text[k])
  BY <1>4, <1>5 DEF LineRun, FeedRun
<1> HIDE DEF n
<1> DEFINE Z == {k \in 0..n : Match(f[k], Front(g[k]), Last(g[k]))}
<1>7. 0 \in Z
  BY <1>1, <1>3, <1>6
<1>8. ASSUME NEW k \in 1..n, k - 1 \in Z PROVE k \in Z
  <2> DEFINE u == f[k - 1]
             c == g[k - 1]
             ch == text[k]
             t == FeedChar(u, ch)
             d == AddToLine(c, ch)
  <2>1. /\ k - 1 \in 0..n /\ k \in 0..n
        /\ Match(u, Front(c), Last(c)) /\ f[k] = t /\ g[k] = d
        /\ ch \in Chars
    BY <1>1, <1>6, <1>8
  <2>2. u \in Pages(lines) /\ c \in Splits
    BY <1>6, <2>1
  <2> HIDE DEF u, c, ch
  <2>3. /\ Front(c) \in Seq(Seq(Chars)) /\ Last(c) \in Seq(Chars)
        /\ ch = "CR" => d = c
        /\ ch = "LF" => /\ Front(d) = Append(Front(c), Last(c))
                        /\ Last(d) = <<>>
        /\ ch \notin {"CR", "LF"} => /\ Front(d) = Front(c)
                                     /\ Last(d) = Append(Last(c), ch)
    BY <2>1, <2>2, LineStep
  <2>4. /\ CASE ch = "CR" -> Match(t, Front(c), Last(c))
             [] ch = "LF" -> Match(t, Append(Front(c), Last(c)), <<>>)
             [] OTHER     -> Match(t, Front(c), Append(Last(c), ch))
    BY <2>1, <2>2, <2>3, MatchChar
  <2> HIDE DEF t, d
  <2>5. Match(t, Front(d), Last(d))
    <3>1. ASSUME ch = "CR" PROVE Match(t, Front(d), Last(d))
      BY <2>3, <2>4, <3>1
    <3>2. ASSUME ch = "LF" PROVE Match(t, Front(d), Last(d))
      BY <2>3, <2>4, <3>2
    <3>3. ASSUME ch \notin {"CR", "LF"} PROVE Match(t, Front(d), Last(d))
      BY <2>3, <2>4, <3>3
    <3> QED  BY <3>1, <3>2, <3>3
  <2> QED  BY <2>1, <2>5
<1>9. n \in Z
  <2> HIDE DEF Z
  <2>1. n \in Nat
    BY <1>1
  <2>2. \A k \in 0..n : k \in Z
    BY <1>7, <1>8, <2>1, LoopInduction
  <2>3. n \in 0..n
    BY <2>1
  <2> QED  BY <2>2, <2>3
<1>10. Match(f[n], Front(g[n]), Last(g[n])) /\ g[n] \in Splits
  <2>1. n \in 0..n
    BY <1>1
  <2> QED  BY <1>6, <1>9, <2>1
<1> QED  BY <1>4, <1>5, <1>10 DEF n, s, b, Whole, Split

(* What a page of text has to come to.                                     *)
LEMMA AllFit ==
    ASSUME NEW F \in Seq(Seq(Chars)), NEW x \in Seq(Chars), NEW ended
    PROVE  LET s == Append(F, x)
               m == Meaning(Seen(s), Len(s))
           IN  /\ (\A k \in DOMAIN s :
                       /\ Len(s[k]) < LineSize
                       /\ k < Len(s) \/ (ended /\ s[k] # <<>>) =>
                              Meaning(Seen(s), k).ok)
                  <=> FitsAll(F, x) /\ (ended /\ x # <<>> => m.ok)
               /\ FitsAll(s, <<>>) <=> FitsAll(F, x) /\ m.ok
<1> DEFINE n == Len(F)
           s == Append(F, x)
           u == UpTo(x, {"NUL"})
           m == Meaning(Seen(s), n + 1)
           p == nos_gemtext_parse_line(u, Inside(Seen(F), n + 1))
           G(k) == /\ Len(s[k]) < LineSize
                   /\ k < n + 1 \/ (ended /\ s[k] # <<>>) =>
                          Meaning(Seen(s), k).ok
           H(k) == Len(F[k]) < LineSize /\ Meaning(Seen(F), k).ok
<1>1. /\ n \in Nat /\ DOMAIN F = 1..n /\ DOMAIN s = 1..(n + 1)
      /\ Len(s) = n + 1 /\ s[n + 1] = x /\ \A k \in 1..n : s[k] = F[k]
  OBVIOUS
<1>2. u \in Seq(Chars)
  BY UpToType
<1>3. /\ Seen(F) \in Seq(Seq(Chars)) /\ Len(Seen(F)) = n
      /\ Seen(s) = Append(Seen(F), u)
  BY SeenAppend
<1> HIDE DEF u
<1>4. (\A k \in 1..n : Meaning(Seen(s), k) = Meaning(Seen(F), k)) /\ m = p
  BY <1>2, <1>3, MeaningStep
<1>5. FitsAll(s, <<>>) <=> FitsAll(F, x) /\ p.ok
  <2>1. FitsAll(s, <<>>) = (FitsAll(F, x) /\ p.ok)
    BY FitsMore DEF u
  <2> QED  BY <2>1, Zenon DEF FitsAll
<1>6. FitsAll(F, x) <=> (\A k \in 1..n : H(k)) /\ Len(x) < LineSize
  BY <1>1, Zenon DEF FitsAll
<1> HIDE DEF n, s, m, p
<1>7. ASSUME NEW k \in 1..n PROVE G(k) <=> H(k)
  BY <1>1, <1>4
<1>8. G(n + 1) <=> Len(x) < LineSize /\ (ended /\ x # <<>> => m.ok)
  BY <1>1 DEF m
<1> HIDE DEF G, H
<1>9. (\A k \in 1..(n + 1) : G(k)) <=> (\A k \in 1..n : G(k)) /\ G(n + 1)
  BY <1>1
<1>10. (\A k \in 1..(n + 1) : G(k))
          <=> FitsAll(F, x) /\ (ended /\ x # <<>> => m.ok)
  BY <1>6, <1>7, <1>8, <1>9, Zenon
<1>11. \A k \in DOMAIN s : G(k) <=>
            /\ Len(s[k]) < LineSize
            /\ k < Len(s) \/ (ended /\ s[k] # <<>>) => Meaning(Seen(s), k).ok
  BY <1>1, Zenon DEF G
<1> QED  BY <1>1, <1>4, <1>5, <1>10, <1>11, Zenon DEF n, s, m

(* The end of a text, as long as no line has been refused.                 *)
LEMMA EndMatch ==
    ASSUME NEW lines \in Nat, NEW w \in Pages(lines),
           NEW F \in Seq(Seq(Chars)), NEW x \in Seq(Chars), Match(w, F, x)
    PROVE  LET t == nos_render_stream_flush(w)
           IN  \/ t = w /\ (w.ok => x = <<>>)
               \/ Match(t, Append(F, x), <<>>) /\ w.ok /\ x # <<>>
               \/ ~w.ok /\ ~t.ok
<1> DEFINE t == nos_render_stream_flush(w)
           e == EndLine(w)
           q == nos_gemtext_parse_line(UpTo(w.line, {"NUL"}), w.in_pre)
<1>1. w.ok => w.line = x
  BY DEF Match
<1>2. t = IF w.line = <<>> THEN w ELSE e
  BY DEF nos_render_stream_flush
<1>3. w.ok => Match(e, Append(F, x), <<>>)
  BY MatchLine
<1>4. (q.ok => ShowsLine(w, e, q)) /\ (~q.ok => ~e.ok)
  BY EndLineEffect
<1> HIDE DEF t, e, q
<1>5. ~w.ok => ~e.ok
  BY <1>4 DEF ShowsLine
<1> QED  BY <1>1, <1>2, <1>3, <1>5 DEF t

(* What has arrived is a text.                                             *)
LEMMA ArrivedIsText ==
    ASSUME BodyInv
    PROVE  Arrived \in Seq(Chars) /\ Len(Arrived) = pos
<1>1. body \in Seq(Chars) /\ pos \in 0..Len(body)
  BY DEF BodyInv
<1> QED  BY <1>1 DEF Arrived

(* Where the renderer is now: before its end, behind it, or stopped.       *)
LEMMA PageNow ==
    ASSUME BodyInv, CutsDoNotMatter, Renders
    PROVE  LET F == Front(Lines)
               x == Last(Lines)
               ended == status = "done"
           IN  /\ F \in Seq(Seq(Chars)) /\ x \in Seq(Chars)
               /\ Lines = Append(F, x)
               /\ \/ Match(st, F, x) /\ (st.ok /\ ended => x = <<>>)
                  \/ Match(st, Lines, <<>>) /\ ended /\ x # <<>>
                     /\ FitsAll(F, x)
                  \/ ~st.ok /\ ~FitsAll(F, x)
<1> DEFINE w == Whole(how.page_lines, Arrived)
           F == Front(Lines)
           x == Last(Lines)
           ended == status = "done"
           t == nos_render_stream_flush(w)
<1>1. how.page_lines \in Nat /\ Arrived \in Seq(Chars)
  BY ArrivedIsText DEF BodyInv
<1>2. w \in Pages(how.page_lines) /\ Lines \in Splits /\ Match(w, F, x)
  BY <1>1, WholeType, WholeMatch DEF Lines, Split
<1>3. F \in Seq(Seq(Chars)) /\ x \in Seq(Chars) /\ Lines = Append(F, x)
  <2> DEFINE T == Seq(Chars)
  <2>1. Lines \in Seq(T) /\ Lines # <<>>
    BY <1>2 DEF Splits
  <2> HIDE DEF T
  <2>2. Front(Lines) \in Seq(T) /\ Last(Lines) \in T
        /\ Lines = Append(Front(Lines), Last(Lines))
    BY <2>1, FrontAndLast
  <2> QED  BY <2>2 DEF T
<1>4. st = IF ended THEN t ELSE w
  BY Zenon DEF CutsDoNotMatter, Whole
<1> HIDE DEF F, x, w
<1>5. \/ t = w /\ (w.ok => x = <<>>)
      \/ Match(t, Append(F, x), <<>>) /\ w.ok /\ x # <<>>
      \/ ~w.ok /\ ~t.ok
  BY <1>1, <1>2, <1>3, EndMatch
<1> HIDE DEF t
<1>6. w.ok <=> FitsAll(F, x)
  BY <1>2 DEF Match
<1> QED  BY <1>2, <1>3, <1>4, <1>5, <1>6 DEF F, x

(* The page is what the lines that have been rendered mean.                *)
LEMMA PageIsImage ==
    ASSUME BodyInv, CutsDoNotMatter, Renders, st.ok
    PROVE  /\ Image(st, Rendered)
           /\ st.line = IF status = "done" THEN <<>> ELSE Last(Lines)
<1> DEFINE F == Front(Lines)
           x == Last(Lines)
           ended == status = "done"
<1>1. Rendered = Seen(IF ended /\ x # <<>> /\ st.line = <<>> THEN Lines
                      ELSE F)
  BY DEF Rendered
<1>2. \/ Match(st, F, x) /\ (ended => x = <<>>)
      \/ Match(st, Lines, <<>>) /\ ended /\ x # <<>>
  BY PageNow
<1> HIDE DEF F, x
<1>3. CASE Match(st, F, x) /\ (ended => x = <<>>)
  BY <1>1, <1>3 DEF Match, x
<1>4. CASE Match(st, Lines, <<>>) /\ ended /\ x # <<>>
  BY <1>1, <1>4 DEF Match
<1> QED  BY <1>2, <1>3, <1>4

(* The links that numbers choose from are those of the body, in their      *)
(* order and up to the limit, for every body and every cut: a fence        *)
(* toggles the block, a line ends once, and nothing of an earlier line is  *)
(* left (render.c:183-218, gemini.c:266-275).                              *)
THEOREM PageIsBody == Spec => []PageMatchesBody
<1>1. BodyInv /\ CutsDoNotMatter => PageMatchesBody
  <2> SUFFICES ASSUME BodyInv, CutsDoNotMatter, Renders, st.ok
               PROVE  PageMatchesBody
    BY DEF PageMatchesBody
  <2>1. /\ st.in_pre = Inside(Rendered, Len(Rendered) + 1)
        /\ AreLinksOf(st.links, Rendered)
        /\ st.line = IF status = "done" THEN <<>> ELSE Last(Lines)
    BY PageIsImage DEF Image
  <2>2. AreLinksOf(<<>>, <<>>)
    <3>1. Image(Fresh(0), <<>>)
      BY ImageOfNothing
    <3>2. Fresh(0).links = <<>>
      BY DEF Fresh
    <3> QED  BY <3>1, <3>2 DEF Image
  <2>3. AreLinksOf(links, IF how.sink = "gemtext" /\ status # "done"
                          THEN <<>> ELSE Rendered)
    <3>1. CASE how.sink = "gemtext" /\ status # "done"
      <4>1. links = <<>>
        BY <3>1 DEF links
      <4> QED  BY <2>2, <3>1, <4>1
    <3>2. CASE ~(how.sink = "gemtext" /\ status # "done")
      <4>1. links = st.links
        BY <3>2 DEF links, Renders
      <4> QED  BY <2>1, <3>2, <4>1
    <3> QED  BY <3>1, <3>2
  <2> QED  BY <2>1, <2>3 DEF PageMatchesBody
<1> QED  BY <1>1, BodyInvariant, CutsNeverMatter, PTL

(* Wrapping loses no character of a body and repeats none, whatever the    *)
(* lengths of its words and lines (render.c:47-84).                        *)
THEOREM NoWordIsLost == Spec => []ScreenHasAllWords
<1>1. BodyInv /\ CutsDoNotMatter => ScreenHasAllWords
  <2> SUFFICES ASSUME BodyInv, CutsDoNotMatter, Renders, st.ok
               PROVE  ScreenHasAllWords
    BY DEF ScreenHasAllWords
  <2>1. Shown(st.out) = AllDense(Sights(Rendered))
    BY PageIsImage DEF Image
  <2> QED  BY <2>1, Zenon DEF ScreenHasAllWords, Shown, Texts, Sights
<1> QED  BY <1>1, BodyInvariant, CutsNeverMatter, PTL

(* A page is given up exactly when a line does not fit into its array or   *)
(* into what the parser copies it to (render.c:192-199, gemtext.c:57).     *)
THEOREM OnlyLongLinesStop == Spec => []StopsOnlyForLongLines
<1>1. BodyInv /\ CutsDoNotMatter => StopsOnlyForLongLines
  <2> SUFFICES ASSUME BodyInv, CutsDoNotMatter, Renders
               PROVE  StopsOnlyForLongLines
    BY DEF StopsOnlyForLongLines
  <2> DEFINE F == Front(Lines)
             x == Last(Lines)
             ended == status = "done"
             m == Meaning(Seen(Lines), Len(Lines))
             fits == \A k \in DOMAIN Lines :
                         /\ Len(Lines[k]) < LineSize
                         /\ k < Len(Lines) \/ (ended /\ Lines[k] # <<>>) =>
                                Meaning(Seen(Lines), k).ok
  <2>1. /\ F \in Seq(Seq(Chars)) /\ x \in Seq(Chars) /\ Lines = Append(F, x)
        /\ \/ Match(st, F, x) /\ (st.ok /\ ended => x = <<>>)
           \/ Match(st, Lines, <<>>) /\ ended /\ x # <<>> /\ FitsAll(F, x)
           \/ ~st.ok /\ ~FitsAll(F, x)
    BY PageNow
  <2> HIDE DEF F, x
  <2>2. /\ fits <=> FitsAll(F, x) /\ (ended /\ x # <<>> => m.ok)
        /\ FitsAll(Lines, <<>>) <=> FitsAll(F, x) /\ m.ok
    BY <2>1, AllFit
  <2> HIDE DEF fits, m
  <2>3. st.ok <=> fits
    <3>1. CASE Match(st, F, x) /\ (st.ok /\ ended => x = <<>>)
      BY <2>2, <3>1 DEF Match
    <3>2. CASE Match(st, Lines, <<>>) /\ ended /\ x # <<>> /\ FitsAll(F, x)
      BY <2>2, <3>2 DEF Match
    <3>3. CASE ~st.ok /\ ~FitsAll(F, x)
      BY <2>2, <3>3
    <3> QED  BY <2>1, <3>1, <3>2, <3>3
  <2> QED  BY <2>3, Zenon DEF StopsOnlyForLongLines, fits
<1> QED  BY <1>1, BodyInvariant, CutsNeverMatter, PTL

(* The places of characters in a text.                                     *)
LEMMA PlacesUpTo ==
    ASSUME NEW s \in Seq(Chars), NEW chars
    PROVE  /\ (1..Len(s)) \cap Places(s, chars) = Places(s, chars)
           /\ Cardinality(Places(s, chars)) \in Nat
<1> DEFINE n == Len(s)
           S == Places(s, chars)
<1>1. n \in Nat /\ (1..n) \cap S = S
  BY DEF Places
<1> HIDE DEF n, S
<1>2. Cardinality((1..n) \cap S) \in Nat
  BY <1>1, CountUpTo
<1> QED  BY <1>1, <1>2 DEF n, S

(* Characters in two texts together.                                       *)
LEMMA PlacesJoin ==
    ASSUME NEW a \in Seq(Chars), NEW b \in Seq(Chars), NEW chars
    PROVE  Cardinality(Places(a \o b, chars))
               = Cardinality(Places(a, chars)) + Cardinality(Places(b, chars))
<1> DEFINE m == Len(a)
           n == Len(b)
           ab == a \o b
           P == Places(a, chars)
           Q == Places(b, chars)
           R == Places(ab, chars)
           c(k) == Cardinality((1..k) \cap Q)
           d(k) == Cardinality((1..k) \cap R)
           p == Cardinality(P)
<1>1. /\ m \in Nat /\ n \in Nat /\ ab \in Seq(Chars) /\ Len(ab) = m + n
      /\ \A k \in 1..m : ab[k] = a[k]
      /\ \A k \in 1..n : ab[m + k] = b[k]
  OBVIOUS
<1>2. /\ (1..m) \cap P = P /\ (1..n) \cap Q = Q /\ (1..(m + n)) \cap R = R
      /\ p \in Nat
  <2> HIDE DEF m, n, ab, P, Q, R
  <2>1. /\ (1..Len(a)) \cap P = P /\ (1..Len(b)) \cap Q = Q
        /\ (1..Len(ab)) \cap R = R /\ p \in Nat
    BY <1>1, PlacesUpTo DEF P, Q, R
  <2> QED  BY <1>1, <2>1 DEF m, n
<1>3. /\ \A k \in 1..m : k \in P <=> k \in R
      /\ \A k \in 1..n : k \in Q <=> m + k \in R
  <2> HIDE DEF ab
  <2>1. /\ \A k \in 1..m : k \in DOMAIN a /\ k \in DOMAIN ab
        /\ \A k \in 1..n : k \in DOMAIN b /\ m + k \in DOMAIN ab
    BY <1>1
  <2> QED  BY <1>1, <2>1 DEF Places
<1> HIDE DEF m, n, ab, P, Q, R
<1>4. /\ \A k \in Nat : c(k) \in Nat /\ d(k) \in Nat
      /\ \A k \in Nat : c(k + 1) = c(k) + (IF k + 1 \in Q THEN 1 ELSE 0)
      /\ \A k \in Nat : d(k + 1) = d(k) + (IF k + 1 \in R THEN 1 ELSE 0)
      /\ c(0) = 0
  BY CountUpTo
<1>5. d(m) = p
  <2>1. (1..m) \cap R = P
    BY <1>2, <1>3
  <2> QED  BY <2>1
<1>6. c(n) = Cardinality(Q) /\ d(m + n) = Cardinality(R)
  BY <1>2
<1> HIDE DEF c, d, p
<1> DEFINE Z == {k \in 0..n : d(m + k) = p + c(k)}
<1>7. 0 \in Z
  <2>1. m + 0 = m /\ p + 0 = p
    BY <1>1, <1>2
  <2> QED  BY <1>1, <1>4, <1>5, <2>1
<1>8. ASSUME NEW k \in 1..n, k - 1 \in Z PROVE k \in Z
  <2> DEFINE i == k - 1
             j == m + i
  <2>1. /\ i \in Nat /\ j \in Nat /\ k = i + 1 /\ m + k = j + 1 /\ k \in 0..n
    BY <1>1
  <2>2. d(j) = p + c(i)
    BY <1>8
  <2>3. k \in Q <=> j + 1 \in R
    BY <1>3, <2>1
  <2> HIDE DEF i, j
  <2>4. /\ c(k) = c(i) + (IF k \in Q THEN 1 ELSE 0)
        /\ d(m + k) = d(j) + (IF j + 1 \in R THEN 1 ELSE 0)
        /\ c(i) \in Nat /\ d(j) \in Nat
    BY <1>4, <2>1
  <2>5. d(m + k) = p + c(k)
    BY <1>2, <2>2, <2>3, <2>4
  <2> QED  BY <2>1, <2>5
<1>9. d(m + n) = p + c(n)
  <2>1. n \in 0..n
    BY <1>1
  <2>2. n \in Z
    <3> HIDE DEF Z
    <3>1. \A k \in 0..n : k \in Z
      BY <1>1, <1>7, <1>8, LoopInduction
    <3> QED  BY <2>1, <3>1
  <2> QED  BY <2>2
<1> QED  BY <1>6, <1>9 DEF p, P, Q, R, ab

(* A chunk that is not rendered: every LF in it is a line to the pager.    *)
LEMMA RawCounts ==
    ASSUME NEW lines \in Nat, NEW s \in Streams(Rows, lines),
           NEW data \in Seq(Chars)
    PROVE  Paged(FoldLeft(RawChar, s, data))
               = Paged(s) + Cardinality(Places(data, {"LF"}))
<1> DEFINE C == Streams(Rows, lines)
           n == Len(data)
           S == Places(data, {"LF"})
           c(k) == Cardinality((1..k) \cap S)
<1>1. /\ n \in Nat /\ \A k \in 1..n : k \in S <=> data[k] = "LF"
  BY DEF Places
<1>2. \A x \in C, k \in 1..n : RawChar(x, data[k]) \in C
  BY BreakType, MoreIsRow DEF RawChar
<1>3. \A x \in C : Paged(render_line_break(x)) = Paged(x) + 1
  BY BreakEffect
<1>4. (1..n) \cap S = S
  BY PlacesUpTo
<1>5. Paged(s) \in Nat
  <2>1. /\ s.out \in Seq(Rows) /\ s.page_lines \in Nat
        /\ s.lines_printed \in Nat
    BY StreamFields DEF Counts
  <2>2. Pauses(s.out) \in Nat
    BY <2>1, PausesOf
  <2> QED  BY <2>1, <2>2 DEF Paged
<1>6. s \in C
  OBVIOUS
<1> HIDE DEF C, S
<1>7. PICK f : /\ RawRun(f, C, s, data)
               /\ f[n] = FoldLeft(RawChar, s, data)
  BY <1>2, <1>6, RawLoop
<1>8. /\ f[0] = s /\ \A k \in 0..n : f[k] \in C
      /\ \A k \in 1..n : f[k] = RawChar(f[k - 1], data[k])
  BY <1>7 DEF RawRun
<1> HIDE DEF n
<1>9. /\ \A k \in Nat : c(k) \in Nat
      /\ \A k \in Nat : c(k + 1) = c(k) + (IF k + 1 \in S THEN 1 ELSE 0)
      /\ c(0) = 0
  BY CountUpTo
<1>10. c(n) = Cardinality(S)
  BY <1>4
<1> HIDE DEF c
<1> DEFINE Z == {k \in 0..n : Paged(f[k]) = Paged(s) + c(k)}
<1>11. 0 \in Z
  <2>1. Paged(s) = Paged(s) + 0
    BY <1>5
  <2>2. Paged(f[0]) = Paged(s) + c(0)
    BY <1>8, <1>9, <2>1
  <2>3. 0 \in 0..n
    BY <1>1
  <2> QED  BY <2>2, <2>3
<1>12. ASSUME NEW k \in 1..n, k - 1 \in Z PROVE k \in Z
  <2> DEFINE i == k - 1
             x == f[i]
  <2>1. /\ i \in Nat /\ k = i + 1 /\ k \in 0..n /\ i \in 0..n
        /\ Paged(x) = Paged(s) + c(i)
    BY <1>1, <1>12
  <2>2. x \in C /\ f[k] = RawChar(x, data[k])
    BY <1>8, <2>1
  <2> HIDE DEF i, x
  <2>3. c(k) = c(i) + (IF k \in S THEN 1 ELSE 0) /\ c(i) \in Nat
    BY <1>9, <2>1
  <2>4. Paged(f[k]) = Paged(x) + (IF k \in S THEN 1 ELSE 0)
    <3>1. CASE data[k] = "LF"
      <4>1. f[k] = render_line_break(x) /\ k \in S
        BY <1>1, <2>2, <3>1 DEF RawChar
      <4> QED  BY <1>3, <2>2, <4>1
    <3>2. CASE data[k] # "LF"
      <4>1. f[k] = x /\ k \notin S
        BY <1>1, <2>2, <3>2 DEF RawChar
      <4>2. Paged(x) = Paged(x) + 0
        BY <1>5, <2>1, <2>3
      <4> QED  BY <4>1, <4>2
    <3> QED  BY <3>1, <3>2
  <2>5. Paged(f[k]) = Paged(s) + c(k)
    BY <1>5, <2>1, <2>3, <2>4
  <2> QED  BY <2>1, <2>5
<1>13. Paged(f[n]) = Paged(s) + c(n)
  <2>1. n \in 0..n
    BY <1>1
  <2>2. n \in Z
    <3> HIDE DEF Z
    <3>1. \A k \in 0..n : k \in Z
      BY <1>1, <1>11, <1>12, LoopInduction
    <3> QED  BY <2>1, <3>1
  <2> QED  BY <2>2
<1> QED  BY <1>7, <1>10, <1>13 DEF S

(* What is written before its lines are counted counts none.               *)
LEMMA WriteCounts ==
    ASSUME NEW lines, NEW s \in Streams(Rows, lines), NEW data \in Seq(Chars)
    PROVE  Paged(Write(s, "raw", data)) = Paged(s)
<1> DEFINE n == Len(s.out)
           t == Write(s, "raw", data)
<1>1. s.out \in Seq(Rows)
  BY StreamFields
<1>2. More.of = "more"
  BY DEF More, Row
<1>3. CASE s.out # <<>> /\ Last(s.out).of = "raw"
  <2> DEFINE text == s.out[n].text \o data
             out == [s.out EXCEPT ![n].text = text]
             u == [s EXCEPT !.out = out]
  <2>1. t = u
    BY <1>3 DEF Write
  <2>2. n \in 1..n /\ DOMAIN s.out = 1..n /\ s.out[n].of = "raw"
        /\ s.out[n] \in Rows
    BY <1>1, <1>3 DEF Last
  <2>3. /\ DOMAIN out = 1..n /\ out[n].of = "raw"
        /\ \A i \in 1..n : i # n => out[i] = s.out[i]
    <3> HIDE DEF text
    <3> QED  BY <2>2 DEF Rows
  <2> HIDE DEF n, out
  <2>4. \A i \in 1..n : out[i] = More <=> s.out[i] = More
    BY <1>2, <2>2, <2>3
  <2>5. Places(out, {More}) = Places(s.out, {More})
    BY <2>2, <2>3, <2>4 DEF Places
  <2>6. /\ u.out = out /\ u.page_lines = s.page_lines
        /\ u.lines_printed = s.lines_printed
    BY DEF Streams
  <2> HIDE DEF t, u
  <2> QED  BY <2>1, <2>5, <2>6 DEF Paged, Pauses, t
<1>4. CASE ~(s.out # <<>> /\ Last(s.out).of = "raw")
  <2> DEFINE row == Row("raw", 0, data)
             u == [s EXCEPT !.out = Append(s.out, row)]
  <2>1. t = u
    BY <1>4 DEF Write, Put
  <2>2. row \in Rows /\ row.of = "raw"
    <3>1. "raw" \in RowKinds
      BY DEF RowKinds
    <3> QED  BY <3>1, RowsAreRows DEF Row
  <2> HIDE DEF row
  <2>3. /\ u.out = Append(s.out, row) /\ u.page_lines = s.page_lines
        /\ u.lines_printed = s.lines_printed
    BY DEF Streams
  <2>4. Places(Append(s.out, row), {More}) = Places(s.out, {More})
    BY <1>1, <1>2, <2>2 DEF Places
  <2> HIDE DEF t, u
  <2> QED  BY <2>1, <2>3, <2>4 DEF Paged, Pauses, t
<1> QED  BY <1>3, <1>4

(* The pager has counted the lines of what arrived.                        *)
RawInv ==
    how.sink = "raw" => Paged(st) = Cardinality(Places(Arrived, {"LF"}))

(* Nothing has been counted at the start.                                  *)
LEMMA RawInit == Init => RawInv
<1> SUFFICES ASSUME Init PROVE RawInv
  OBVIOUS
<1>1. /\ body \in Seq(Chars) /\ how.page_lines \in Nat
      /\ pos = 0 /\ st = Fresh(how.page_lines)
  BY InitInv DEF BodyInv, Init
<1>2. Arrived = <<>>
  BY <1>1 DEF Arrived
<1>3. Places(<<>>, {"LF"}) = {} /\ Cardinality({}) = 0
  BY FS_EmptySet DEF Places
<1>4. Image(Fresh(how.page_lines), <<>>)
  BY <1>1, ImageOfNothing
<1>5. Cardinality(OfType(<<>>, Headings)) = 0 /\ Len(<<>>) = 0
  <2>1. OfType(<<>>, Headings) = {}
    BY DEF OfType
  <2> QED  BY <1>3, <2>1
<1>6. Paged(Fresh(how.page_lines)) = 0
  BY <1>4, <1>5 DEF Image
<1> QED  BY <1>1, <1>2, <1>3, <1>6 DEF RawInv

(* Every chunk is counted once.                                            *)
LEMMA RawStep == BodyInv /\ RawInv /\ [Next]_vars => RawInv'
<1> SUFFICES ASSUME BodyInv, RawInv, [Next]_vars PROVE RawInv'
  OBVIOUS
<1>1. ASSUME NEW n \in 1..MaxChunk, RawChunk(n) PROVE RawInv'
  <2> DEFINE lines == how.page_lines
             written == Write(st, "raw", Data(n))
             c == Cardinality(Places(Arrived, {"LF"}))
             d == Cardinality(Places(Data(n), {"LF"}))
  <2>1. /\ how.sink = "raw" /\ Read(n) /\ how' = how
        /\ st' = FoldLeft(RawChar, written, Data(n))
    BY <1>1 DEF RawChunk, Read
  <2>2. /\ Data(n) \in Seq(Chars) /\ Arrived \in Seq(Chars)
        /\ Arrived' = Arrived \o Data(n)
    BY <2>1, ArrivedGrows
  <2>3. lines \in Nat /\ st \in Streams(Rows, lines) /\ "raw" \in RowKinds
    BY DEF BodyInv, RowKinds
  <2>4. written \in Streams(Rows, lines) /\ Paged(written) = Paged(st)
    BY <2>2, <2>3, WriteType, WriteCounts
  <2> HIDE DEF written
  <2>5. Paged(st') = Paged(st) + d
    BY <2>1, <2>2, <2>3, <2>4, RawCounts
  <2>6. Cardinality(Places(Arrived', {"LF"})) = c + d
    BY <2>2, PlacesJoin
  <2>7. Paged(st) = c
    BY <2>1 DEF RawInv
  <2> QED  BY <2>1, <2>5, <2>6, <2>7 DEF RawInv, Paged, Places
<1>2. ASSUME NEW n \in 1..MaxChunk,
             GemtextChunk(n) \/ HomeChunk(n) \/ BufferChunk(n)
      PROVE  RawInv'
  BY <1>2 DEF GemtextChunk, HomeChunk, BufferChunk, Read, RawInv
<1>3. CASE Finish
  <2>1. how.sink = "raw" => st' = st
    BY <1>3 DEF Finish
  <2> QED  BY <1>3, <2>1 DEF Finish, RawInv, Arrived
<1>4. CASE UNCHANGED vars
  BY <1>4 DEF vars, RawInv, Arrived
<1> QED  BY <1>1, <1>2, <1>3, <1>4 DEF Next, Chunk

(* --More-- comes after every page_lines lines, wherever the chunks end,   *)
(* for what is rendered and for what is only counted (render.c:21-33,      *)
(* main.c:49-58).                                                          *)
THEOREM PagesHavePauses == Spec => []PausesEveryPage
<1>1. BodyInv /\ CutsDoNotMatter /\ RawInv => PausesEveryPage
  <2> SUFFICES ASSUME BodyInv, CutsDoNotMatter, RawInv,
                      how.sink # "buffer", st.ok
               PROVE  PausesEveryPage
    BY DEF PausesEveryPage
  <2>1. /\ st.page_lines = how.page_lines
        /\ how.page_lines > 0 => st.lines_printed < how.page_lines
    BY StreamFields DEF BodyInv, Counts
  <2>2. Paged(st) = LinesPaged
    <3>1. CASE how.sink = "raw"
      BY <3>1 DEF RawInv, LinesPaged
    <3>2. CASE how.sink # "raw"
      <4>1. Renders
        BY <3>2 DEF Renders, BodyInv, Sinks
      <4>2. Image(st, Rendered)
        BY <4>1, PageIsImage
      <4> QED  BY <3>2, <4>2 DEF Image, LinesPaged, Headings
    <3> QED  BY <3>1, <3>2
  <2>3. Paged(st) = Cardinality(Places(st.out, {More})) * how.page_lines
                        + st.lines_printed
    BY <2>1 DEF Paged, Pauses
  <2> QED  BY <2>1, <2>2, <2>3 DEF PausesEveryPage
<1> QED  BY <1>1, RawInit, RawStep, BodyInvariant, CutsNeverMatter, PTL
         DEF Spec
=============================================================================
