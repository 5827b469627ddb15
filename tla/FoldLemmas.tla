----------------------------- MODULE FoldLemmas -----------------------------
(***************************************************************************)
(* Loops over the elements of a sequence.  FoldLeft is defined by          *)
(* recursion over the sets of indices; the lemmas below turn it into the   *)
(* loop f[0] = base, f[k] = step(f[k - 1], element k) over a set of        *)
(* states.  A step is a function here, one per index, for the provers      *)
(* cannot take an operator as a parameter: each fold of the models gets a  *)
(* lemma of its own, which unfolds FoldLeft and cites these.               *)
(***************************************************************************)
EXTENDS Config, FiniteSetsExt, TLAPS, WellFoundedInduction

(* Induction over the indices of a loop: a set with 0 and the successors   *)
(* of its elements has all of them.                                        *)
LEMMA LoopInduction ==
    ASSUME NEW n \in Nat, NEW Z, 0 \in Z,
           \A k \in 1..n : k - 1 \in Z => k \in Z
    PROVE  \A k \in 0..n : k \in Z
<1> DEFINE T == {k \in 0..n : k \notin Z}
<1> SUFFICES ASSUME T # {} PROVE FALSE
  OBVIOUS
<1>1. T \subseteq Nat
  OBVIOUS
<1>2. PICK k \in T : \A j \in T : ~(<<j, k>> \in OpToRel(<, Nat))
  BY <1>1, NatLessThanWellFounded, WFMin
<1>3. k \in 1..n /\ k - 1 \in 0..n /\ k - 1 \in Nat /\ k \in Nat /\ k - 1 < k
  OBVIOUS
<1>4. k - 1 \in Z
  BY <1>2, <1>3 DEF OpToRel
<1> QED  BY <1>3, <1>4

(* A set of indices has a greatest element.                                *)
LEMMA MaxIsUpper ==
    ASSUME NEW n \in Nat, NEW s, s \subseteq 1..n, s # {}
    PROVE  Max(s) \in s /\ \A x \in s : x <= Max(s)
<1> DEFINE Z == {k \in 0..n : \/ s \cap 1..k = {}
                              \/ \E m \in s : \A x \in s \cap 1..k : m >= x}
<1>1. 0 \in Z
  OBVIOUS
<1>2. ASSUME NEW k \in 1..n, k - 1 \in Z PROVE k \in Z
  <2>1. CASE k \in s
    <3>1. \A x \in s \cap 1..k : k >= x
      OBVIOUS
    <3> QED  BY <2>1, <3>1
  <2>2. CASE k \notin s
    <3>1. s \cap 1..k = s \cap 1..(k - 1)
      BY <2>2
    <3> QED  BY <1>2, <3>1
  <2> QED  BY <2>1, <2>2
<1>3. \A k \in 0..n : k \in Z
  <2> HIDE DEF Z
  <2> QED  BY <1>1, <1>2, LoopInduction
<1>4. s \cap 1..n = s
  OBVIOUS
<1>5. \E m \in s : \A x \in s : m >= x
  BY <1>3, <1>4
<1> QED  BY <1>5 DEF Max

(* The indices up to k, and what is left of them without the last one.     *)
LEMMA MaxOfRange ==
    ASSUME NEW k \in Nat \ {0}
    PROVE  Max(1..k) = k /\ (1..k) \ {k} = 1..(k - 1) /\ 1..k # {}
<1>1. \A x \in 1..k : (\A y \in 1..k : x >= y) <=> x = k
  OBVIOUS
<1>2. k \in 1..k
  OBVIOUS
<1>3. Max(1..k) = k
  BY <1>1, <1>2 DEF Max
<1> QED  BY <1>2, <1>3

-----------------------------------------------------------------------------
(* The recursion that defines a fold, over the subsets of 1..k.            *)
IsIter(g, k, C, b, st) ==
    /\ g \in [SUBSET (1..k) -> C]
    /\ \A s \in SUBSET (1..k) :
           g[s] = IF s = {} THEN b ELSE st[Max(s)][g[s \ {Max(s)}]]

(* It has a solution, by induction over the greatest index.                *)
LEMMA IterExists ==
    ASSUME NEW n \in Nat, NEW C, NEW b \in C, NEW st \in [1..n -> [C -> C]]
    PROVE  \E g : IsIter(g, n, C, b, st)
<1> DEFINE Upto(k) == \E g : IsIter(g, k, C, b, st)
           Z == {k \in 0..n : Upto(k)}
<1>1. 0 \in Z
  <2> DEFINE g == [s \in SUBSET (1..0) |-> b]
  <2>1. g \in [SUBSET (1..0) -> C]
    OBVIOUS
  <2>2. \A s \in SUBSET (1..0) : s = {} /\ g[s] = b
    OBVIOUS
  <2>3. IsIter(g, 0, C, b, st)
    BY <2>1, <2>2 DEF IsIter
  <2> HIDE DEF g
  <2> QED  BY <2>3
<1>2. ASSUME NEW k \in 1..n, k - 1 \in Z PROVE k \in Z
  <2>0. PICK g : IsIter(g, k - 1, C, b, st)
    BY <1>2
  <2>1. /\ g \in [SUBSET (1..(k - 1)) -> C]
        /\ \A s \in SUBSET (1..(k - 1)) :
               g[s] = IF s = {} THEN b
                      ELSE st[Max(s)][g[s \ {Max(s)}]]
    BY <2>0 DEF IsIter
  <2> DEFINE h == [s \in SUBSET (1..k) |->
                      IF k \in s THEN st[k][g[s \ {k}]] ELSE g[s]]
  <2>2. \A s \in SUBSET (1..k) : s \ {k} \in SUBSET (1..(k - 1))
    OBVIOUS
  <2>3. \A s \in SUBSET (1..k) : k \notin s => s \in SUBSET (1..(k - 1))
    OBVIOUS
  <2>4. ASSUME NEW s \in SUBSET (1..k) PROVE h[s] \in C
    <3>1. CASE k \in s
      <4>1. g[s \ {k}] \in C
        BY <2>1, <2>2
      <4>2. st[k] \in [C -> C]
        OBVIOUS
      <4> QED  BY <3>1, <4>1, <4>2
    <3>2. CASE k \notin s
      BY <2>1, <2>3, <3>2
    <3> QED  BY <3>1, <3>2
  <2>5. ASSUME NEW s \in SUBSET (1..k)
        PROVE  h[s] = IF s = {} THEN b ELSE st[Max(s)][h[s \ {Max(s)}]]
    <3>1. CASE k \in s
      <4>1. \A x \in s : x <= k /\ x \in Nat
        OBVIOUS
      <4>2. Max(s) \in s /\ \A x \in s : x <= Max(s)
        <5>1. k \in Nat /\ s \subseteq 1..k /\ s # {}
          BY <3>1
        <5> QED  BY <5>1, MaxIsUpper
      <4>3. Max(s) = k
        <5>1. Max(s) \in Nat /\ Max(s) <= k /\ k <= Max(s) /\ k \in Nat
          BY <3>1, <4>1, <4>2
        <5> QED  BY <5>1
      <4>4. h[s \ {k}] = g[s \ {k}]
        OBVIOUS
      <4> QED  BY <3>1, <4>3, <4>4
    <3>2. CASE s = {}
      BY <3>2, <2>1
    <3>3. CASE k \notin s /\ s # {}
      <4>1. s \in SUBSET (1..(k - 1))
        BY <3>3
      <4>2. h[s] = g[s] /\ h[s \ {Max(s)}] = g[s \ {Max(s)}]
        BY <3>3
      <4> QED  BY <2>1, <3>3, <4>1, <4>2
    <3> QED  BY <3>1, <3>2, <3>3
  <2>6. h \in [SUBSET (1..k) -> C]
    BY <2>4
  <2> HIDE DEF h
  <2>7. IsIter(h, k, C, b, st)
    BY <2>5, <2>6 DEF IsIter
  <2> QED  BY <2>7
<1>3. \A k \in 0..n : k \in Z
  <2> HIDE DEF Z
  <2> QED  BY <1>1, <1>2, LoopInduction
<1> QED  BY <1>3

-----------------------------------------------------------------------------
(* The states of a loop, the one after its last step being f[n].           *)
IsLoop(f, n, C, b, st) ==
    /\ f \in [0..n -> C]
    /\ f[0] = b
    /\ \A k \in 1..n : f[k] = st[k][f[k - 1]]

(* What is known of a fold h whose operator agrees with st on C.           *)
Unfolds(h, n, C, b, st) ==
    /\ h[{}] = b
    /\ \A s \in SUBSET (1..n) :
           s # {} /\ h[s \ {Max(s)}] \in C =>
               h[s] = st[Max(s)][h[s \ {Max(s)}]]

(* The values of the fold on 1..k are the states of the loop.              *)
LEMMA IterLoop ==
    ASSUME NEW n \in Nat, NEW C, NEW b \in C,
           NEW st \in [1..n -> [C -> C]], NEW h, Unfolds(h, n, C, b, st)
    PROVE  \E f : IsLoop(f, n, C, b, st) /\ f[n] = h[1..n]
<1> DEFINE f == [k \in 0..n |-> h[1..k]]
           Z == {k \in 0..n : f[k] \in C /\ (k > 0 => f[k] = st[k][f[k - 1]])}
<1>1. 0 \in Z /\ f[0] = b
  <2>1. 1..0 = {}
    OBVIOUS
  <2> QED  BY <2>1 DEF Unfolds
<1>2. ASSUME NEW k \in 1..n, k - 1 \in Z PROVE k \in Z
  <2>1. Max(1..k) = k /\ (1..k) \ {k} = 1..(k - 1) /\ 1..k # {}
    <3>1. k \in Nat \ {0}
      OBVIOUS
    <3> QED  BY <3>1, MaxOfRange
  <2>2. 1..k \in SUBSET (1..n) /\ k \in 0..n /\ k - 1 \in 0..n
    OBVIOUS
  <2>3. h[1..(k - 1)] \in C
    BY <1>2, <2>2
  <2>4. h[1..k] = st[k][h[1..(k - 1)]]
    BY <2>1, <2>2, <2>3 DEF Unfolds
  <2>5. st[k] \in [C -> C]
    OBVIOUS
  <2>6. h[1..k] \in C
    BY <2>3, <2>4, <2>5
  <2> QED  BY <2>2, <2>4, <2>6
<1>3. \A k \in 0..n : k \in Z
  <2> HIDE DEF Z
  <2> QED  BY <1>1, <1>2, LoopInduction
<1>4. f \in [0..n -> C]
  BY <1>3
<1>5. ASSUME NEW k \in 1..n PROVE f[k] = st[k][f[k - 1]]
  <2>1. k \in 0..n /\ k > 0
    OBVIOUS
  <2> QED  BY <1>3, <2>1
<1>6. f[n] = h[1..n]
  OBVIOUS
<1> HIDE DEF f
<1>7. IsLoop(f, n, C, b, st)
  BY <1>1, <1>4, <1>5 DEF IsLoop
<1> QED  BY <1>6, <1>7
-----------------------------------------------------------------------------
(* nos_config_load: one step per line of the file.                         *)
SetStep(cfg, setting) ==
    IF setting.name \in DOMAIN cfg
    THEN [cfg EXCEPT ![setting.name] = Converted(setting)]
    ELSE cfg

LEMMA ConfigLoop ==
    ASSUME NEW C, NEW A, NEW b \in C, NEW seq \in Seq(A),
           \A c \in C, k \in 1..Len(seq) : SetStep(c, seq[k]) \in C
    PROVE  FoldLeft(SetStep, b, seq) \in C
<1> DEFINE n == Len(seq)
           st == [k \in 1..n |-> [c \in C |-> SetStep(c, seq[k])]]
           eq(g) == [s \in SUBSET (1..n) |->
                       IF s = {} THEN b
                       ELSE SetStep(g[s \ {Max(s)}], seq[Max(s)])]
           iter == CHOOSE g : g = eq(g)
<1>1. n \in Nat /\ DOMAIN seq = 1..n
  OBVIOUS
<1>2. st \in [1..n -> [C -> C]]
  OBVIOUS
<1> HIDE DEF n
<1>3. PICK g : IsIter(g, n, C, b, st)
  BY <1>1, <1>2, IterExists
<1>4. \A s \in SUBSET (1..n) :
          s # {} => Max(s) \in 1..n /\ s \ {Max(s)} \in SUBSET (1..n)
  BY <1>1, MaxIsUpper
<1>5. g = eq(g)
  <2>1. g \in [SUBSET (1..n) -> C] /\ g[{}] = b
    BY <1>3 DEF IsIter
  <2>2. ASSUME NEW s \in SUBSET (1..n), s # {}
        PROVE  g[s] = SetStep(g[s \ {Max(s)}], seq[Max(s)])
    BY <1>3, <1>4, <2>2 DEF IsIter
  <2> QED  BY <2>1, <2>2
<1>6. iter = eq(iter)
  <2> HIDE DEF eq
  <2> QED  BY <1>5
<1>7. FoldLeft(SetStep, b, seq) = iter[1..n]
  BY <1>1, Zenon DEF FoldLeft, MapThenFoldSet
<1> HIDE DEF iter
<1>8. iter[{}] = b
  BY <1>6
<1>9. ASSUME NEW s \in SUBSET (1..n), s # {}, iter[s \ {Max(s)}] \in C
      PROVE  iter[s] = st[Max(s)][iter[s \ {Max(s)}]]
  BY <1>4, <1>6, <1>9
<1>10. Unfolds(iter, n, C, b, st)
  BY <1>8, <1>9 DEF Unfolds
<1> HIDE DEF st
<1>11. PICK f : IsLoop(f, n, C, b, st) /\ f[n] = iter[1..n]
  BY <1>1, <1>2, <1>10, IterLoop
<1> QED  BY <1>1, <1>7, <1>11 DEF IsLoop

(* What a setting is: the default, or what a line of the file makes it.    *)
LEMMA ConfigSettings ==
    ASSUME NEW file \in ConfigFiles, NEW name \in DOMAIN DefaultConfig
    PROVE  LET cfg == nos_config_load(file)
           IN  \/ cfg[name] = DefaultConfig[name]
               \/ /\ file # NoConfig
                  /\ \E i \in DOMAIN file :
                         /\ file[i].name = name
                         /\ cfg[name] = Converted(file[i])
<1>1. CASE file = NoConfig
  BY <1>1 DEF nos_config_load
<1>2. CASE file # NoConfig
  <2> DEFINE Names == {"HOME", "PAGE_LINES", "MAX_BODY"}
             From(nm, v) == \/ v = DefaultConfig[nm]
                            \/ \E i \in DOMAIN file :
                                   file[i].name = nm /\ v = Converted(file[i])
             V == {DefaultConfig[nm] : nm \in Names}
                  \cup {Converted(file[i]) : i \in DOMAIN file}
             C == {c \in [Names -> V] : \A nm \in Names : From(nm, c[nm])}
  <2>1. file \in Seq(Range(file)) /\ DOMAIN file = 1..Len(file)
    BY <1>2, ConfigAssumption DEF ConfigAssumption
  <2>2. DefaultConfig = [nm \in Names |-> DefaultConfig[nm]]
    BY ConfigAssumption DEF ConfigAssumption
  <2>3. DefaultConfig \in C
    BY <2>2
  <2>4. ASSUME NEW c \in C, NEW k \in 1..Len(file)
        PROVE  SetStep(c, file[k]) \in C
    <3>1. CASE file[k].name \in Names
      <4> DEFINE d == [c EXCEPT ![file[k].name] = Converted(file[k])]
      <4>1. d \in [Names -> V]
        BY <2>1, <3>1
      <4>2. ASSUME NEW nm \in Names PROVE From(nm, d[nm])
        BY <2>1, <3>1
      <4>3. SetStep(c, file[k]) = d
        BY <3>1 DEF SetStep
      <4> QED  BY <4>1, <4>2, <4>3
    <3>2. CASE file[k].name \notin Names
      BY <3>2 DEF SetStep
    <3> QED  BY <3>1, <3>2
  <2>5. FoldLeft(SetStep, DefaultConfig, file) \in C
    <3> HIDE DEF C
    <3> QED  BY <2>1, <2>3, <2>4, ConfigLoop
  <2>6. nos_config_load(file) = FoldLeft(SetStep, DefaultConfig, file)
    BY <1>2, Zenon DEF nos_config_load, SetStep, FoldLeft, MapThenFoldSet
  <2> QED  BY <1>2, <2>2, <2>5, <2>6
<1> QED  BY <1>1, <1>2
=============================================================================
