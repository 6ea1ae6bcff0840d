----------------------------- MODULE DataProofs -----------------------------
(***************************************************************************)
(* The texts of requests, replies and files, for names and passwords of    *)
(* any length, any number of accounts and of payments: requests are read   *)
(* as they were made, and the history page shows what was asked for.  Then *)
(* the cells of vectors and strings, the blocks of a digest and the nodes  *)
(* of hash tables, whatever their number.                                  *)
(*                                                                         *)
(* All of these are built and taken apart element by element, with folds.  *)
(* What a fold is worth is not its definition here but a lemma: it begins  *)
(* with the base and goes on with the last element.  The lemmas on texts,  *)
(* cells and blocks follow from it by induction on the length, a set of    *)
(* natural numbers that holds 0 and what follows each of its members.      *)
(***************************************************************************)
EXTENDS Payload, Vector, Text, Sha256, HashTable, TLAPS, SequenceTheorems, WellFoundedInduction, FiniteSetTheorems

-----------------------------------------------------------------------------
(* Sequences one after the other, and element by element.                  *)

\* Three in a row, and their parentheses.
Three(S, a, x, y) == a \in Seq(S) /\ x \in Seq(S) /\ y \in Seq(S)
Regrouped(a, x, y) == a \o (x \o y) = (a \o x) \o y

\* The parentheses can be moved.
LEMMA RegroupThree ==
    ASSUME NEW S, NEW a, NEW x, NEW y, Three(S, a, x, y)
    PROVE  Regrouped(a, x, y)
<1>1. a \in Seq(S) /\ x \in Seq(S) /\ y \in Seq(S)
  BY DEF Three
<1>2. (a \o x) \o y = a \o (x \o y)
  BY <1>1, ConcatAssociative
<1> QED
  BY <1>2 DEF Regrouped

\* A function on 1 .. n is a sequence.
LEMMA SeqMade ==
    ASSUME NEW S, NEW n \in Nat, NEW c, c = [i \in 1 .. n |-> c[i]], \A i \in 1 .. n : c[i] \in S
    PROVE  c \in Seq(S) /\ Len(c) = n
OBVIOUS

-----------------------------------------------------------------------------
(* Induction on numbers, and folds over sequences step by step.            *)

LEMMA LeastNat ==
    ASSUME NEW T \in SUBSET Nat, T # {}
    PROVE  \E x \in T : \A y \in T : x <= y
<1> DEFINE R == OpToRel(<, Nat)
<1>1. IsWellFoundedOn(R, Nat)
  BY NatLessThanWellFounded
<1>2. \A x, y \in Nat : x < y => <<x, y>> \in R
  BY Zenon DEF OpToRel
<1> HIDE DEF R
<1>3. PICK x \in T : \A y \in T : ~ (<<y, x>> \in R)
  BY <1>1, WFMin
<1>4. \A y \in T : ~ (y < x)
  BY <1>2, <1>3
<1>5. \A y \in T : x <= y
  BY <1>4
<1> QED
  BY <1>5

\* What holds of 0 and of n when it holds of n - 1.
LEMMA NatSteps ==
    ASSUME NEW T \in SUBSET Nat, 0 \in T, \A n \in Nat \ {0} : n - 1 \in T => n \in T
    PROVE  T = Nat
<1> SUFFICES ASSUME Nat \ T # {} PROVE FALSE
  OBVIOUS
<1>1. PICK n \in Nat \ T : \A k \in Nat \ T : n <= k
  <2>1. Nat \ T \in SUBSET Nat
    OBVIOUS
  <2> QED
    BY <2>1, LeastNat
<1>2. n # 0 /\ n - 1 \in Nat /\ n - 1 \notin Nat \ T
  BY <1>1
<1> QED
  BY <1>1, <1>2

LEMMA MaxOf ==
    ASSUME NEW n \in Nat, NEW s \in SUBSET (1 .. n), s # {}
    PROVE  /\ Max(s) \in s /\ \A k \in s : k <= Max(s)
           /\ Max(s) \in 1 .. n /\ s \ {Max(s)} \in SUBSET (1 .. Max(s) - 1)
<1> DEFINE T == {k \in Nat : n - k \in s}
<1>1. T # {}
  <2>1. PICK k \in s : TRUE
    OBVIOUS
  <2>2. k \in 1 .. n
    OBVIOUS
  <2>3. n - k \in Nat /\ n - (n - k) = k
    BY <2>2
  <2> QED
    BY <2>3
<1>2. PICK t \in T : \A k \in T : t <= k
  <2>1. T \in SUBSET Nat
    OBVIOUS
  <2> HIDE DEF T
  <2> QED
    BY <1>1, <2>1, LeastNat
<1>3. \A k \in s : n - t >= k
  <2> TAKE k \in s
  <2>1. k \in 1 .. n /\ n - k \in Nat /\ n - (n - k) = k
    OBVIOUS
  <2>2. n - k \in T
    BY <2>1
  <2>3. t <= n - k /\ t \in Nat
    BY <1>2, <2>2
  <2> QED
    BY <2>1, <2>3
<1>4. n - t \in s
  BY <1>2
<1>5. Max(s) \in s /\ \A k \in s : Max(s) >= k
  BY <1>3, <1>4 DEF Max
<1>6. Max(s) \in 1 .. n /\ \A k \in s : k \in 1 .. n
  BY <1>5
<1>7. \A k \in s : k <= Max(s)
  BY <1>5, <1>6
<1>8. \A k \in s \ {Max(s)} : k \in 1 .. Max(s) - 1
  BY <1>6, <1>7
<1> QED
  BY <1>5, <1>6, <1>7, <1>8

\* What FoldLeft iterates over the parts of a sequence, with the function F for
\* its operator, and what is known of it if that is one on D only.
Folds(g, F, base, q) ==
    g = [s \in SUBSET DOMAIN q |->
           IF s = {} THEN base ELSE F[<<g[s \ {Max(s)}], q[Max(s)]>>]]
FoldsIn(g, F, D, base, q) ==
    /\ g[{}] = base
    /\ \A s \in SUBSET DOMAIN q :
           s # {} /\ g[s \ {Max(s)}] \in D => g[s] = F[<<g[s \ {Max(s)}], q[Max(s)]>>]
OpOn(F, D, E) == \A d \in D, e \in E : F[<<d, e>>] \in D

LEMMA FoldsExist ==
    ASSUME NEW E, NEW q \in Seq(E), NEW base, NEW F
    PROVE  \E g : Folds(g, F, base, q)
<1> DEFINE Partial(g, n) == g = [s \in SUBSET (1 .. n) |->
                                   IF s = {} THEN base ELSE F[<<g[s \ {Max(s)}], q[Max(s)]>>]]
           T == {n \in Nat : \E g : Partial(g, n)}
<1>1. 0 \in T
  <2>1. Partial([s \in SUBSET (1 .. 0) |-> base], 0)
    OBVIOUS
  <2> QED
    BY <2>1
<1>2. ASSUME NEW n \in Nat \ {0}, n - 1 \in T
      PROVE  n \in T
  <2>1. PICK g : Partial(g, n - 1)
    BY <1>2
  <2> DEFINE h == [s \in SUBSET (1 .. n) |->
                     IF s = {} THEN base ELSE F[<<g[s \ {Max(s)}], q[Max(s)]>>]]
  <2>2. \A s \in SUBSET (1 .. n - 1) : s \in SUBSET (1 .. n) /\ h[s] = g[s]
    <3>1. \A s \in SUBSET (1 .. n - 1) : s \in SUBSET (1 .. n)
      OBVIOUS
    <3>2. \A s \in SUBSET (1 .. n - 1) :
             g[s] = IF s = {} THEN base ELSE F[<<g[s \ {Max(s)}], q[Max(s)]>>]
      BY <2>1
    <3> QED
      BY <3>1, <3>2
  <2>3. \A s \in SUBSET (1 .. n) : s # {} => s \ {Max(s)} \in SUBSET (1 .. n - 1)
    <3> SUFFICES ASSUME NEW s \in SUBSET (1 .. n), s # {}
                 PROVE  s \ {Max(s)} \in SUBSET (1 .. n - 1)
      OBVIOUS
    <3>1. Max(s) \in 1 .. n /\ s \ {Max(s)} \in SUBSET (1 .. Max(s) - 1)
      BY MaxOf
    <3>2. 1 .. Max(s) - 1 \subseteq 1 .. n - 1
      BY <3>1
    <3> QED
      BY <3>1, <3>2
  <2>4. \A s \in SUBSET (1 .. n) :
           (IF s = {} THEN base ELSE F[<<g[s \ {Max(s)}], q[Max(s)]>>])
             = (IF s = {} THEN base ELSE F[<<h[s \ {Max(s)}], q[Max(s)]>>])
    BY <2>2, <2>3
  <2>5. Partial(h, n)
    BY <2>4
  <2> QED
    BY <2>5
<1>3. T = Nat
  <2>1. T \in SUBSET Nat
    OBVIOUS
  <2> HIDE DEF T
  <2> QED
    BY <1>1, <1>2, <2>1, NatSteps
<1>4. Len(q) \in Nat /\ DOMAIN q = 1 .. Len(q)
  BY LenProperties
<1>5. PICK g : Partial(g, Len(q))
  BY <1>3, <1>4
<1> QED
  BY <1>4, <1>5 DEF Folds

LEMMA FoldsTyped ==
    ASSUME NEW E, NEW q \in Seq(E), NEW D, NEW base \in D, NEW F, OpOn(F, D, E),
           NEW g, FoldsIn(g, F, D, base, q)
    PROVE  \A s \in SUBSET DOMAIN q : g[s] \in D /\ (s # {} => q[Max(s)] \in E /\ g[s \ {Max(s)}] \in D)
<1> DEFINE T == {n \in Nat : n <= Len(q) => \A s \in SUBSET (1 .. n) : g[s] \in D}
<1>1. Len(q) \in Nat /\ DOMAIN q = 1 .. Len(q) /\ \A i \in 1 .. Len(q) : q[i] \in E
  BY LenProperties, ElementOfSeq
<1>2. 0 \in T
  <2>1. g[{}] = base /\ \A s \in SUBSET (1 .. 0) : s = {}
    BY DEF FoldsIn
  <2> QED
    BY <2>1
<1>3. ASSUME NEW n \in Nat \ {0}, n - 1 \in T
      PROVE  n \in T
  <2> SUFFICES ASSUME n <= Len(q), NEW s \in SUBSET (1 .. n)
               PROVE  g[s] \in D
    OBVIOUS
  <2>1. s \in SUBSET DOMAIN q
    BY <1>1
  <2>2. CASE s = {}
    BY <2>2 DEF FoldsIn
  <2>3. CASE s # {}
    <3>1. Max(s) \in 1 .. n /\ s \ {Max(s)} \in SUBSET (1 .. Max(s) - 1)
      BY <2>3, MaxOf
    <3>2. 1 .. Max(s) - 1 \subseteq 1 .. n - 1 /\ n - 1 <= Len(q) /\ Max(s) \in 1 .. Len(q)
      BY <1>1, <3>1
    <3>3. g[s \ {Max(s)}] \in D
      BY <1>3, <3>1, <3>2
    <3>4. g[s] = F[<<g[s \ {Max(s)}], q[Max(s)]>>]
      BY <2>1, <2>3, <3>3 DEF FoldsIn
    <3>5. q[Max(s)] \in E
      BY <1>1, <3>2
    <3> QED
      BY <3>3, <3>4, <3>5 DEF OpOn
  <2> QED
    BY <2>2, <2>3
<1>4. T = Nat
  <2>1. T \in SUBSET Nat
    OBVIOUS
  <2> HIDE DEF T
  <2> QED
    BY <1>2, <1>3, <2>1, NatSteps
<1>5. \A s \in SUBSET DOMAIN q : g[s] \in D
  <2>1. Len(q) \in T
    BY <1>1, <1>4
  <2> QED
    BY <1>1, <2>1
<1> QED
  BY <1>1, <1>5, MaxOf

Runs(g, F, D, E, base, q) ==
    /\ Folds(g, F, base, q)
    /\ \A s \in SUBSET DOMAIN q : s # {} => q[Max(s)] \in E /\ g[s \ {Max(s)}] \in D

\* So a fold exists, and its operator meets elements of D and E only.
LEMMA FoldsRun ==
    ASSUME NEW E, NEW q \in Seq(E), NEW D, NEW base \in D, NEW F, OpOn(F, D, E)
    PROVE  \E g : Runs(g, F, D, E, base, q)
<1>1. PICK g : Folds(g, F, base, q)
  BY FoldsExist
<1>2. FoldsIn(g, F, D, base, q)
  BY <1>1 DEF Folds, FoldsIn
<1>3. \A s \in SUBSET DOMAIN q : g[s] \in D /\ (s # {} => q[Max(s)] \in E /\ g[s \ {Max(s)}] \in D)
  BY <1>2, FoldsTyped
<1> QED
  BY <1>1, <1>3 DEF Runs

\* Folds over sequences agree as far as the sequences do.
LEMMA FoldsAgree ==
    ASSUME NEW E, NEW q \in Seq(E), NEW r \in Seq(E), Len(q) <= Len(r),
           \A i \in 1 .. Len(q) : r[i] = q[i],
           NEW D, NEW base \in D, NEW F, OpOn(F, D, E),
           NEW g, FoldsIn(g, F, D, base, q), NEW h, FoldsIn(h, F, D, base, r)
    PROVE  \A s \in SUBSET DOMAIN q : g[s] = h[s]
<1> DEFINE T == {n \in Nat : n <= Len(q) => \A s \in SUBSET (1 .. n) : g[s] = h[s]}
<1>1. /\ Len(q) \in Nat /\ DOMAIN q = 1 .. Len(q)
      /\ Len(r) \in Nat /\ DOMAIN r = 1 .. Len(r)
  BY LenProperties
<1>2. 0 \in T
  <2>1. g[{}] = base /\ h[{}] = base /\ \A s \in SUBSET (1 .. 0) : s = {}
    BY DEF FoldsIn
  <2> QED
    BY <2>1
<1>3. ASSUME NEW n \in Nat \ {0}, n - 1 \in T
      PROVE  n \in T
  <2> SUFFICES ASSUME n <= Len(q), NEW s \in SUBSET (1 .. n)
               PROVE  g[s] = h[s]
    OBVIOUS
  <2>1. s \in SUBSET DOMAIN q /\ s \in SUBSET DOMAIN r
    BY <1>1
  <2>2. CASE s = {}
    BY <2>2 DEF FoldsIn
  <2>3. CASE s # {}
    <3>1. Max(s) \in 1 .. n /\ s \ {Max(s)} \in SUBSET (1 .. Max(s) - 1)
      BY <2>3, MaxOf
    <3>2. 1 .. Max(s) - 1 \subseteq 1 .. n - 1 /\ n - 1 <= Len(q) /\ Max(s) \in 1 .. Len(q)
      BY <1>1, <3>1
    <3>3. g[s \ {Max(s)}] = h[s \ {Max(s)}] /\ r[Max(s)] = q[Max(s)]
      BY <1>3, <3>1, <3>2
    <3>4. g[s \ {Max(s)}] \in D
      BY <2>1, <2>3, FoldsTyped
    <3>5. /\ g[s] = F[<<g[s \ {Max(s)}], q[Max(s)]>>]
          /\ h[s] = F[<<h[s \ {Max(s)}], r[Max(s)]>>]
      BY <2>1, <2>3, <3>3, <3>4 DEF FoldsIn
    <3> QED
      BY <3>3, <3>5
  <2> QED
    BY <2>2, <2>3
<1>4. T = Nat
  <2>1. T \in SUBSET Nat
    OBVIOUS
  <2> HIDE DEF T
  <2> QED
    BY <1>2, <1>3, <2>1, NatSteps
<1>5. Len(q) \in T
  BY <1>1, <1>4
<1> QED
  BY <1>1, <1>5

\* A fold goes on with the last element.
OneMore(q, r) == Len(r) = Len(q) + 1 /\ \A i \in 1 .. Len(q) : r[i] = q[i]

LEMMA FoldsGoOn ==
    ASSUME NEW E, NEW q \in Seq(E), NEW r \in Seq(E), OneMore(q, r),
           NEW D, NEW base \in D, NEW F, OpOn(F, D, E),
           NEW g, FoldsIn(g, F, D, base, q), NEW h, FoldsIn(h, F, D, base, r)
    PROVE  g[DOMAIN q] \in D /\ h[DOMAIN r] = F[<<g[DOMAIN q], r[Len(r)]>>]
<1>1. Len(r) = Len(q) + 1 /\ \A i \in 1 .. Len(q) : r[i] = q[i]
  BY DEF OneMore
<1>2. /\ Len(q) \in Nat /\ Len(r) \in Nat
      /\ DOMAIN q = 1 .. Len(q) /\ DOMAIN r = 1 .. Len(r)
  BY LenProperties
<1>3. Len(r) \in DOMAIN r /\ DOMAIN r \in SUBSET (1 .. Len(r)) /\ DOMAIN r # {}
  BY <1>1, <1>2
<1>4. Max(DOMAIN r) = Len(r)
  <2>1. Max(DOMAIN r) \in 1 .. Len(r) /\ \A k \in DOMAIN r : k <= Max(DOMAIN r)
    BY <1>2, <1>3, MaxOf
  <2> QED
    BY <1>2, <1>3, <2>1
<1>5. DOMAIN r \ {Len(r)} = DOMAIN q
  BY <1>1, <1>2
<1>6. h[DOMAIN q] = g[DOMAIN q] /\ g[DOMAIN q] \in D
  <2>1. Len(q) <= Len(r)
    BY <1>1, <1>2
  <2>2. \A s \in SUBSET DOMAIN q : g[s] = h[s]
    BY <1>1, <2>1, FoldsAgree
  <2>3. \A s \in SUBSET DOMAIN q : g[s] \in D
    BY FoldsTyped
  <2>4. DOMAIN q \in SUBSET DOMAIN q
    OBVIOUS
  <2> QED
    BY <2>2, <2>3, <2>4
<1>7. h[DOMAIN r] = F[<<h[DOMAIN q], r[Len(r)]>>]
  <2>1. h[DOMAIN r \ {Max(DOMAIN r)}] \in D
    BY <1>4, <1>5, <1>6
  <2>2. h[DOMAIN r] = F[<<h[DOMAIN r \ {Max(DOMAIN r)}], r[Max(DOMAIN r)]>>]
    BY <1>3, <2>1 DEF FoldsIn
  <2> QED
    BY <1>4, <1>5, <2>2
<1> QED
  BY <1>6, <1>7

\* Characters are numbers.
Chars == Int

-----------------------------------------------------------------------------
(* Texts.                                                                  *)

\* Splitting at separators, character by character.
PartsAfter(p, c, sep) ==
    IF c = sep THEN Append(p, <<>>) ELSE [p EXCEPT ![Len(p)] = Append(@, c)]

LEMMA SplitSteps ==
    ASSUME NEW sep, NEW s \in Seq(Chars), NEW c \in Chars
    PROVE  /\ Split(<<>>, sep) = << <<>> >>
           /\ Split(s, sep) \in Seq(Seq(Chars)) /\ Split(s, sep) # <<>>
           /\ Split(Append(s, c), sep) = PartsAfter(Split(s, sep), c, sep)
<1> DEFINE D == Seq(Seq(Chars)) \ {<<>>}
           base == << <<>> >>
           Op(p, x) == IF x = sep THEN Append(p, <<>>) ELSE [p EXCEPT ![Len(p)] = Append(@, x)]
           Eq(g, q) == g = [t \in SUBSET DOMAIN q |->
                              IF t = {} THEN base ELSE Op(g[t \ {Max(t)}], q[Max(t)])]
           It(q) == CHOOSE g : Eq(g, q)
<1>1. \A q : Split(q, sep) = It(q)[DOMAIN q]
  BY DEF Split, FoldLeft, MapThenFoldSet
<1>2. base \in D /\ \A p \in D, x \in Chars : Op(p, x) \in D
  <2>1. base \in D
    OBVIOUS
  <2>2. ASSUME NEW p \in D, NEW x \in Chars PROVE Op(p, x) \in D
    <3>1. Len(p) \in 1 .. Len(p) /\ Len(p) \in Nat /\ p[Len(p)] \in Seq(Chars)
      BY EmptySeq, ElementOfSeq
    <3>2. Append(p, <<>>) \in D
      <4>1. \A e \in Seq(Chars) : Append(p, e) \in D
        BY AppendProperties
      <4> QED
        BY <4>1, EmptySeq
    <3>3. Append(p[Len(p)], x) \in Seq(Chars)
      BY <3>1, AppendProperties
    <3>4. [p EXCEPT ![Len(p)] = Append(p[Len(p)], x)] \in D
      BY <3>1, <3>3, ExceptSeq, EmptySeq
    <3> QED
      BY <3>2, <3>4
  <2> QED
    BY <2>1, <2>2
<1> HIDE DEF D, base, Op
<1>3. PICK F : OpOn(F, D, Chars) /\ \A d \in D, e \in Chars : F[<<d, e>>] = Op(d, e)
  <2> DEFINE F == [y \in D \X Chars |-> Op(y[1], y[2])]
  <2>1. \A d \in D, e \in Chars : F[<<d, e>>] = Op(d, e) /\ F[<<d, e>>] \in D
    BY <1>2
  <2> QED
    BY <2>1 DEF OpOn
<1>4. ASSUME NEW q \in Seq(Chars), NEW k, k = It(q)
      PROVE  /\ FoldsIn(k, F, D, base, q) /\ k[{}] = base
  <2>1. PICK g : Runs(g, F, D, Chars, base, q)
    <3> HIDE DEF It, Eq
    <3>1. base \in D /\ OpOn(F, D, Chars)
      BY <1>2, <1>3
    <3> QED
      BY <3>1, FoldsRun
  <2>2. Eq(g, q)
    BY <1>3, <2>1 DEF Folds, Runs
  <2> DEFINE Q(h) == Eq(h, q)
  <2>3. Q(k)
    <3>1. k = (CHOOSE h : Q(h)) /\ Q(g)
      BY <1>4, <2>2
    <3> HIDE DEF Q
    <3> QED
      BY <3>1
  <2>4. Eq(k, q) /\ \A t \in SUBSET DOMAIN q : t # {} => q[Max(t)] \in Chars
    BY <2>1, <2>3 DEF Runs
  <2> QED
    BY <1>3, <2>4 DEF FoldsIn
<1>5. Split(<<>>, sep) = base
  <2>1. PICK k : k = It(<<>>)
    OBVIOUS
  <2>2. k[{}] = base
    BY <1>4, <2>1, EmptySeq
  <2>3. DOMAIN <<>> = {}
    OBVIOUS
  <2> HIDE DEF It
  <2> QED
    BY <1>1, <2>1, <2>2, <2>3
<1>6. PICK r, g, h : r = Append(s, c) /\ g = It(s) /\ h = It(r)
  OBVIOUS
<1>7. r \in Seq(Chars) /\ OneMore(s, r) /\ r[Len(r)] = c
  BY <1>6, AppendProperties DEF OneMore
<1>8. FoldsIn(g, F, D, base, s) /\ FoldsIn(h, F, D, base, r)
  BY <1>4, <1>6, <1>7
<1>9. Split(s, sep) = g[DOMAIN s] /\ Split(r, sep) = h[DOMAIN r]
  <2> HIDE DEF It
  <2> QED
    BY <1>1, <1>6
<1> HIDE DEF It
<1>10. g[DOMAIN s] \in D /\ h[DOMAIN r] = F[<<g[DOMAIN s], r[Len(r)]>>]
  <2>1. base \in D /\ OpOn(F, D, Chars)
    BY <1>2, <1>3
  <2>2. r \in Seq(Chars) /\ OneMore(s, r)
    BY <1>7
  <2> QED
    BY <1>8, <2>1, <2>2, FoldsGoOn
<1>11. Split(s, sep) \in D /\ Split(r, sep) = Op(Split(s, sep), c)
  BY <1>3, <1>7, <1>9, <1>10
<1> QED
  BY <1>5, <1>6, <1>11 DEF D, Op, base, PartsAfter

\* Sequences of texts, one by one.
LEMMA OneElement ==
    ASSUME NEW S, NEW c \in S
    PROVE  <<c>> \in Seq(S) /\ Len(<<c>>) = 1 /\ <<c>>[1] = c
OBVIOUS

LEMMA ConcatAppend ==
    ASSUME NEW S, NEW s \in Seq(S), NEW w \in Seq(S), NEW c \in S
    PROVE  s \o Append(w, c) = Append(s \o w, c)
<1>1. Append(w, c) = w \o <<c>> /\ <<c>> \in Seq(S)
  BY AppendIsConcat, OneElement
<1>2. s \o w \in Seq(S)
  BY ConcatProperties
<1>3. Append(s \o w, c) = (s \o w) \o <<c>>
  BY <1>2, AppendIsConcat
<1>4. (s \o w) \o <<c>> = s \o (w \o <<c>>)
  BY <1>1, ConcatAssociative
<1> QED
  BY <1>1, <1>3, <1>4

\* The same, in a word.
Joined(s, w, c) == s \o Append(w, c) = Append(s \o w, c)

LEMMA ConcatJoined ==
    ASSUME NEW S, NEW s \in Seq(S), NEW w \in Seq(S), NEW c \in S
    PROVE  Joined(s, w, c)
BY ConcatAppend DEF Joined

\* A text without a separator.
Without(s, c) == \A i \in 1 .. Len(s) : s[i] # c

\* What data.find(':') makes of a name, a colon and a rest.
LEMMA CutAtColon ==
    ASSUME NEW u \in Seq(Chars), Without(u, Colon), NEW x \in Seq(Chars), Colon \in Chars
    PROVE  CutFirst(u \o <<Colon>> \o x) = [found |-> TRUE, before |-> u, behind |-> x]
<1>1. PICK s, n, c : s = u \o <<Colon>> \o x /\ n = Len(u) /\ c = Colon
  OBVIOUS
<1>2. <<c>> \in Seq(Chars) /\ Len(<<c>>) = 1 /\ <<c>>[1] = c
  BY <1>1, OneElement
<1>3. n \in Nat /\ Len(x) \in Nat
  BY <1>1, LenProperties
<1>4. /\ u \o <<c>> \in Seq(Chars) /\ Len(u \o <<c>>) = n + 1
      /\ \A i \in 1 .. n + 1 : (u \o <<c>>)[i] = IF i <= n THEN u[i] ELSE <<c>>[i - n]
  BY <1>1, <1>2, ConcatProperties
<1>5. /\ s \in Seq(Chars) /\ Len(s) = n + 1 + Len(x)
      /\ \A i \in 1 .. n + 1 + Len(x) :
             s[i] = IF i <= n + 1 THEN (u \o <<c>>)[i] ELSE x[i - (n + 1)]
  BY <1>1, <1>4, ConcatProperties
<1>6. s[n + 1] = c
  <2>1. n + 1 \in 1 .. n + 1 + Len(x) /\ n + 1 \in 1 .. n + 1 /\ n + 1 - n = 1 /\ ~ (n + 1 <= n)
    BY <1>3
  <2> QED
    BY <1>2, <1>4, <1>5, <2>1
<1>7. \A i \in 1 .. n : s[i] = u[i]
  <2> TAKE i \in 1 .. n
  <2>1. i \in 1 .. n + 1 + Len(x) /\ i \in 1 .. n + 1 /\ i <= n
    BY <1>3
  <2> QED
    BY <1>4, <1>5, <2>1
<1>8. \A i \in 1 .. Len(x) : s[n + 1 + i] = x[i]
  <2> TAKE i \in 1 .. Len(x)
  <2>1. /\ n + 1 + i \in 1 .. n + 1 + Len(x) /\ ~ (n + 1 + i <= n + 1)
        /\ (n + 1 + i) - (n + 1) = i
    BY <1>3
  <2> QED
    BY <1>5, <2>1
<1>9. \A i \in 1 .. n : s[i] # c
  BY <1>1, <1>7 DEF Without
<1>10. SelectInSeq(s, LAMBDA e : e = Colon) = n + 1
  <2> DEFINE I == {i \in 1 .. Len(s) : s[i] = Colon}
  <2>1. n + 1 \in I /\ \A i \in I : n + 1 <= i
    BY <1>1, <1>3, <1>5, <1>6, <1>9
  <2>2. Min(I) = n + 1
    <3>1. \A m \in I : (\A i \in I : m <= i) => m = n + 1
      BY <1>3, <2>1
    <3> QED
      BY <2>1, <3>1 DEF Min
  <2> QED
    BY <2>1, <2>2 DEF SelectInSeq
<1>11. SubSeq(s, 1, n) = u
  <2>1. \A i \in 1 .. n : s[i] \in Chars
    BY <1>1, <1>7, ElementOfSeq
  <2>2. 1 \in Int /\ n \in Int /\ n - 1 + 1 = n /\ (IF 1 <= n THEN n - 1 + 1 ELSE 0) = n
    BY <1>3
  <2>3. /\ SubSeq(s, 1, n) \in Seq(Chars) /\ Len(SubSeq(s, 1, n)) = n
        /\ \A i \in 1 .. n : SubSeq(s, 1, n)[i] = s[1 + i - 1]
    BY <2>1, <2>2, SubSeqProperties
  <2>4. \A i \in 1 .. n : SubSeq(s, 1, n)[i] = u[i]
    BY <1>3, <1>7, <2>3
  <2> QED
    BY <1>1, <2>3, <2>4, SeqEqual
<1>12. SubSeq(s, n + 2, Len(s)) = x
  <2>1. \A i \in n + 2 .. Len(s) : s[i] \in Chars
    BY <1>3, <1>5, ElementOfSeq
  <2>2. /\ n + 2 \in Int /\ Len(s) \in Int /\ Len(s) - (n + 2) + 1 = Len(x)
        /\ (IF n + 2 <= Len(s) THEN Len(s) - (n + 2) + 1 ELSE 0) = Len(x)
    BY <1>3, <1>5
  <2>3. /\ SubSeq(s, n + 2, Len(s)) \in Seq(Chars)
        /\ Len(SubSeq(s, n + 2, Len(s))) = Len(x)
        /\ \A i \in 1 .. Len(x) : SubSeq(s, n + 2, Len(s))[i] = s[n + 2 + i - 1]
    <3>1. /\ SubSeq(s, n + 2, Len(s)) \in Seq(Chars)
          /\ Len(SubSeq(s, n + 2, Len(s))) = IF n + 2 <= Len(s) THEN Len(s) - (n + 2) + 1 ELSE 0
          /\ \A i \in 1 .. Len(s) - (n + 2) + 1 : SubSeq(s, n + 2, Len(s))[i] = s[n + 2 + i - 1]
      BY <2>1, <2>2, SubSeqProperties
    <3> QED
      BY <2>2, <3>1
  <2>4. \A i \in 1 .. Len(x) : SubSeq(s, n + 2, Len(s))[i] = x[i]
    <3> TAKE i \in 1 .. Len(x)
    <3>1. n + 2 + i - 1 = n + 1 + i
      BY <1>3
    <3> QED
      BY <1>8, <2>3, <3>1
  <2> QED
    BY <2>3, <2>4, SeqEqual
<1>13. CutFirst(s) = [found |-> TRUE, before |-> SubSeq(s, 1, n), behind |-> SubSeq(s, n + 2, Len(s))]
  <2> DEFINE at == SelectInSeq(s, LAMBDA e : e = Colon)
  <2>1. at = n + 1
    BY <1>10
  <2>2. CutFirst(s) = [found |-> at > 0, before |-> SubSeq(s, 1, at - 1), behind |-> SubSeq(s, at + 1, Len(s))]
    BY DEF CutFirst
  <2> HIDE DEF at
  <2>3. (at > 0) = TRUE /\ at - 1 = n /\ at + 1 = n + 2
    BY <1>3, <2>1
  <2> QED
    BY <2>2, <2>3
<1> QED
  BY <1>1, <1>11, <1>12, <1>13

\* The parts of a text, the last of them continued by w.
Glue(p, w) == [p EXCEPT ![Len(p)] = @ \o w]

\* Parts like these, but for the last.
LastApart(g, p, e) ==
    /\ g \in Seq(Seq(Chars)) /\ Len(g) = Len(p)
    /\ \A j \in 1 .. Len(p) : g[j] = IF j = Len(p) THEN e ELSE p[j]

LEMMA GlueLast ==
    ASSUME NEW p \in Seq(Seq(Chars)), p # <<>>, NEW w \in Seq(Chars)
    PROVE  /\ Len(p) \in 1 .. Len(p) /\ p[Len(p)] \in Seq(Chars)
           /\ Glue(p, w) \in Seq(Seq(Chars)) /\ Glue(p, w) # <<>>
           /\ Len(Glue(p, w)) = Len(p)
           /\ \A j \in 1 .. Len(p) :
                  Glue(p, w)[j] = IF j = Len(p) THEN p[Len(p)] \o w ELSE p[j]
<1>1. Len(p) \in Nat \ {0} /\ Len(p) \in 1 .. Len(p) /\ p[Len(p)] \in Seq(Chars)
  BY EmptySeq, ElementOfSeq
<1>2. PICK e : e = p[Len(p)] \o w /\ e \in Seq(Chars)
  BY <1>1, ConcatProperties
<1>3. Glue(p, w) = [p EXCEPT ![Len(p)] = e]
  BY <1>2 DEF Glue
<1>4. /\ [p EXCEPT ![Len(p)] = e] \in Seq(Seq(Chars))
      /\ Len([p EXCEPT ![Len(p)] = e]) = Len(p)
      /\ \A j \in 1 .. Len(p) :
             [p EXCEPT ![Len(p)] = e][j] = IF j = Len(p) THEN e ELSE p[j]
  BY <1>1, <1>2, ExceptSeq
<1>5. Glue(p, w) # <<>>
  BY <1>1, <1>3, <1>4, EmptySeq
<1> QED
  BY <1>1, <1>2, <1>3, <1>4, <1>5

\* The same, in a word.
LEMMA GlueApart ==
    ASSUME NEW p \in Seq(Seq(Chars)), p # <<>>, NEW w \in Seq(Chars)
    PROVE  LastApart(Glue(p, w), p, p[Len(p)] \o w)
<1>1. /\ Glue(p, w) \in Seq(Seq(Chars)) /\ Len(Glue(p, w)) = Len(p)
      /\ \A j \in 1 .. Len(p) :
             Glue(p, w)[j] = IF j = Len(p) THEN p[Len(p)] \o w ELSE p[j]
  BY GlueLast
<1> QED
  BY <1>1 DEF LastApart

LEMMA GlueOne ==
    ASSUME NEW p \in Seq(Seq(Chars)), NEW w \in Seq(Chars)
    PROVE  Glue(Append(p, <<>>), w) = Append(p, w)
<1>1. PICK e \in Seq(Chars) : e = <<>>
  BY EmptySeq
<1>2. PICK q, r : q = Append(p, e) /\ r = Append(p, w)
  OBVIOUS
<1>3. /\ q \in Seq(Seq(Chars)) /\ q # <<>> /\ Len(q) = Len(p) + 1
      /\ \A i \in 1 .. Len(p) : q[i] = p[i]
      /\ q[Len(p) + 1] = e
  <2>1. /\ Append(p, e) \in Seq(Seq(Chars)) /\ Append(p, e) # <<>>
        /\ Len(Append(p, e)) = Len(p) + 1
        /\ \A i \in 1 .. Len(p) : Append(p, e)[i] = p[i]
        /\ Append(p, e)[Len(p) + 1] = e
    BY AppendProperties
  <2> QED
    BY <1>2, <2>1
<1>4. /\ r \in Seq(Seq(Chars)) /\ Len(r) = Len(p) + 1
      /\ \A i \in 1 .. Len(p) : r[i] = p[i]
      /\ r[Len(p) + 1] = w
  <2>1. /\ Append(p, w) \in Seq(Seq(Chars)) /\ Len(Append(p, w)) = Len(p) + 1
        /\ \A i \in 1 .. Len(p) : Append(p, w)[i] = p[i]
        /\ Append(p, w)[Len(p) + 1] = w
    BY AppendProperties
  <2> QED
    BY <1>2, <2>1
<1>5. e \o w = w
  BY <1>1, ConcatEmptySeq
<1>6. /\ Glue(q, w) \in Seq(Seq(Chars)) /\ Len(Glue(q, w)) = Len(q)
      /\ \A j \in 1 .. Len(q) : Glue(q, w)[j] = IF j = Len(q) THEN q[Len(q)] \o w ELSE q[j]
  BY <1>3, GlueLast
<1>7. Len(p) \in Nat
  BY LenProperties
<1>8. \A j \in 1 .. Len(q) : Glue(q, w)[j] = r[j]
  <2> TAKE j \in 1 .. Len(q)
  <2>1. CASE j = Len(q)
    BY <1>3, <1>4, <1>5, <1>6, <2>1
  <2>2. CASE j # Len(q)
    <3>1. j \in 1 .. Len(p)
      BY <1>3, <1>7, <2>2
    <3> QED
      BY <1>3, <1>4, <1>6, <2>2, <3>1
  <2> QED
    BY <2>1, <2>2
<1>9. Glue(q, w) = r
  BY <1>3, <1>4, <1>6, <1>8, SeqEqual
<1> QED
  BY <1>1, <1>2, <1>9

\* Splitting goes on with the last part as long as no separator comes.
LEMMA SplitGlues ==
    ASSUME NEW sep, NEW s \in Seq(Chars), NEW w \in Seq(Chars), Without(w, sep)
    PROVE  Split(s \o w, sep) = Glue(Split(s, sep), w)
<1> DEFINE T == {n \in Nat : \A v \in Seq(Chars) :
                     Len(v) = n /\ Without(v, sep) => Split(s \o v, sep) = Glue(Split(s, sep), v)}
<1>1. PICK p : p = Split(s, sep) /\ p \in Seq(Seq(Chars)) /\ p # <<>>
  <2>1. PICK c : c \in Chars
    BY DEF Chars
  <2> QED
    BY <2>1, SplitSteps
<1>2. 0 \in T
  <2> SUFFICES ASSUME NEW v \in Seq(Chars), Len(v) = 0
               PROVE  Split(s \o v, sep) = Glue(Split(s, sep), v)
    OBVIOUS
  <2>1. v = <<>> /\ s \o v = s
    BY EmptySeq, ConcatEmptySeq
  <2>2. Glue(p, v) = p
    <3>1. /\ Glue(p, v) \in Seq(Seq(Chars)) /\ Len(Glue(p, v)) = Len(p)
          /\ p[Len(p)] \in Seq(Chars)
          /\ \A j \in 1 .. Len(p) :
                 Glue(p, v)[j] = IF j = Len(p) THEN p[Len(p)] \o v ELSE p[j]
      BY <1>1, GlueLast
    <3>2. p[Len(p)] \o v = p[Len(p)]
      BY <2>1, <3>1, ConcatEmptySeq
    <3>3. \A j \in 1 .. Len(p) : Glue(p, v)[j] = p[j]
      BY <3>1, <3>2
    <3> QED
      BY <1>1, <3>1, <3>3, SeqEqual
  <2> QED
    BY <1>1, <2>1, <2>2
<1>3. ASSUME NEW n \in Nat \ {0}, n - 1 \in T
      PROVE  n \in T
  <2> SUFFICES ASSUME NEW v \in Seq(Chars), Len(v) = n, Without(v, sep)
               PROVE  Split(s \o v, sep) = Glue(Split(s, sep), v)
    BY <1>3
  <2>1. v # <<>>
    BY EmptySeq
  <2>2. PICK t \in Seq(Chars), c \in Chars : v = Append(t, c)
    BY <2>1, SequenceEmptyOrAppend
  <2>3. /\ Len(v) = Len(t) + 1 /\ v[Len(t) + 1] = c
        /\ \A i \in 1 .. Len(t) : v[i] = t[i]
    BY <2>2, AppendProperties
  <2>4. Len(t) \in Nat
    BY LenProperties
  <2>5. Without(t, sep) /\ c # sep /\ Len(t) = n - 1
    <3>1. \A i \in 1 .. Len(t) : i \in 1 .. Len(v)
      BY <2>3, <2>4
    <3>2. Len(t) + 1 \in 1 .. Len(v)
      BY <2>3, <2>4
    <3> QED
      BY <2>3, <2>4, <3>1, <3>2 DEF Without
  <2>6. PICK a \in Seq(Chars) : a = s \o t
    BY ConcatProperties
  <2>7. Split(a, sep) = Glue(p, t)
    BY <1>1, <1>3, <2>5, <2>6
  <2>8. s \o v = Append(a, c)
    BY <2>2, <2>6, ConcatAppend
  <2>9. Split(Append(a, c), sep)
          = [Split(a, sep) EXCEPT ![Len(Split(a, sep))] = Append(@, c)]
    <3>1. Split(Append(a, c), sep) = PartsAfter(Split(a, sep), c, sep)
      BY SplitSteps
    <3> QED
      BY <2>5, <3>1 DEF PartsAfter
  <2>10. PICK q : q = Glue(p, t)
    OBVIOUS
  <2>11. /\ q \in Seq(Seq(Chars)) /\ Len(q) = Len(p) /\ Len(p) \in 1 .. Len(p)
         /\ p[Len(p)] \in Seq(Chars)
         /\ \A j \in 1 .. Len(p) : q[j] = IF j = Len(p) THEN p[Len(p)] \o t ELSE p[j]
    <3>1. /\ LastApart(Glue(p, t), p, p[Len(p)] \o t)
          /\ Len(p) \in 1 .. Len(p) /\ p[Len(p)] \in Seq(Chars)
      BY <1>1, GlueLast, GlueApart
    <3>2. LastApart(q, p, p[Len(p)] \o t)
      BY <2>10, <3>1
    <3> QED
      BY <3>1, <3>2 DEF LastApart
  <2>12. Append(q[Len(q)], c) = p[Len(p)] \o v
    <3>1. PICK b \in Seq(Chars) : b = p[Len(p)]
      BY <2>11
    <3>2. b \o Append(t, c) = Append(b \o t, c)
      BY ConcatAppend
    <3>3. q[Len(q)] = b \o t
      BY <2>11, <3>1
    <3> QED
      BY <2>2, <3>1, <3>2, <3>3
  <2>13. PICK e : e = p[Len(p)] \o v /\ e \in Seq(Chars)
    BY <2>11, ConcatProperties
  <2>14. PICK r : r = [q EXCEPT ![Len(q)] = e]
    OBVIOUS
  <2>15. /\ r \in Seq(Seq(Chars)) /\ Len(r) = Len(p)
         /\ \A j \in 1 .. Len(p) : r[j] = IF j = Len(p) THEN e ELSE q[j]
    BY <2>11, <2>13, <2>14, ExceptSeq
  <2>16. /\ Glue(p, v) \in Seq(Seq(Chars)) /\ Len(Glue(p, v)) = Len(p)
         /\ \A j \in 1 .. Len(p) : Glue(p, v)[j] = IF j = Len(p) THEN e ELSE p[j]
    <3>1. LastApart(Glue(p, v), p, p[Len(p)] \o v)
      BY <1>1, GlueApart
    <3>2. LastApart(Glue(p, v), p, e)
      BY <2>13, <3>1
    <3> QED
      BY <3>2 DEF LastApart
  <2>17. r = Glue(p, v)
    <3>1. \A j \in 1 .. Len(p) : r[j] = Glue(p, v)[j]
      BY <2>11, <2>15, <2>16
    <3> QED
      BY <2>15, <2>16, <3>1, SeqEqual
  <2>18. Split(Append(a, c), sep) = r
    BY <2>7, <2>9, <2>10, <2>12, <2>13, <2>14
  <2> QED
    BY <1>1, <2>8, <2>17, <2>18
<1>4. T = Nat
  <2>1. T \in SUBSET Nat
    OBVIOUS
  <2> HIDE DEF T
  <2> QED
    BY <1>2, <1>3, <2>1, NatSteps
<1>5. Len(w) \in T
  BY <1>4, LenProperties
<1> QED
  BY <1>5

\* So a part between two separators is a part.
LEMMA SplitParts ==
    ASSUME NEW sep \in Chars, NEW s \in Seq(Chars), NEW w \in Seq(Chars), Without(w, sep)
    PROVE  /\ Split(s, sep) \in Seq(Seq(Chars)) /\ Split(s, sep) # <<>>
           /\ Split(w, sep) = <<w>>
           /\ Split(s \o <<sep>>, sep) = Append(Split(s, sep), <<>>)
           /\ Split(s \o <<sep>> \o w, sep) = Append(Split(s, sep), w)
<1>1. /\ Split(<<>>, sep) = << <<>> >>
      /\ Split(s, sep) \in Seq(Seq(Chars)) /\ Split(s, sep) # <<>>
      /\ Split(Append(s, sep), sep) = PartsAfter(Split(s, sep), sep, sep)
      /\ PartsAfter(Split(s, sep), sep, sep) = Append(Split(s, sep), <<>>)
  BY SplitSteps DEF PartsAfter
<1>2. s \o <<sep>> = Append(s, sep) /\ s \o <<sep>> \in Seq(Chars)
  BY AppendIsConcat, AppendProperties
<1>3. Split(s \o <<sep>> \o w, sep) = Append(Split(s, sep), w)
  <2>1. PICK a \in Seq(Chars) : a = s \o <<sep>>
    BY <1>2
  <2>2. Split(a \o w, sep) = Glue(Split(a, sep), w)
    BY <2>1, SplitGlues
  <2>3. Split(a, sep) = Append(Split(s, sep), <<>>)
    BY <1>1, <1>2, <2>1
  <2>4. Glue(Append(Split(s, sep), <<>>), w) = Append(Split(s, sep), w)
    BY <1>1, GlueOne
  <2> QED
    BY <2>1, <2>2, <2>3, <2>4
<1>4. Split(w, sep) = <<w>>
  <2>1. <<>> \in Seq(Chars) /\ <<>> \o w = w
    BY EmptySeq, ConcatEmptySeq
  <2>2. Split(w, sep) = Glue(<< <<>> >>, w)
    BY <1>1, <2>1, SplitGlues
  <2>3. <<>> \in Seq(Seq(Chars)) /\ Append(<<>>, <<>>) = << <<>> >> /\ Append(<<>>, w) = <<w>>
    BY EmptySeq
  <2> QED
    BY <2>2, <2>3, GlueOne
<1> QED
  BY <1>1, <1>2, <1>3, <1>4

-----------------------------------------------------------------------------
(* Numbers.                                                                *)

\* The value of digits, digit by digit.
LEMMA ValueSteps ==
    ASSUME NEW s \in Seq(Chars), NEW c \in Chars
    PROVE  /\ ValueOf(<<>>) = 0 /\ ValueOf(s) \in Int
           /\ ValueOf(Append(s, c)) = 10 * ValueOf(s) + c - Digit(0)
<1> DEFINE D == Int
           base == 0
           Op(p, x) == 10 * p + x - Digit(0)
           Eq(g, q) == g = [t \in SUBSET DOMAIN q |->
                              IF t = {} THEN base ELSE Op(g[t \ {Max(t)}], q[Max(t)])]
           It(q) == CHOOSE g : Eq(g, q)
<1>1. \A q : ValueOf(q) = It(q)[DOMAIN q]
  BY DEF ValueOf, FoldLeft, MapThenFoldSet
<1>2. base \in D /\ \A p \in D, x \in Chars : Op(p, x) \in D
  BY DEF Chars, Digit
<1> HIDE DEF D, base, Op
<1>3. PICK F : OpOn(F, D, Chars) /\ \A d \in D, e \in Chars : F[<<d, e>>] = Op(d, e)
  <2> DEFINE F == [y \in D \X Chars |-> Op(y[1], y[2])]
  <2>1. \A d \in D, e \in Chars : F[<<d, e>>] = Op(d, e) /\ F[<<d, e>>] \in D
    BY <1>2
  <2> QED
    BY <2>1 DEF OpOn
<1>4. ASSUME NEW q \in Seq(Chars), NEW k, k = It(q)
      PROVE  /\ FoldsIn(k, F, D, base, q) /\ k[{}] = base
  <2>1. PICK g : Runs(g, F, D, Chars, base, q)
    <3> HIDE DEF It, Eq
    <3>1. base \in D /\ OpOn(F, D, Chars)
      BY <1>2, <1>3
    <3> QED
      BY <3>1, FoldsRun
  <2>2. Eq(g, q)
    BY <1>3, <2>1 DEF Folds, Runs
  <2> DEFINE Q(h) == Eq(h, q)
  <2>3. Q(k)
    <3>1. k = (CHOOSE h : Q(h)) /\ Q(g)
      BY <1>4, <2>2
    <3> HIDE DEF Q
    <3> QED
      BY <3>1
  <2>4. Eq(k, q) /\ \A t \in SUBSET DOMAIN q : t # {} => q[Max(t)] \in Chars
    BY <2>1, <2>3 DEF Runs
  <2> QED
    BY <1>3, <2>4 DEF FoldsIn
<1>5. ValueOf(<<>>) = base
  <2>1. PICK k : k = It(<<>>)
    OBVIOUS
  <2>2. k[{}] = base
    BY <1>4, <2>1, EmptySeq
  <2>3. DOMAIN <<>> = {}
    OBVIOUS
  <2> HIDE DEF It
  <2> QED
    BY <1>1, <2>1, <2>2, <2>3
<1>6. PICK r, g, h : r = Append(s, c) /\ g = It(s) /\ h = It(r)
  OBVIOUS
<1>7. r \in Seq(Chars) /\ OneMore(s, r) /\ r[Len(r)] = c
  BY <1>6, AppendProperties DEF OneMore
<1>8. FoldsIn(g, F, D, base, s) /\ FoldsIn(h, F, D, base, r)
  BY <1>4, <1>6, <1>7
<1>9. ValueOf(s) = g[DOMAIN s] /\ ValueOf(r) = h[DOMAIN r]
  <2> HIDE DEF It
  <2> QED
    BY <1>1, <1>6
<1> HIDE DEF It
<1>10. g[DOMAIN s] \in D /\ h[DOMAIN r] = F[<<g[DOMAIN s], r[Len(r)]>>]
  <2>1. base \in D /\ OpOn(F, D, Chars)
    BY <1>2, <1>3
  <2>2. r \in Seq(Chars) /\ OneMore(s, r)
    BY <1>7
  <2> QED
    BY <1>8, <2>1, <2>2, FoldsGoOn
<1>11. ValueOf(s) \in D /\ ValueOf(r) = Op(ValueOf(s), c)
  BY <1>3, <1>7, <1>9, <1>10
<1> QED
  BY <1>5, <1>6, <1>11 DEF D, Op, base

-----------------------------------------------------------------------------
(* Replies.                                                                *)

\* The reply to a search, name by name.
JoinedWith(s, n) == IF s = <<>> THEN n ELSE s \o <<Pipe>> \o n

LEMMA JoinSteps ==
    ASSUME NEW s \in Seq(Seq(Chars)), NEW c \in Seq(Chars)
    PROVE  /\ JoinNames(<<>>) = <<>> /\ JoinNames(s) \in Seq(Chars)
           /\ JoinNames(Append(s, c)) = JoinedWith(JoinNames(s), c)
<1> DEFINE D == Seq(Chars)
           base == <<>>
           Op(p, x) == IF p = <<>> THEN x ELSE p \o <<Pipe>> \o x
           Eq(g, q) == g = [t \in SUBSET DOMAIN q |->
                              IF t = {} THEN base ELSE Op(g[t \ {Max(t)}], q[Max(t)])]
           It(q) == CHOOSE g : Eq(g, q)
<1>1. \A q : JoinNames(q) = It(q)[DOMAIN q]
  BY DEF JoinNames, FoldLeft, MapThenFoldSet
<1>2. base \in D /\ \A p \in D, x \in Seq(Chars) : Op(p, x) \in D
  <2>1. Pipe \in Chars /\ <<>> \in Seq(Chars)
    BY EmptySeq DEF Pipe, Chars
  <2>2. ASSUME NEW p \in Seq(Chars), NEW x \in Seq(Chars) PROVE p \o <<Pipe>> \o x \in Seq(Chars)
    <3>1. <<Pipe>> \in Seq(Chars)
      BY <2>1, OneElement
    <3>2. p \o <<Pipe>> \in Seq(Chars)
      BY <3>1, ConcatProperties
    <3> QED
      BY <3>2, ConcatProperties
  <2> QED
    BY <2>1, <2>2
<1> HIDE DEF D, base, Op
<1>3. PICK F : OpOn(F, D, Seq(Chars)) /\ \A d \in D, e \in Seq(Chars) : F[<<d, e>>] = Op(d, e)
  <2> DEFINE F == [y \in D \X Seq(Chars) |-> Op(y[1], y[2])]
  <2>1. \A d \in D, e \in Seq(Chars) : F[<<d, e>>] = Op(d, e) /\ F[<<d, e>>] \in D
    BY <1>2
  <2> QED
    BY <2>1 DEF OpOn
<1>4. ASSUME NEW q \in Seq(Seq(Chars)), NEW k, k = It(q)
      PROVE  /\ FoldsIn(k, F, D, base, q) /\ k[{}] = base
  <2>1. PICK g : Runs(g, F, D, Seq(Chars), base, q)
    <3> HIDE DEF It, Eq
    <3>1. base \in D /\ OpOn(F, D, Seq(Chars))
      BY <1>2, <1>3
    <3> QED
      BY <3>1, FoldsRun
  <2>2. Eq(g, q)
    BY <1>3, <2>1 DEF Folds, Runs
  <2> DEFINE Q(h) == Eq(h, q)
  <2>3. Q(k)
    <3>1. k = (CHOOSE h : Q(h)) /\ Q(g)
      BY <1>4, <2>2
    <3> HIDE DEF Q
    <3> QED
      BY <3>1
  <2>4. Eq(k, q) /\ \A t \in SUBSET DOMAIN q : t # {} => q[Max(t)] \in Seq(Chars)
    BY <2>1, <2>3 DEF Runs
  <2> QED
    BY <1>3, <2>4 DEF FoldsIn
<1>5. JoinNames(<<>>) = base
  <2>1. PICK k : k = It(<<>>)
    OBVIOUS
  <2>2. k[{}] = base
    BY <1>4, <2>1, EmptySeq
  <2>3. DOMAIN <<>> = {}
    OBVIOUS
  <2> HIDE DEF It
  <2> QED
    BY <1>1, <2>1, <2>2, <2>3
<1>6. PICK r, g, h : r = Append(s, c) /\ g = It(s) /\ h = It(r)
  OBVIOUS
<1>7. r \in Seq(Seq(Chars)) /\ OneMore(s, r) /\ r[Len(r)] = c
  BY <1>6, AppendProperties DEF OneMore
<1>8. FoldsIn(g, F, D, base, s) /\ FoldsIn(h, F, D, base, r)
  BY <1>4, <1>6, <1>7
<1>9. JoinNames(s) = g[DOMAIN s] /\ JoinNames(r) = h[DOMAIN r]
  <2> HIDE DEF It
  <2> QED
    BY <1>1, <1>6
<1> HIDE DEF It
<1>10. g[DOMAIN s] \in D /\ h[DOMAIN r] = F[<<g[DOMAIN s], r[Len(r)]>>]
  <2>1. base \in D /\ OpOn(F, D, Seq(Chars))
    BY <1>2, <1>3
  <2>2. r \in Seq(Seq(Chars)) /\ OneMore(s, r)
    BY <1>7
  <2> QED
    BY <1>8, <2>1, <2>2, FoldsGoOn
<1>11. JoinNames(s) \in D /\ JoinNames(r) = Op(JoinNames(s), c)
  BY <1>3, <1>7, <1>9, <1>10
<1> QED
  BY <1>5, <1>6, <1>11 DEF D, Op, base, JoinedWith

\* The reply to a history request, record by record.
LEMMA HistorySteps ==
    ASSUME NEW R, \A r \in R : LineOf(r) \in Seq(Chars), NEW s \in Seq(R), NEW c \in R
    PROVE  /\ HistoryText(<<>>) = <<>> /\ HistoryText(s) \in Seq(Chars)
           /\ HistoryText(Append(s, c)) = HistoryText(s) \o LineOf(c)
<1> DEFINE D == Seq(Chars)
           base == <<>>
           Op(p, x) == p \o LineOf(x)
           Eq(g, q) == g = [t \in SUBSET DOMAIN q |->
                              IF t = {} THEN base ELSE Op(g[t \ {Max(t)}], q[Max(t)])]
           It(q) == CHOOSE g : Eq(g, q)
<1>1. \A q : HistoryText(q) = It(q)[DOMAIN q]
  BY DEF HistoryText, FoldLeft, MapThenFoldSet
<1>2. base \in D /\ \A p \in D, x \in R : Op(p, x) \in D
  BY EmptySeq, ConcatProperties
<1> HIDE DEF D, base, Op
<1>3. PICK F : OpOn(F, D, R) /\ \A d \in D, e \in R : F[<<d, e>>] = Op(d, e)
  <2> DEFINE F == [y \in D \X R |-> Op(y[1], y[2])]
  <2>1. \A d \in D, e \in R : F[<<d, e>>] = Op(d, e) /\ F[<<d, e>>] \in D
    BY <1>2
  <2> QED
    BY <2>1 DEF OpOn
<1>4. ASSUME NEW q \in Seq(R), NEW k, k = It(q)
      PROVE  /\ FoldsIn(k, F, D, base, q) /\ k[{}] = base
  <2>1. PICK g : Runs(g, F, D, R, base, q)
    <3> HIDE DEF It, Eq
    <3>1. base \in D /\ OpOn(F, D, R)
      BY <1>2, <1>3
    <3> QED
      BY <3>1, FoldsRun
  <2>2. Eq(g, q)
    BY <1>3, <2>1 DEF Folds, Runs
  <2> DEFINE Q(h) == Eq(h, q)
  <2>3. Q(k)
    <3>1. k = (CHOOSE h : Q(h)) /\ Q(g)
      BY <1>4, <2>2
    <3> HIDE DEF Q
    <3> QED
      BY <3>1
  <2>4. Eq(k, q) /\ \A t \in SUBSET DOMAIN q : t # {} => q[Max(t)] \in R
    BY <2>1, <2>3 DEF Runs
  <2> QED
    BY <1>3, <2>4 DEF FoldsIn
<1>5. HistoryText(<<>>) = base
  <2>1. PICK k : k = It(<<>>)
    OBVIOUS
  <2>2. k[{}] = base
    BY <1>4, <2>1, EmptySeq
  <2>3. DOMAIN <<>> = {}
    OBVIOUS
  <2> HIDE DEF It
  <2> QED
    BY <1>1, <2>1, <2>2, <2>3
<1>6. PICK r, g, h : r = Append(s, c) /\ g = It(s) /\ h = It(r)
  OBVIOUS
<1>7. r \in Seq(R) /\ OneMore(s, r) /\ r[Len(r)] = c
  BY <1>6, AppendProperties DEF OneMore
<1>8. FoldsIn(g, F, D, base, s) /\ FoldsIn(h, F, D, base, r)
  BY <1>4, <1>6, <1>7
<1>9. HistoryText(s) = g[DOMAIN s] /\ HistoryText(r) = h[DOMAIN r]
  <2> HIDE DEF It
  <2> QED
    BY <1>1, <1>6
<1> HIDE DEF It
<1>10. g[DOMAIN s] \in D /\ h[DOMAIN r] = F[<<g[DOMAIN s], r[Len(r)]>>]
  <2>1. base \in D /\ OpOn(F, D, R)
    BY <1>2, <1>3
  <2>2. r \in Seq(R) /\ OneMore(s, r)
    BY <1>7
  <2> QED
    BY <1>8, <2>1, <2>2, FoldsGoOn
<1>11. HistoryText(s) \in D /\ HistoryText(r) = Op(HistoryText(s), c)
  BY <1>3, <1>7, <1>9, <1>10
<1> QED
  BY <1>5, <1>6, <1>11 DEF D, Op, base

\* What the page reads, line by line, if it is made of entries of X.
EntryOf(f) == [counterparty |-> f[2], amount |-> NumberOf(f[3])]
LinesInto(X) == {l \in Seq(Chars) : Len(Split(l, Pipe)) < 5 \/ EntryOf(Split(l, Pipe)) \in X}
ReadWith(entries, l) ==
    IF Len(Split(l, Pipe)) < 5 THEN entries ELSE Append(entries, EntryOf(Split(l, Pipe)))

LEMMA ParseSteps ==
    ASSUME NEW X, NEW s \in Seq(LinesInto(X)), NEW c \in LinesInto(X)
    PROVE  /\ ParseLines(<<>>) = <<>> /\ ParseLines(s) \in Seq(X)
           /\ ParseLines(Append(s, c)) = ReadWith(ParseLines(s), c)
<1> DEFINE D == Seq(X)
           base == <<>>
           Op(p, x) == ReadWith(p, x)
           Eq(g, q) == g = [t \in SUBSET DOMAIN q |->
                              IF t = {} THEN base ELSE Op(g[t \ {Max(t)}], q[Max(t)])]
           It(q) == CHOOSE g : Eq(g, q)
<1>1. \A q : ParseLines(q) = It(q)[DOMAIN q]
  BY DEF ParseLines, EntryOf, ReadWith, FoldLeft, MapThenFoldSet
<1>2. base \in D /\ \A p \in D, x \in LinesInto(X) : Op(p, x) \in D
  <2>1. \A p \in Seq(X), e \in X : Append(p, e) \in Seq(X)
    BY AppendProperties
  <2> QED
    BY <2>1, EmptySeq DEF LinesInto, ReadWith
<1> HIDE DEF D, base, Op
<1>3. PICK F : OpOn(F, D, LinesInto(X)) /\ \A d \in D, e \in LinesInto(X) : F[<<d, e>>] = Op(d, e)
  <2> DEFINE F == [y \in D \X LinesInto(X) |-> Op(y[1], y[2])]
  <2>1. \A d \in D, e \in LinesInto(X) : F[<<d, e>>] = Op(d, e) /\ F[<<d, e>>] \in D
    BY <1>2
  <2> QED
    BY <2>1 DEF OpOn
<1>4. ASSUME NEW q \in Seq(LinesInto(X)), NEW k, k = It(q)
      PROVE  /\ FoldsIn(k, F, D, base, q) /\ k[{}] = base
  <2>1. PICK g : Runs(g, F, D, LinesInto(X), base, q)
    <3> HIDE DEF It, Eq
    <3>1. base \in D /\ OpOn(F, D, LinesInto(X))
      BY <1>2, <1>3
    <3> QED
      BY <3>1, FoldsRun
  <2>2. Eq(g, q)
    BY <1>3, <2>1 DEF Folds, Runs
  <2> DEFINE Q(h) == Eq(h, q)
  <2>3. Q(k)
    <3>1. k = (CHOOSE h : Q(h)) /\ Q(g)
      BY <1>4, <2>2
    <3> HIDE DEF Q
    <3> QED
      BY <3>1
  <2>4. Eq(k, q) /\ \A t \in SUBSET DOMAIN q : t # {} => q[Max(t)] \in LinesInto(X)
    BY <2>1, <2>3 DEF Runs
  <2> QED
    BY <1>3, <2>4 DEF FoldsIn
<1>5. ParseLines(<<>>) = base
  <2>1. PICK k : k = It(<<>>)
    OBVIOUS
  <2>2. k[{}] = base
    BY <1>4, <2>1, EmptySeq
  <2>3. DOMAIN <<>> = {}
    OBVIOUS
  <2> HIDE DEF It
  <2> QED
    BY <1>1, <2>1, <2>2, <2>3
<1>6. PICK r, g, h : r = Append(s, c) /\ g = It(s) /\ h = It(r)
  OBVIOUS
<1>7. r \in Seq(LinesInto(X)) /\ OneMore(s, r) /\ r[Len(r)] = c
  BY <1>6, AppendProperties DEF OneMore
<1>8. FoldsIn(g, F, D, base, s) /\ FoldsIn(h, F, D, base, r)
  BY <1>4, <1>6, <1>7
<1>9. ParseLines(s) = g[DOMAIN s] /\ ParseLines(r) = h[DOMAIN r]
  <2> HIDE DEF It
  <2> QED
    BY <1>1, <1>6
<1> HIDE DEF It
<1>10. g[DOMAIN s] \in D /\ h[DOMAIN r] = F[<<g[DOMAIN s], r[Len(r)]>>]
  <2>1. base \in D /\ OpOn(F, D, LinesInto(X))
    BY <1>2, <1>3
  <2>2. r \in Seq(LinesInto(X)) /\ OneMore(s, r)
    BY <1>7
  <2> QED
    BY <1>8, <2>1, <2>2, FoldsGoOn
<1>11. ParseLines(s) \in D /\ ParseLines(r) = Op(ParseLines(s), c)
  BY <1>3, <1>7, <1>9, <1>10
<1> QED
  BY <1>5, <1>6, <1>11 DEF D, Op, base

\* A user's own records, record by record.
LEMMA OwnSteps ==
    ASSUME NEW R, NEW user, NEW s \in Seq(R), NEW c \in R
    PROVE  /\ OwnOf(<<>>, user) = <<>> /\ OwnOf(s, user) \in Seq(R)
           /\ OwnOf(Append(s, c), user) = IF c.user = user THEN Append(OwnOf(s, user), c) ELSE OwnOf(s, user)
<1> DEFINE D == Seq(R)
           base == <<>>
           Op(p, x) == IF x.user = user THEN Append(p, x) ELSE p
           Eq(g, q) == g = [t \in SUBSET DOMAIN q |->
                              IF t = {} THEN base ELSE Op(g[t \ {Max(t)}], q[Max(t)])]
           It(q) == CHOOSE g : Eq(g, q)
<1>1. \A q : OwnOf(q, user) = It(q)[DOMAIN q]
  BY DEF OwnOf, FoldLeft, MapThenFoldSet
<1>2. base \in D /\ \A p \in D, x \in R : Op(p, x) \in D
  BY EmptySeq, AppendProperties
<1> HIDE DEF D, base, Op
<1>3. PICK F : OpOn(F, D, R) /\ \A d \in D, e \in R : F[<<d, e>>] = Op(d, e)
  <2> DEFINE F == [y \in D \X R |-> Op(y[1], y[2])]
  <2>1. \A d \in D, e \in R : F[<<d, e>>] = Op(d, e) /\ F[<<d, e>>] \in D
    BY <1>2
  <2> QED
    BY <2>1 DEF OpOn
<1>4. ASSUME NEW q \in Seq(R), NEW k, k = It(q)
      PROVE  /\ FoldsIn(k, F, D, base, q) /\ k[{}] = base
  <2>1. PICK g : Runs(g, F, D, R, base, q)
    <3> HIDE DEF It, Eq
    <3>1. base \in D /\ OpOn(F, D, R)
      BY <1>2, <1>3
    <3> QED
      BY <3>1, FoldsRun
  <2>2. Eq(g, q)
    BY <1>3, <2>1 DEF Folds, Runs
  <2> DEFINE Q(h) == Eq(h, q)
  <2>3. Q(k)
    <3>1. k = (CHOOSE h : Q(h)) /\ Q(g)
      BY <1>4, <2>2
    <3> HIDE DEF Q
    <3> QED
      BY <3>1
  <2>4. Eq(k, q) /\ \A t \in SUBSET DOMAIN q : t # {} => q[Max(t)] \in R
    BY <2>1, <2>3 DEF Runs
  <2> QED
    BY <1>3, <2>4 DEF FoldsIn
<1>5. OwnOf(<<>>, user) = base
  <2>1. PICK k : k = It(<<>>)
    OBVIOUS
  <2>2. k[{}] = base
    BY <1>4, <2>1, EmptySeq
  <2>3. DOMAIN <<>> = {}
    OBVIOUS
  <2> HIDE DEF It
  <2> QED
    BY <1>1, <2>1, <2>2, <2>3
<1>6. PICK r, g, h : r = Append(s, c) /\ g = It(s) /\ h = It(r)
  OBVIOUS
<1>7. r \in Seq(R) /\ OneMore(s, r) /\ r[Len(r)] = c
  BY <1>6, AppendProperties DEF OneMore
<1>8. FoldsIn(g, F, D, base, s) /\ FoldsIn(h, F, D, base, r)
  BY <1>4, <1>6, <1>7
<1>9. OwnOf(s, user) = g[DOMAIN s] /\ OwnOf(r, user) = h[DOMAIN r]
  <2> HIDE DEF It
  <2> QED
    BY <1>1, <1>6
<1> HIDE DEF It
<1>10. g[DOMAIN s] \in D /\ h[DOMAIN r] = F[<<g[DOMAIN s], r[Len(r)]>>]
  <2>1. base \in D /\ OpOn(F, D, R)
    BY <1>2, <1>3
  <2>2. r \in Seq(R) /\ OneMore(s, r)
    BY <1>7
  <2> QED
    BY <1>8, <2>1, <2>2, FoldsGoOn
<1>11. OwnOf(s, user) \in D /\ OwnOf(r, user) = Op(OwnOf(s, user), c)
  BY <1>3, <1>7, <1>9, <1>10
<1> QED
  BY <1>5, <1>6, <1>11 DEF D, Op, base

\* Numbers of one digit come back as they were written.
LEMMA DigitRead ==
    ASSUME NEW m \in 0 .. 9, NEW body, body = <<Digit(m)>>
    PROVE  /\ ValueOf(SubSeq(body, 1, 1)) = m
           /\ DigitsAhead(body) = 1
<1>1. PICK d \in Chars : d = Digit(m)
  BY DEF Chars, Digit
<1>2. body = <<d>> /\ body = Append(<<>>, d) /\ Len(body) = 1 /\ body[1] = d
  BY <1>1
<1>3. IsDigit(d)
  BY <1>1 DEF IsDigit, Digit
<1>4. SubSeq(body, 1, 1) = body
  <2>1. body \in Seq(Chars)
    BY <1>2
  <2> QED
    BY <1>2, <2>1, SubSeqFull
<1>5. ValueOf(body) = m
  <2>1. <<>> \in Seq(Chars)
    BY EmptySeq
  <2>2. ValueOf(<<>>) = 0 /\ ValueOf(Append(<<>>, d)) = 10 * ValueOf(<<>>) + d - Digit(0)
    BY <2>1, ValueSteps
  <2> QED
    BY <1>1, <1>2, <2>2 DEF Digit
<1>6. \A k \in 0 .. 1 :
          (/\ \A i \in 1 .. k : IsDigit(body[i])
           /\ k = 1 \/ ~IsDigit(body[k + 1])) <=> k = 1
  <2> TAKE k \in 0 .. 1
  <2>1. k = 0 \/ k = 1
    OBVIOUS
  <2>2. CASE k = 0
    BY <1>2, <1>3, <2>2
  <2>3. CASE k = 1
    BY <1>2, <1>3, <2>3
  <2> QED
    BY <2>1, <2>2, <2>3
<1> DEFINE Fits(k) == /\ \A i \in 1 .. k : IsDigit(body[i])
                      /\ k = Len(body) \/ ~IsDigit(body[k + 1])
<1>7. (CHOOSE k \in 0 .. Len(body) : Fits(k)) = 1
  <2>1. \A k \in 0 .. Len(body) : Fits(k) <=> k = 1
    BY <1>2, <1>6
  <2>2. 1 \in 0 .. Len(body)
    BY <1>2
  <2> HIDE DEF Fits
  <2> QED
    BY <2>1, <2>2
<1> QED
  BY <1>4, <1>5, <1>7 DEF DigitsAhead

LEMMA NumbersRead ==
    ASSUME NEW n \in -9 .. 9
    PROVE  /\ NumberText(n) \in Seq(Chars)
           /\ Without(NumberText(n), Colon) /\ Without(NumberText(n), Pipe)
           /\ Without(NumberText(n), LineEnd)
           /\ NumberOf(NumberText(n)) = n /\ n # NotANumber
<1>1. n # NotANumber
  BY DEF NotANumber
<1>2. CASE n >= 0
  <2>1. NumberText(n) = <<Digit(n)>> /\ n \in 0 .. 9
    BY <1>2 DEF NumberText
  <2>2. PICK body : body = <<Digit(n)>>
    OBVIOUS
  <2>3. Digit(n) \in Chars /\ Digit(n) # MinusSign /\ Digit(n) \notin {Colon, Pipe, LineEnd}
    BY <2>1 DEF Digit, Chars, MinusSign, Colon, Pipe, LineEnd
  <2>4. body \in Seq(Chars) /\ Len(body) = 1 /\ body[1] = Digit(n)
    BY <2>2, <2>3, OneElement
  <2>5. \A i \in 1 .. Len(body) : body[i] = Digit(n)
    BY <2>4
  <2>6. NumberOf(body) = n
    <3>1. (body # <<>> /\ body[1] = MinusSign) = FALSE
      BY <2>3, <2>4
    <3>2. /\ ValueOf(SubSeq(body, 1, 1)) = n
          /\ DigitsAhead(body) = 1
      BY <2>1, <2>2, DigitRead
    <3> QED
      BY <3>1, <3>2 DEF NumberOf
  <2>7. NumberText(n) = body
    BY <2>1, <2>2
  <2> QED
    BY <1>1, <2>3, <2>4, <2>5, <2>6, <2>7 DEF Without
<1>3. CASE n < 0
  <2>1. NumberText(n) = <<MinusSign, Digit(-n)>> /\ -n \in 0 .. 9 /\ -(-n) = n
    BY <1>3 DEF NumberText
  <2>2. PICK made, body : made = <<MinusSign, Digit(-n)>> /\ body = <<Digit(-n)>>
    OBVIOUS
  <2>3. /\ MinusSign \in Chars /\ Digit(-n) \in Chars
        /\ {MinusSign, Digit(-n)} \cap {Colon, Pipe, LineEnd} = {}
    BY <2>1 DEF Digit, Chars, MinusSign, Colon, Pipe, LineEnd
  <2>4. /\ made \in Seq(Chars) /\ Len(made) = 2 /\ made[1] = MinusSign /\ made[2] = Digit(-n)
        /\ made # <<>> /\ Tail(made) = body
    BY <2>2, <2>3
  <2>5. \A i \in 1 .. Len(made) : made[i] \in {MinusSign, Digit(-n)}
    <3>1. \A i \in 1 .. 2 : i = 1 \/ i = 2
      OBVIOUS
    <3> QED
      BY <2>4, <3>1
  <2>6. NumberOf(made) = n
    <3>1. (made # <<>> /\ made[1] = MinusSign) = TRUE
      BY <2>4
    <3>2. /\ ValueOf(SubSeq(body, 1, 1)) = -n
          /\ DigitsAhead(body) = 1
      BY <2>1, <2>2, DigitRead
    <3>3. NumberOf(made) = -(-n)
      <4>1. PICK v : v = ValueOf(SubSeq(body, 1, 1))
        OBVIOUS
      <4>2. NumberOf(made) = -v
        <5> DEFINE signed == made # <<>> /\ made[1] = MinusSign
                   b == IF signed THEN Tail(made) ELSE made
        <5>1. NumberOf(made) = IF DigitsAhead(b) = 0 THEN NotANumber
                               ELSE IF signed THEN -ValueOf(SubSeq(b, 1, DigitsAhead(b)))
                               ELSE ValueOf(SubSeq(b, 1, DigitsAhead(b)))
          BY DEF NumberOf
        <5>2. signed /\ b = body
          BY <2>4
        <5> HIDE DEF signed, b
        <5>3. DigitsAhead(b) = 1 /\ DigitsAhead(b) # 0
          BY <3>2, <5>2
        <5>4. NumberOf(made) = -ValueOf(SubSeq(b, 1, DigitsAhead(b)))
          BY <5>1, <5>2, <5>3
        <5> QED
          BY <4>1, <5>2, <5>3, <5>4
      <4> QED
        BY <3>2, <4>1, <4>2
    <3> QED
      BY <2>1, <3>3
  <2>7. NumberText(n) = made
    BY <2>1, <2>2
  <2> QED
    BY <1>1, <2>3, <2>4, <2>5, <2>6, <2>7 DEF Without
<1> QED
  BY <1>2, <1>3

\* The names the transfer page reads are names the server wrote.
PlainNames == {u \in Seq(Chars) : u # <<>> /\ Without(u, Pipe)}

LEMMA NamesSplit ==
    ASSUME NEW ns \in Seq(PlainNames)
    PROVE  /\ JoinNames(ns) \in Seq(Chars)
           /\ ns = <<>> => JoinNames(ns) = <<>>
           /\ ns # <<>> => JoinNames(ns) # <<>> /\ Split(JoinNames(ns), Pipe) = ns
<1> DEFINE Good(q) == /\ JoinNames(q) \in Seq(Chars)
                      /\ q = <<>> => JoinNames(q) = <<>>
                      /\ q # <<>> => JoinNames(q) # <<>> /\ Split(JoinNames(q), Pipe) = q
           T == {n \in Nat : \A q \in Seq(PlainNames) : Len(q) = n => Good(q)}
<1>1. Pipe \in Chars /\ PlainNames \subseteq Seq(Chars)
  BY DEF Pipe, Chars, PlainNames
<1>2. 0 \in T
  <2> SUFFICES ASSUME NEW q \in Seq(PlainNames), Len(q) = 0 PROVE Good(q)
    OBVIOUS
  <2>1. q = <<>>
    BY EmptySeq
  <2>2. JoinNames(<<>>) = <<>> /\ <<>> \in Seq(Chars)
    <3>1. <<>> \in Seq(Seq(Chars)) /\ <<>> \in Seq(Chars)
      BY EmptySeq
    <3> QED
      BY <3>1, JoinSteps
  <2> QED
    BY <2>1, <2>2
<1>3. ASSUME NEW n \in Nat \ {0}, n - 1 \in T
      PROVE  n \in T
  <2> SUFFICES ASSUME NEW q \in Seq(PlainNames), Len(q) = n PROVE Good(q)
    OBVIOUS
  <2>1. q # <<>>
    BY EmptySeq
  <2>2. PICK p \in Seq(PlainNames), u \in PlainNames : q = Append(p, u)
    BY <2>1, SequenceEmptyOrAppend
  <2>3. Len(q) = Len(p) + 1 /\ Len(p) \in Nat
    BY <2>2, AppendProperties, LenProperties
  <2>4. Good(p)
    BY <1>3, <2>3
  <2>5. p \in Seq(Seq(Chars)) /\ u \in Seq(Chars) /\ u # <<>> /\ Without(u, Pipe)
    BY <1>1, SeqMonotonic DEF PlainNames
  <2>6. JoinNames(q) = JoinedWith(JoinNames(p), u)
    BY <2>2, <2>5, JoinSteps
  <2>7. CASE p = <<>>
    <3>1. JoinNames(q) = u
      BY <2>4, <2>6, <2>7 DEF JoinedWith
    <3>2. Split(u, Pipe) = <<u>>
      <4>1. <<>> \in Seq(Chars)
        BY EmptySeq
      <4> QED
        BY <1>1, <2>5, <4>1, SplitParts
    <3>3. q = <<u>>
      BY <2>2, <2>7
    <3> QED
      BY <2>1, <2>5, <3>1, <3>2, <3>3
  <2>8. CASE p # <<>>
    <3>1. PICK s \in Seq(Chars) : s = JoinNames(p) /\ s # <<>> /\ Split(s, Pipe) = p
      BY <2>4, <2>8
    <3>2. JoinNames(q) = s \o <<Pipe>> \o u
      BY <2>6, <3>1 DEF JoinedWith
    <3>3. Split(s \o <<Pipe>> \o u, Pipe) = Append(Split(s, Pipe), u)
      BY <1>1, <2>5, SplitParts
    <3>4. <<Pipe>> \in Seq(Chars)
      BY <1>1, OneElement
    <3>5. PICK a \in Seq(Chars) : a = s \o <<Pipe>>
      BY <3>4, ConcatProperties
    <3>6. a \o u \in Seq(Chars) /\ a \o u # <<>>
      BY <2>5, ConcatProperties, ConcatEqualIffEmpty
    <3> QED
      BY <2>1, <2>2, <3>1, <3>2, <3>3, <3>5, <3>6
  <2> QED
    BY <2>7, <2>8
<1>4. T = Nat
  <2>1. T \in SUBSET Nat
    OBVIOUS
  <2> HIDE DEF T
  <2> QED
    BY <1>2, <1>3, <2>1, NatSteps
<1>5. Len(ns) \in T
  BY <1>4, LenProperties
<1> QED
  BY <1>5

LEMMA NamesParsed ==
    ASSUME NEW ns \in Seq(PlainNames)
    PROVE  ParseNames(JoinNames(ns)) \subseteq ToSet(ns)
<1>1. CASE ns = <<>>
  <2>1. JoinNames(ns) = <<>>
    BY <1>1, NamesSplit
  <2>2. <<>> \in Seq(Chars) /\ Pipe \in Chars
    BY EmptySeq DEF Chars, Pipe
  <2>3. Split(<<>>, Pipe) = << <<>> >>
    BY <2>2, SplitSteps
  <2>4. Last(<< <<>> >>) = <<>> /\ Front(<< <<>> >>) = <<>>
    BY DEF Last, Front
  <2>5. ToSet(<<>>) = {}
    BY DEF ToSet
  <2> QED
    BY <2>1, <2>3, <2>4, <2>5 DEF ParseNames
<1>2. CASE ns # <<>>
  <2>1. Split(JoinNames(ns), Pipe) = ns
    BY <1>2, NamesSplit
  <2>2. Len(ns) \in 1 .. Len(ns)
    BY <1>2, EmptySeq
  <2>3. Last(ns) # <<>>
    BY <2>2, ElementOfSeq DEF Last, PlainNames
  <2> QED
    BY <2>1, <2>3 DEF ParseNames
<1> QED
  BY <1>1, <1>2

\* The names accounts have, the records of them, and what the page makes of these.
AccountNames ==
    {u \in Seq(Chars) : /\ u # <<>> /\ Len(u) <= NameLen
                        /\ Without(u, Colon) /\ Without(u, Pipe) /\ Without(u, LineEnd)}
Records == [user : AccountNames, counterparty : AccountNames, amount : 0 .. 9]
Entries == [counterparty : AccountNames, amount : 0 .. 9]
EntryFor(r) == [counterparty |-> r.counterparty, amount |-> r.amount]
EntriesFor(rs) == [i \in DOMAIN rs |-> EntryFor(rs[i])]

LEMMA LineAdded ==
    ASSUME NEW h \in Seq(Chars), NEW b \in Seq(Chars), NEW c \in Chars
    PROVE  h \o (b \o <<c>>) = h \o b \o <<c>>
<1>1. <<c>> \in Seq(Chars)
  BY OneElement
<1> QED
  BY <1>1, ConcatAssociative

LEMMA FiveParts ==
    ASSUME NEW S, NEW a \in S, NEW b \in S, NEW c \in S, NEW d \in S, NEW e \in S,
           NEW f, f = Append(Append(Append(Append(<<a>>, b), c), d), e)
    PROVE  Len(f) = 5 /\ f[2] = b /\ f[3] = c
<1>1. PICK f1 \in Seq(S) : f1 = <<a>> /\ Len(f1) = 1
  BY OneElement
<1>2. PICK f2, f3, f4 : f2 = Append(f1, b) /\ f3 = Append(f2, c) /\ f4 = Append(f3, d)
  OBVIOUS
<1>3. f2 \in Seq(S) /\ Len(f2) = 2 /\ f2[2] = b
  BY <1>1, <1>2, AppendProperties
<1>4. f3 \in Seq(S) /\ Len(f3) = 3 /\ f3[2] = b /\ f3[3] = c
  BY <1>2, <1>3, AppendProperties
<1>5. f4 \in Seq(S) /\ Len(f4) = 4 /\ f4[2] = b /\ f4[3] = c
  BY <1>2, <1>4, AppendProperties
<1>6. f = Append(f4, e)
  BY <1>1, <1>2
<1> QED
  BY <1>5, <1>6, AppendProperties

LEMMA WithoutConcat ==
    ASSUME NEW s \in Seq(Chars), NEW t \in Seq(Chars), NEW c, Without(s, c), Without(t, c)
    PROVE  s \o t \in Seq(Chars) /\ Without(s \o t, c)
<1>1. PICK r : r = s \o t
  OBVIOUS
<1>2. /\ s \o t \in Seq(Chars) /\ Len(s \o t) = Len(s) + Len(t)
      /\ \A i \in 1 .. Len(s) + Len(t) : (s \o t)[i] = IF i <= Len(s) THEN s[i] ELSE t[i - Len(s)]
  BY ConcatProperties
<1>3. Len(s) \in Nat /\ Len(t) \in Nat
  BY LenProperties
<1>4. \A i \in 1 .. Len(r) : r[i] # c
  <2> TAKE i \in 1 .. Len(r)
  <2>1. r[i] = IF i <= Len(s) THEN s[i] ELSE t[i - Len(s)]
    BY <1>1, <1>2
  <2>2. CASE i <= Len(s)
    <3>1. i \in 1 .. Len(s)
      BY <1>3, <2>2
    <3> QED
      BY <2>1, <2>2, <3>1 DEF Without
  <2>3. CASE ~ (i <= Len(s))
    <3>1. i - Len(s) \in 1 .. Len(t)
      BY <1>1, <1>2, <1>3, <2>3
    <3> QED
      BY <2>1, <2>3, <3>1 DEF Without
  <2> QED
    BY <2>2, <2>3
<1> QED
  BY <1>1, <1>2, <1>4 DEF Without

\* A part more.
LEMMA PartAdded ==
    ASSUME NEW s \in Seq(Chars), Without(s, LineEnd), NEW w \in Seq(Chars),
           Without(w, Pipe), Without(w, LineEnd)
    PROVE  /\ s \o <<Pipe>> \o w \in Seq(Chars)
           /\ Without(s \o <<Pipe>> \o w, LineEnd)
           /\ Split(s \o <<Pipe>> \o w, Pipe) = Append(Split(s, Pipe), w)
<1>1. Pipe \in Chars /\ Pipe # LineEnd
  BY DEF Pipe, Chars, LineEnd
<1>2. PICK p \in Seq(Chars) : p = <<Pipe>> /\ Without(p, LineEnd)
  <2>1. <<Pipe>> \in Seq(Chars) /\ Len(<<Pipe>>) = 1 /\ <<Pipe>>[1] = Pipe
    BY <1>1, OneElement
  <2>2. PICK p : p = <<Pipe>>
    OBVIOUS
  <2>3. Without(p, LineEnd)
    <3>1. \A i \in 1 .. Len(p) : p[i] = Pipe
      BY <2>1, <2>2
    <3> QED
      BY <1>1, <3>1 DEF Without
  <2> QED
    BY <2>1, <2>2, <2>3
<1>3. PICK a \in Seq(Chars) : a = s \o p /\ Without(a, LineEnd)
  <2>1. s \o p \in Seq(Chars) /\ Without(s \o p, LineEnd)
    BY <1>2, WithoutConcat
  <2> QED
    BY <2>1
<1>4. a \o w \in Seq(Chars) /\ Without(a \o w, LineEnd)
  BY <1>3, WithoutConcat
<1>5. Split(s \o <<Pipe>> \o w, Pipe) = Append(Split(s, Pipe), w)
  BY <1>1, SplitParts
<1> QED
  BY <1>2, <1>3, <1>4, <1>5

\* A line of the reply, and what the page reads in it.
LEMMA LineRead ==
    ASSUME NEW r \in Records
    PROVE  \E b \in Seq(Chars) :
              /\ LineOf(r) = b \o <<LineEnd>> /\ LineOf(r) \in Seq(Chars)
              /\ Without(b, LineEnd)
              /\ Len(Split(b, Pipe)) = 5 /\ EntryOf(Split(b, Pipe)) = EntryFor(r)
<1> DEFINE two == NumberText(2)
           zero == NumberText(0)
           amount == NumberText(r.amount)
<1>1. /\ two \in Seq(Chars) /\ Without(two, Pipe) /\ Without(two, LineEnd)
      /\ zero \in Seq(Chars) /\ Without(zero, Pipe) /\ Without(zero, LineEnd)
      /\ amount \in Seq(Chars) /\ Without(amount, Pipe) /\ Without(amount, LineEnd)
      /\ NumberOf(amount) = r.amount
  <2>1. 2 \in -9 .. 9 /\ 0 \in -9 .. 9 /\ r.amount \in -9 .. 9
    BY DEF Records
  <2> QED
    BY <2>1, NumbersRead
<1> HIDE DEF two, zero, amount
<1>2. /\ r.counterparty \in Seq(Chars) /\ Without(r.counterparty, Pipe)
      /\ Without(r.counterparty, LineEnd)
  BY DEF Records, AccountNames
<1>3. PICK b1 \in Seq(Chars) :
          /\ b1 = two \o <<Pipe>> \o r.counterparty /\ Without(b1, LineEnd)
          /\ Split(b1, Pipe) = Append(Split(two, Pipe), r.counterparty)
  <2>1. /\ two \o <<Pipe>> \o r.counterparty \in Seq(Chars)
        /\ Without(two \o <<Pipe>> \o r.counterparty, LineEnd)
        /\ Split(two \o <<Pipe>> \o r.counterparty, Pipe) = Append(Split(two, Pipe), r.counterparty)
    BY <1>1, <1>2, PartAdded
  <2> QED
    BY <2>1
<1>4. PICK b2 \in Seq(Chars) :
          /\ b2 = b1 \o <<Pipe>> \o amount /\ Without(b2, LineEnd)
          /\ Split(b2, Pipe) = Append(Split(b1, Pipe), amount)
  <2>1. /\ b1 \o <<Pipe>> \o amount \in Seq(Chars)
        /\ Without(b1 \o <<Pipe>> \o amount, LineEnd)
        /\ Split(b1 \o <<Pipe>> \o amount, Pipe) = Append(Split(b1, Pipe), amount)
    BY <1>1, <1>3, PartAdded
  <2> QED
    BY <2>1
<1>5. PICK b3 \in Seq(Chars) :
          /\ b3 = b2 \o <<Pipe>> \o zero /\ Without(b3, LineEnd)
          /\ Split(b3, Pipe) = Append(Split(b2, Pipe), zero)
  <2>1. /\ b2 \o <<Pipe>> \o zero \in Seq(Chars)
        /\ Without(b2 \o <<Pipe>> \o zero, LineEnd)
        /\ Split(b2 \o <<Pipe>> \o zero, Pipe) = Append(Split(b2, Pipe), zero)
    BY <1>1, <1>4, PartAdded
  <2> QED
    BY <2>1
<1>6. PICK b \in Seq(Chars) :
          /\ b = b3 \o <<Pipe>> \o zero /\ Without(b, LineEnd)
          /\ Split(b, Pipe) = Append(Split(b3, Pipe), zero)
  <2>1. /\ b3 \o <<Pipe>> \o zero \in Seq(Chars)
        /\ Without(b3 \o <<Pipe>> \o zero, LineEnd)
        /\ Split(b3 \o <<Pipe>> \o zero, Pipe) = Append(Split(b3, Pipe), zero)
    BY <1>1, <1>5, PartAdded
  <2> QED
    BY <2>1
<1>7. LineOf(r) = b \o <<LineEnd>>
  BY <1>3, <1>4, <1>5, <1>6 DEF LineOf, two, zero, amount
<1>8. LineOf(r) \in Seq(Chars)
  <2>1. <<LineEnd>> \in Seq(Chars)
    <3>1. LineEnd \in Chars
      BY DEF LineEnd, Chars
    <3> QED
      BY <3>1, OneElement
  <2> QED
    BY <1>7, <2>1, ConcatProperties
<1>9. PICK f : f = Split(b, Pipe)
  OBVIOUS
<1>10. Split(two, Pipe) = <<two>>
  <2>1. Pipe \in Chars
    BY DEF Pipe, Chars
  <2> QED
    BY <1>1, <2>1, SplitParts
<1>11. Len(f) = 5 /\ f[2] = r.counterparty /\ f[3] = amount
  <2>1. f = Append(Append(Append(Append(<<two>>, r.counterparty), amount), zero), zero)
    BY <1>3, <1>4, <1>5, <1>6, <1>9, <1>10
  <2> QED
    BY <1>1, <1>2, <2>1, FiveParts
<1>12. EntryOf(f) = EntryFor(r)
  BY <1>1, <1>11 DEF EntryOf, EntryFor
<1> QED
  BY <1>6, <1>7, <1>8, <1>9, <1>11, <1>12

\* There are records: a name of one digit fits in every field.
LEMMA RecordsExist == Records # {}
<1>1. PICK u : u = NumberText(1)
  OBVIOUS
<1>2. u \in Seq(Chars) /\ Without(u, Colon) /\ Without(u, Pipe) /\ Without(u, LineEnd)
  BY <1>1, NumbersRead
<1>3. u # <<>> /\ Len(u) = 1
  BY <1>1 DEF NumberText
<1>4. Len(u) <= NameLen
  BY <1>3, PayloadAssumption
<1>5. u \in AccountNames
  BY <1>2, <1>3, <1>4 DEF AccountNames
<1>6. [user |-> u, counterparty |-> u, amount |-> 0] \in Records
  BY <1>5 DEF Records
<1> QED
  BY <1>6

\* The page reads the history that the server wrote.
LEMMA HistoryRead ==
    ASSUME NEW rs \in Seq(Records)
    PROVE  ParseHistory(HistoryText(rs)) = EntriesFor(rs)
<1> DEFINE Good(q) == /\ HistoryText(q) \in Seq(Chars)
                      /\ \E p \in Seq(LinesInto(Entries)) :
                             /\ Split(HistoryText(q), LineEnd) = Append(p, <<>>)
                             /\ ParseLines(p) = EntriesFor(q)
           T == {n \in Nat : \A q \in Seq(Records) : Len(q) = n => Good(q)}
<1>1. LineEnd \in Chars /\ Pipe \in Chars /\ <<>> \in Seq(Chars)
  BY EmptySeq DEF LineEnd, Pipe, Chars
<1>2. LinesInto(Entries) \subseteq Seq(Chars)
  BY DEF LinesInto
<1>3. \A r \in Records : LineOf(r) \in Seq(Chars) /\ EntryFor(r) \in Entries
  BY LineRead DEF EntryFor, Entries, Records
<1>4. Records # {}
  BY RecordsExist
<1>5. 0 \in T
  <2> SUFFICES ASSUME NEW q \in Seq(Records), Len(q) = 0 PROVE Good(q)
    OBVIOUS
  <2>1. q = <<>>
    BY EmptySeq
  <2>2. <<>> \in Seq(Records) /\ <<>> \in Seq(LinesInto(Entries))
    BY EmptySeq
  <2>3. \A r \in Records : LineOf(r) \in Seq(Chars)
    BY <1>3
  <2>4. HistoryText(<<>>) = <<>>
    <3>1. PICK r \in Records : TRUE
      BY <1>4
    <3> QED
      BY <2>2, <2>3, <3>1, HistorySteps
  <2>5. Split(<<>>, LineEnd) = Append(<<>>, <<>>)
    <3>1. Split(<<>>, LineEnd) = << <<>> >>
      BY <1>1, SplitSteps
    <3> QED
      BY <3>1
  <2>6. ParseLines(<<>>) = EntriesFor(<<>>)
    <3>1. <<>> \in LinesInto(Entries)
      <4>1. Split(<<>>, Pipe) = << <<>> >>
        BY <1>1, SplitSteps
      <4>2. Len(<< <<>> >>) = 1 /\ 1 < 5
        OBVIOUS
      <4>3. Len(Split(<<>>, Pipe)) < 5
        BY <4>1, <4>2
      <4> QED
        BY <1>1, <4>3 DEF LinesInto
    <3>2. ParseLines(<<>>) = <<>>
      BY <2>2, <3>1, ParseSteps
    <3>3. EntriesFor(<<>>) = <<>>
      BY DEF EntriesFor
    <3> QED
      BY <3>2, <3>3
  <2> QED
    BY <1>1, <2>1, <2>2, <2>4, <2>5, <2>6
<1>6. ASSUME NEW n \in Nat \ {0}, n - 1 \in T
      PROVE  n \in T
  <2> SUFFICES ASSUME NEW q \in Seq(Records), Len(q) = n PROVE Good(q)
    OBVIOUS
  <2>1. q # <<>>
    BY EmptySeq
  <2>2. PICK o \in Seq(Records), r \in Records : q = Append(o, r)
    BY <2>1, SequenceEmptyOrAppend
  <2>3. Len(q) = Len(o) + 1 /\ Len(o) \in Nat
    BY <2>2, AppendProperties, LenProperties
  <2>4. Good(o)
    BY <1>6, <2>3
  <2>5. PICK h \in Seq(Chars) : h = HistoryText(o)
    BY <2>4
  <2>6. PICK p \in Seq(LinesInto(Entries)) :
            Split(h, LineEnd) = Append(p, <<>>) /\ ParseLines(p) = EntriesFor(o)
    BY <2>4, <2>5
  <2>7. PICK b \in Seq(Chars) :
            /\ LineOf(r) = b \o <<LineEnd>> /\ LineOf(r) \in Seq(Chars)
            /\ Without(b, LineEnd)
            /\ Len(Split(b, Pipe)) = 5 /\ EntryOf(Split(b, Pipe)) = EntryFor(r)
    BY LineRead
  <2>8. HistoryText(q) = h \o LineOf(r)
    <3>1. \A x \in Records : LineOf(x) \in Seq(Chars)
      BY <1>3
    <3>2. HistoryText(Append(o, r)) = HistoryText(o) \o LineOf(r)
      BY <3>1, HistorySteps
    <3> QED
      BY <2>2, <2>5, <3>2
  <2>9. HistoryText(q) \in Seq(Chars)
    BY <2>7, <2>8, ConcatProperties
  <2>10. PICK a \in Seq(Chars) : a = h \o b
    BY ConcatProperties
  <2>11. HistoryText(q) = a \o <<LineEnd>>
    <3>1. h \o (b \o <<LineEnd>>) = h \o b \o <<LineEnd>>
      BY <1>1, LineAdded
    <3> QED
      BY <2>7, <2>8, <2>10, <3>1
  <2>12. p \in Seq(Seq(Chars))
    BY <1>2, SeqMonotonic
  <2>13. Split(a, LineEnd) = Append(p, b)
    <3>1. Split(h \o b, LineEnd) = Glue(Split(h, LineEnd), b)
      BY <2>7, SplitGlues
    <3>2. Glue(Append(p, <<>>), b) = Append(p, b)
      BY <2>12, GlueOne
    <3> QED
      BY <2>6, <2>10, <3>1, <3>2
  <2>14. Split(HistoryText(q), LineEnd) = Append(Append(p, b), <<>>)
    <3>1. Split(a \o <<LineEnd>>, LineEnd) = Append(Split(a, LineEnd), <<>>)
      <4>1. PICK w \in Seq(Chars) : Without(w, LineEnd)
        BY <2>7
      <4> QED
        BY <1>1, <4>1, SplitParts
    <3> QED
      BY <2>11, <2>13, <3>1
  <2>15. b \in LinesInto(Entries)
    BY <1>3, <2>7 DEF LinesInto
  <2>16. ParseLines(Append(p, b)) = Append(EntriesFor(o), EntryFor(r))
    <3>1. ParseLines(Append(p, b)) = ReadWith(ParseLines(p), b)
      BY <2>15, ParseSteps
    <3> QED
      BY <2>6, <2>7, <3>1 DEF ReadWith
  <2>17. Append(EntriesFor(o), EntryFor(r)) = EntriesFor(q)
    <3>1. /\ DOMAIN o = 1 .. Len(o) /\ DOMAIN q = 1 .. Len(o) + 1
          /\ \A i \in 1 .. Len(o) : q[i] = o[i]
          /\ q[Len(o) + 1] = r /\ q \in Seq(Records)
      BY <2>2, AppendProperties, LenProperties
    <3>2. /\ EntriesFor(o) \in Seq(Entries) /\ Len(EntriesFor(o)) = Len(o)
          /\ \A i \in 1 .. Len(o) : EntriesFor(o)[i] = EntryFor(o[i])
      <4>1. \A i \in 1 .. Len(o) : EntryFor(o[i]) \in Entries
        BY <1>3, ElementOfSeq
      <4> QED
        BY <2>3, <3>1, <4>1 DEF EntriesFor
    <3>3. /\ EntriesFor(q) \in Seq(Entries) /\ Len(EntriesFor(q)) = Len(o) + 1
          /\ \A i \in 1 .. Len(o) + 1 : EntriesFor(q)[i] = EntryFor(q[i])
      <4>1. \A i \in 1 .. Len(q) : EntryFor(q[i]) \in Entries
        BY <1>3, ElementOfSeq
      <4> QED
        BY <2>3, <3>1, <4>1 DEF EntriesFor
    <3>4. PICK t \in Seq(Entries), y \in Entries : t = EntriesFor(o) /\ y = EntryFor(r)
      BY <1>3, <3>2
    <3>5. /\ Append(t, y) \in Seq(Entries) /\ Len(Append(t, y)) = Len(t) + 1
          /\ \A i \in 1 .. Len(t) : Append(t, y)[i] = t[i]
          /\ Append(t, y)[Len(t) + 1] = y
      BY AppendProperties
    <3>6. \A i \in 1 .. Len(o) + 1 : Append(t, y)[i] = EntriesFor(q)[i]
      <4> TAKE i \in 1 .. Len(o) + 1
      <4>1. CASE i = Len(o) + 1
        BY <3>1, <3>2, <3>3, <3>4, <3>5, <4>1
      <4>2. CASE i # Len(o) + 1
        <5>1. i \in 1 .. Len(o)
          BY <2>3, <4>2
        <5> QED
          BY <3>1, <3>2, <3>3, <3>4, <3>5, <5>1
      <4> QED
        BY <4>1, <4>2
    <3>7. Append(t, y) = EntriesFor(q)
      BY <3>2, <3>3, <3>4, <3>5, <3>6, SeqEqual
    <3> QED
      BY <3>4, <3>7
  <2>18. Append(p, b) \in Seq(LinesInto(Entries))
    BY <2>15, AppendProperties
  <2> QED
    BY <2>9, <2>14, <2>16, <2>17, <2>18
<1>7. T = Nat
  <2>1. T \in SUBSET Nat
    OBVIOUS
  <2> HIDE DEF T
  <2> QED
    BY <1>5, <1>6, <2>1, NatSteps
<1>8. Good(rs)
  <2>1. Len(rs) \in T
    BY <1>7, LenProperties
  <2> QED
    BY <2>1
<1>9. PICK p \in Seq(LinesInto(Entries)) :
          Split(HistoryText(rs), LineEnd) = Append(p, <<>>) /\ ParseLines(p) = EntriesFor(rs)
  BY <1>8
<1>10. ParseLines(Append(p, <<>>)) = ParseLines(p)
  <2>1. PICK l : l = <<>>
    OBVIOUS
  <2>2. Split(l, Pipe) = << <<>> >> /\ Len(<< <<>> >>) = 1
    BY <1>1, <2>1, SplitSteps
  <2>3. l \in LinesInto(Entries) /\ Len(Split(l, Pipe)) < 5
    <3>1. Len(Split(l, Pipe)) < 5
      BY <2>2
    <3> QED
      BY <1>1, <2>1, <3>1 DEF LinesInto
  <2>4. ParseLines(Append(p, l)) = ReadWith(ParseLines(p), l)
    BY <2>3, ParseSteps
  <2> QED
    BY <2>1, <2>3, <2>4 DEF ReadWith
<1> QED
  BY <1>9, <1>10 DEF ParseHistory

-----------------------------------------------------------------------------
(* Requests.                                                               *)

LEMMA ColonText == Colon \in Chars /\ <<Colon>> \in Seq(Chars)
<1>1. Colon \in Chars
  BY DEF Colon, Chars
<1> QED
  BY <1>1, OneElement

LEMMA ConcatFour ==
    ASSUME NEW a \in Seq(Chars), NEW x \in Seq(Chars), NEW c \in Seq(Chars), NEW p \in Seq(Chars)
    PROVE  a \o x \o c \o p = a \o (x \o c \o p) /\ x \o c \o p \in Seq(Chars)
<1>1. a \o x \o c = a \o (x \o c)
  BY ConcatAssociative
<1>2. PICK b \in Seq(Chars) : b = x \o c
  BY ConcatProperties
<1>3. a \o b \o p = a \o (b \o p) /\ b \o p \in Seq(Chars)
  BY ConcatAssociative, ConcatProperties
<1> QED
  BY <1>1, <1>2, <1>3

\* Requests come back as they were made.
LEMMA PasswordRead ==
    ASSUME NEW u \in AccountNames, NEW p \in Seq(Chars)
    PROVE  ReadPassword(PasswordText(u, p)) = <<u, p>>
<1>1. u \in Seq(Chars) /\ Without(u, Colon)
  BY DEF AccountNames
<1>2. CutFirst(u \o <<Colon>> \o p) = [found |-> TRUE, before |-> u, behind |-> p]
  BY <1>1, ColonText, CutAtColon
<1> QED
  BY <1>2 DEF ReadPassword, PasswordText

LEMMA ChangeRead ==
    ASSUME NEW u \in AccountNames, NEW n \in -9 .. 9
    PROVE  ReadChange(ChangeText(u, n)) = <<u, n>> /\ ReadCount(ChangeText(u, n)) = <<u, n>>
<1>1. u \in Seq(Chars) /\ Without(u, Colon)
  BY DEF AccountNames
<1>2. PICK t \in Seq(Chars) : t = NumberText(n) /\ NumberOf(t) = n /\ n # NotANumber
  BY NumbersRead
<1>3. CutFirst(u \o <<Colon>> \o t) = [found |-> TRUE, before |-> u, behind |-> t]
  BY <1>1, ColonText, CutAtColon
<1> QED
  BY <1>2, <1>3 DEF ReadChange, ReadCount, ChangeText

LEMMA TransferRead ==
    ASSUME NEW u \in AccountNames, NEW r \in AccountNames, NEW n \in 0 .. 9
    PROVE  ReadTransfer(TransferText(u, r, n)) = <<u, r, n>>
<1>1. /\ u \in Seq(Chars) /\ Without(u, Colon)
      /\ r \in Seq(Chars) /\ Without(r, Colon)
  BY DEF AccountNames
<1>2. PICK t \in Seq(Chars) : t = NumberText(n) /\ NumberOf(t) = n /\ n # NotANumber
  <2>1. n \in -9 .. 9
    OBVIOUS
  <2> QED
    BY <2>1, NumbersRead
<1>3. PICK c \in Seq(Chars) : c = <<Colon>>
  BY ColonText
<1>4. PICK a \in Seq(Chars) : a = u \o c
  BY <1>1, <1>3, ConcatProperties
<1>5. a \o r \o c \o t = a \o (r \o c \o t) /\ r \o c \o t \in Seq(Chars)
  BY <1>1, ConcatFour
<1>6. PICK x \in Seq(Chars) : x = r \o c \o t
  BY <1>5
<1>7. TransferText(u, r, n) = u \o <<Colon>> \o x
  BY <1>2, <1>3, <1>4, <1>5, <1>6 DEF TransferText
<1>8. CutFirst(u \o <<Colon>> \o x) = [found |-> TRUE, before |-> u, behind |-> x]
  BY <1>1, ColonText, CutAtColon
<1>9. CutFirst(x) = [found |-> TRUE, before |-> r, behind |-> t]
  <2>1. CutFirst(r \o <<Colon>> \o t) = [found |-> TRUE, before |-> r, behind |-> t]
    BY <1>1, ColonText, CutAtColon
  <2> QED
    BY <1>3, <1>6, <2>1
<1>10. PICK s, d : s = TransferText(u, r, n) /\ d = CutFirst(CutFirst(s).behind)
  OBVIOUS
<1>11. /\ CutFirst(s).found /\ CutFirst(s).before = u
       /\ d.found /\ d.before = r /\ NumberOf(d.behind) = n
  <2>1. CutFirst(s) = [found |-> TRUE, before |-> u, behind |-> x]
    BY <1>7, <1>8, <1>10
  <2>2. CutFirst(s).found /\ CutFirst(s).before = u /\ CutFirst(s).behind = x
    BY <2>1
  <2>3. d = [found |-> TRUE, before |-> r, behind |-> t]
    BY <1>9, <1>10, <2>2
  <2>4. d.found /\ d.before = r /\ d.behind = t
    BY <2>3
  <2> QED
    BY <1>2, <2>2, <2>4
<1> QED
  BY <1>2, <1>10, <1>11 DEF ReadTransfer

\* What a sign-up creates is a name without a separator, if one of those was typed.
LEMMA NameCreated ==
    ASSUME NEW name \in Seq(Chars), Without(name, Pipe), Without(name, LineEnd),
           NEW p \in Seq(Chars),
           NEW u, u = ReadPassword(PasswordText(name, p))[1], IsSafeName(u)
    PROVE  u \in AccountNames
<1>1. CASE Without(name, Colon)
  <2>1. CutFirst(name \o <<Colon>> \o p) = [found |-> TRUE, before |-> name, behind |-> p]
    BY <1>1, ColonText, CutAtColon
  <2>2. u = name
    BY <2>1 DEF ReadPassword, PasswordText
  <2> QED
    BY <1>1, <2>2 DEF AccountNames, IsSafeName
<1>2. CASE ~ Without(name, Colon)
  <2> DEFINE T == {i \in 1 .. Len(name) : name[i] = Colon}
  <2>1. PICK m \in T : \A i \in T : m <= i
    <3>1. T \in SUBSET Nat /\ T # {}
      BY <1>2 DEF Without
    <3> HIDE DEF T
    <3> QED
      BY <3>1, LeastNat
  <2>2. m \in 1 .. Len(name) /\ name[m] = Colon /\ Len(name) \in Nat
    BY <2>1, LenProperties
  <2>3. \A i \in 1 .. m - 1 : i \in 1 .. Len(name) /\ name[i] # Colon
    BY <2>1, <2>2
  <2>4. \A i \in 1 .. Len(name) : name[i] \in Chars
    BY ElementOfSeq
  <2>5. PICK v \in Seq(Chars) : Len(v) = m - 1 /\ v = SubSeq(name, 1, m - 1)
                                /\ \A i \in 1 .. m - 1 : v[i] = name[i]
    <3>1. 1 \in Int /\ m - 1 \in Int /\ (IF 1 <= m - 1 THEN m - 1 - 1 + 1 ELSE 0) = m - 1
          /\ m - 1 - 1 + 1 = m - 1
      BY <2>2
    <3>2. \A i \in 1 .. m - 1 : name[i] \in Chars
      BY <2>3, <2>4
    <3>3. /\ SubSeq(name, 1, m - 1) \in Seq(Chars)
          /\ Len(SubSeq(name, 1, m - 1)) = IF 1 <= m - 1 THEN m - 1 - 1 + 1 ELSE 0
          /\ \A i \in 1 .. m - 1 - 1 + 1 : SubSeq(name, 1, m - 1)[i] = name[1 + i - 1]
      BY <3>1, <3>2, SubSeqProperties
    <3>4. \A i \in 1 .. m - 1 : SubSeq(name, 1, m - 1)[i] = name[i]
      BY <2>2, <3>1, <3>3
    <3> QED
      BY <3>1, <3>3, <3>4
  <2>6. PICK x \in Seq(Chars) : x = SubSeq(name, m + 1, Len(name))
    <3>1. m + 1 \in Int /\ Len(name) \in Int
          /\ \A i \in m + 1 .. Len(name) : name[i] \in Chars
      BY <2>2, <2>4
    <3> QED
      BY <3>1, SubSeqProperties
  <2>7. name = v \o <<Colon>> \o x
    <3>1. SubSeq(name, 1, m - 1) \o <<name[m]>> = SubSeq(name, 1, m)
      <4>1. 1 \in 1 .. Len(name) /\ m \in 1 .. Len(name)
        BY <2>2
      <4> QED
        BY <4>1, SubSeqRecursiveSecond
    <3>2. SubSeq(name, 1, m) \o SubSeq(name, m + 1, Len(name)) = SubSeq(name, 1, Len(name))
      <4>1. 1 \in 1 .. Len(name) + 1 /\ m \in 1 - 1 .. Len(name) /\ Len(name) \in m .. Len(name)
        BY <2>2
      <4> QED
        BY <4>1, ConcatAdjacentSubSeq
    <3>3. SubSeq(name, 1, Len(name)) = name
      BY SubSeqFull
    <3> QED
      BY <2>2, <2>5, <2>6, <3>1, <3>2, <3>3
  <2>8. Without(v, Colon) /\ Without(v, Pipe) /\ Without(v, LineEnd)
    BY <2>3, <2>5 DEF Without
  <2>9. PICK c \in Seq(Chars) : c = <<Colon>>
    BY ColonText
  <2>10. PICK a \in Seq(Chars) : a = v \o c
    BY <2>9, ConcatProperties
  <2>11. a \o x \o c \o p = a \o (x \o c \o p) /\ x \o c \o p \in Seq(Chars)
    BY ConcatFour
  <2>12. PICK y \in Seq(Chars) : y = x \o c \o p
    BY <2>11
  <2>13. PasswordText(name, p) = v \o <<Colon>> \o y
    BY <2>7, <2>9, <2>10, <2>11, <2>12 DEF PasswordText
  <2>14. CutFirst(v \o <<Colon>> \o y) = [found |-> TRUE, before |-> v, behind |-> y]
    BY <2>8, ColonText, CutAtColon
  <2>15. u = v
    BY <2>13, <2>14 DEF ReadPassword
  <2> QED
    BY <2>8, <2>15 DEF AccountNames, IsSafeName
<1> QED
  BY <1>1, <1>2

\* The directory shows accounts only.
LEMMA DirectoryRead ==
    ASSUME NEW S \in SUBSET AccountNames, IsFiniteSet(S)
    PROVE  ParseNames(JoinNames(SetToSeq(S))) \subseteq S
<1> DEFINE C == 1 .. Cardinality(S)
           Q(f) == f \in [C -> S] /\ IsInjective(f)
<1>1. Cardinality(S) \in Nat /\ ExistsBijection(C, S)
  BY FS_CardinalityType
<1>2. PICK g : Q(g)
  BY <1>1 DEF ExistsBijection, Bijection, Injection
<1>3. SetToSeq(S) = CHOOSE f : Q(f)
  BY DEF SetToSeq
<1>4. PICK ns : ns = SetToSeq(S)
  OBVIOUS
<1>5. Q(ns)
  <2> HIDE DEF Q
  <2> QED
    BY <1>2, <1>3, <1>4
<1>6. ns \in Seq(S) /\ DOMAIN ns = C /\ \A i \in C : ns[i] \in S
  BY <1>1, <1>5
<1>7. ns \in Seq(PlainNames)
  <2>1. S \subseteq PlainNames
    BY DEF AccountNames, PlainNames
  <2> QED
    BY <1>6, <2>1, SeqMonotonic
<1>8. ToSet(ns) \subseteq S
  BY <1>6 DEF ToSet
<1> QED
  BY <1>4, <1>7, <1>8, NamesParsed

\* A field keeps an account's name.
LEMMA FieldKeeps ==
    ASSUME NEW u \in AccountNames
    PROVE  Field(u) = u
<1>1. u \in Seq(Chars) /\ Len(u) <= NameLen /\ Len(u) \in Nat
  BY LenProperties DEF AccountNames
<1>2. (IF Len(u) < NameLen THEN Len(u) ELSE NameLen) = Len(u)
  BY <1>1, PayloadAssumption
<1>3. SubSeq(u, 1, Len(u)) = u
  BY <1>1, SubSeqFull
<1> QED
  BY <1>2, <1>3 DEF Field

LEMMA OwnRecords ==
    ASSUME NEW rs \in Seq(Records), NEW u
    PROVE  OwnOf(rs, u) \in Seq(Records) /\ OwnOf(<<>>, u) = <<>>
<1>1. PICK r \in Records : TRUE
  BY RecordsExist
<1> QED
  BY <1>1, OwnSteps

-----------------------------------------------------------------------------
(* The invariant.                                                          *)

\* What users type is text, and their names hold none of the separators of the
\* replies.  A colon they may hold: the server cuts names at it.
PlainTexts ==
    /\ PasswordTexts \subseteq Seq(Chars)
    /\ \A n \in TypedNames : n \in Seq(Chars) /\ Without(n, Pipe) /\ Without(n, LineEnd)

\* Accounts have names that come through requests, files and replies.
NamesInv == IsFiniteSet(known) /\ known \subseteq AccountNames /\ directory \subseteq known

\* The records are what was asked for.
BookInv == booked = meant /\ meant \in Seq(Records)

\* The page shows what a user's records were at some time.
ShownInv ==
    \E k \in 0 .. Len(meant) :
        shown.entries = EntriesFor(OwnOf(SubSeq(meant, 1, k), shown.user))

PayloadInv == NamesInv /\ BookInv /\ ShownInv

LEMMA PayloadStarts ==
    ASSUME PayloadInit
    PROVE  PayloadInv
<1>1. NamesInv
  BY FS_EmptySet DEF PayloadInit, NamesInv
<1>2. BookInv
  BY EmptySeq DEF PayloadInit, BookInv
<1>3. ShownInv
  <2>1. Len(meant) = 0 /\ meant = <<>>
    BY DEF PayloadInit
  <2>2. SubSeq(meant, 1, 0) = <<>>
    BY SubSeqEmpty
  <2>3. OwnOf(<<>>, shown.user) = <<>>
    <3>1. <<>> \in Seq(Records)
      BY EmptySeq
    <3> QED
      BY <3>1, OwnRecords
  <2>4. EntriesFor(<<>>) = <<>> /\ shown.entries = <<>>
    BY DEF EntriesFor, PayloadInit
  <2>5. 0 \in 0 .. Len(meant)
    BY <2>1
  <2> QED
    BY <2>2, <2>3, <2>4, <2>5 DEF ShownInv
<1> QED
  BY <1>1, <1>2, <1>3 DEF PayloadInv

LEMMA CreateKeeps ==
    ASSUME PlainTexts, PayloadInv, NEW n \in TypedNames, NEW p \in PasswordTexts,
           PayloadCreate(n, p)
    PROVE  PayloadInv'
<1>1. PICK u : u = ReadPassword(PasswordText(n, p))[1]
  OBVIOUS
<1>2. IsSafeName(u) /\ known' = known \cup {u} /\ UNCHANGED <<directory, booked, meant, shown>>
  BY <1>1 DEF PayloadCreate
<1>3. u \in AccountNames
  <2>1. n \in Seq(Chars) /\ Without(n, Pipe) /\ Without(n, LineEnd) /\ p \in Seq(Chars)
    BY DEF PlainTexts
  <2> QED
    BY <1>1, <1>2, <2>1, NameCreated
<1>4. IsFiniteSet(known \cup {u})
  BY FS_AddElement DEF PayloadInv, NamesInv
<1>5. NamesInv'
  BY <1>2, <1>3, <1>4 DEF PayloadInv, NamesInv
<1>6. BookInv' /\ ShownInv'
  BY <1>2 DEF PayloadInv, BookInv, ShownInv
<1> QED
  BY <1>5, <1>6 DEF PayloadInv

LEMMA FetchKeeps ==
    ASSUME PayloadInv, PayloadFetchDirectory
    PROVE  PayloadInv'
<1>1. /\ directory' = ParseNames(JoinNames(SetToSeq(known)))
      /\ UNCHANGED <<known, booked, meant, shown>>
  BY DEF PayloadFetchDirectory
<1>2. ParseNames(JoinNames(SetToSeq(known))) \subseteq known
  BY DirectoryRead DEF PayloadInv, NamesInv
<1>3. NamesInv'
  BY <1>1, <1>2 DEF PayloadInv, NamesInv
<1>4. BookInv' /\ ShownInv'
  BY <1>1 DEF PayloadInv, BookInv, ShownInv
<1> QED
  BY <1>3, <1>4 DEF PayloadInv

LEMMA RestartKeeps ==
    ASSUME PayloadInv, PayloadRestart
    PROVE  PayloadInv'
<1>1. known' = {Field(n) : n \in known} /\ UNCHANGED <<directory, booked, meant, shown>>
  BY DEF PayloadRestart
<1>2. \A n \in known : Field(n) = n
  BY FieldKeeps DEF PayloadInv, NamesInv
<1>3. known' = known
  BY <1>1, <1>2
<1> QED
  BY <1>1, <1>3 DEF PayloadInv, NamesInv, BookInv, ShownInv

LEMMA PrefixSame ==
    ASSUME NEW S, NEW q \in Seq(S), NEW r \in Seq(S), NEW k \in 0 .. Len(q), Len(q) <= Len(r),
           \A i \in 1 .. Len(q) : r[i] = q[i]
    PROVE  SubSeq(r, 1, k) = SubSeq(q, 1, k)
<1>1. Len(q) \in Nat /\ Len(r) \in Nat
  BY LenProperties
<1>2. 1 \in Int /\ k \in Int /\ k - 1 + 1 = k
  BY <1>1
<1>3. \A i \in 1 .. k : q[i] \in S /\ r[i] = q[i]
  BY <1>1, ElementOfSeq
<1>4. /\ SubSeq(q, 1, k) \in Seq(S) /\ Len(SubSeq(q, 1, k)) = IF 1 <= k THEN k - 1 + 1 ELSE 0
      /\ \A i \in 1 .. k - 1 + 1 : SubSeq(q, 1, k)[i] = q[1 + i - 1]
  BY <1>2, <1>3, SubSeqProperties
<1>5. /\ SubSeq(r, 1, k) \in Seq(S) /\ Len(SubSeq(r, 1, k)) = IF 1 <= k THEN k - 1 + 1 ELSE 0
      /\ \A i \in 1 .. k - 1 + 1 : SubSeq(r, 1, k)[i] = r[1 + i - 1]
  <2>1. \A i \in 1 .. k : r[i] \in S
    BY <1>3
  <2> QED
    BY <1>2, <2>1, SubSeqProperties
<1>6. Len(SubSeq(r, 1, k)) = Len(SubSeq(q, 1, k)) /\ Len(SubSeq(r, 1, k)) = k
  BY <1>2, <1>4, <1>5
<1>7. \A i \in 1 .. k : SubSeq(r, 1, k)[i] = SubSeq(q, 1, k)[i]
  <2> TAKE i \in 1 .. k
  <2>1. 1 + i - 1 = i /\ i \in 1 .. k - 1 + 1
    BY <1>2
  <2> QED
    BY <1>3, <1>4, <1>5, <2>1
<1> QED
  BY <1>4, <1>5, <1>6, <1>7, SeqEqual

LEMMA TransferKeeps ==
    ASSUME PayloadInv, NEW s \in known, NEW r \in directory, NEW n \in PaidAmounts,
           PayloadTransfer(s, r, n)
    PROVE  PayloadInv'
<1>1. s \in AccountNames /\ r \in AccountNames /\ r \in known /\ n \in 0 .. 9
  BY PayloadAssumption DEF PayloadInv, NamesInv
<1>2. ReadTransfer(TransferText(s, r, n)) = <<s, r, n>>
  BY <1>1, TransferRead
<1>3. Field(r) = r
  BY <1>1, FieldKeeps
<1>4. PICK x \in Records : x = [user |-> s, counterparty |-> r, amount |-> n]
  BY <1>1 DEF Records
<1>5. meant' = Append(meant, x) /\ UNCHANGED <<known, directory, shown>>
  BY <1>4 DEF PayloadTransfer
<1>6. booked' = Append(booked, x)
  <2>1. PICK read : read = <<s, r, n>>
    OBVIOUS
  <2>2. read # <<Malformed>> /\ read[1] = s /\ read[2] = r /\ read[3] = n
    <3>1. Len(read) = 3 /\ Len(<<Malformed>>) = 1
      BY <2>1
    <3> QED
      BY <2>1, <3>1
  <2>3. {read[1], read[2]} \subseteq known
    BY <1>1, <2>2
  <2>4. booked' = Append(booked, [user |-> read[1], counterparty |-> Field(read[2]),
                                  amount |-> read[3]])
    BY <1>2, <2>1, <2>2, <2>3 DEF PayloadTransfer
  <2> QED
    BY <1>3, <1>4, <2>2, <2>4
<1>7. NamesInv'
  BY <1>5 DEF PayloadInv, NamesInv
<1>8. meant \in Seq(Records) /\ booked = meant
  BY DEF PayloadInv, BookInv
<1>9. PICK m : m = Append(meant, x)
  OBVIOUS
<1>10. /\ m \in Seq(Records) /\ Len(m) = Len(meant) + 1
       /\ \A i \in 1 .. Len(meant) : m[i] = meant[i]
  BY <1>8, <1>9, AppendProperties
<1>11. BookInv'
  BY <1>5, <1>6, <1>8, <1>9, <1>10 DEF BookInv
<1>12. ShownInv'
  <2>1. PICK k \in 0 .. Len(meant) :
            shown.entries = EntriesFor(OwnOf(SubSeq(meant, 1, k), shown.user))
    BY DEF PayloadInv, ShownInv
  <2>2. Len(meant) \in Nat
    BY <1>8, LenProperties
  <2>3. SubSeq(m, 1, k) = SubSeq(meant, 1, k)
    BY <1>8, <1>10, <2>2, PrefixSame
  <2>4. k \in 0 .. Len(m)
    BY <1>10, <2>2
  <2> QED
    BY <1>5, <1>9, <2>1, <2>3, <2>4 DEF ShownInv
<1> QED
  BY <1>7, <1>11, <1>12 DEF PayloadInv

LEMMA ShowKeeps ==
    ASSUME PayloadInv, NEW u \in known, PayloadShowHistory(u)
    PROVE  PayloadInv'
<1>1. /\ shown' = [user |-> u, entries |-> ParseHistory(HistoryText(OwnOf(booked, u)))]
      /\ UNCHANGED <<known, directory, booked, meant>>
  BY DEF PayloadShowHistory
<1>2. booked = meant /\ meant \in Seq(Records)
  BY DEF PayloadInv, BookInv
<1>3. OwnOf(meant, u) \in Seq(Records)
  BY <1>2, OwnRecords
<1>4. ParseHistory(HistoryText(OwnOf(meant, u))) = EntriesFor(OwnOf(meant, u))
  BY <1>3, HistoryRead
<1>5. shown'.user = u /\ shown'.entries = EntriesFor(OwnOf(meant, u))
  BY <1>1, <1>2, <1>4
<1>6. SubSeq(meant, 1, Len(meant)) = meant /\ Len(meant) \in 0 .. Len(meant)
  <2>1. Len(meant) \in Nat
    BY <1>2, LenProperties
  <2> QED
    BY <1>2, <2>1, SubSeqFull
<1>7. ShownInv'
  BY <1>1, <1>5, <1>6 DEF ShownInv
<1>8. NamesInv' /\ BookInv'
  BY <1>1 DEF PayloadInv, NamesInv, BookInv
<1> QED
  BY <1>7, <1>8 DEF PayloadInv

LEMMA PayloadInvariant ==
    ASSUME PlainTexts
    PROVE  PayloadSpec => []PayloadInv
<1>1. PayloadInit => PayloadInv
  BY PayloadStarts
<1>2. ASSUME PayloadInv, [PayloadNext]_payloadVars
      PROVE  PayloadInv'
  <2>1. CASE \E n \in TypedNames, p \in PasswordTexts : PayloadCreate(n, p)
    BY <1>2, <2>1, CreateKeeps
  <2>2. CASE PayloadFetchDirectory
    BY <1>2, <2>2, FetchKeeps
  <2>3. CASE PayloadRestart
    BY <1>2, <2>3, RestartKeeps
  <2>4. CASE \E s \in known, r \in directory, n \in PaidAmounts : PayloadTransfer(s, r, n)
    BY <1>2, <2>4, TransferKeeps
  <2>5. CASE \E u \in known : PayloadShowHistory(u)
    BY <1>2, <2>5, ShowKeeps
  <2>6. CASE UNCHANGED payloadVars
    BY <1>2, <2>6 DEF payloadVars, PayloadInv, NamesInv, BookInv, ShownInv
  <2> QED
    BY <1>2, <2>1, <2>2, <2>3, <2>4, <2>5, <2>6 DEF PayloadNext
<1> QED
  BY <1>1, <1>2, PTL DEF PayloadSpec

\* However long names may be and whatever is typed, but for a '|' or an end of line
\* in a name, requests are read as they were made: Client's methods,
\* Session::doRead and the transfer page agree.
THEOREM RequestsComeThrough ==
    ASSUME PlainTexts
    PROVE  PayloadSpec => []RequestsRead
<1>1. PayloadInv => RequestsRead
  <2> SUFFICES ASSUME PayloadInv PROVE RequestsRead
    OBVIOUS
  <2>1. directory \subseteq known /\ known \subseteq AccountNames
    BY DEF PayloadInv, NamesInv
  <2>2. ASSUME NEW u \in known
        PROVE  /\ \A p \in PasswordTexts : ReadPassword(PasswordText(u, p)) = <<u, p>>
               /\ \A n \in -9 .. 9 : ReadChange(ChangeText(u, n)) = <<u, n>>
               /\ \A n \in 0 .. 9 : ReadCount(ChangeText(u, n)) = <<u, n>>
               /\ \A r \in directory, n \in PaidAmounts :
                      ReadTransfer(TransferText(u, r, n)) = <<u, r, n>>
    <3>1. u \in AccountNames
      BY <2>1
    <3>2. \A p \in PasswordTexts : ReadPassword(PasswordText(u, p)) = <<u, p>>
      BY <3>1, PasswordRead DEF PlainTexts
    <3>3. \A n \in -9 .. 9 : /\ ReadChange(ChangeText(u, n)) = <<u, n>>
                             /\ ReadCount(ChangeText(u, n)) = <<u, n>>
      BY <3>1, ChangeRead
    <3>4. \A n \in 0 .. 9 : n \in -9 .. 9
      OBVIOUS
    <3>5. \A r \in directory, n \in PaidAmounts :
              ReadTransfer(TransferText(u, r, n)) = <<u, r, n>>
      <4>1. \A r \in directory, n \in PaidAmounts : r \in AccountNames /\ n \in 0 .. 9
        BY <2>1, PayloadAssumption
      <4> QED
        BY <3>1, <4>1, TransferRead
    <3> QED
      BY <3>2, <3>3, <3>4, <3>5
  <2> QED
    BY <2>1, <2>2 DEF RequestsRead
<1> QED
  BY <1>1, PayloadInvariant, PTL

\* However many payments there were, the history page shows what was asked for, if
\* no name holds a '|' or an end of line: transferBalance, GetTxnHistoryOp and
\* parseTransactionHistory agree.
THEOREM HistoryComesThrough ==
    ASSUME PlainTexts
    PROVE  PayloadSpec => []HistoryTells
<1>1. PayloadInv => HistoryTells
  BY DEF PayloadInv, BookInv, ShownInv, HistoryTells, EntriesFor, EntryFor
<1> QED
  BY <1>1, PayloadInvariant, PTL

-----------------------------------------------------------------------------
(* Vectors.                                                                *)

\* Elements, and what a moved object leaves, are numbers.
Elems == Int

\* A vector of as many cells as `cap` whose first hold s, and nothing behind them.
Whole(v, s, cap) ==
    /\ s \in Seq(Elems) /\ cap \in Nat /\ Len(s) <= cap
    /\ v = [cells |-> v.cells, size |-> Len(s)]
    /\ v.cells \in Seq(Elems) /\ Len(v.cells) = cap
    /\ \A i \in 1 .. cap : v.cells[i] = IF i <= Len(s) THEN s[i] ELSE Raw
WholeVec(v, s) == \E cap \in Nat : Whole(v, s, cap)

\* What such a vector is: what it holds is s.
LEMMA WholeFacts ==
    ASSUME NEW v, NEW s, NEW cap, Whole(v, s, cap)
    PROVE  /\ s \in Seq(Elems) /\ Len(s) \in Nat /\ cap \in Nat /\ Len(s) <= cap
           /\ v.size = Len(s) /\ v.cells \in Seq(Elems) /\ Capacity(v) = cap
           /\ DOMAIN v.cells = 1 .. cap
           /\ \A i \in 1 .. Len(s) : v.cells[i] = s[i]
           /\ \A i \in Len(s) + 1 .. cap : v.cells[i] = Raw
           /\ Held(v) = s
<1>1. /\ s \in Seq(Elems) /\ Len(s) \in Nat /\ cap \in Nat /\ Len(s) <= cap
      /\ v.size = Len(s) /\ v.cells \in Seq(Elems) /\ Len(v.cells) = cap
      /\ DOMAIN v.cells = 1 .. cap
  BY LenProperties DEF Whole
<1>2. \A i \in 1 .. Len(s) : v.cells[i] = s[i]
  BY <1>1 DEF Whole
<1>3. \A i \in Len(s) + 1 .. cap : v.cells[i] = Raw
  BY <1>1 DEF Whole
<1>4. Held(v) = s
  <2>1. 1 \in Int /\ Len(s) \in Int /\ Len(s) - 1 + 1 = Len(s)
    BY <1>1
  <2>2. \A i \in 1 .. Len(s) : v.cells[i] \in Elems
    BY <1>1, <1>2, ElementOfSeq
  <2>3. /\ SubSeq(v.cells, 1, Len(s)) \in Seq(Elems)
        /\ Len(SubSeq(v.cells, 1, Len(s))) = IF 1 <= Len(s) THEN Len(s) - 1 + 1 ELSE 0
        /\ \A i \in 1 .. Len(s) - 1 + 1 : SubSeq(v.cells, 1, Len(s))[i] = v.cells[1 + i - 1]
    BY <2>1, <2>2, SubSeqProperties
  <2>4. Len(SubSeq(v.cells, 1, Len(s))) = Len(s)
    BY <1>1, <2>3
  <2>5. \A i \in 1 .. Len(s) : SubSeq(v.cells, 1, Len(s))[i] = s[i]
    <3> TAKE i \in 1 .. Len(s)
    <3>1. 1 + i - 1 = i /\ i \in 1 .. Len(s) - 1 + 1
      BY <1>1
    <3> QED
      BY <1>2, <2>3, <3>1
  <2>6. SubSeq(v.cells, 1, Len(s)) = s
    BY <1>1, <2>3, <2>4, <2>5, SeqEqual
  <2> QED
    BY <1>1, <2>6 DEF Held
<1> QED
  BY <1>1, <1>2, <1>3, <1>4 DEF Capacity

\* Filled makes such a vector.
LEMMA FilledWhole ==
    ASSUME NEW s \in Seq(Elems), NEW cap \in Nat, Len(s) <= cap, NEW n, n = Len(s)
    PROVE  Whole(Filled(s, cap, n), s, cap)
<1>1. PICK v : v = Filled(s, cap, n)
  OBVIOUS
<1>2. v = [cells |-> [i \in 1 .. cap |-> IF i <= Len(s) THEN s[i] ELSE Raw], size |-> n]
  BY <1>1 DEF Filled
<1>3. Len(s) \in Nat /\ \A i \in 1 .. Len(s) : s[i] \in Elems
  BY LenProperties, ElementOfSeq
<1>4. \A i \in 1 .. cap : (IF i <= Len(s) THEN s[i] ELSE Raw) \in Elems
  <2>1. Raw \in Elems
    BY DEF Raw, Elems
  <2> QED
    BY <1>3, <2>1
<1>5. PICK c : c = [i \in 1 .. cap |-> IF i <= Len(s) THEN s[i] ELSE Raw]
  OBVIOUS
<1>6. /\ c \in Seq(Elems) /\ Len(c) = cap
      /\ \A i \in 1 .. cap : c[i] = IF i <= Len(s) THEN s[i] ELSE Raw
  BY <1>4, <1>5
<1>7. v.cells = c /\ v = [cells |-> v.cells, size |-> Len(s)]
  BY <1>2, <1>5
<1> QED
  BY <1>1, <1>6, <1>7 DEF Whole

\* reserve keeps the elements and makes the room asked for.
LEMMA ReserveWhole ==
    ASSUME NEW v, NEW s, NEW cap, Whole(v, s, cap), NEW n \in Nat
    PROVE  \E c \in Nat : cap <= c /\ n <= c /\ Whole(Reserve(v, n), s, c)
<1>1. /\ s \in Seq(Elems) /\ Len(s) \in Nat /\ cap \in Nat /\ Len(s) <= cap
      /\ v.size = Len(s) /\ Capacity(v) = cap /\ Held(v) = s
  BY WholeFacts
<1>2. CASE n <= cap
  <2>1. Reserve(v, n) = v
    BY <1>1, <1>2 DEF Reserve
  <2> QED
    BY <1>1, <1>2, <2>1
<1>3. CASE ~ (n <= cap)
  <2>1. Reserve(v, n) = Filled(s, n, Len(s))
    BY <1>1, <1>3 DEF Reserve, TransferTo
  <2>2. Whole(Filled(s, n, Len(s)), s, n)
    BY <1>1, <1>3, FilledWhole
  <2> QED
    BY <1>1, <1>3, <2>1, <2>2
<1> QED
  BY <1>2, <1>3

\* Room for one more.
LEMMA GrowWhole ==
    ASSUME NEW v, NEW s, NEW cap, Whole(v, s, cap)
    PROVE  \E c \in Nat : Len(s) + 1 <= c /\ Whole(Grow(v), s, c)
<1>1. /\ Len(s) \in Nat /\ cap \in Nat /\ Len(s) <= cap
      /\ v.size = Len(s) /\ Capacity(v) = cap
  BY WholeFacts
<1>2. CASE Len(s) = cap
  <2>1. GrownCapacity(v) \in Nat /\ cap + 1 <= GrownCapacity(v)
    BY <1>1 DEF GrownCapacity
  <2>2. PICK c \in Nat : cap <= c /\ GrownCapacity(v) <= c /\ Whole(Reserve(v, GrownCapacity(v)), s, c)
    BY <2>1, ReserveWhole
  <2>3. Grow(v) = Reserve(v, GrownCapacity(v))
    BY <1>1, <1>2 DEF Grow
  <2>4. Len(s) + 1 <= c
    BY <1>1, <1>2, <2>1, <2>2
  <2> QED
    BY <2>2, <2>3, <2>4
<1>3. CASE Len(s) # cap
  <2>1. Grow(v) = v /\ Len(s) + 1 <= cap
    BY <1>1, <1>3 DEF Grow
  <2> QED
    BY <1>1, <2>1
<1> QED
  BY <1>2, <1>3

\* Objects constructed behind and counted.
LEMMA CountedWhole ==
    ASSUME NEW v, NEW s, NEW cap, Whole(v, s, cap), NEW t \in Seq(Elems),
           Len(s) + Len(t) <= cap
    PROVE  Whole(Counted(v, t), s \o t, cap)
<1>1. /\ s \in Seq(Elems) /\ Len(s) \in Nat /\ cap \in Nat /\ Len(s) <= cap
      /\ v.size = Len(s) /\ v.cells \in Seq(Elems) /\ DOMAIN v.cells = 1 .. cap
      /\ \A i \in 1 .. Len(s) : v.cells[i] = s[i]
      /\ \A i \in Len(s) + 1 .. cap : v.cells[i] = Raw
      /\ v = [cells |-> v.cells, size |-> Len(s)] /\ Len(v.cells) = cap
  BY WholeFacts DEF Whole
<1>2. Len(t) \in Nat
  BY LenProperties
<1>3. PICK r \in Seq(Elems) :
          /\ r = s \o t /\ Len(r) = Len(s) + Len(t)
          /\ \A i \in 1 .. Len(s) + Len(t) : r[i] = IF i <= Len(s) THEN s[i] ELSE t[i - Len(s)]
  <2>1. /\ s \o t \in Seq(Elems) /\ Len(s \o t) = Len(s) + Len(t)
        /\ \A i \in 1 .. Len(s) + Len(t) :
               (s \o t)[i] = IF i <= Len(s) THEN s[i] ELSE t[i - Len(s)]
    BY <1>1, ConcatProperties
  <2> QED
    BY <2>1
<1>4. PICK c : c = [i \in 1 .. cap |-> IF i \in Len(s) + 1 .. Len(s) + Len(t)
                                       THEN t[i - Len(s)] ELSE v.cells[i]]
  OBVIOUS
<1>5. \A i \in 1 .. cap : c[i] = IF i <= Len(r) THEN r[i] ELSE Raw
  <2> TAKE i \in 1 .. cap
  <2>1. CASE i <= Len(s)
    BY <1>1, <1>2, <1>3, <1>4, <2>1
  <2>2. CASE i > Len(s) /\ i <= Len(s) + Len(t)
    BY <1>1, <1>2, <1>3, <1>4, <2>2
  <2>3. CASE i > Len(s) + Len(t)
    BY <1>1, <1>2, <1>3, <1>4, <2>3
  <2> QED
    BY <1>1, <1>2, <2>1, <2>2, <2>3
<1>6. \A i \in 1 .. cap : c[i] \in Elems
  <2> TAKE i \in 1 .. cap
  <2>1. Raw \in Elems
    BY DEF Raw, Elems
  <2>2. i <= Len(r) => r[i] \in Elems
    BY <1>1, <1>2, <1>3, ElementOfSeq
  <2> QED
    BY <1>5, <2>1, <2>2
<1>7. c \in Seq(Elems) /\ Len(c) = cap
  <2>1. c = [i \in 1 .. cap |-> c[i]] /\ cap \in Nat
    BY <1>1, <1>4
  <2> QED
    BY <1>6, <2>1, SeqMade
<1>8. Counted(v, t) = [cells |-> c, size |-> Len(r)]
  <2>1. Construct(v, t) = [cells |-> c, size |-> Len(s)]
    <3>1. PICK d : d = [i \in DOMAIN v.cells |-> IF i \in v.size + 1 .. v.size + Len(t)
                                                 THEN t[i - v.size] ELSE v.cells[i]]
      OBVIOUS
    <3>2. d = c
      BY <1>1, <1>4, <3>1
    <3>3. Construct(v, t) = [v EXCEPT !.cells = d]
      BY <3>1 DEF Construct
    <3> QED
      BY <1>1, <3>2, <3>3
  <2> QED
    BY <1>3, <2>1 DEF Counted
<1>9. Len(r) <= cap
  BY <1>3
<1> QED
  BY <1>1, <1>3, <1>5, <1>7, <1>8, <1>9 DEF Whole

\* push_back.
LEMMA PushWhole ==
    ASSUME NEW v, NEW s, WholeVec(v, s), NEW x \in Elems
    PROVE  WholeVec(PushBack(v, x), Append(s, x))
<1>1. PICK cap \in Nat : Whole(v, s, cap)
  BY DEF WholeVec
<1>2. PICK c \in Nat : Len(s) + 1 <= c /\ Whole(Grow(v), s, c)
  BY <1>1, GrowWhole
<1>3. s \in Seq(Elems)
  BY <1>1, WholeFacts
<1>4. PICK t \in Seq(Elems) : t = <<x>> /\ Len(t) = 1
  BY OneElement
<1>5. Whole(Counted(Grow(v), t), s \o t, c)
  BY <1>2, <1>4, CountedWhole
<1>6. Append(s, x) = s \o <<x>>
  BY <1>3, AppendIsConcat
<1> QED
  BY <1>4, <1>5, <1>6 DEF PushBack, WholeVec

Vecs == {w \in [cells : Seq(Elems), size : Nat] : \E s \in Seq(Elems) : WholeVec(w, s)}

\* Vectors that hold something are vectors, and hold elements.
LEMMA WholeTyped ==
    ASSUME NEW v, NEW s, WholeVec(v, s)
    PROVE  s \in Seq(Elems) /\ v \in Vecs
<1>1. PICK cap \in Nat : Whole(v, s, cap)
  BY DEF WholeVec
<1>2. s \in Seq(Elems) /\ Len(s) \in Nat /\ v.cells \in Seq(Elems)
  BY <1>1, WholeFacts
<1>3. v = [cells |-> v.cells, size |-> Len(s)]
  BY <1>1 DEF Whole
<1>4. v \in [cells : Seq(Elems), size : Nat]
  BY <1>2, <1>3
<1> QED
  BY <1>2, <1>4 DEF Vecs

\* What push_back makes of a vector is one.
LEMMA PushTyped ==
    ASSUME NEW v \in Vecs, NEW x \in Elems
    PROVE  PushBack(v, x) \in Vecs
<1>1. PICK s \in Seq(Elems) : WholeVec(v, s)
  BY DEF Vecs
<1>2. WholeVec(PushBack(v, x), Append(s, x))
  BY <1>1, PushWhole
<1> QED
  BY <1>2, WholeTyped

\* Elements pushed one by one.
LEMMA PushSteps ==
    ASSUME NEW v \in Vecs, NEW s \in Seq(Elems), NEW c \in Elems
    PROVE  /\ PushAll(v, <<>>) = v /\ PushAll(v, s) \in Vecs
           /\ PushAll(v, Append(s, c)) = PushBack(PushAll(v, s), c)
<1> DEFINE D == Vecs
           base == v
           Op(p, x) == PushBack(p, x)
           Eq(g, q) == g = [t \in SUBSET DOMAIN q |->
                              IF t = {} THEN base ELSE Op(g[t \ {Max(t)}], q[Max(t)])]
           It(q) == CHOOSE g : Eq(g, q)
<1>1. \A q : PushAll(v, q) = It(q)[DOMAIN q]
  BY DEF PushAll, FoldLeft, MapThenFoldSet
<1>2. base \in D /\ \A p \in D, x \in Elems : Op(p, x) \in D
  <2>1. \A p \in Vecs, x \in Elems : PushBack(p, x) \in Vecs
    BY PushTyped
  <2> QED
    BY <2>1
<1> HIDE DEF D, base, Op
<1>3. PICK F : OpOn(F, D, Elems) /\ \A d \in D, e \in Elems : F[<<d, e>>] = Op(d, e)
  <2> DEFINE F == [y \in D \X Elems |-> Op(y[1], y[2])]
  <2>1. \A d \in D, e \in Elems : F[<<d, e>>] = Op(d, e) /\ F[<<d, e>>] \in D
    BY <1>2
  <2> QED
    BY <2>1 DEF OpOn
<1>4. ASSUME NEW q \in Seq(Elems), NEW k, k = It(q)
      PROVE  /\ FoldsIn(k, F, D, base, q) /\ k[{}] = base
  <2>1. PICK g : Runs(g, F, D, Elems, base, q)
    <3> HIDE DEF It, Eq
    <3>1. base \in D /\ OpOn(F, D, Elems)
      BY <1>2, <1>3
    <3> QED
      BY <3>1, FoldsRun
  <2>2. Eq(g, q)
    BY <1>3, <2>1 DEF Folds, Runs
  <2> DEFINE Q(h) == Eq(h, q)
  <2>3. Q(k)
    <3>1. k = (CHOOSE h : Q(h)) /\ Q(g)
      BY <1>4, <2>2
    <3> HIDE DEF Q
    <3> QED
      BY <3>1
  <2>4. Eq(k, q) /\ \A t \in SUBSET DOMAIN q : t # {} => q[Max(t)] \in Elems
    BY <2>1, <2>3 DEF Runs
  <2> QED
    BY <1>3, <2>4 DEF FoldsIn
<1>5. PushAll(v, <<>>) = base
  <2>1. PICK k : k = It(<<>>)
    OBVIOUS
  <2>2. k[{}] = base
    BY <1>4, <2>1, EmptySeq
  <2>3. DOMAIN <<>> = {}
    OBVIOUS
  <2> HIDE DEF It
  <2> QED
    BY <1>1, <2>1, <2>2, <2>3
<1>6. PICK r, g, h : r = Append(s, c) /\ g = It(s) /\ h = It(r)
  OBVIOUS
<1>7. r \in Seq(Elems) /\ OneMore(s, r) /\ r[Len(r)] = c
  BY <1>6, AppendProperties DEF OneMore
<1>8. FoldsIn(g, F, D, base, s) /\ FoldsIn(h, F, D, base, r)
  BY <1>4, <1>6, <1>7
<1>9. PushAll(v, s) = g[DOMAIN s] /\ PushAll(v, r) = h[DOMAIN r]
  <2> HIDE DEF It
  <2> QED
    BY <1>1, <1>6
<1> HIDE DEF It
<1>10. g[DOMAIN s] \in D /\ h[DOMAIN r] = F[<<g[DOMAIN s], r[Len(r)]>>]
  <2>1. base \in D /\ OpOn(F, D, Elems)
    BY <1>2, <1>3
  <2>2. r \in Seq(Elems) /\ OneMore(s, r)
    BY <1>7
  <2> QED
    BY <1>8, <2>1, <2>2, FoldsGoOn
<1>11. PushAll(v, s) \in D /\ PushAll(v, r) = Op(PushAll(v, s), c)
  BY <1>3, <1>7, <1>9, <1>10
<1> QED
  BY <1>5, <1>6, <1>11 DEF D, Op, base

\* The range constructor and assign of a range.
LEMMA PushAllWhole ==
    ASSUME NEW v, NEW t, WholeVec(v, t), NEW s \in Seq(Elems)
    PROVE  WholeVec(PushAll(v, s), t \o s)
<1> DEFINE T == {n \in Nat : \A q \in Seq(Elems) : Len(q) = n => WholeVec(PushAll(v, q), t \o q)}
<1>1. t \in Seq(Elems) /\ v \in Vecs
  BY WholeTyped
<1>2. 0 \in T
  <2> SUFFICES ASSUME NEW q \in Seq(Elems), Len(q) = 0
               PROVE  WholeVec(PushAll(v, q), t \o q)
    OBVIOUS
  <2>1. q = <<>> /\ t \o q = t
    BY <1>1, EmptySeq, ConcatEmptySeq
  <2>2. PushAll(v, <<>>) = v
    <3>1. PICK c \in Elems : TRUE
      BY DEF Elems
    <3>2. <<>> \in Seq(Elems)
      BY EmptySeq
    <3> QED
      BY <1>1, <3>1, <3>2, PushSteps
  <2> QED
    BY <2>1, <2>2
<1>3. ASSUME NEW n \in Nat \ {0}, n - 1 \in T
      PROVE  n \in T
  <2> SUFFICES ASSUME NEW q \in Seq(Elems), Len(q) = n
               PROVE  WholeVec(PushAll(v, q), t \o q)
    OBVIOUS
  <2>1. q # <<>>
    BY EmptySeq
  <2>2. PICK o \in Seq(Elems), x \in Elems : q = Append(o, x)
    BY <2>1, SequenceEmptyOrAppend
  <2>3. Len(q) = Len(o) + 1 /\ Len(o) \in Nat
    BY <2>2, AppendProperties, LenProperties
  <2>4. WholeVec(PushAll(v, o), t \o o)
    BY <1>3, <2>3
  <2>5. PushAll(v, Append(o, x)) = PushBack(PushAll(v, o), x)
    BY <1>1, PushSteps
  <2>6. WholeVec(PushBack(PushAll(v, o), x), Append(t \o o, x))
    BY <2>4, PushWhole
  <2>7. t \o Append(o, x) = Append(t \o o, x)
    BY <1>1, ConcatAppend
  <2> QED
    BY <2>2, <2>5, <2>6, <2>7
<1>4. T = Nat
  <2>1. T \in SUBSET Nat
    OBVIOUS
  <2> HIDE DEF T
  <2> QED
    BY <1>2, <1>3, <2>1, NatSteps
<1>5. Len(s) \in T
  BY <1>4, LenProperties
<1> QED
  BY <1>5

\* Cutting out and splicing in.
LEMMA CutFacts ==
    ASSUME NEW s \in Seq(Elems), NEW i \in Nat, NEW j \in Nat, 1 <= i, i <= j, j <= Len(s) + 1
    PROVE  Cut(s, i, j) \in Seq(Elems) /\ Len(Cut(s, i, j)) = Len(s) - (j - i)
<1>1. Len(s) \in Nat /\ \A k \in 1 .. Len(s) : s[k] \in Elems
  BY LenProperties, ElementOfSeq
<1>2. SubSeq(s, 1, i - 1) \in Seq(Elems) /\ Len(SubSeq(s, 1, i - 1)) = i - 1
  <2>1. /\ 1 \in Int /\ i - 1 \in Int /\ \A k \in 1 .. i - 1 : s[k] \in Elems
        /\ (IF 1 <= i - 1 THEN i - 1 - 1 + 1 ELSE 0) = i - 1
    BY <1>1
  <2>2. /\ SubSeq(s, 1, i - 1) \in Seq(Elems)
        /\ Len(SubSeq(s, 1, i - 1)) = IF 1 <= i - 1 THEN i - 1 - 1 + 1 ELSE 0
    BY <2>1, SubSeqProperties
  <2> QED
    BY <2>1, <2>2
<1>3. SubSeq(s, j, Len(s)) \in Seq(Elems) /\ Len(SubSeq(s, j, Len(s))) = Len(s) - j + 1
  <2>1. /\ j \in Int /\ Len(s) \in Int /\ \A k \in j .. Len(s) : s[k] \in Elems
        /\ (IF j <= Len(s) THEN Len(s) - j + 1 ELSE 0) = Len(s) - j + 1
    BY <1>1
  <2>2. /\ SubSeq(s, j, Len(s)) \in Seq(Elems)
        /\ Len(SubSeq(s, j, Len(s))) = IF j <= Len(s) THEN Len(s) - j + 1 ELSE 0
    BY <2>1, SubSeqProperties
  <2> QED
    BY <2>1, <2>2
<1>4. /\ Cut(s, i, j) \in Seq(Elems)
      /\ Len(Cut(s, i, j)) = Len(SubSeq(s, 1, i - 1)) + Len(SubSeq(s, j, Len(s)))
  BY <1>2, <1>3, ConcatProperties DEF Cut
<1>5. (i - 1) + (Len(s) - j + 1) = Len(s) - (j - i)
  BY <1>1
<1> QED
  BY <1>2, <1>3, <1>4, <1>5

\* What was spliced in is between what was there.
LEMMA SpliceFacts ==
    ASSUME NEW s \in Seq(Elems), NEW i \in Nat, 1 <= i, i <= Len(s) + 1, NEW x \in Elems
    PROVE  SpliceIn(s, i, <<x>>) \in Seq(Elems) /\ Len(SpliceIn(s, i, <<x>>)) = Len(s) + 1
<1>1. Len(s) \in Nat /\ \A k \in 1 .. Len(s) : s[k] \in Elems
  BY LenProperties, ElementOfSeq
<1>2. SubSeq(s, 1, i - 1) \in Seq(Elems) /\ Len(SubSeq(s, 1, i - 1)) = i - 1
  <2>1. /\ 1 \in Int /\ i - 1 \in Int /\ \A k \in 1 .. i - 1 : s[k] \in Elems
        /\ (IF 1 <= i - 1 THEN i - 1 - 1 + 1 ELSE 0) = i - 1
    BY <1>1
  <2>2. /\ SubSeq(s, 1, i - 1) \in Seq(Elems)
        /\ Len(SubSeq(s, 1, i - 1)) = IF 1 <= i - 1 THEN i - 1 - 1 + 1 ELSE 0
    BY <2>1, SubSeqProperties
  <2> QED
    BY <2>1, <2>2
<1>3. SubSeq(s, i, Len(s)) \in Seq(Elems) /\ Len(SubSeq(s, i, Len(s))) = Len(s) - i + 1
  <2>1. /\ i \in Int /\ Len(s) \in Int /\ \A k \in i .. Len(s) : s[k] \in Elems
        /\ (IF i <= Len(s) THEN Len(s) - i + 1 ELSE 0) = Len(s) - i + 1
    BY <1>1
  <2>2. /\ SubSeq(s, i, Len(s)) \in Seq(Elems)
        /\ Len(SubSeq(s, i, Len(s))) = IF i <= Len(s) THEN Len(s) - i + 1 ELSE 0
    BY <2>1, SubSeqProperties
  <2> QED
    BY <2>1, <2>2
<1>4. <<x>> \in Seq(Elems) /\ Len(<<x>>) = 1
  BY OneElement
<1>5. PICK a \in Seq(Elems) : a = SubSeq(s, 1, i - 1) \o <<x>> /\ Len(a) = i - 1 + 1
  <2>1. /\ SubSeq(s, 1, i - 1) \o <<x>> \in Seq(Elems)
        /\ Len(SubSeq(s, 1, i - 1) \o <<x>>) = Len(SubSeq(s, 1, i - 1)) + Len(<<x>>)
    BY <1>2, <1>4, ConcatProperties
  <2> QED
    BY <1>2, <1>4, <2>1
<1>6. /\ a \o SubSeq(s, i, Len(s)) \in Seq(Elems)
      /\ Len(a \o SubSeq(s, i, Len(s))) = Len(a) + Len(SubSeq(s, i, Len(s)))
  BY <1>3, ConcatProperties
<1>7. i - 1 + 1 + (Len(s) - i + 1) = Len(s) + 1
  BY <1>1
<1> QED
  BY <1>3, <1>5, <1>6, <1>7 DEF SpliceIn

\* erase.
LEMMA EraseWhole ==
    ASSUME NEW v, NEW s, NEW cap, Whole(v, s, cap), NEW i \in Nat, NEW j \in Nat,
           1 <= i, i <= j, j <= Len(s) + 1
    PROVE  Whole(EraseCells(v, i, j), Cut(s, i, j), cap)
<1>1. /\ s \in Seq(Elems) /\ Len(s) \in Nat /\ cap \in Nat /\ Len(s) <= cap
      /\ v.size = Len(s) /\ Capacity(v) = cap /\ Held(v) = s
  BY WholeFacts
<1>2. Cut(s, i, j) \in Seq(Elems) /\ Len(Cut(s, i, j)) = Len(s) - (j - i)
  BY <1>1, CutFacts
<1>3. EraseCells(v, i, j) = Filled(Cut(s, i, j), cap, Len(s) - (j - i))
  BY <1>1 DEF EraseCells
<1>4. Len(Cut(s, i, j)) <= cap
  BY <1>1, <1>2
<1>5. PICK t \in Seq(Elems) : t = Cut(s, i, j)
  BY <1>2
<1>6. Whole(Filled(t, cap, Len(s) - (j - i)), t, cap)
  BY <1>1, <1>2, <1>4, <1>5, FilledWhole
<1> QED
  BY <1>3, <1>5, <1>6

\* clear.
LEMMA ClearWhole ==
    ASSUME NEW v, NEW s, NEW cap, Whole(v, s, cap)
    PROVE  Whole(Clear(v), <<>>, cap)
<1>1. s \in Seq(Elems) /\ Len(s) \in Nat /\ v.size = Len(s)
  BY WholeFacts
<1>2. Whole(EraseCells(v, 1, Len(s) + 1), Cut(s, 1, Len(s) + 1), cap)
  <2>1. 1 \in Nat /\ Len(s) + 1 \in Nat /\ 1 <= 1 /\ 1 <= Len(s) + 1 /\ Len(s) + 1 <= Len(s) + 1
    BY <1>1
  <2> QED
    BY <2>1, EraseWhole
<1>3. Cut(s, 1, Len(s) + 1) = <<>>
  <2>1. /\ Cut(s, 1, Len(s) + 1) \in Seq(Elems)
        /\ Len(Cut(s, 1, Len(s) + 1)) = Len(s) - (Len(s) + 1 - 1)
    BY <1>1, CutFacts
  <2>2. Len(Cut(s, 1, Len(s) + 1)) = 0
    BY <1>1, <2>1
  <2> QED
    BY <2>1, <2>2, EmptySeq
<1> QED
  BY <1>1, <1>2, <1>3 DEF Clear

\* emplace into a new allocation.
LEMMA EmplaceWhole ==
    ASSUME NEW v, NEW s, NEW cap, Whole(v, s, cap), Len(s) = cap, NEW i \in Nat,
           1 <= i, i <= Len(s) + 1, NEW x \in Elems
    PROVE  WholeVec(EmplaceGrown(v, i, x), SpliceIn(s, i, <<x>>))
<1>1. /\ s \in Seq(Elems) /\ Len(s) \in Nat /\ cap \in Nat
      /\ v.size = Len(s) /\ Capacity(v) = cap /\ Held(v) = s
  BY WholeFacts
<1>2. GrownCapacity(v) \in Nat /\ cap + 1 <= GrownCapacity(v)
  BY <1>1 DEF GrownCapacity
<1>3. PICK t \in Seq(Elems) : t = SpliceIn(s, i, <<x>>) /\ Len(t) = Len(s) + 1
  BY <1>1, SpliceFacts
<1>4. EmplaceGrown(v, i, x) = Filled(t, GrownCapacity(v), Len(s) + 1)
  BY <1>1, <1>3 DEF EmplaceGrown
<1>5. Whole(Filled(t, GrownCapacity(v), Len(s) + 1), t, GrownCapacity(v))
  BY <1>1, <1>2, <1>3, FilledWhole
<1> QED
  BY <1>2, <1>3, <1>4, <1>5 DEF WholeVec

\* There are two objects.
LEMMA PeerFacts ==
    ASSUME NEW o \in Objects
    PROVE  Peer(o) \in Objects /\ Peer(o) # o /\ Objects = {o, Peer(o)}
<1>1. PICK p : p = Peer(o)
  OBVIOUS
<1>2. \E q \in Objects : q # o
  BY DEF Objects
<1>3. p \in Objects /\ p # o
  BY <1>1, <1>2 DEF Peer
<1> QED
  BY <1>1, <1>3 DEF Objects

\* With no copy made, nothing is constructed.
LEMMA ConstructNone ==
    ASSUME NEW v, NEW s, NEW cap, Whole(v, s, cap)
    PROVE  Construct(v, <<>>) = v
<1>1. /\ Len(s) \in Nat /\ v.size = Len(s) /\ v.cells \in Seq(Elems) /\ DOMAIN v.cells = 1 .. cap
      /\ v = [cells |-> v.cells, size |-> Len(s)] /\ v.cells \in [1 .. cap -> Elems]
  BY WholeFacts, LenProperties DEF Whole
<1>2. PICK d : d = [i \in DOMAIN v.cells |-> IF i \in v.size + 1 .. v.size + Len(<<>>)
                                             THEN <<>>[i - v.size] ELSE v.cells[i]]
  OBVIOUS
<1>3. v.size + 1 .. v.size + Len(<<>>) = {}
  BY <1>1
<1>4. d = v.cells
  BY <1>1, <1>2, <1>3
<1>5. Construct(v, <<>>) = [v EXCEPT !.cells = d]
  BY <1>2 DEF Construct
<1> QED
  BY <1>1, <1>4, <1>5

\* What a vector's calls keep.
VectorInv ==
    /\ vec \in [Objects -> Vecs] /\ items \in [Objects -> Seq(Elems)]
    /\ \A o \in Objects : WholeVec(vec[o], items[o])

\* An object becomes a vector of the elements that it should hold.
LEMMA BecomesWhole ==
    ASSUME VectorInv, NEW o \in Objects, NEW w, NEW t, WholeVec(w, t),
           BecomesVec(o, w), ItemsBecome(o, t)
    PROVE  VectorInv'
<1>1. t \in Seq(Elems) /\ w \in Vecs
  BY WholeTyped
<1>2. vec' = [vec EXCEPT ![o] = w] /\ items' = [items EXCEPT ![o] = t]
  BY DEF BecomesVec, ItemsBecome
<1>3. vec' \in [Objects -> Vecs] /\ items' \in [Objects -> Seq(Elems)]
  BY <1>1, <1>2 DEF VectorInv
<1>4. \A p \in Objects : WholeVec(vec'[p], items'[p])
  BY <1>2 DEF VectorInv
<1> QED
  BY <1>3, <1>4 DEF VectorInv

\* An object becomes another vector of the elements it held.
LEMMA BecomesSame ==
    ASSUME VectorInv, NEW o \in Objects, NEW w, WholeVec(w, items[o]),
           BecomesVec(o, w), UNCHANGED items
    PROVE  VectorInv'
<1>1. w \in Vecs
  BY WholeTyped
<1>2. vec' = [vec EXCEPT ![o] = w] /\ items' = items
  BY DEF BecomesVec
<1>3. vec' \in [Objects -> Vecs] /\ items' \in [Objects -> Seq(Elems)]
  BY <1>1, <1>2 DEF VectorInv
<1>4. \A p \in Objects : WholeVec(vec'[p], items'[p])
  BY <1>2 DEF VectorInv
<1> QED
  BY <1>3, <1>4 DEF VectorInv

\* The vector of an object and what it holds.
LEMMA VectorFacts ==
    ASSUME VectorInv, NEW o \in Objects
    PROVE  \E cap \in Nat :
              /\ Whole(vec[o], items[o], cap) /\ items[o] \in Seq(Elems)
              /\ Len(items[o]) \in Nat /\ Len(items[o]) <= cap
              /\ vec[o].size = Len(items[o]) /\ Capacity(vec[o]) = cap /\ Held(vec[o]) = items[o]
<1>1. PICK cap \in Nat : Whole(vec[o], items[o], cap)
  BY DEF VectorInv, WholeVec
<1> QED
  BY <1>1, WholeFacts

\* Values are elements.
LEMMA ValuesElems ==
    ASSUME NEW x \in Values
    PROVE  x \in Elems
BY CollectionsAssumption DEF Elems

\* push_back and emplace_back, and one that throws.
LEMMA PushBackKeeps ==
    ASSUME VectorInv, NEW o \in Objects, NEW x \in Values,
           VectorPushBack(o, x) \/ VectorPushBackThrows(o)
    PROVE  VectorInv'
<1>1. PICK cap \in Nat : Whole(vec[o], items[o], cap)
  BY VectorFacts
<1>2. WholeVec(vec[o], items[o]) /\ x \in Elems
  BY ValuesElems DEF VectorInv
<1>3. CASE VectorPushBack(o, x)
  <2>1. WholeVec(PushBack(vec[o], x), Append(items[o], x))
    BY <1>2, PushWhole
  <2>2. BecomesVec(o, PushBack(vec[o], x)) /\ ItemsBecome(o, Append(items[o], x))
    BY <1>3 DEF VectorPushBack
  <2> QED
    BY <2>1, <2>2, BecomesWhole
<1>4. CASE VectorPushBackThrows(o)
  <2>1. WholeVec(Grow(vec[o]), items[o])
    BY <1>1, GrowWhole DEF WholeVec
  <2>2. BecomesVec(o, Grow(vec[o])) /\ UNCHANGED items
    BY <1>4 DEF VectorPushBackThrows
  <2> QED
    BY <2>1, <2>2, BecomesSame
<1> QED
  BY <1>3, <1>4

\* push_back of an element of its own, when there is room.
LEMMA PushOwnKeeps ==
    ASSUME VectorInv, Risky = {}, NEW o \in Objects, NEW i \in 1 .. MaxItems + 1, VectorPushOwn(o, i)
    PROVE  VectorInv'
<1>1. PICK cap \in Nat :
          /\ Whole(vec[o], items[o], cap) /\ items[o] \in Seq(Elems)
          /\ Len(items[o]) \in Nat /\ vec[o].size = Len(items[o])
  BY VectorFacts
<1>2. i <= vec[o].size /\ vec[o].size < Capacity(vec[o])
  BY DEF VectorPushOwn
<1>3. i \in 1 .. Len(items[o])
  BY <1>1, <1>2, CollectionsAssumption
<1>4. vec[o].cells[i] = items[o][i] /\ items[o][i] \in Elems
  BY <1>1, <1>3, WholeFacts, ElementOfSeq
<1>5. /\ BecomesVec(o, PushBack(vec[o], items[o][i]))
      /\ ItemsBecome(o, Append(items[o], items[o][i]))
  BY <1>2, <1>4 DEF VectorPushOwn
<1>6. WholeVec(PushBack(vec[o], items[o][i]), Append(items[o], items[o][i]))
  BY <1>4, PushWhole DEF VectorInv
<1> QED
  BY <1>5, <1>6, BecomesWhole

\* insert, when it has to grow.
LEMMA InsertKeeps ==
    ASSUME VectorInv, Risky = {}, NEW o \in Objects, NEW i \in 1 .. MaxItems + 1, NEW x \in Values,
           VectorInsert(o, i, x)
    PROVE  VectorInv'
<1>1. PICK cap \in Nat :
          /\ Whole(vec[o], items[o], cap) /\ Len(items[o]) \in Nat
          /\ vec[o].size = Len(items[o]) /\ Capacity(vec[o]) = cap
  BY VectorFacts
<1>2. vec[o].size = Capacity(vec[o]) /\ i <= vec[o].size + 1
  BY DEF VectorInsert
<1>3. i \in Nat /\ 1 <= i /\ i <= Len(items[o]) + 1 /\ Len(items[o]) = cap /\ x \in Elems
  BY <1>1, <1>2, CollectionsAssumption, ValuesElems
<1>4. WholeVec(EmplaceGrown(vec[o], i, x), SpliceIn(items[o], i, <<x>>))
  BY <1>1, <1>3, EmplaceWhole
<1>5. BecomesVec(o, EmplaceGrown(vec[o], i, x)) /\ ItemsBecome(o, SpliceIn(items[o], i, <<x>>))
  BY <1>2 DEF VectorInsert
<1> QED
  BY <1>4, <1>5, BecomesWhole

\* insert that throws, at the front.
LEMMA InsertThrowsKeeps ==
    ASSUME VectorInv, Risky = {}, NEW o \in Objects, NEW i \in 1 .. MaxItems + 1, VectorInsertThrows(o, i)
    PROVE  VectorInv'
<1>1. PICK cap \in Nat : Whole(vec[o], items[o], cap)
  BY VectorFacts
<1>2. /\ DOMAIN vec[o].cells = 1 .. cap /\ vec[o].cells \in Seq(Elems)
      /\ vec[o] = [cells |-> vec[o].cells, size |-> Len(items[o])] /\ cap \in Nat
      /\ vec[o].cells \in [1 .. cap -> Elems]
  BY <1>1, WholeFacts, LenProperties DEF Whole
<1>3. i = 1
  BY DEF VectorInsertThrows
<1>4. PICK c : c = [k \in DOMAIN vec[o].cells |-> IF k < 1 THEN Moved ELSE vec[o].cells[k]]
  OBVIOUS
<1>5. c = vec[o].cells
  <2>1. \A k \in 1 .. cap : ~ (k < 1)
    OBVIOUS
  <2>2. c = [k \in 1 .. cap |-> vec[o].cells[k]]
    BY <1>2, <1>4, <2>1
  <2> QED
    BY <1>2, <2>2
<1>6. [vec[o] EXCEPT !.cells = c] = vec[o]
  BY <1>2, <1>5
<1>7. BecomesVec(o, vec[o]) /\ UNCHANGED items
  BY <1>3, <1>4, <1>6 DEF VectorInsertThrows
<1> QED
  BY <1>7, BecomesSame DEF VectorInv

\* erase.
LEMMA EraseKeeps ==
    ASSUME VectorInv, NEW o \in Objects, NEW i \in 1 .. MaxItems + 1, NEW j \in 1 .. MaxItems + 1,
           VectorErase(o, i, j)
    PROVE  VectorInv'
<1>1. PICK cap \in Nat : Whole(vec[o], items[o], cap) /\ vec[o].size = Len(items[o])
  BY VectorFacts
<1>2. i < j /\ j <= vec[o].size + 1
  BY DEF VectorErase
<1>3. i \in Nat /\ j \in Nat /\ 1 <= i /\ i <= j /\ j <= Len(items[o]) + 1
  BY <1>1, <1>2, CollectionsAssumption
<1>4. WholeVec(EraseCells(vec[o], i, j), Cut(items[o], i, j))
  BY <1>1, <1>3, EraseWhole DEF WholeVec
<1>5. BecomesVec(o, EraseCells(vec[o], i, j)) /\ ItemsBecome(o, Cut(items[o], i, j))
  BY DEF VectorErase
<1> QED
  BY <1>4, <1>5, BecomesWhole

\* reserve.
LEMMA ReserveKeeps ==
    ASSUME VectorInv, NEW o \in Objects, NEW n \in 1 .. MaxItems + 1, VectorReserve(o, n)
    PROVE  VectorInv'
<1>1. PICK cap \in Nat : Whole(vec[o], items[o], cap)
  BY VectorFacts
<1>2. n \in Nat
  BY CollectionsAssumption
<1>3. WholeVec(Reserve(vec[o], n), items[o])
  BY <1>1, <1>2, ReserveWhole DEF WholeVec
<1> QED
  BY <1>3, BecomesSame DEF VectorReserve

\* shrink_to_fit.
LEMMA ShrinkKeeps ==
    ASSUME VectorInv, NEW o \in Objects, VectorShrinkToFit(o)
    PROVE  VectorInv'
<1>1. PICK cap \in Nat :
          /\ Whole(vec[o], items[o], cap) /\ items[o] \in Seq(Elems)
          /\ Len(items[o]) \in Nat /\ vec[o].size = Len(items[o]) /\ Held(vec[o]) = items[o]
  BY VectorFacts
<1>2. TransferTo(vec[o], vec[o].size) = Filled(items[o], Len(items[o]), Len(items[o]))
  BY <1>1 DEF TransferTo
<1>3. Whole(Filled(items[o], Len(items[o]), Len(items[o])), items[o], Len(items[o]))
  BY <1>1, FilledWhole
<1>4. WholeVec(TransferTo(vec[o], vec[o].size), items[o])
  BY <1>1, <1>2, <1>3 DEF WholeVec
<1> QED
  BY <1>4, BecomesSame DEF VectorShrinkToFit

\* A vector that was just made holds nothing.
LEMMA NoCellsWhole == WholeVec(NoCells, <<>>)
<1>1. PICK s \in Seq(Elems) : s = <<>> /\ Len(s) = 0
  BY EmptySeq
<1>2. NoCells = [cells |-> NoCells.cells, size |-> 0] /\ NoCells.cells = <<>>
  BY DEF NoCells
<1>3. Whole(NoCells, s, 0)
  BY <1>1, <1>2 DEF Whole
<1> QED
  BY <1>1, <1>3 DEF WholeVec

\* The move constructor, the move assignment and swap.
LEMMA MoveKeeps ==
    ASSUME VectorInv, NEW o \in Objects, VectorMove(o) \/ VectorSwap
    PROVE  VectorInv'
<1>1. Peer(o) \in Objects /\ Peer(o) # o /\ Objects = {o, Peer(o)}
  BY PeerFacts
<1>2. WholeVec(NoCells, <<>>)
  BY NoCellsWhole
<1>3. NoCells \in Vecs /\ <<>> \in Seq(Elems)
  BY <1>2, WholeTyped
<1>4. CASE VectorMove(o)
  <2>1. /\ vec' = [vec EXCEPT ![o] = vec[Peer(o)], ![Peer(o)] = NoCells]
        /\ items' = [items EXCEPT ![o] = items[Peer(o)], ![Peer(o)] = <<>>]
    BY <1>4 DEF VectorMove, ItemsBothBecome
  <2>2. vec' \in [Objects -> Vecs] /\ items' \in [Objects -> Seq(Elems)]
    BY <1>1, <1>3, <2>1 DEF VectorInv
  <2>3. /\ vec'[o] = vec[Peer(o)] /\ items'[o] = items[Peer(o)]
        /\ vec'[Peer(o)] = NoCells /\ items'[Peer(o)] = <<>>
    BY <1>1, <2>1 DEF VectorInv
  <2>4. \A p \in Objects : WholeVec(vec'[p], items'[p])
    BY <1>1, <1>2, <2>3 DEF VectorInv
  <2> QED
    BY <2>2, <2>4 DEF VectorInv
<1>5. CASE VectorSwap
  <2>1. /\ vec' = [p \in Objects |-> vec[Peer(p)]]
        /\ items' = [p \in Objects |-> items[Peer(p)]]
    BY <1>5 DEF VectorSwap
  <2>2. \A p \in Objects : Peer(p) \in Objects
    BY PeerFacts
  <2>3. vec' \in [Objects -> Vecs] /\ items' \in [Objects -> Seq(Elems)]
    BY <2>1, <2>2 DEF VectorInv
  <2>4. \A p \in Objects : WholeVec(vec'[p], items'[p])
    BY <2>1, <2>2 DEF VectorInv
  <2> QED
    BY <2>3, <2>4 DEF VectorInv
<1> QED
  BY <1>4, <1>5

\* What is added to a vector of m elements that is to have n.
Added(n, m, x) == [i \in 1 .. n - m |-> x]

\* As many as are missing.
LEMMA AddedFacts ==
    ASSUME NEW n \in Nat, NEW m \in Nat, NEW x \in Elems, NEW t, t = Added(n, m, x)
    PROVE  /\ t \in Seq(Elems) /\ Len(t) = (IF m <= n THEN n - m ELSE 0)
           /\ \A i \in 1 .. n - m : t[i] = x
<1>1. t = [i \in 1 .. n - m |-> x]
  BY DEF Added
<1>2. CASE m <= n
  <2>1. n - m \in Nat
    BY <1>2
  <2> QED
    BY <1>1, <1>2, <2>1
<1>3. CASE ~ (m <= n)
  <2>1. 1 .. n - m = {}
    BY <1>3
  <2>2. t = <<>>
    BY <1>1, <2>1
  <2> QED
    BY <1>3, <2>1, <2>2, EmptySeq
<1> QED
  BY <1>2, <1>3

\* A sequence made longer, and one made shorter.
LEMMA ResizedLonger ==
    ASSUME NEW s \in Seq(Elems), NEW n \in Nat, Len(s) <= n, NEW x \in Elems,
           NEW t \in Seq(Elems), Len(t) = n - Len(s), \A i \in 1 .. n - Len(s) : t[i] = x
    PROVE  Resized(s, n, x) = s \o t
<1>1. Len(s) \in Nat /\ \A i \in 1 .. Len(s) : s[i] \in Elems
  BY LenProperties, ElementOfSeq
<1>2. /\ s \o t \in Seq(Elems) /\ Len(s \o t) = Len(s) + Len(t)
      /\ \A i \in 1 .. Len(s) + Len(t) :
             (s \o t)[i] = IF i <= Len(s) THEN s[i] ELSE t[i - Len(s)]
  BY ConcatProperties
<1>3. PICK r : r = [i \in 1 .. n |-> IF i <= Len(s) THEN s[i] ELSE x]
  OBVIOUS
<1>4. r \in Seq(Elems) /\ Len(r) = n
  <2>1. \A i \in 1 .. n : (IF i <= Len(s) THEN s[i] ELSE x) \in Elems
    BY <1>1
  <2> QED
    BY <1>3, <2>1
<1>5. Len(s) + Len(t) = n
  BY <1>1
<1>6. \A i \in 1 .. n : r[i] = (s \o t)[i]
  <2> TAKE i \in 1 .. n
  <2>1. (s \o t)[i] = IF i <= Len(s) THEN s[i] ELSE t[i - Len(s)]
    BY <1>2, <1>5
  <2>2. CASE i <= Len(s)
    BY <1>3, <2>1, <2>2
  <2>3. CASE ~ (i <= Len(s))
    <3>1. i - Len(s) \in 1 .. n - Len(s)
      BY <1>1, <2>3
    <3>2. t[i - Len(s)] = x
      BY <3>1
    <3> QED
      BY <1>3, <2>1, <2>3, <3>2
  <2> QED
    BY <2>2, <2>3
<1>7. PICK u \in Seq(Elems) : u = s \o t /\ Len(u) = n
  BY <1>2, <1>5
<1>8. r = u
  BY <1>4, <1>6, <1>7, SeqEqual
<1> QED
  BY <1>3, <1>7, <1>8 DEF Resized

\* A sequence made shorter loses its end.
LEMMA ResizedShorter ==
    ASSUME NEW s \in Seq(Elems), NEW n \in Nat, n < Len(s), NEW x \in Elems
    PROVE  Resized(s, n, x) = Cut(s, n + 1, Len(s) + 1)
<1>1. Len(s) \in Nat /\ \A i \in 1 .. Len(s) : s[i] \in Elems
  BY LenProperties, ElementOfSeq
<1>2. PICK r : r = [i \in 1 .. n |-> IF i <= Len(s) THEN s[i] ELSE x]
  OBVIOUS
<1>3. r \in Seq(Elems) /\ Len(r) = n /\ \A i \in 1 .. n : r[i] = s[i]
  <2>1. \A i \in 1 .. n : i <= Len(s) /\ s[i] \in Elems
    BY <1>1
  <2> QED
    BY <1>2, <2>1
<1>4. PICK a : a = SubSeq(s, 1, n)
  OBVIOUS
<1>5. a \in Seq(Elems) /\ Len(a) = n /\ \A i \in 1 .. n : a[i] = s[i]
  <2>1. /\ 1 \in Int /\ n \in Int /\ \A k \in 1 .. n : s[k] \in Elems
        /\ (IF 1 <= n THEN n - 1 + 1 ELSE 0) = n
    BY <1>1
  <2>2. /\ a \in Seq(Elems) /\ Len(a) = IF 1 <= n THEN n - 1 + 1 ELSE 0
        /\ \A k \in 1 .. n - 1 + 1 : a[k] = s[1 + k - 1]
    BY <1>4, <2>1, SubSeqProperties
  <2>3. \A k \in 1 .. n : k \in 1 .. n - 1 + 1 /\ 1 + k - 1 = k
    OBVIOUS
  <2> QED
    BY <2>1, <2>2, <2>3
<1>6. r = a
  BY <1>3, <1>5, SeqEqual
<1>7. SubSeq(s, Len(s) + 1, Len(s)) = <<>>
  <2>1. /\ Len(s) + 1 \in Int /\ Len(s) \in Int /\ \A k \in Len(s) + 1 .. Len(s) : s[k] \in Elems
        /\ ~ (Len(s) + 1 <= Len(s))
    BY <1>1
  <2>2. /\ SubSeq(s, Len(s) + 1, Len(s)) \in Seq(Elems)
        /\ Len(SubSeq(s, Len(s) + 1, Len(s))) =
               IF Len(s) + 1 <= Len(s) THEN Len(s) - (Len(s) + 1) + 1 ELSE 0
    BY <2>1, SubSeqProperties
  <2>3. Len(SubSeq(s, Len(s) + 1, Len(s))) = 0
    BY <2>1, <2>2
  <2> QED
    BY <2>2, <2>3, EmptySeq
<1>8. a \o <<>> = a
  BY <1>5, ConcatEmptySeq
<1>9. n + 1 - 1 = n
  OBVIOUS
<1>10. Cut(s, n + 1, Len(s) + 1) = a
  BY <1>4, <1>7, <1>8, <1>9 DEF Cut
<1> QED
  BY <1>2, <1>6, <1>10 DEF Resized

\* None of them.
LEMMA NoneCopied ==
    ASSUME NEW S, NEW t \in Seq(S)
    PROVE  SubSeq(t, 1, 0) = <<>>
OBVIOUS

\* resize, with all copies made or none.
LEMMA ResizeKeeps ==
    ASSUME VectorInv, Risky = {}, NEW o \in Objects, NEW n \in 0 .. MaxItems, NEW x \in Values,
           NEW done \in 0 .. MaxItems, VectorResize(o, n, x, done)
    PROVE  VectorInv'
<1>1. PICK cap \in Nat :
          /\ Whole(vec[o], items[o], cap) /\ items[o] \in Seq(Elems)
          /\ Len(items[o]) \in Nat /\ vec[o].size = Len(items[o])
  BY VectorFacts
<1>2. n \in Nat /\ done \in Nat /\ x \in Elems
  BY CollectionsAssumption, ValuesElems
<1>3. PICK t : t = [i \in 1 .. n - vec[o].size |-> x]
  OBVIOUS
<1>4. /\ t \in Seq(Elems)
      /\ Len(t) = (IF Len(items[o]) <= n THEN n - Len(items[o]) ELSE 0)
      /\ \A i \in 1 .. n - Len(items[o]) : t[i] = x
  <2>1. t = [i \in 1 .. n - Len(items[o]) |-> x]
    BY <1>1, <1>3
  <2>2. PICK m \in Nat : m = Len(items[o])
    BY <1>1
  <2>3. /\ t \in Seq(Elems) /\ Len(t) = (IF m <= n THEN n - m ELSE 0)
        /\ \A i \in 1 .. n - m : t[i] = x
    <3>1. t = Added(n, m, x)
      BY <2>1, <2>2 DEF Added
    <3> QED
      BY <1>2, <3>1, AddedFacts
  <2> QED
    BY <2>2, <2>3
<1>5. /\ done <= Len(t) /\ done \in {0, Len(t)}
      /\ IF done = Len(t)
         THEN /\ BecomesVec(o, IF n < vec[o].size THEN EraseCells(vec[o], n + 1, vec[o].size + 1)
                               ELSE Counted(Reserve(vec[o], n), t))
              /\ ItemsBecome(o, Resized(items[o], n, x))
         ELSE BecomesVec(o, Construct(Reserve(vec[o], n), SubSeq(t, 1, done))) /\ UNCHANGED items
  BY <1>3 DEF VectorResize
<1>6. PICK c \in Nat : n <= c /\ Whole(Reserve(vec[o], n), items[o], c)
  BY <1>1, <1>2, ReserveWhole
<1>7. CASE n < Len(items[o])
  <2>1. done = Len(t)
    BY <1>1, <1>2, <1>4, <1>5, <1>7
  <2>2. /\ BecomesVec(o, EraseCells(vec[o], n + 1, Len(items[o]) + 1))
        /\ ItemsBecome(o, Resized(items[o], n, x))
    BY <1>1, <1>5, <1>7, <2>1
  <2>3. WholeVec(EraseCells(vec[o], n + 1, Len(items[o]) + 1), Cut(items[o], n + 1, Len(items[o]) + 1))
    <3>1. /\ n + 1 \in Nat /\ Len(items[o]) + 1 \in Nat /\ 1 <= n + 1
          /\ n + 1 <= Len(items[o]) + 1 /\ Len(items[o]) + 1 <= Len(items[o]) + 1
      BY <1>1, <1>2, <1>7
    <3> QED
      BY <1>1, <3>1, EraseWhole DEF WholeVec
  <2>4. Resized(items[o], n, x) = Cut(items[o], n + 1, Len(items[o]) + 1)
    BY <1>1, <1>2, <1>7, ResizedShorter
  <2> QED
    BY <2>2, <2>3, <2>4, BecomesWhole
<1>8. CASE Len(items[o]) <= n /\ done = Len(t)
  <2>1. /\ BecomesVec(o, Counted(Reserve(vec[o], n), t))
        /\ ItemsBecome(o, Resized(items[o], n, x))
    BY <1>1, <1>2, <1>5, <1>8
  <2>2. Len(t) = n - Len(items[o]) /\ Len(items[o]) + Len(t) <= c
    BY <1>1, <1>2, <1>4, <1>6, <1>8
  <2>3. WholeVec(Counted(Reserve(vec[o], n), t), items[o] \o t)
    BY <1>4, <1>6, <2>2, CountedWhole DEF WholeVec
  <2>4. Resized(items[o], n, x) = items[o] \o t
    BY <1>1, <1>2, <1>4, <1>8, <2>2, ResizedLonger
  <2> QED
    BY <2>1, <2>3, <2>4, BecomesWhole
<1>9. CASE done # Len(t)
  <2>1. done = 0
    BY <1>5, <1>9
  <2>2. BecomesVec(o, Construct(Reserve(vec[o], n), SubSeq(t, 1, 0))) /\ UNCHANGED items
    BY <1>5, <1>9, <2>1
  <2>3. Construct(Reserve(vec[o], n), SubSeq(t, 1, 0)) = Reserve(vec[o], n)
    BY <1>4, <1>6, ConstructNone, NoneCopied
  <2>4. WholeVec(Reserve(vec[o], n), items[o])
    BY <1>6 DEF WholeVec
  <2> QED
    BY <2>2, <2>3, <2>4, BecomesSame
<1> QED
  BY <1>1, <1>2, <1>7, <1>8, <1>9

\* assign, with all copies made or none.
LEMMA AssignKeeps ==
    ASSUME VectorInv, Risky = {}, NEW o \in Objects, NEW s \in Seq(Elems),
           NEW done \in 0 .. MaxItems, VectorAssign(o, s, done)
    PROVE  VectorInv'
<1>1. PICK cap \in Nat : Whole(vec[o], items[o], cap)
  BY VectorFacts
<1>2. Len(s) \in Nat
  BY LenProperties
<1>3. Whole(Clear(vec[o]), <<>>, cap)
  BY <1>1, ClearWhole
<1>4. PICK v : v = Reserve(Clear(vec[o]), Len(s))
  OBVIOUS
<1>5. PICK c \in Nat : Len(s) <= c /\ Whole(v, <<>>, c)
  BY <1>2, <1>3, <1>4, ReserveWhole
<1>6. /\ done \in {0, Len(s)}
      /\ BecomesVec(o, IF done = Len(s) THEN Counted(v, s) ELSE Construct(v, SubSeq(s, 1, done)))
      /\ ItemsBecome(o, IF done = Len(s) THEN s ELSE <<>>)
  BY <1>4 DEF VectorAssign
<1>7. CASE done = Len(s)
  <2>1. Len(<<>>) + Len(s) <= c
    BY <1>2, <1>5
  <2>2. Whole(Counted(v, s), <<>> \o s, c)
    BY <1>5, <2>1, CountedWhole
  <2>3. <<>> \o s = s
    BY ConcatEmptySeq
  <2> QED
    BY <1>6, <1>7, <2>2, <2>3, BecomesWhole DEF WholeVec
<1>8. CASE done # Len(s)
  <2>1. BecomesVec(o, Construct(v, SubSeq(s, 1, 0))) /\ ItemsBecome(o, <<>>)
    BY <1>6, <1>8
  <2>2. Construct(v, SubSeq(s, 1, 0)) = v
    BY <1>5, ConstructNone, NoneCopied
  <2>3. WholeVec(v, <<>>)
    BY <1>5 DEF WholeVec
  <2> QED
    BY <2>1, <2>2, <2>3, BecomesWhole
<1> QED
  BY <1>7, <1>8

\* The copy assignment and the copy constructor.
LEMMA CopyKeeps ==
    ASSUME VectorInv, Risky = {}, NEW o \in Objects, NEW done \in 0 .. MaxItems,
           VectorCopy(o, done) \/ VectorCopyConstruct(o)
    PROVE  VectorInv'
<1>1. PICK s \in Seq(Elems) : s = items[Peer(o)] /\ Held(vec[Peer(o)]) = s
  <2>1. Peer(o) \in Objects
    BY PeerFacts
  <2> QED
    BY <2>1, VectorFacts
<1>2. CASE VectorCopy(o, done)
  BY <1>1, <1>2, AssignKeeps DEF VectorCopy
<1>3. CASE VectorCopyConstruct(o)
  <2>1. Len(s) \in Nat
    BY LenProperties
  <2>2. PICK m \in Nat : Whole(NoCells, <<>>, m)
    BY NoCellsWhole DEF WholeVec
  <2>3. PICK c \in Nat : Len(s) <= c /\ Whole(Reserve(NoCells, Len(s)), <<>>, c)
    BY <2>1, <2>2, ReserveWhole
  <2>4. Len(<<>>) + Len(s) <= c
    BY <2>1, <2>3
  <2>5. Whole(Counted(Reserve(NoCells, Len(s)), s), <<>> \o s, c)
    BY <2>3, <2>4, CountedWhole
  <2>6. <<>> \o s = s
    BY ConcatEmptySeq
  <2>7. BecomesVec(o, Counted(Reserve(NoCells, Len(s)), s)) /\ ItemsBecome(o, s)
    BY <1>1, <1>3 DEF VectorCopyConstruct
  <2> QED
    BY <2>5, <2>6, <2>7, BecomesWhole DEF WholeVec
<1> QED
  BY <1>2, <1>3

\* assign of a range, wherever a copy throws.
LEMMA AssignRangeKeeps ==
    ASSUME VectorInv, NEW o \in Objects, NEW s \in Seq(Elems), NEW done \in 0 .. MaxItems,
           VectorAssignRange(o, s, done)
    PROVE  VectorInv'
<1>1. PICK cap \in Nat : Whole(vec[o], items[o], cap)
  BY VectorFacts
<1>2. WholeVec(Clear(vec[o]), <<>>)
  BY <1>1, ClearWhole DEF WholeVec
<1>3. Len(s) \in Nat /\ done \in Nat /\ done <= Len(s) /\ \A i \in 1 .. Len(s) : s[i] \in Elems
  BY LenProperties, ElementOfSeq, CollectionsAssumption DEF VectorAssignRange
<1>4. PICK t \in Seq(Elems) : t = SubSeq(s, 1, done)
  <2>1. 1 \in Int /\ done \in Int /\ \A k \in 1 .. done : s[k] \in Elems
    BY <1>3
  <2>2. SubSeq(s, 1, done) \in Seq(Elems)
    BY <2>1, SubSeqProperties
  <2> QED
    BY <2>2
<1>5. PICK v : v = PushAll(Clear(vec[o]), t)
  OBVIOUS
<1>6. WholeVec(v, t)
  <2>1. WholeVec(PushAll(Clear(vec[o]), t), <<>> \o t)
    BY <1>2, PushAllWhole
  <2>2. <<>> \o t = t
    BY ConcatEmptySeq
  <2> QED
    BY <1>5, <2>1, <2>2
<1>7. WholeVec(Grow(v), t)
  <2>1. PICK c \in Nat : Whole(v, t, c)
    BY <1>6 DEF WholeVec
  <2> QED
    BY <2>1, GrowWhole DEF WholeVec
<1>8. BecomesVec(o, IF done = Len(s) THEN v ELSE Grow(v)) /\ ItemsBecome(o, t)
  BY <1>4, <1>5 DEF VectorAssignRange
<1> QED
  BY <1>6, <1>7, <1>8, BecomesWhole

\* Vectors start without an element.
LEMMA VectorStarts ==
    ASSUME VectorInit
    PROVE  VectorInv
<1>1. vec = [o \in Objects |-> NoCells] /\ items = [o \in Objects |-> <<>>]
  BY DEF VectorInit, ItemsInit
<1>2. WholeVec(NoCells, <<>>)
  BY NoCellsWhole
<1>3. NoCells \in Vecs /\ <<>> \in Seq(Elems)
  BY <1>2, WholeTyped
<1> QED
  BY <1>1, <1>2, <1>3 DEF VectorInv

\* The sequences that are assigned.
LEMMA ValuesSeq ==
    ASSUME NEW x \in Values
    PROVE  <<x, x>> \in Seq(Elems) /\ <<x, 1, x>> \in Seq(Elems)
<1>1. x \in Elems /\ 1 \in Elems
  BY ValuesElems DEF Elems
<1> QED
  BY <1>1

\* Each call keeps the elements where they should be.
LEMMA VectorKeeps ==
    ASSUME VectorInv, Risky = {}, [VectorNext]_vectorVars
    PROVE  VectorInv'
<1>1. ASSUME NEW o \in Objects, NEW x \in Values, VectorPushBack(o, x)
      PROVE  VectorInv'
  BY <1>1, PushBackKeeps
<1>2. ASSUME NEW o \in Objects, NEW i \in 1 .. MaxItems + 1,
             \/ VectorPushOwn(o, i) \/ VectorInsertThrows(o, i) \/ VectorReserve(o, i)
             \/ \E x \in Values : VectorInsert(o, i, x)
             \/ \E j \in 1 .. MaxItems + 1 : VectorErase(o, i, j)
      PROVE  VectorInv'
  BY <1>2, PushOwnKeeps, InsertThrowsKeeps, ReserveKeeps, InsertKeeps, EraseKeeps
<1>3. ASSUME NEW o \in Objects, NEW done \in 0 .. MaxItems,
             \/ \E n \in 0 .. MaxItems, x \in Values : VectorResize(o, n, x, done)
             \/ VectorCopy(o, done)
      PROVE  VectorInv'
  BY <1>3, ResizeKeeps, CopyKeeps
<1>4. ASSUME NEW o \in Objects, NEW done \in 0 .. MaxItems, NEW x \in Values,
             VectorAssign(o, <<x, x>>, done) \/ VectorAssignRange(o, <<x, 1, x>>, done)
      PROVE  VectorInv'
  <2>1. PICK s \in Seq(Elems), t \in Seq(Elems) : s = <<x, x>> /\ t = <<x, 1, x>>
    BY ValuesSeq
  <2> QED
    BY <1>4, <2>1, AssignKeeps, AssignRangeKeeps
<1>5. ASSUME NEW o \in Objects,
             VectorPushBackThrows(o) \/ VectorCopyConstruct(o) \/ VectorMove(o) \/ VectorShrinkToFit(o)
      PROVE  VectorInv'
  <2>1. CASE VectorPushBackThrows(o)
    <3>1. PICK cap \in Nat : Whole(vec[o], items[o], cap)
      BY VectorFacts
    <3>2. WholeVec(Grow(vec[o]), items[o])
      BY <3>1, GrowWhole DEF WholeVec
    <3> QED
      BY <2>1, <3>2, BecomesSame DEF VectorPushBackThrows
  <2>2. CASE VectorCopyConstruct(o)
    <3>1. 0 \in 0 .. MaxItems
      BY CollectionsAssumption
    <3> QED
      BY <2>2, <3>1, CopyKeeps
  <2> QED
    BY <1>5, <2>1, <2>2, MoveKeeps, ShrinkKeeps
<1>6. CASE VectorSwap
  <2>1. "a" \in Objects
    BY DEF Objects
  <2> QED
    BY <1>6, <2>1, MoveKeeps
<1>7. CASE UNCHANGED vectorVars
  BY <1>7 DEF vectorVars, VectorInv
<1> QED
  BY <1>1, <1>2, <1>3, <1>4, <1>5, <1>6, <1>7 DEF VectorNext

\* The invariant is what was to be shown.
LEMMA VectorTells ==
    ASSUME VectorInv
    PROVE  VectorHolds
<1> SUFFICES ASSUME NEW o \in Objects
             PROVE  /\ vec[o].size <= Capacity(vec[o]) /\ Held(vec[o]) = items[o]
                    /\ \A i \in vec[o].size + 1 .. Capacity(vec[o]) : vec[o].cells[i] = Raw
  BY DEF VectorHolds
<1>1. PICK cap \in Nat : Whole(vec[o], items[o], cap)
  BY VectorFacts
<1> QED
  BY <1>1, WholeFacts

\* Whatever values are pushed, inserted, erased, assigned, copied and moved, and
\* however many: a vector's first `_size` cells hold the elements that the calls
\* should have left, and no cell behind them holds an object.  So it is after a
\* copy has thrown in push_back or in assign of a range, and in the other calls
\* when the first copy throws.  Inserts with capacity to spare (vector.hpp:364) and
\* copies that throw later in a call (vector.hpp:149, :350) are ruled out: with
\* them in `Risky` it is false.
THEOREM VectorsKeepElements ==
    ASSUME Risky = {}
    PROVE  VectorSpec => []VectorsHold
<1>1. VectorInit => VectorInv
  BY VectorStarts
<1>2. ASSUME VectorInv, [VectorNext /\ UNCHANGED subject]_<<vectorVars, subject>>
      PROVE  VectorInv'
  <2>1. [VectorNext]_vectorVars
    BY <1>2
  <2> QED
    BY <1>2, <2>1, VectorKeeps
<1>3. VectorInv => VectorsHold
  BY VectorTells DEF VectorsHold
<1> QED
  BY <1>1, <1>2, <1>3, PTL DEF VectorSpec

-----------------------------------------------------------------------------
(* Strings.                                                                *)

\* A text of as many cells as `cap` and one more, which hold s and a terminator.
TextOf(t, s, cap) ==
    /\ s \in Seq(Elems) /\ cap \in Nat /\ Len(s) <= cap
    /\ t = [isLong |-> t.isLong, block |-> t.block, size |-> Len(s), cells |-> t.cells]
    /\ t.isLong \in BOOLEAN /\ t.block \in 0 .. 3 /\ (t.isLong <=> t.block # 0)
    /\ ~t.isLong => cap = SsoCapacity
    /\ t.cells \in Seq(Elems) /\ Len(t.cells) = cap + 1
    /\ \A i \in 1 .. Len(s) : t.cells[i] = s[i]
    /\ t.cells[Len(s) + 1] = Terminator
TextWhole(t, s) == \E cap \in Nat : TextOf(t, s, cap)

\* What such a text is: its characters are s.
LEMMA TextFacts ==
    ASSUME NEW t, NEW s, NEW cap, TextOf(t, s, cap)
    PROVE  /\ s \in Seq(Elems) /\ Len(s) \in Nat /\ cap \in Nat /\ Len(s) <= cap
           /\ t.size = Len(s) /\ t.cells \in Seq(Elems) /\ DOMAIN t.cells = 1 .. cap + 1
           /\ t.isLong \in BOOLEAN /\ t.block \in 0 .. 3 /\ (t.isLong <=> t.block # 0)
           /\ TextCapacity(t) = cap /\ Content(t) = s
           /\ t.cells[t.size + 1] = Terminator
<1>1. /\ s \in Seq(Elems) /\ Len(s) \in Nat /\ cap \in Nat /\ Len(s) <= cap
      /\ t.size = Len(s) /\ t.cells \in Seq(Elems) /\ Len(t.cells) = cap + 1
      /\ DOMAIN t.cells = 1 .. cap + 1
      /\ \A i \in 1 .. Len(s) : t.cells[i] = s[i]
      /\ t.cells[Len(s) + 1] = Terminator
  BY LenProperties DEF TextOf
<1>2. t.isLong \in BOOLEAN /\ t.block \in 0 .. 3 /\ (t.isLong <=> t.block # 0)
  BY DEF TextOf
<1>3. TextCapacity(t) = cap
  <2>1. ~t.isLong => cap = SsoCapacity
    BY DEF TextOf
  <2> QED
    BY <1>1, <1>2, <2>1 DEF TextCapacity
<1>4. Content(t) = s
  <2>1. 1 \in Int /\ Len(s) \in Int /\ \A i \in 1 .. Len(s) : t.cells[i] \in Elems
    BY <1>1, ElementOfSeq
  <2>2. /\ SubSeq(t.cells, 1, Len(s)) \in Seq(Elems)
        /\ Len(SubSeq(t.cells, 1, Len(s))) = IF 1 <= Len(s) THEN Len(s) - 1 + 1 ELSE 0
        /\ \A i \in 1 .. Len(s) - 1 + 1 : SubSeq(t.cells, 1, Len(s))[i] = t.cells[1 + i - 1]
    BY <2>1, SubSeqProperties
  <2>3. Len(SubSeq(t.cells, 1, Len(s))) = Len(s)
    BY <1>1, <2>2
  <2>4. \A i \in 1 .. Len(s) : SubSeq(t.cells, 1, Len(s))[i] = s[i]
    <3> TAKE i \in 1 .. Len(s)
    <3>1. 1 + i - 1 = i /\ i \in 1 .. Len(s) - 1 + 1
      BY <1>1
    <3> QED
      BY <1>1, <2>2, <3>1
  <2>5. SubSeq(t.cells, 1, Len(s)) = s
    BY <1>1, <2>2, <2>3, <2>4, SeqEqual
  <2> QED
    BY <1>1, <2>5 DEF Content
<1> QED
  BY <1>1, <1>2, <1>3, <1>4

\* What else is in cells.
LEMMA MarksElems == Terminator \in Elems /\ Garbage \in Elems
BY DEF Terminator, Garbage, Elems

\* Characters written over those that were there.
LEMMA OverwriteHolds ==
    ASSUME NEW t, NEW s, NEW cap, TextOf(t, s, cap), NEW u \in Seq(Elems), Len(u) <= cap
    PROVE  TextOf(Overwrite(t, u), u, cap) /\ Overwrite(t, u).block = t.block
<1>1. /\ cap \in Nat /\ t.cells \in Seq(Elems) /\ DOMAIN t.cells = 1 .. cap + 1
      /\ t.isLong \in BOOLEAN /\ t.block \in 0 .. 3 /\ (t.isLong <=> t.block # 0)
      /\ ~t.isLong => cap = SsoCapacity
      /\ t = [isLong |-> t.isLong, block |-> t.block, size |-> Len(s), cells |-> t.cells]
  BY TextFacts DEF TextOf
<1>2. Len(u) \in Nat /\ \A i \in 1 .. Len(u) : u[i] \in Elems
  BY LenProperties, ElementOfSeq
<1>3. PICK c : c = [i \in DOMAIN t.cells |-> IF i <= Len(u) THEN u[i]
                                             ELSE IF i = Len(u) + 1 THEN Terminator ELSE t.cells[i]]
  OBVIOUS
<1>4. \A i \in 1 .. cap + 1 : c[i] \in Elems
  <2>1. \A i \in 1 .. cap + 1 : t.cells[i] \in Elems
    BY <1>1, ElementOfSeq, LenProperties
  <2>2. \A i \in 1 .. cap + 1 : i <= Len(u) => i \in 1 .. Len(u)
    BY <1>2
  <2> QED
    BY <1>1, <1>2, <1>3, <2>1, <2>2, MarksElems
<1>5. c \in Seq(Elems) /\ Len(c) = cap + 1
  <2>1. DOMAIN c = 1 .. cap + 1 /\ c = [i \in DOMAIN c |-> c[i]]
    BY <1>1, <1>3
  <2>2. c \in [1 .. cap + 1 -> Elems]
    BY <1>4, <2>1
  <2> QED
    BY <1>1, <2>2
<1>6. /\ \A i \in 1 .. Len(u) : c[i] = u[i]
      /\ c[Len(u) + 1] = Terminator
  <2>1. \A i \in 1 .. Len(u) : i \in 1 .. cap + 1 /\ i <= Len(u)
    BY <1>1, <1>2
  <2>2. Len(u) + 1 \in 1 .. cap + 1 /\ ~ (Len(u) + 1 <= Len(u))
    BY <1>1, <1>2
  <2> QED
    BY <1>1, <1>3, <2>1, <2>2
<1>7. PICK w : w = Overwrite(t, u)
  OBVIOUS
<1>8. w = [isLong |-> t.isLong, block |-> t.block, size |-> Len(u), cells |-> c]
  <2>1. w = [t EXCEPT !.size = Len(u), !.cells = c]
    BY <1>3, <1>7 DEF Overwrite
  <2> QED
    BY <1>1, <2>1
<1>9. /\ w.isLong = t.isLong /\ w.block = t.block /\ w.cells = c
      /\ w = [isLong |-> w.isLong, block |-> w.block, size |-> Len(u), cells |-> w.cells]
  BY <1>8
<1>10. TextOf(w, u, cap)
  BY <1>1, <1>5, <1>6, <1>9 DEF TextOf
<1> QED
  BY <1>7, <1>9, <1>10

\* Characters in a new block.
LEMMA InBlockHolds ==
    ASSUME NEW s \in Seq(Elems), NEW cap \in Nat, Len(s) <= cap, NewBlock \in 1 .. 3
    PROVE  TextOf(InBlock(s, cap), s, cap) /\ InBlock(s, cap).block = NewBlock
<1>1. Len(s) \in Nat /\ \A i \in 1 .. Len(s) : s[i] \in Elems
  BY LenProperties, ElementOfSeq
<1>2. PICK c : c = Written(s, cap + 1)
  OBVIOUS
<1>3. c = [i \in 1 .. cap + 1 |-> IF i <= Len(s) THEN s[i]
                                  ELSE IF i = Len(s) + 1 THEN Terminator ELSE Garbage]
  BY <1>2 DEF Written
<1>4. \A i \in 1 .. cap + 1 : c[i] \in Elems
  <2>1. \A i \in 1 .. cap + 1 : i <= Len(s) => i \in 1 .. Len(s)
    BY <1>1
  <2> QED
    BY <1>1, <1>3, <2>1, MarksElems
<1>5. c \in Seq(Elems) /\ Len(c) = cap + 1
  BY <1>3, <1>4
<1>6. /\ \A i \in 1 .. Len(s) : c[i] = s[i]
      /\ c[Len(s) + 1] = Terminator
  <2>1. \A i \in 1 .. Len(s) : i \in 1 .. cap + 1 /\ i <= Len(s)
    BY <1>1
  <2>2. Len(s) + 1 \in 1 .. cap + 1 /\ ~ (Len(s) + 1 <= Len(s))
    BY <1>1
  <2> QED
    BY <1>3, <2>1, <2>2
<1>7. PICK b \in 1 .. 3 : b = NewBlock
  OBVIOUS
<1>8. PICK w : w = InBlock(s, cap)
  OBVIOUS
<1>9. w = [isLong |-> TRUE, block |-> b, size |-> Len(s), cells |-> c]
  BY <1>2, <1>7, <1>8 DEF InBlock
<1>10. /\ w.isLong = TRUE /\ w.block = b /\ w.cells = c
       /\ w = [isLong |-> w.isLong, block |-> w.block, size |-> Len(s), cells |-> w.cells]
  BY <1>9
<1>11. TextOf(w, s, cap)
  <2>1. w.isLong \in BOOLEAN /\ w.block \in 0 .. 3 /\ (w.isLong <=> w.block # 0)
    <3>1. w.block \in 0 .. 3 /\ w.block # 0
      BY <1>7, <1>10
    <3> QED
      BY <1>10, <3>1, Zenon
  <2>2. ~w.isLong => cap = SsoCapacity
    BY <1>10
  <2>3. w.cells \in Seq(Elems) /\ Len(w.cells) = cap + 1
    BY <1>5, <1>10
  <2>4. (\A i \in 1 .. Len(s) : w.cells[i] = s[i]) /\ w.cells[Len(s) + 1] = Terminator
    BY <1>6, <1>10
  <2> QED
    BY <1>10, <2>1, <2>2, <2>3, <2>4 DEF TextOf
<1> QED
  BY <1>7, <1>8, <1>10, <1>11

\* A text without a character.
LEMMA EmptyHolds == TextOf(EmptyText, <<>>, SsoCapacity) /\ EmptyText.block = 0
<1>1. SsoCapacity \in Nat
  BY TextAssumption
<1>2. PICK s \in Seq(Elems) : s = <<>> /\ Len(s) = 0
  BY EmptySeq
<1>3. PICK c : c = SmallStep
  OBVIOUS
<1>4. c = [i \in 1 .. SsoCapacity + 1 |-> IF i = 1 THEN Terminator ELSE Garbage]
  BY <1>3 DEF SmallStep
<1>5. c \in Seq(Elems) /\ Len(c) = SsoCapacity + 1 /\ c[1] = Terminator
  <2>1. \A i \in 1 .. SsoCapacity + 1 : c[i] \in Elems
    BY <1>4, MarksElems
  <2>2. 1 \in 1 .. SsoCapacity + 1
    BY <1>1
  <2> QED
    BY <1>1, <1>4, <2>1, <2>2
<1>6. PICK w : w = EmptyText
  OBVIOUS
<1>7. w = [isLong |-> FALSE, block |-> 0, size |-> 0, cells |-> c]
  BY <1>3, <1>6 DEF EmptyText
<1>8. /\ w.isLong = FALSE /\ w.block = 0 /\ w.cells = c
      /\ w = [isLong |-> w.isLong, block |-> w.block, size |-> 0, cells |-> w.cells]
  BY <1>7
<1>9. TextOf(w, s, SsoCapacity)
  <2>1. w.isLong \in BOOLEAN /\ w.block \in 0 .. 3 /\ (w.isLong <=> w.block # 0)
    <3>1. w.block \in 0 .. 3 /\ ~ (w.block # 0)
      BY <1>8
    <3> QED
      BY <1>8, <3>1, Zenon
  <2>2. w.cells \in Seq(Elems) /\ Len(w.cells) = SsoCapacity + 1
    BY <1>5, <1>8
  <2>3. (\A i \in 1 .. Len(s) : w.cells[i] = s[i]) /\ w.cells[Len(s) + 1] = Terminator
    <3>1. \A i \in 1 .. Len(s) : FALSE
      BY <1>2
    <3>2. Len(s) + 1 = 1
      BY <1>2
    <3> QED
      BY <1>5, <1>8, <3>1, <3>2
  <2>4. Len(s) <= SsoCapacity
    BY <1>1, <1>2
  <2> QED
    BY <1>1, <1>2, <1>8, <2>1, <2>2, <2>3, <2>4 DEF TextOf
<1> QED
  BY <1>2, <1>6, <1>8, <1>9

\* More room, in the block that was there or in a new one.
LEMMA RoomHolds ==
    ASSUME NEW t, NEW s, NEW cap, TextOf(t, s, cap), NEW n \in Nat, NewBlock \in 1 .. 3
    PROVE  /\ \E c \in Nat : cap <= c /\ n <= c /\ TextOf(ReserveText(t, n), s, c)
           /\ ReserveText(t, n).block \in {t.block, NewBlock}
<1>1. s \in Seq(Elems) /\ Len(s) \in Nat /\ cap \in Nat /\ Len(s) <= cap
  BY TextFacts
<1>2. TextCapacity(t) = cap /\ Content(t) = s
  BY TextFacts
<1>3. CASE n <= cap
  <2>1. ReserveText(t, n) = t
    BY <1>2, <1>3 DEF ReserveText
  <2> QED
    BY <1>1, <1>3, <2>1
<1>4. CASE ~ (n <= cap)
  <2>1. ReserveText(t, n) = InBlock(s, n)
    BY <1>2, <1>4 DEF ReserveText
  <2>2. Len(s) <= n /\ cap <= n
    BY <1>1, <1>4
  <2>3. TextOf(InBlock(s, n), s, n) /\ InBlock(s, n).block = NewBlock
    BY <1>1, <2>2, InBlockHolds
  <2> QED
    BY <2>1, <2>2, <2>3
<1> QED
  BY <1>3, <1>4

\* The constructors.
LEMMA ConstructedHolds ==
    ASSUME NEW s \in Seq(Elems), NewBlock \in 1 .. 3
    PROVE  TextWhole(Constructed(s), s) /\ Constructed(s).block \in {0, NewBlock}
<1>1. Len(s) \in Nat
  BY LenProperties
<1>2. CASE Len(s) <= SsoCapacity
  <2>1. TextOf(Overwrite(EmptyText, s), s, SsoCapacity) /\ Overwrite(EmptyText, s).block = 0
    BY <1>2, EmptyHolds, OverwriteHolds
  <2> QED
    BY <1>2, <2>1, TextAssumption DEF Constructed, TextWhole
<1>3. CASE ~ (Len(s) <= SsoCapacity)
  <2>1. TextOf(InBlock(s, Len(s)), s, Len(s)) /\ InBlock(s, Len(s)).block = NewBlock
    BY <1>1, InBlockHolds
  <2> QED
    BY <1>1, <1>3, <2>1 DEF Constructed, TextWhole
<1> QED
  BY <1>2, <1>3

\* A text that is made longer, with room for at least what is added.
LEMMA LongerHolds ==
    ASSUME NEW t, NEW s, NEW cap, TextOf(t, s, cap), NEW u \in Seq(Elems), NEW n \in Nat,
           Len(u) <= n, NewBlock \in 1 .. 3, NEW w,
           w = Overwrite(IF Len(u) > TextCapacity(t) THEN ReserveText(t, n) ELSE t, u)
    PROVE  TextWhole(w, u) /\ w.block \in {t.block, NewBlock}
<1>1. Len(u) \in Nat /\ cap \in Nat /\ TextCapacity(t) = cap
  BY TextFacts, LenProperties
<1>2. CASE Len(u) > cap
  <2>1. PICK c \in Nat : n <= c /\ TextOf(ReserveText(t, n), s, c)
    BY RoomHolds
  <2>2. ReserveText(t, n).block \in {t.block, NewBlock}
    BY RoomHolds
  <2>3. Len(u) <= c
    BY <1>1, <2>1
  <2>4. /\ TextOf(Overwrite(ReserveText(t, n), u), u, c)
        /\ Overwrite(ReserveText(t, n), u).block = ReserveText(t, n).block
    BY <2>1, <2>3, OverwriteHolds
  <2>5. w = Overwrite(ReserveText(t, n), u)
    BY <1>1, <1>2
  <2> QED
    BY <2>2, <2>4, <2>5 DEF TextWhole
<1>3. CASE ~ (Len(u) > cap)
  <2>1. Len(u) <= cap
    BY <1>1, <1>3
  <2>2. TextOf(Overwrite(t, u), u, cap) /\ Overwrite(t, u).block = t.block
    BY <2>1, OverwriteHolds
  <2>3. w = Overwrite(t, u)
    BY <1>1, <1>3
  <2> QED
    BY <1>1, <2>2, <2>3 DEF TextWhole
<1> QED
  BY <1>2, <1>3

Texts == {t \in [isLong : BOOLEAN, block : 0 .. 3, size : Nat, cells : Seq(Elems)] :
              \E s \in Seq(Elems) : TextWhole(t, s)}

\* Texts that hold something are texts, and hold characters.
LEMMA TextTyped ==
    ASSUME NEW t, NEW s, TextWhole(t, s)
    PROVE  s \in Seq(Elems) /\ t \in Texts /\ t.block \in 0 .. 3
<1>1. PICK cap \in Nat : TextOf(t, s, cap)
  BY DEF TextWhole
<1>2. /\ s \in Seq(Elems) /\ Len(s) \in Nat /\ t.cells \in Seq(Elems)
      /\ t.isLong \in BOOLEAN /\ t.block \in 0 .. 3
  BY <1>1, TextFacts
<1>3. t = [isLong |-> t.isLong, block |-> t.block, size |-> Len(s), cells |-> t.cells]
  BY <1>1 DEF TextOf
<1>4. t \in [isLong : BOOLEAN, block : 0 .. 3, size : Nat, cells : Seq(Elems)]
  <2>1. PICK l \in BOOLEAN, b \in 0 .. 3, n \in Nat, c \in Seq(Elems) :
            t = [isLong |-> l, block |-> b, size |-> n, cells |-> c]
    BY <1>2, <1>3
  <2> QED
    BY <2>1
<1> QED
  BY <1>2, <1>4 DEF Texts

\* Each text holds its characters, and each block is the block of one of them.
TextInv ==
    /\ text \in [Objects -> Texts] /\ items \in [Objects -> Seq(Elems)]
    /\ \A o \in Objects : TextWhole(text[o], items[o])
    /\ blocks = {text[o].block : o \in Objects} \ {0}
    /\ \A o \in Objects : text[o].block # 0 => text[o].block # text[Peer(o)].block

\* The blocks are those of one text and of the other.
LEMMA TextBlocks ==
    ASSUME TextInv, NEW o \in Objects
    PROVE  /\ blocks = {text[o].block, text[Peer(o)].block} \ {0}
           /\ text[o].block \in 0 .. 3 /\ text[Peer(o)].block \in 0 .. 3
           /\ text[o].block # 0 => text[o].block # text[Peer(o)].block
<1>1. Peer(o) \in Objects /\ Objects = {o, Peer(o)}
  BY PeerFacts
<1>2. \A p \in Objects : text[p].block \in 0 .. 3
  BY TextTyped DEF TextInv
<1>3. blocks = {text[o].block, text[Peer(o)].block} \ {0}
  BY <1>1 DEF TextInv
<1> QED
  BY <1>1, <1>2, <1>3 DEF TextInv

\* There is always a block to be had: two texts own two of three.
LEMMA BlockFound ==
    ASSUME TextInv
    PROVE  NewBlock \in 1 .. 3 /\ NewBlock \notin blocks
<1>1. "a" \in Objects
  BY DEF Objects
<1>2. PICK b, c : blocks = {b, c} \ {0} /\ b \in 0 .. 3 /\ c \in 0 .. 3
  BY <1>1, TextBlocks
<1>3. \E n \in 1 .. 3 : n \notin blocks
  <2>1. 1 \in 1 .. 3 /\ 2 \in 1 .. 3 /\ 3 \in 1 .. 3
    OBVIOUS
  <2> QED
    BY <1>2, <2>1
<1> QED
  BY <1>3 DEF NewBlock

\* An object's text becomes another, in place, in its block or in a new one.
LEMMA TextBecomes ==
    ASSUME TextInv, NEW o \in Objects, NEW t, NEW s, TextWhole(t, s),
           t.block \in {0, text[o].block, NewBlock},
           BecomesText(o, t), ItemsBecome(o, s)
    PROVE  TextInv'
<1>1. s \in Seq(Elems) /\ t \in Texts /\ t.block \in 0 .. 3
  BY TextTyped
<1>2. /\ text' = [text EXCEPT ![o] = t] /\ items' = [items EXCEPT ![o] = s]
      /\ blocks' = (blocks \ {text[o].block}) \cup ({t.block} \ {0})
  BY DEF BecomesText, ItemsBecome
<1>3. PICK p : p = Peer(o)
  OBVIOUS
<1>4. p \in Objects /\ p # o /\ Objects = {o, p} /\ Peer(p) = o
  <2>1. p \in Objects /\ p # o /\ Objects = {o, p}
    BY <1>3, PeerFacts
  <2>2. Peer(p) \in Objects /\ Peer(p) # p
    BY <2>1, PeerFacts
  <2> QED
    BY <2>1, <2>2
<1>5. text' \in [Objects -> Texts] /\ items' \in [Objects -> Seq(Elems)]
  BY <1>1, <1>2 DEF TextInv
<1>6. text'[o] = t /\ items'[o] = s /\ text'[p] = text[p] /\ items'[p] = items[p]
  BY <1>2, <1>4 DEF TextInv
<1>7. \A q \in Objects : TextWhole(text'[q], items'[q])
  BY <1>4, <1>6 DEF TextInv
<1>8. PICK b, c, d : b = text[o].block /\ c = text[p].block /\ d = t.block
  OBVIOUS
<1>9. /\ blocks = {b, c} \ {0} /\ (b # 0 => b # c)
      /\ d \in {0, b, NewBlock} /\ NewBlock \in 1 .. 3 /\ NewBlock \notin blocks
  BY <1>3, <1>8, TextBlocks, BlockFound
<1>10. d # 0 => d # c
  <2>1. NewBlock # 0 /\ NewBlock # c
    BY <1>9
  <2> QED
    BY <1>9, <2>1
<1>11. blocks' = {d, c} \ {0}
  <2>1. blocks' = (blocks \ {b}) \cup ({d} \ {0})
    BY <1>2, <1>8
  <2>2. blocks \ {b} = {c} \ {0}
    BY <1>9
  <2> QED
    BY <2>1, <2>2
<1>12. blocks' = {text'[q].block : q \in Objects} \ {0}
  BY <1>4, <1>6, <1>8, <1>11
<1>13. \A q \in Objects : text'[q].block # 0 => text'[q].block # text'[Peer(q)].block
  BY <1>3, <1>4, <1>6, <1>8, <1>10
<1> QED
  BY <1>5, <1>7, <1>12, <1>13 DEF TextInv

\* The text of an object and what it holds.
LEMMA TextObject ==
    ASSUME TextInv, NEW o \in Objects
    PROVE  \E cap \in Nat :
              /\ TextOf(text[o], items[o], cap) /\ items[o] \in Seq(Elems)
              /\ Len(items[o]) \in Nat /\ Len(items[o]) <= cap
              /\ text[o].size = Len(items[o]) /\ TextCapacity(text[o]) = cap
              /\ Content(text[o]) = items[o]
              /\ text[o].isLong \in BOOLEAN /\ (text[o].isLong <=> text[o].block # 0)
<1>1. PICK cap \in Nat : TextOf(text[o], items[o], cap)
  BY DEF TextInv, TextWhole
<1> QED
  BY <1>1, TextFacts

\* The constructors.
LEMMA ConstructKeeps ==
    ASSUME TextInv, NEW o \in Objects, NEW s \in Seq(Elems), TextConstruct(o, s)
    PROVE  TextInv'
<1>1. BecomesText(o, Constructed(s)) /\ ItemsBecome(o, s)
  BY DEF TextConstruct
<1>2. TextWhole(Constructed(s), s) /\ Constructed(s).block \in {0, NewBlock}
  BY BlockFound, ConstructedHolds
<1> QED
  BY <1>1, <1>2, TextBecomes

\* push_back.
LEMMA PushCharKeeps ==
    ASSUME TextInv, NEW o \in Objects, NEW c \in Values, TextPushBack(o, c)
    PROVE  TextInv'
<1>1. PICK cap \in Nat :
          /\ TextOf(text[o], items[o], cap) /\ items[o] \in Seq(Elems)
          /\ Len(items[o]) \in Nat /\ text[o].size = Len(items[o]) /\ Content(text[o]) = items[o]
  BY TextObject
<1>2. PICK u \in Seq(Elems) : u = Append(items[o], c) /\ Len(u) = Len(items[o]) + 1
  <2>1. c \in Elems
    BY ValuesElems
  <2>2. /\ Append(items[o], c) \in Seq(Elems)
        /\ Len(Append(items[o], c)) = Len(items[o]) + 1
    BY <1>1, <2>1, AppendProperties
  <2> QED
    BY <2>2
<1>3. PICK w : w = PushChar(text[o], c)
  OBVIOUS
<1>4. w = Overwrite(IF Len(u) > TextCapacity(text[o]) THEN ReserveText(text[o], 2 * Len(u))
                    ELSE text[o], u)
  BY <1>1, <1>2, <1>3 DEF PushChar
<1>5. TextWhole(w, u) /\ w.block \in {text[o].block, NewBlock}
  <2>1. 2 * Len(u) \in Nat /\ Len(u) <= 2 * Len(u)
    BY <1>1, <1>2
  <2> QED
    BY <1>1, <1>4, <2>1, BlockFound, LongerHolds
<1>6. BecomesText(o, w) /\ ItemsBecome(o, u)
  BY <1>2, <1>3 DEF TextPushBack
<1> QED
  BY <1>5, <1>6, TextBecomes

\* operator+=.
LEMMA AppendTextKeeps ==
    ASSUME TextInv, NEW o \in Objects, NEW p \in Objects, TextAppend(o, p)
    PROVE  TextInv'
<1>1. PICK cap \in Nat :
          /\ TextOf(text[o], items[o], cap) /\ items[o] \in Seq(Elems)
          /\ Len(items[o]) \in Nat /\ text[o].size = Len(items[o]) /\ Content(text[o]) = items[o]
          /\ TextCapacity(text[o]) = cap
  BY TextObject
<1>2. PICK s \in Seq(Elems) : s = Content(text[p])
  BY TextObject
<1>3. PICK u \in Seq(Elems) : u = items[o] \o s /\ Len(u) = Len(items[o]) + Len(s)
  <2>1. items[o] \o s \in Seq(Elems) /\ Len(items[o] \o s) = Len(items[o]) + Len(s)
    BY <1>1, ConcatProperties
  <2> QED
    BY <2>1
<1>4. PICK n : n = IF 2 * cap > Len(u) THEN 2 * cap ELSE Len(u)
  OBVIOUS
<1>5. PICK w : w = AppendText(text[o], s)
  OBVIOUS
<1>6. w = Overwrite(IF Len(u) > TextCapacity(text[o]) THEN ReserveText(text[o], n) ELSE text[o], u)
  BY <1>1, <1>3, <1>4, <1>5 DEF AppendText
<1>7. TextWhole(w, u) /\ w.block \in {text[o].block, NewBlock}
  <2>1. n \in Nat /\ Len(u) <= n
    BY <1>4, LenProperties
  <2> QED
    BY <1>1, <1>6, <2>1, BlockFound, LongerHolds
<1>8. BecomesText(o, w) /\ ItemsBecome(o, u)
  BY <1>2, <1>3, <1>5 DEF TextAppend
<1> QED
  BY <1>7, <1>8, TextBecomes

\* pop_back.
LEMMA PopBackKeeps ==
    ASSUME TextInv, NEW o \in Objects, TextPopBack(o)
    PROVE  TextInv'
<1>1. PICK cap \in Nat :
          /\ TextOf(text[o], items[o], cap) /\ items[o] \in Seq(Elems)
          /\ Len(items[o]) \in Nat /\ Len(items[o]) <= cap
          /\ text[o].size = Len(items[o]) /\ Content(text[o]) = items[o]
  BY TextObject
<1>2. PICK n \in Nat : n = Len(items[o]) - 1
  BY <1>1 DEF TextPopBack
<1>3. PICK u \in Seq(Elems) : u = Front(items[o]) /\ Len(u) = n
  <2>1. 1 \in Int /\ n \in Int /\ (IF 1 <= n THEN n - 1 + 1 ELSE 0) = n
    BY <1>2
  <2>2. \A k \in 1 .. n : items[o][k] \in Elems
    BY <1>1, <1>2, ElementOfSeq
  <2>3. /\ SubSeq(items[o], 1, n) \in Seq(Elems)
        /\ Len(SubSeq(items[o], 1, n)) = IF 1 <= n THEN n - 1 + 1 ELSE 0
    BY <2>1, <2>2, SubSeqProperties
  <2>4. Front(items[o]) = SubSeq(items[o], 1, n)
    BY <1>2 DEF Front
  <2> QED
    BY <2>1, <2>3, <2>4
<1>4. TextOf(Overwrite(text[o], u), u, cap) /\ Overwrite(text[o], u).block = text[o].block
  <2>1. Len(u) <= cap
    BY <1>1, <1>2, <1>3
  <2> QED
    BY <1>1, <2>1, OverwriteHolds
<1>5. BecomesText(o, Overwrite(text[o], u)) /\ ItemsBecome(o, u)
  BY <1>1, <1>3 DEF TextPopBack
<1> QED
  BY <1>4, <1>5, TextBecomes DEF TextWhole

\* reserve.
LEMMA TextReserveKeeps ==
    ASSUME TextInv, NEW o \in Objects, NEW n \in {SsoCapacity, MaxItems + 1}, TextReserve(o, n)
    PROVE  TextInv'
<1>1. PICK cap \in Nat : TextOf(text[o], items[o], cap)
  BY TextObject
<1>2. n \in Nat
  BY TextAssumption, CollectionsAssumption
<1>3. PICK w : w = ReserveText(text[o], n)
  OBVIOUS
<1>4. TextWhole(w, items[o]) /\ w.block \in {text[o].block, NewBlock}
  BY <1>1, <1>2, <1>3, BlockFound, RoomHolds DEF TextWhole
<1>5. BecomesText(o, w) /\ ItemsBecome(o, items[o])
  BY <1>3 DEF TextReserve, TextInv, ItemsBecome
<1> QED
  BY <1>4, <1>5, TextBecomes

\* What clear and the copy assignment write to: the object itself.
LEMMA InObject ==
    ASSUME TextInv, NEW o \in Objects, NEW t, t = IF text[o].isLong THEN EmptyText ELSE text[o],
           NEW u \in Seq(Elems), Len(u) <= SsoCapacity
    PROVE  TextWhole(Overwrite(t, u), u) /\ Overwrite(t, u).block = 0
<1>1. PICK cap \in Nat :
          /\ TextOf(text[o], items[o], cap)
          /\ text[o].isLong \in BOOLEAN /\ (text[o].isLong <=> text[o].block # 0)
  BY TextObject
<1>2. SsoCapacity \in Nat
  BY TextAssumption
<1>3. \E s : TextOf(t, s, SsoCapacity) /\ t.block = 0
  <2>1. CASE text[o].isLong
    BY <2>1, EmptyHolds
  <2>2. CASE ~text[o].isLong
    <3>1. cap = SsoCapacity
      BY <1>1, <2>2 DEF TextOf
    <3> QED
      BY <1>1, <2>2, <3>1
  <2> QED
    BY <2>1, <2>2
<1> QED
  BY <1>2, <1>3, OverwriteHolds DEF TextWhole

\* clear.
LEMMA ClearKeeps ==
    ASSUME TextInv, NEW o \in Objects, TextClear(o)
    PROVE  TextInv'
<1>1. PICK t : t = IF text[o].isLong THEN EmptyText ELSE text[o]
  OBVIOUS
<1>2. PICK u \in Seq(Elems) : u = <<>> /\ Len(u) = 0
  BY EmptySeq
<1>3. TextWhole(Overwrite(t, u), u) /\ Overwrite(t, u).block = 0
  <2>1. Len(u) <= SsoCapacity
    BY <1>2, TextAssumption
  <2> QED
    BY <1>1, <2>1, InObject
<1>4. BecomesText(o, Overwrite(t, u)) /\ ItemsBecome(o, u)
  BY <1>1, <1>2 DEF TextClear
<1> QED
  BY <1>3, <1>4, TextBecomes

\* The copy assignment.
LEMMA CopyAssignKeeps ==
    ASSUME TextInv, NEW o \in Objects, TextCopyAssign(o)
    PROVE  TextInv'
<1>1. PICK s \in Seq(Elems) : s = Content(text[Peer(o)])
  <2>1. Peer(o) \in Objects
    BY PeerFacts
  <2> QED
    BY <2>1, TextObject
<1>2. PICK t : t = IF text[o].isLong THEN EmptyText ELSE text[o]
  OBVIOUS
<1>3. PICK w : w = IF Len(s) <= SsoCapacity THEN Overwrite(t, s) ELSE InBlock(s, Len(s))
  OBVIOUS
<1>4. TextWhole(w, s) /\ w.block \in {0, NewBlock}
  <2>1. CASE Len(s) <= SsoCapacity
    BY <1>2, <1>3, <2>1, InObject
  <2>2. CASE ~ (Len(s) <= SsoCapacity)
    <3>1. Len(s) \in Nat /\ Len(s) <= Len(s)
      BY LenProperties
    <3>2. TextOf(InBlock(s, Len(s)), s, Len(s)) /\ InBlock(s, Len(s)).block = NewBlock
      BY <3>1, BlockFound, InBlockHolds
    <3> QED
      BY <1>3, <2>2, <3>1, <3>2 DEF TextWhole
  <2> QED
    BY <2>1, <2>2
<1>5. BecomesText(o, w) /\ ItemsBecome(o, s)
  BY <1>1, <1>2, <1>3 DEF TextCopyAssign
<1> QED
  BY <1>4, <1>5, TextBecomes

\* substr.
LEMMA SubstrKeeps ==
    ASSUME TextInv, NEW o \in Objects, NEW pos \in 0 .. MaxItems, NEW n \in 0 .. MaxItems,
           TextSubstr(o, pos, n)
    PROVE  TextInv'
<1>1. PICK t : t = text[Peer(o)]
  OBVIOUS
<1>2. PICK cap \in Nat, size \in Nat :
          /\ t.size = size /\ size <= cap /\ t.cells \in Seq(Elems) /\ DOMAIN t.cells = 1 .. cap + 1
  <2>1. Peer(o) \in Objects
    BY PeerFacts
  <2>2. PICK cap \in Nat : TextOf(t, items[Peer(o)], cap)
    BY <1>1, <2>1, TextObject
  <2>3. /\ Len(items[Peer(o)]) \in Nat /\ t.size = Len(items[Peer(o)]) /\ Len(items[Peer(o)]) <= cap
        /\ t.cells \in Seq(Elems) /\ DOMAIN t.cells = 1 .. cap + 1
    BY <2>2, TextFacts
  <2> QED
    BY <2>3
<1>3. PICK m : m = IF n < size - pos THEN n ELSE size - pos
  OBVIOUS
<1>4. pos <= size /\ pos \in Nat /\ n \in Nat
  BY <1>1, <1>2, CollectionsAssumption DEF TextSubstr
<1>5. m \in Nat /\ pos + m <= size
  BY <1>3, <1>4
<1>6. PICK s \in Seq(Elems) : s = SubSeq(t.cells, pos + 1, pos + m)
  <2>1. pos + 1 \in Int /\ pos + m \in Int
    BY <1>4, <1>5
  <2>2. \A k \in pos + 1 .. pos + m : t.cells[k] \in Elems
    <3> TAKE k \in pos + 1 .. pos + m
    <3>1. k \in 1 .. cap + 1
      BY <1>2, <1>4, <1>5
    <3> QED
      BY <1>2, <3>1, ElementOfSeq, LenProperties
  <2>3. SubSeq(t.cells, pos + 1, pos + m) \in Seq(Elems)
    BY <2>1, <2>2, SubSeqProperties
  <2> QED
    BY <2>3
<1>7. TextConstruct(o, s)
  BY <1>1, <1>2, <1>3, <1>6 DEF TextSubstr
<1> QED
  BY <1>7, ConstructKeeps

\* The move constructor and assignment.
LEMMA TextMoveKeeps ==
    ASSUME TextInv, NEW o \in Objects, TextMove(o)
    PROVE  TextInv'
<1>1. PICK p : p = Peer(o)
  OBVIOUS
<1>2. p \in Objects /\ p # o /\ Objects = {o, p} /\ Peer(p) = o
  <2>1. p \in Objects /\ p # o /\ Objects = {o, p}
    BY <1>1, PeerFacts
  <2>2. Peer(p) \in Objects /\ Peer(p) # p
    BY <2>1, PeerFacts
  <2> QED
    BY <2>1, <2>2
<1>3. TextWhole(EmptyText, <<>>) /\ EmptyText.block = 0
  BY EmptyHolds, TextAssumption DEF TextWhole
<1>4. EmptyText \in Texts /\ <<>> \in Seq(Elems)
  BY <1>3, TextTyped
<1>5. /\ text' = [text EXCEPT ![o] = text[p], ![p] = EmptyText]
      /\ items' = [items EXCEPT ![o] = items[p], ![p] = <<>>]
      /\ blocks' = blocks \ {text[o].block}
  BY <1>1 DEF TextMove, ItemsBothBecome
<1>6. text' \in [Objects -> Texts] /\ items' \in [Objects -> Seq(Elems)]
  BY <1>2, <1>4, <1>5 DEF TextInv
<1>7. text'[o] = text[p] /\ items'[o] = items[p] /\ text'[p] = EmptyText /\ items'[p] = <<>>
  BY <1>2, <1>5 DEF TextInv
<1>8. \A q \in Objects : TextWhole(text'[q], items'[q])
  BY <1>2, <1>3, <1>7 DEF TextInv
<1>9. PICK b, c : b = text[o].block /\ c = text[p].block
  OBVIOUS
<1>10. blocks = {b, c} \ {0} /\ (b # 0 => b # c)
  BY <1>1, <1>9, TextBlocks
<1>11. blocks' = {c, 0} \ {0}
  BY <1>5, <1>9, <1>10
<1>12. blocks' = {text'[q].block : q \in Objects} \ {0}
  BY <1>2, <1>3, <1>7, <1>9, <1>11
<1>13. \A q \in Objects : text'[q].block # 0 => text'[q].block # text'[Peer(q)].block
  BY <1>1, <1>2, <1>3, <1>7
<1> QED
  BY <1>6, <1>8, <1>12, <1>13 DEF TextInv

\* Texts start without a character.
LEMMA TextStarts ==
    ASSUME TextInit
    PROVE  TextInv
<1>1. text = [o \in Objects |-> EmptyText] /\ blocks = {} /\ items = [o \in Objects |-> <<>>]
  BY DEF TextInit, ItemsInit
<1>2. TextWhole(EmptyText, <<>>) /\ EmptyText.block = 0
  BY EmptyHolds, TextAssumption DEF TextWhole
<1>3. EmptyText \in Texts /\ <<>> \in Seq(Elems)
  BY <1>2, TextTyped
<1> QED
  BY <1>1, <1>2, <1>3 DEF TextInv

\* Each call keeps the characters where they should be.
LEMMA TextKeeps ==
    ASSUME TextInv, [TextNext]_textVars
    PROVE  TextInv'
<1>1. ASSUME NEW o \in Objects, NEW c \in Values, TextPushBack(o, c) \/ TextConstruct(o, <<c, 1, c>>)
      PROVE  TextInv'
  <2>1. PICK s \in Seq(Elems) : s = <<c, 1, c>>
    BY ValuesSeq
  <2> QED
    BY <1>1, <2>1, PushCharKeeps, ConstructKeeps
<1>2. ASSUME NEW o \in Objects,
             \/ \E n \in {SsoCapacity, MaxItems + 1} : TextReserve(o, n)
             \/ \E n, pos \in 0 .. MaxItems : TextSubstr(o, pos, n)
             \/ \E p \in Objects : TextAppend(o, p)
      PROVE  TextInv'
  BY <1>2, TextReserveKeeps, SubstrKeeps, AppendTextKeeps
<1>3. ASSUME NEW o \in Objects, TextCopyConstruct(o)
      PROVE  TextInv'
  <2>1. Peer(o) \in Objects
    BY PeerFacts
  <2>2. PICK s \in Seq(Elems) : s = Content(text[Peer(o)])
    BY <2>1, TextObject
  <2> QED
    BY <1>3, <2>2, ConstructKeeps DEF TextCopyConstruct
<1>4. ASSUME NEW o \in Objects, TextPopBack(o) \/ TextClear(o) \/ TextCopyAssign(o) \/ TextMove(o)
      PROVE  TextInv'
  BY <1>4, PopBackKeeps, ClearKeeps, CopyAssignKeeps, TextMoveKeeps
<1>5. CASE UNCHANGED textVars
  BY <1>5 DEF textVars, TextInv
<1> QED
  BY <1>1, <1>2, <1>3, <1>4, <1>5 DEF TextNext

\* The invariant is what was to be shown.
LEMMA TextTells ==
    ASSUME TextInv
    PROVE  TextHolds
<1>1. ASSUME NEW o \in Objects
      PROVE  /\ text[o].size <= TextCapacity(text[o]) /\ Content(text[o]) = items[o]
             /\ text[o].cells[text[o].size + 1] = Terminator
             /\ (text[o].isLong <=> text[o].block # 0)
  <2>1. PICK cap \in Nat : TextOf(text[o], items[o], cap)
    BY TextObject
  <2>2. /\ text[o].size = Len(items[o]) /\ TextCapacity(text[o]) = cap /\ Len(items[o]) <= cap
        /\ Content(text[o]) = items[o] /\ text[o].cells[text[o].size + 1] = Terminator
    BY <2>1, TextFacts
  <2>3. text[o].isLong <=> text[o].block # 0
    BY <2>1, TextFacts, Zenon
  <2> QED
    BY <2>2, <2>3
<1>2. "a" \in Objects /\ Peer("a") = "b"
  <2>1. "a" \in Objects /\ Objects = {"a", "b"}
    BY DEF Objects
  <2>2. Peer("a") \in Objects /\ Peer("a") # "a"
    BY <2>1, PeerFacts
  <2> QED
    BY <2>1, <2>2
<1>3. text["a"].isLong => text["a"].block # text["b"].block
  BY <1>1, <1>2 DEF TextInv
<1>4. blocks = {text[o].block : o \in Objects} \ {0}
  BY DEF TextInv
<1> QED
  BY <1>1, <1>3, <1>4 DEF TextHolds

\* Whatever SSO_Capacity is, and however long texts grow: across the border of
\* what fits in the object a text keeps its characters and its terminator, and
\* every allocation has exactly one owner.
THEOREM TextsKeepCharacters == TextSpec => []TextsHold
<1>1. TextInit => TextInv
  BY TextStarts
<1>2. ASSUME TextInv, [TextNext /\ UNCHANGED subject]_<<textVars, subject>>
      PROVE  TextInv'
  <2>1. [TextNext]_textVars
    BY <1>2
  <2> QED
    BY <1>2, <2>1, TextKeeps
<1>3. TextInv => TextsHold
  BY TextTells DEF TextsHold
<1> QED
  BY <1>1, <1>2, <1>3, PTL DEF TextSpec

-----------------------------------------------------------------------------
(* Sequences of blocks.                                                    *)

\* What FlattenSeq computes, up to the n-th part.
Flattens(g, s, n) == g = [i \in 1 .. n |-> IF i = 1 THEN s[i] ELSE g[i - 1] \o s[i]]

\* There is such a function.
LEMMA FlattensExist ==
    ASSUME NEW s, NEW n \in Nat
    PROVE  \E g : Flattens(g, s, n)
<1> DEFINE T == {m \in Nat : \E g : Flattens(g, s, m)}
<1>1. 0 \in T
  <2>1. Flattens(<<>>, s, 0)
    BY DEF Flattens
  <2> QED
    BY <2>1
<1>2. ASSUME NEW m \in Nat \ {0}, m - 1 \in T
      PROVE  m \in T
  <2>1. PICK g : Flattens(g, s, m - 1)
    BY <1>2
  <2>2. \A i \in 1 .. m - 1 : g[i] = IF i = 1 THEN s[i] ELSE g[i - 1] \o s[i]
    BY <2>1 DEF Flattens
  <2>3. PICK h : h = [i \in 1 .. m |-> IF i = m THEN (IF i = 1 THEN s[i] ELSE g[i - 1] \o s[i]) ELSE g[i]]
    OBVIOUS
  <2>4. ASSUME NEW i \in 1 .. m
        PROVE  h[i] = IF i = 1 THEN s[i] ELSE h[i - 1] \o s[i]
    <3>1. i # 1 => h[i - 1] = g[i - 1]
      BY <2>3
    <3>2. CASE i = m
      BY <2>3, <3>1, <3>2
    <3>3. CASE i # m
      <4>1. i \in 1 .. m - 1
        BY <3>3
      <4> QED
        BY <2>2, <2>3, <3>1, <3>3, <4>1
    <3> QED
      BY <3>2, <3>3
  <2>5. h = [i \in 1 .. m |-> h[i]]
    BY <2>3
  <2>6. Flattens(h, s, m)
    BY <2>4, <2>5 DEF Flattens
  <2> QED
    BY <2>6
<1>3. T = Nat
  <2>1. T \in SUBSET Nat
    OBVIOUS
  <2> HIDE DEF T
  <2> QED
    BY <1>1, <1>2, <2>1, NatSteps
<1> QED
  BY <1>3

\* The same, for a function on more parts.
FlatTo(g, s, n) == \A i \in 1 .. n : g[i] = IF i = 1 THEN s[i] ELSE g[i - 1] \o s[i]

\* Sequences with the same first n parts.
SameTo(s, r, n) == \A i \in 1 .. n : s[i] = r[i]

\* It depends on the parts alone.
LEMMA FlattensAgree ==
    ASSUME NEW s, NEW r, NEW n \in Nat, SameTo(s, r, n),
           NEW g, FlatTo(g, s, n), NEW h, FlatTo(h, r, n)
    PROVE  \A i \in 1 .. n : g[i] = h[i]
<1> DEFINE T == {m \in Nat : m \in 1 .. n => g[m] = h[m]}
<1>1. 0 \in T
  OBVIOUS
<1>2. ASSUME NEW m \in Nat \ {0}, m - 1 \in T
      PROVE  m \in T
  <2> SUFFICES ASSUME m \in 1 .. n PROVE g[m] = h[m]
    OBVIOUS
  <2>1. m # 1 => g[m - 1] = h[m - 1]
    BY <1>2
  <2>2. /\ g[m] = IF m = 1 THEN s[m] ELSE g[m - 1] \o s[m]
        /\ h[m] = IF m = 1 THEN r[m] ELSE h[m - 1] \o r[m]
        /\ s[m] = r[m]
    BY DEF FlatTo, SameTo
  <2> QED
    BY <2>1, <2>2
<1>3. T = Nat
  <2>1. T \in SUBSET Nat
    OBVIOUS
  <2> HIDE DEF T
  <2> QED
    BY <1>1, <1>2, <2>1, NatSteps
<1> QED
  BY <1>3

\* It is made of what the parts are made of.
LEMMA FlattensTyped ==
    ASSUME NEW S, NEW s \in Seq(Seq(S)), NEW g, FlatTo(g, s, Len(s))
    PROVE  \A i \in 1 .. Len(s) : g[i] \in Seq(S)
<1> DEFINE T == {m \in Nat : m \in 1 .. Len(s) => g[m] \in Seq(S)}
<1>1. 0 \in T
  OBVIOUS
<1>2. ASSUME NEW m \in Nat \ {0}, m - 1 \in T
      PROVE  m \in T
  <2> SUFFICES ASSUME m \in 1 .. Len(s) PROVE g[m] \in Seq(S)
    OBVIOUS
  <2>1. s[m] \in Seq(S) /\ Len(s) \in Nat
    BY ElementOfSeq, LenProperties
  <2>2. m # 1 => g[m - 1] \in Seq(S)
    BY <1>2, <2>1
  <2>3. g[m] = IF m = 1 THEN s[m] ELSE g[m - 1] \o s[m]
    BY DEF FlatTo
  <2> QED
    BY <2>1, <2>2, <2>3, ConcatProperties
<1>3. T = Nat
  <2>1. T \in SUBSET Nat
    OBVIOUS
  <2> HIDE DEF T
  <2> QED
    BY <1>1, <1>2, <2>1, NatSteps
<1> QED
  BY <1>3, LenProperties

\* So FlattenSeq has such a function.
LEMMA FlattenIs ==
    ASSUME NEW S, NEW s \in Seq(Seq(S)), s # <<>>
    PROVE  \E g : FlatTo(g, s, Len(s)) /\ FlattenSeq(s) = g[Len(s)] /\ g[Len(s)] \in Seq(S)
<1>1. Len(s) \in Nat /\ Len(s) # 0
  BY LenProperties, EmptySeq
<1> DEFINE Eq(g) == g = [i \in 1 .. Len(s) |-> IF i = 1 THEN s[i] ELSE g[i - 1] \o s[i]]
           flat == CHOOSE g : Eq(g)
<1>2. \E g : Eq(g)
  BY <1>1, FlattensExist DEF Flattens
<1>3. Eq(flat)
  <2> HIDE DEF Eq
  <2> QED
    BY <1>2
<1>4. FlattenSeq(s) = flat[Len(s)]
  BY <1>1 DEF FlattenSeq
<1>5. FlatTo(flat, s, Len(s))
  <2> HIDE DEF flat
  <2> QED
    BY <1>3 DEF FlatTo
<1>6. PICK g : g = flat
  OBVIOUS
<1> HIDE DEF flat
<1>7. \A i \in 1 .. Len(s) : g[i] \in Seq(S)
  BY <1>5, <1>6, FlattensTyped
<1>8. Len(s) \in 1 .. Len(s)
  BY <1>1
<1> QED
  BY <1>4, <1>5, <1>6, <1>7, <1>8

\* FlattenSeq, part by part.
LEMMA FlattenSteps ==
    ASSUME NEW S, NEW s \in Seq(Seq(S)), NEW x \in Seq(S)
    PROVE  /\ FlattenSeq(<<>>) = <<>> /\ FlattenSeq(s) \in Seq(S)
           /\ FlattenSeq(Append(s, x)) = FlattenSeq(s) \o x
<1>1. FlattenSeq(<<>>) = <<>>
  BY DEF FlattenSeq
<1>2. FlattenSeq(s) \in Seq(S)
  <2>1. CASE s = <<>>
    BY <1>1, <2>1, EmptySeq
  <2>2. CASE s # <<>>
    BY <2>2, FlattenIs
  <2> QED
    BY <2>1, <2>2
<1>3. PICK r \in Seq(Seq(S)) : r = Append(s, x)
  <2>1. Append(s, x) \in Seq(Seq(S))
    BY AppendProperties
  <2> QED
    BY <2>1
<1>4. /\ Len(s) \in Nat /\ Len(r) = Len(s) + 1 /\ r[Len(s) + 1] = x
      /\ \A i \in 1 .. Len(s) : r[i] = s[i]
  BY <1>3, AppendProperties, LenProperties
<1>5. r # <<>>
  BY <1>4, EmptySeq
<1>6. PICK h : FlatTo(h, r, Len(r)) /\ FlattenSeq(r) = h[Len(r)]
  BY <1>5, FlattenIs
<1>7. h[Len(r)] = IF Len(r) = 1 THEN r[Len(r)] ELSE h[Len(r) - 1] \o r[Len(r)]
  <2>1. Len(r) \in 1 .. Len(r)
    BY <1>4
  <2> QED
    BY <1>6, <2>1 DEF FlatTo
<1>8. CASE s = <<>>
  <2>1. Len(s) = 0 /\ <<>> \o x = x
    BY <1>8, EmptySeq, ConcatEmptySeq
  <2>2. FlattenSeq(r) = x
    BY <1>4, <1>6, <1>7, <2>1
  <2> QED
    BY <1>1, <1>2, <1>3, <1>8, <2>1, <2>2
<1>9. CASE s # <<>>
  <2>1. Len(s) # 0
    BY <1>9, EmptySeq
  <2>2. PICK g : FlatTo(g, s, Len(s)) /\ FlattenSeq(s) = g[Len(s)]
    BY <1>9, FlattenIs
  <2>3. FlatTo(h, r, Len(s))
    <3>1. \A i \in 1 .. Len(s) : i \in 1 .. Len(r)
      BY <1>4
    <3> QED
      BY <1>6, <3>1 DEF FlatTo
  <2>4. \A i \in 1 .. Len(s) : g[i] = h[i]
    <3>1. SameTo(s, r, Len(s))
      BY <1>4 DEF SameTo
    <3> QED
      BY <1>4, <2>2, <2>3, <3>1, FlattensAgree
  <2>5. h[Len(s)] = FlattenSeq(s)
    <3>1. Len(s) \in 1 .. Len(s)
      BY <1>4, <2>1
    <3> QED
      BY <2>2, <2>4, <3>1
  <2>6. FlattenSeq(r) = h[Len(s)] \o x
    <3>1. Len(r) # 1 /\ Len(r) - 1 = Len(s)
      BY <1>4, <2>1
    <3> QED
      BY <1>4, <1>6, <1>7, <3>1
  <2> QED
    BY <1>1, <1>2, <1>3, <2>5, <2>6
<1> QED
  BY <1>8, <1>9

-----------------------------------------------------------------------------
(* Sha256.                                                                 *)

\* Bytes, and the marks that stand for those of the padding.
Bytes == Int
Blocks == {f \in Seq(Bytes) : Len(f) = BlockSize}

\* The bytes q have been read: into the blocks p, and the first n of the buffer f.
Reads(p, f, n, q) ==
    /\ p \in Seq(Seq(Bytes)) /\ f \in Blocks /\ n \in 0 .. BlockSize /\ q \in Seq(Bytes)
    /\ FlattenSeq(p) \o SubSeq(f, 1, n) = q
    /\ \E m \in Nat : Len(FlattenSeq(p)) = m * BlockSize

\* What that means.
LEMMA ReadsFacts ==
    ASSUME NEW p, NEW f, NEW n, NEW q, Reads(p, f, n, q)
    PROVE  /\ p \in Seq(Seq(Bytes)) /\ f \in Seq(Bytes) /\ Len(f) = BlockSize /\ DOMAIN f = 1 .. BlockSize
           /\ n \in Nat /\ n <= BlockSize /\ q \in Seq(Bytes)
           /\ FlattenSeq(p) \in Seq(Bytes) /\ SubSeq(f, 1, n) \in Seq(Bytes)
           /\ Len(SubSeq(f, 1, n)) = n /\ \A i \in 1 .. n : SubSeq(f, 1, n)[i] = f[i]
           /\ FlattenSeq(p) \o SubSeq(f, 1, n) = q
           /\ Len(q) = Len(FlattenSeq(p)) + n
<1>1. /\ p \in Seq(Seq(Bytes)) /\ f \in Seq(Bytes) /\ Len(f) = BlockSize /\ DOMAIN f = 1 .. BlockSize
      /\ n \in Nat /\ n <= BlockSize /\ q \in Seq(Bytes)
      /\ FlattenSeq(p) \o SubSeq(f, 1, n) = q
  BY Sha256Assumption, LenProperties DEF Reads, Blocks
<1>2. FlattenSeq(p) \in Seq(Bytes)
  <2>1. <<>> \in Seq(Bytes)
    BY EmptySeq
  <2> QED
    BY <1>1, <2>1, FlattenSteps
<1>3. /\ SubSeq(f, 1, n) \in Seq(Bytes) /\ Len(SubSeq(f, 1, n)) = n
      /\ \A i \in 1 .. n : SubSeq(f, 1, n)[i] = f[i]
  <2>1. 1 \in Int /\ n \in Int /\ (IF 1 <= n THEN n - 1 + 1 ELSE 0) = n
    BY <1>1
  <2>2. \A i \in 1 .. n : f[i] \in Bytes
    BY <1>1, ElementOfSeq
  <2>3. /\ SubSeq(f, 1, n) \in Seq(Bytes)
        /\ Len(SubSeq(f, 1, n)) = IF 1 <= n THEN n - 1 + 1 ELSE 0
        /\ \A i \in 1 .. n - 1 + 1 : SubSeq(f, 1, n)[i] = f[1 + i - 1]
    BY <2>1, <2>2, SubSeqProperties
  <2>4. \A i \in 1 .. n : i \in 1 .. n - 1 + 1 /\ 1 + i - 1 = i
    BY <1>1
  <2> QED
    BY <2>1, <2>3, <2>4
<1>4. Len(q) = Len(FlattenSeq(p)) + n
  <2>1. Len(FlattenSeq(p) \o SubSeq(f, 1, n)) = Len(FlattenSeq(p)) + Len(SubSeq(f, 1, n))
    BY <1>2, <1>3, ConcatProperties
  <2> QED
    BY <1>1, <1>3, <2>1
<1> QED
  BY <1>1, <1>2, <1>3, <1>4

\* More bytes, behind those in the buffer.
LEMMA ReadsMore ==
    ASSUME NEW p, NEW f, NEW n, NEW q, Reads(p, f, n, q),
           NEW w \in Seq(Bytes), n + Len(w) <= BlockSize, NEW g \in Blocks,
           \A i \in 1 .. n : g[i] = f[i],
           \A i \in 1 .. Len(w) : g[n + i] = w[i]
    PROVE  Reads(p, g, n + Len(w), q \o w)
<1>1. /\ p \in Seq(Seq(Bytes)) /\ n \in Nat /\ q \in Seq(Bytes) /\ Len(w) \in Nat
      /\ FlattenSeq(p) \in Seq(Bytes) /\ SubSeq(f, 1, n) \in Seq(Bytes)
      /\ Len(SubSeq(f, 1, n)) = n /\ \A i \in 1 .. n : SubSeq(f, 1, n)[i] = f[i]
      /\ FlattenSeq(p) \o SubSeq(f, 1, n) = q
  <2>1. Len(w) \in Nat
    BY LenProperties
  <2>2. FlattenSeq(p) \o SubSeq(f, 1, n) = q
    BY DEF Reads
  <2>3. /\ p \in Seq(Seq(Bytes)) /\ n \in Nat /\ q \in Seq(Bytes)
        /\ FlattenSeq(p) \in Seq(Bytes) /\ SubSeq(f, 1, n) \in Seq(Bytes)
        /\ Len(SubSeq(f, 1, n)) = n /\ \A i \in 1 .. n : SubSeq(f, 1, n)[i] = f[i]
    BY ReadsFacts
  <2> QED
    BY <2>1, <2>2, <2>3
<1>2. PICK k \in Nat : k = n + Len(w) /\ k <= BlockSize
  BY <1>1
<1>3. PICK r \in Seq(Bytes) : r = SubSeq(f, 1, n)
  BY <1>1
<1>4. PICK t \in Seq(Bytes) : t = SubSeq(g, 1, k) /\ Len(t) = k /\ \A i \in 1 .. k : t[i] = g[i]
  <2>1. 1 \in Int /\ k \in Int /\ (IF 1 <= k THEN k - 1 + 1 ELSE 0) = k
    BY <1>2
  <2>2. \A i \in 1 .. k : g[i] \in Bytes
    <3>1. g \in Seq(Bytes) /\ Len(g) = BlockSize
      BY DEF Blocks
    <3>2. \A i \in 1 .. k : i \in 1 .. Len(g)
      BY <1>2, <3>1, Sha256Assumption
    <3> QED
      BY <3>1, <3>2, ElementOfSeq
  <2>3. /\ SubSeq(g, 1, k) \in Seq(Bytes)
        /\ Len(SubSeq(g, 1, k)) = IF 1 <= k THEN k - 1 + 1 ELSE 0
        /\ \A i \in 1 .. k - 1 + 1 : SubSeq(g, 1, k)[i] = g[1 + i - 1]
    BY <2>1, <2>2, SubSeqProperties
  <2>4. \A i \in 1 .. k : i \in 1 .. k - 1 + 1 /\ 1 + i - 1 = i
    BY <1>2
  <2>5. Len(SubSeq(g, 1, k)) = k /\ \A i \in 1 .. k : SubSeq(g, 1, k)[i] = g[i]
    BY <2>1, <2>3, <2>4
  <2> QED
    BY <2>3, <2>5
<1>5. PICK u \in Seq(Bytes) :
          /\ u = r \o w /\ Len(u) = k
          /\ \A i \in 1 .. k : u[i] = IF i <= n THEN r[i] ELSE w[i - n]
  <2>1. /\ r \o w \in Seq(Bytes) /\ Len(r \o w) = Len(r) + Len(w)
        /\ \A i \in 1 .. Len(r) + Len(w) :
               (r \o w)[i] = IF i <= Len(r) THEN r[i] ELSE w[i - Len(r)]
    BY <1>3, ConcatProperties
  <2>2. Len(r) = n
    BY <1>1, <1>3
  <2> QED
    BY <1>2, <2>1, <2>2
<1>6. \A i \in 1 .. k : t[i] = u[i]
  <2> TAKE i \in 1 .. k
  <2>1. CASE i <= n
    <3>1. i \in 1 .. n
      BY <1>1, <2>1
    <3>2. r[i] = f[i]
      BY <1>1, <1>3, <3>1
    <3> QED
      BY <1>4, <1>5, <2>1, <3>1, <3>2
  <2>2. CASE ~ (i <= n)
    <3>1. i - n \in 1 .. Len(w) /\ n + (i - n) = i
      BY <1>1, <1>2, <2>2
    <3>2. g[i] = w[i - n]
      BY <3>1
    <3> QED
      BY <1>4, <1>5, <2>2, <3>2
  <2> QED
    BY <2>1, <2>2
<1>7. t = u
  BY <1>4, <1>5, <1>6, SeqEqual
<1>8. FlattenSeq(p) \o (r \o w) = (FlattenSeq(p) \o r) \o w
  <2>1. Three(Bytes, FlattenSeq(p), r, w)
    BY <1>1 DEF Three
  <2>2. Regrouped(FlattenSeq(p), r, w)
    BY <2>1, RegroupThree
  <2> QED
    BY <2>2 DEF Regrouped
<1>9. FlattenSeq(p) \o SubSeq(g, 1, k) = q \o w
  BY <1>1, <1>3, <1>4, <1>5, <1>7, <1>8
<1>10. q \o w \in Seq(Bytes)
  BY <1>1, ConcatProperties
<1>11. \E m \in Nat : Len(FlattenSeq(p)) = m * BlockSize
  BY DEF Reads
<1>12. k \in 0 .. BlockSize
  BY <1>2, Sha256Assumption
<1> QED
  BY <1>1, <1>2, <1>9, <1>10, <1>11, <1>12 DEF Reads

\* None of them.
LEMMA NoneRead ==
    ASSUME NEW S, NEW t \in Seq(S)
    PROVE  SubSeq(t, 1, 0) = <<>>
OBVIOUS

\* A full buffer becomes a block.
LEMMA ReadsBlock ==
    ASSUME NEW p, NEW f, NEW q, Reads(p, f, BlockSize, q), NEW g \in Blocks
    PROVE  Reads(Append(p, f), g, 0, q) /\ FlattenSeq(Append(p, f)) = q
<1>1. /\ p \in Seq(Seq(Bytes)) /\ f \in Seq(Bytes) /\ Len(f) = BlockSize /\ q \in Seq(Bytes)
      /\ FlattenSeq(p) \in Seq(Bytes) /\ SubSeq(f, 1, BlockSize) \in Seq(Bytes)
      /\ Len(SubSeq(f, 1, BlockSize)) = BlockSize
      /\ \A i \in 1 .. BlockSize : SubSeq(f, 1, BlockSize)[i] = f[i]
      /\ FlattenSeq(p) \o SubSeq(f, 1, BlockSize) = q
      /\ Len(q) = Len(FlattenSeq(p)) + BlockSize
  BY ReadsFacts, SMTT(20)
<1>2. SubSeq(f, 1, BlockSize) = f
  <2>1. PICK t \in Seq(Bytes) : t = SubSeq(f, 1, BlockSize)
    BY <1>1
  <2>2. Len(t) = Len(f) /\ \A i \in 1 .. Len(t) : t[i] = f[i]
    BY <1>1, <2>1
  <2> QED
    BY <1>1, <2>1, <2>2, SeqEqual
<1>3. FlattenSeq(Append(p, f)) = q
  <2>1. FlattenSeq(Append(p, f)) = FlattenSeq(p) \o f
    BY <1>1, FlattenSteps
  <2> QED
    BY <1>1, <1>2, <2>1
<1>4. Append(p, f) \in Seq(Seq(Bytes))
  BY <1>1, AppendProperties
<1>5. SubSeq(g, 1, 0) = <<>>
  BY NoneRead DEF Blocks
<1>6. q \o <<>> = q
  BY <1>1, ConcatEmptySeq
<1>7. \E m \in Nat : Len(q) = m * BlockSize
  <2>1. PICK m \in Nat : Len(FlattenSeq(p)) = m * BlockSize
    BY DEF Reads
  <2>2. Len(q) = (m + 1) * BlockSize
    BY <1>1, <2>1, Sha256Assumption
  <2> QED
    BY <2>2
<1>8. 0 \in 0 .. BlockSize
  BY Sha256Assumption
<1> QED
  BY <1>1, <1>3, <1>4, <1>5, <1>6, <1>7, <1>8 DEF Reads

\* An object that has read the bytes q, of c that it was given.
NotFinal == FALSE
DigestOf(p, f, n, c) == [buf |-> f, bufLen |-> n, count |-> c, processed |-> p, final |-> NotFinal]
ReadBy(d, q, c) ==
    \E p, f, n : Reads(p, f, n, q) /\ n < BlockSize /\ c \in Nat /\ d = DigestOf(p, f, n, c)

\* A buffer and how much of it is taken.
Buffered(d, g, m) == [d EXCEPT !.buf = g, !.bufLen = m]

\* The fields set one after the other.
LEMMA BufferSet ==
    ASSUME NEW p, NEW f, NEW n, NEW c, NEW d, d = DigestOf(p, f, n, c), NEW g, NEW m
    PROVE  Buffered(d, g, m) = DigestOf(p, g, m, c)
<1>1. PICK e : e = [d EXCEPT !.buf = g]
  OBVIOUS
<1>2. e = DigestOf(p, g, n, c)
  BY <1>1 DEF DigestOf
<1>3. [e EXCEPT !.bufLen = m] = DigestOf(p, g, m, c)
  BY <1>2 DEF DigestOf
<1> QED
  BY <1>1, <1>3, Zenon DEF Buffered

\* processBlock.
LEMMA BlockTaken ==
    ASSUME NEW p, NEW f, NEW n, NEW c, NEW d, d = DigestOf(p, f, n, c)
    PROVE  ProcessBlock(d) = DigestOf(Append(p, f), f, 0, c)
<1>1. PICK r : r = Append(p, f)
  OBVIOUS
<1>2. PICK e : e = [d EXCEPT !.processed = r]
  OBVIOUS
<1>3. d.processed = p /\ d.buf = f /\ e = DigestOf(r, f, n, c)
  BY <1>2 DEF DigestOf
<1>4. [e EXCEPT !.bufLen = 0] = DigestOf(r, f, 0, c)
  BY <1>3 DEF DigestOf
<1>5. [d EXCEPT !.processed = r, !.bufLen = 0] = DigestOf(r, f, 0, c)
  BY <1>2, <1>4, Zenon
<1>6. ProcessBlock(d) = [d EXCEPT !.processed = r, !.bufLen = 0]
  BY <1>1, <1>3 DEF ProcessBlock
<1> QED
  BY <1>1, <1>5, <1>6

\* Such objects.
Digests == {d \in [buf : Seq(Bytes), bufLen : Nat, count : Nat, processed : Seq(Seq(Bytes)), final : BOOLEAN] :
                \E q \in Seq(Bytes), c \in Nat : ReadBy(d, q, c)}

\* Such objects are typed, and not final.
LEMMA ReadTyped ==
    ASSUME NEW d, NEW q, NEW c, ReadBy(d, q, c)
    PROVE  d \in Digests /\ q \in Seq(Bytes) /\ c \in Nat /\ d.count = c /\ ~d.final
<1>1. PICK p, f, n : Reads(p, f, n, q) /\ n < BlockSize /\ c \in Nat /\ d = DigestOf(p, f, n, c)
  BY DEF ReadBy
<1>2. p \in Seq(Seq(Bytes)) /\ f \in Seq(Bytes) /\ n \in Nat /\ q \in Seq(Bytes)
  BY <1>1, ReadsFacts
<1>3. d = [buf |-> f, bufLen |-> n, count |-> c, processed |-> p, final |-> FALSE]
  BY <1>1 DEF DigestOf, NotFinal
<1>4. d \in [buf : Seq(Bytes), bufLen : Nat, count : Nat, processed : Seq(Seq(Bytes)), final : BOOLEAN]
  BY <1>1, <1>2, <1>3
<1> QED
  BY <1>1, <1>2, <1>3, <1>4 DEF Digests

\* The same byte, k times.
Run(k, b) == [i \in 1 .. k |-> b]

\* They are as many.
LEMMA RunTyped ==
    ASSUME NEW k \in Nat, NEW b \in Bytes
    PROVE  Run(k, b) \in Seq(Bytes) /\ Len(Run(k, b)) = k /\ \A i \in 1 .. k : Run(k, b)[i] = b
BY DEF Run

\* Two runs are one.
LEMMA RunsJoin ==
    ASSUME NEW k \in Nat, NEW m \in Nat, NEW b \in Bytes
    PROVE  Run(k, b) \o Run(m, b) = Run(k + m, b)
<1>1. PICK s \in Seq(Bytes), t \in Seq(Bytes), u \in Seq(Bytes) :
          /\ s = Run(k, b) /\ t = Run(m, b) /\ u = Run(k + m, b)
          /\ Len(s) = k /\ Len(t) = m /\ Len(u) = k + m
          /\ \A i \in 1 .. k : s[i] = b
          /\ \A i \in 1 .. m : t[i] = b
          /\ \A i \in 1 .. k + m : u[i] = b
  <2>1. k + m \in Nat
    OBVIOUS
  <2> QED
    BY <2>1, RunTyped
<1>2. /\ s \o t \in Seq(Bytes) /\ Len(s \o t) = k + m
      /\ \A i \in 1 .. k + m : (s \o t)[i] = IF i <= k THEN s[i] ELSE t[i - k]
  <2>1. /\ s \o t \in Seq(Bytes) /\ Len(s \o t) = Len(s) + Len(t)
        /\ \A i \in 1 .. Len(s) + Len(t) : (s \o t)[i] = IF i <= Len(s) THEN s[i] ELSE t[i - Len(s)]
    BY ConcatProperties
  <2> QED
    BY <1>1, <2>1
<1>3. PICK v \in Seq(Bytes) : v = s \o t
  BY <1>2
<1>4. \A i \in 1 .. k + m : v[i] = u[i]
  <2> TAKE i \in 1 .. k + m
  <2>1. CASE i <= k
    BY <1>1, <1>2, <1>3, <2>1
  <2>2. CASE ~ (i <= k)
    <3>1. i - k \in 1 .. m
      BY <2>2
    <3> QED
      BY <1>1, <1>2, <1>3, <2>2, <3>1
  <2> QED
    BY <2>1, <2>2
<1>5. v = u
  BY <1>1, <1>2, <1>3, <1>4, SeqEqual
<1> QED
  BY <1>1, <1>3, <1>5

\* The buffer filled up to some place.
LEMMA FillRead ==
    ASSUME NEW p, NEW f, NEW n, NEW q, Reads(p, f, n, q), NEW m, NEW c, NEW d, d = DigestOf(p, f, m, c),
           NEW to \in Nat, n <= to, to <= BlockSize, NEW b \in Bytes
    PROVE  \E g \in Blocks : /\ FillFrom(d, n + 1, to, b) = DigestOf(p, g, m, c)
                             /\ Reads(p, g, to, q \o Run(to - n, b))
<1>1. f \in Seq(Bytes) /\ Len(f) = BlockSize /\ DOMAIN f = 1 .. BlockSize /\ n \in Nat
  BY ReadsFacts
<1>2. PICK g : g = [i \in 1 .. BlockSize |-> IF i \in n + 1 .. to THEN b ELSE f[i]]
  OBVIOUS
<1>3. g \in Blocks
  <2>1. \A i \in 1 .. BlockSize : f[i] \in Bytes
    BY <1>1, ElementOfSeq
  <2>2. BlockSize \in Nat
    BY Sha256Assumption
  <2>3. \A i \in 1 .. BlockSize : g[i] \in Bytes
    BY <1>2, <2>1
  <2>4. g \in Seq(Bytes) /\ Len(g) = BlockSize
    BY <1>2, <2>2, <2>3
  <2> QED
    BY <2>4 DEF Blocks
<1>4. PICK k \in Nat : k = to - n
  BY <1>1
<1>5. PICK w \in Seq(Bytes) : w = Run(k, b) /\ Len(w) = k /\ \A i \in 1 .. k : w[i] = b
  BY RunTyped
<1>6. \A i \in 1 .. n : g[i] = f[i]
  <2> TAKE i \in 1 .. n
  <2>1. i \in 1 .. BlockSize /\ i \notin n + 1 .. to
    BY <1>1, Sha256Assumption
  <2> QED
    BY <1>2, <2>1
<1>7. \A i \in 1 .. Len(w) : g[n + i] = w[i]
  <2> TAKE i \in 1 .. Len(w)
  <2>1. n + i \in n + 1 .. to /\ n + i \in 1 .. BlockSize
    BY <1>1, <1>4, <1>5, Sha256Assumption
  <2> QED
    BY <1>2, <1>5, <2>1
<1>8. Reads(p, g, n + Len(w), q \o w)
  <2>1. n + Len(w) <= BlockSize
    BY <1>1, <1>4, <1>5
  <2> QED
    BY <1>3, <1>6, <1>7, <2>1, ReadsMore
<1>9. n + Len(w) = to
  BY <1>1, <1>4, <1>5
<1>10. FillFrom(d, n + 1, to, b) = DigestOf(p, g, m, c)
  <2>1. d.buf = f
    BY DEF DigestOf
  <2>2. FillFrom(d, n + 1, to, b) = [d EXCEPT !.buf = g]
    BY <1>2, <2>1 DEF FillFrom
  <2>3. [d EXCEPT !.buf = g] = DigestOf(p, g, m, c)
    BY DEF DigestOf
  <2> QED
    BY <2>2, <2>3
<1> QED
  BY <1>3, <1>4, <1>5, <1>8, <1>9, <1>10

\* The 0x80 behind the message, and the zeros up to the end of its block if the
\* length does not fit there.
LEMMA OneRead ==
    ASSUME NEW d, NEW q, NEW c, ReadBy(d, q, c)
    PROVE  \E p, f, n :
              /\ [FillFrom(d, d.bufLen + 1, d.bufLen + 1, One) EXCEPT !.bufLen = @ + 1] = DigestOf(p, f, n, c)
              /\ Reads(p, f, n, q \o Run(1, One)) /\ c \in Nat
<1>1. PICK p, f, n : Reads(p, f, n, q) /\ n < BlockSize /\ c \in Nat /\ d = DigestOf(p, f, n, c)
  BY DEF ReadBy
<1>2. n \in Nat /\ d.bufLen = n
  BY <1>1, ReadsFacts DEF DigestOf
<1>3. PICK to \in Nat : to = n + 1 /\ n <= to /\ to <= BlockSize /\ to - n = 1
  BY <1>1, <1>2, Sha256Assumption
<1>4. One \in Bytes
  BY DEF One, Bytes
<1>5. PICK g \in Blocks : /\ FillFrom(d, n + 1, to, One) = DigestOf(p, g, n, c)
                          /\ Reads(p, g, to, q \o Run(to - n, One))
  BY <1>1, <1>3, <1>4, FillRead
<1>6. PICK e : e = FillFrom(d, n + 1, to, One)
  OBVIOUS
<1>7. [e EXCEPT !.bufLen = to] = DigestOf(p, g, to, c) /\ e.bufLen = n
  BY <1>5, <1>6 DEF DigestOf
<1>8. [FillFrom(d, d.bufLen + 1, d.bufLen + 1, One) EXCEPT !.bufLen = @ + 1] = [e EXCEPT !.bufLen = to]
  BY <1>2, <1>3, <1>6, <1>7
<1> QED
  BY <1>1, <1>3, <1>5, <1>7, <1>8

\* Whole blocks.
InBlocks(k) == \E m \in Nat : k = m * BlockSize

\* The blocks processed hold q, z zeros and the length of c bytes.
Padded(e, q, z, c) ==
    /\ \E p, f, n : e = DigestOf(p, f, n, c)
    /\ e.count = c /\ InBlocks(Len(FlattenSeq(e.processed)))
    /\ FlattenSeq(e.processed) = (q \o Run(z, Zero)) \o Run(LengthSize, LengthOf(c))

\* The last block: zeros, then the length.
LastBlock(d, c) ==
    ProcessBlock(FillFrom(FillFrom(d, d.bufLen + 1, BlockSize - LengthSize, Zero),
                          BlockSize - LengthSize + 1, BlockSize, LengthOf(c)))

\* Nothing of earlier bytes is left in it.
LEMMA LastRead ==
    ASSUME NEW p, NEW f, NEW n, NEW q, Reads(p, f, n, q), n <= BlockSize - LengthSize,
           NEW c \in Nat, NEW d, d = DigestOf(p, f, n, c), NEW z, z = BlockSize - LengthSize - n
    PROVE  Padded(LastBlock(d, c), q, z, c)
<1>1. n \in Nat /\ d.bufLen = n /\ q \in Seq(Bytes)
  BY ReadsFacts DEF DigestOf
<1>2. Zero \in Bytes /\ LengthOf(c) \in Bytes
  BY DEF Zero, LengthOf, Bytes
<1>3. PICK to \in Nat : /\ to = BlockSize - LengthSize /\ n <= to /\ to <= BlockSize
                        /\ BlockSize - to = LengthSize /\ to - n = z
  BY <1>1, Sha256Assumption
<1>4. BlockSize \in Nat
  BY Sha256Assumption
<1>5. PICK g \in Blocks : /\ FillFrom(d, n + 1, to, Zero) = DigestOf(p, g, n, c)
                          /\ Reads(p, g, to, q \o Run(to - n, Zero))
  BY <1>2, <1>3, FillRead
<1>6. PICK e : e = FillFrom(d, n + 1, to, Zero)
  OBVIOUS
<1>7. PICK r : r = q \o Run(to - n, Zero)
  OBVIOUS
<1>8. PICK h \in Blocks : /\ FillFrom(e, to + 1, BlockSize, LengthOf(c)) = DigestOf(p, h, n, c)
                          /\ Reads(p, h, BlockSize, r \o Run(BlockSize - to, LengthOf(c)))
  <2>1. e = DigestOf(p, g, n, c) /\ Reads(p, g, to, r)
    BY <1>5, <1>6, <1>7
  <2> QED
    BY <1>2, <1>3, <1>4, <2>1, FillRead
<1>9. PICK a : a = FillFrom(e, to + 1, BlockSize, LengthOf(c))
  OBVIOUS
<1>10. LastBlock(d, c) = DigestOf(Append(p, h), h, 0, c)
  <2>1. LastBlock(d, c) = ProcessBlock(a)
    BY <1>1, <1>3, <1>6, <1>9 DEF LastBlock
  <2>2. ProcessBlock(a) = DigestOf(Append(p, h), h, 0, c)
    BY <1>8, <1>9, BlockTaken
  <2> QED
    BY <2>1, <2>2
<1>11. PICK t : t = r \o Run(LengthSize, LengthOf(c))
  OBVIOUS
<1>12. Reads(Append(p, h), h, 0, t) /\ FlattenSeq(Append(p, h)) = t
  <2>1. Reads(p, h, BlockSize, t)
    BY <1>3, <1>8, <1>11
  <2> QED
    BY <2>1, ReadsBlock
<1>13. LastBlock(d, c).processed = Append(p, h) /\ LastBlock(d, c).count = c
  BY <1>10 DEF DigestOf
<1>14. InBlocks(Len(FlattenSeq(Append(p, h))))
  BY <1>12 DEF Reads, InBlocks
<1> QED
  BY <1>3, <1>7, <1>10, <1>11, <1>12, <1>13, <1>14 DEF Padded

\* All that finalize processes.
LEMMA FinalRead ==
    ASSUME NEW d, NEW q, NEW c, ReadBy(d, q, c)
    PROVE  \E z \in 0 .. BlockSize - 1 : Padded(Finalized(d), q \o Run(1, One), z, c)
<1>1. PICK e : e = [FillFrom(d, d.bufLen + 1, d.bufLen + 1, One) EXCEPT !.bufLen = @ + 1]
  OBVIOUS
<1>2. PICK r : r = q \o Run(1, One)
  OBVIOUS
<1>3. PICK p, f, n : e = DigestOf(p, f, n, c) /\ Reads(p, f, n, r) /\ c \in Nat
  BY <1>1, <1>2, OneRead
<1>4. n \in Nat /\ n <= BlockSize /\ e.bufLen = n /\ e.count = c /\ d.count = c /\ r \in Seq(Bytes)
  BY <1>3, ReadTyped, ReadsFacts DEF DigestOf
<1>5. PICK room : room = IF e.bufLen > BlockSize - LengthSize
                         THEN ProcessBlock(FillFrom(e, e.bufLen + 1, BlockSize, Zero)) ELSE e
  OBVIOUS
<1>6. Finalized(d) = LastBlock(room, c)
  BY <1>1, <1>4, <1>5 DEF Finalized, LastBlock
<1>7. Zero \in Bytes /\ BlockSize \in Nat /\ LengthSize \in Nat \ {0} /\ BlockSize > LengthSize
  BY Sha256Assumption DEF Zero, Bytes
<1>8. CASE n <= BlockSize - LengthSize
  <2>1. room = e
    BY <1>4, <1>5, <1>7, <1>8
  <2>2. PICK z \in Nat : z = BlockSize - LengthSize - n
    BY <1>4, <1>7, <1>8
  <2>3. z \in 0 .. BlockSize - 1
    BY <1>4, <1>7, <2>2
  <2>4. Padded(LastBlock(e, c), r, z, c)
    BY <1>3, <1>8, <2>2, LastRead
  <2> QED
    BY <1>2, <1>6, <2>1, <2>3, <2>4
<1>9. CASE ~ (n <= BlockSize - LengthSize)
  <2>1. PICK g \in Blocks : /\ FillFrom(e, n + 1, BlockSize, Zero) = DigestOf(p, g, n, c)
                            /\ Reads(p, g, BlockSize, r \o Run(BlockSize - n, Zero))
    BY <1>3, <1>4, <1>7, FillRead
  <2>2. PICK a : a = FillFrom(e, n + 1, BlockSize, Zero)
    OBVIOUS
  <2>3. PICK t : t = r \o Run(BlockSize - n, Zero)
    OBVIOUS
  <2>4. room = DigestOf(Append(p, g), g, 0, c)
    <3>1. room = ProcessBlock(a)
      BY <1>4, <1>5, <1>7, <1>9, <2>2
    <3>2. ProcessBlock(a) = DigestOf(Append(p, g), g, 0, c)
      BY <2>1, <2>2, BlockTaken
    <3> QED
      BY <3>1, <3>2
  <2>5. Reads(Append(p, g), g, 0, t)
    BY <2>1, <2>3, ReadsBlock
  <2>6. PICK k \in Nat, z \in Nat : k = BlockSize - n /\ z = BlockSize - LengthSize
    BY <1>4, <1>7
  <2>7. k + z \in 0 .. BlockSize - 1
    BY <1>4, <1>7, <1>9, <2>6
  <2>8. Padded(LastBlock(room, c), t, z, c)
    <3>1. 0 <= BlockSize - LengthSize /\ BlockSize - LengthSize - 0 = z
      BY <1>7, <2>6
    <3> QED
      BY <1>3, <2>4, <2>5, <3>1, LastRead
  <2>9. t \o Run(z, Zero) = r \o Run(k + z, Zero)
    <3>1. PICK u \in Seq(Bytes), v \in Seq(Bytes) : u = Run(k, Zero) /\ v = Run(z, Zero)
      BY <1>7, RunTyped
    <3>2. (r \o u) \o v = r \o (u \o v)
      BY <1>4, ConcatAssociative
    <3>3. u \o v = Run(k + z, Zero)
      BY <1>7, <3>1, RunsJoin
    <3> QED
      BY <2>3, <2>6, <3>1, <3>2, <3>3
  <2> QED
    BY <1>2, <1>6, <2>7, <2>8, <2>9 DEF Padded
<1> QED
  BY <1>8, <1>9

\* Only one number of zeros, less than a block, completes a block.
LEMMA OneMultiple ==
    ASSUME NEW a \in Nat, NEW z \in 0 .. BlockSize - 1, NEW k \in 0 .. BlockSize - 1,
           (a + z) % BlockSize = 0, (a + k) % BlockSize = 0
    PROVE  z = k
<1>1. BlockSize \in Nat /\ BlockSize > 0
  BY Sha256Assumption
<1>2. ASSUME NEW x \in Nat, x % BlockSize = 0
      PROVE  \E m \in Nat : x = m * BlockSize
  <2>1. x = BlockSize * (x \div BlockSize) + (x % BlockSize) /\ x \div BlockSize \in Nat
    BY <1>1
  <2>2. PICK m \in Nat : m = x \div BlockSize
    BY <2>1
  <2>3. x = BlockSize * m
    BY <1>1, <1>2, <2>1, <2>2
  <2>4. BlockSize * m = m * BlockSize
    BY <1>1
  <2> QED
    BY <2>3, <2>4
<1>3. ASSUME NEW m \in Nat, NEW n \in Nat, NEW x \in Nat, NEW y \in Nat,
             x = m * BlockSize, y = n * BlockSize, x < y
      PROVE  y - x >= BlockSize
  <2>1. m < n
    BY <1>1, <1>3
  <2>2. PICK d \in Nat : n = m + 1 + d
    BY <2>1
  <2>3. y = m * BlockSize + BlockSize + d * BlockSize /\ d * BlockSize >= 0
    BY <1>1, <1>3, <2>2
  <2> QED
    BY <1>1, <1>3, <2>3
<1>4. PICK x \in Nat, y \in Nat : x = a + z /\ y = a + k
  BY <1>1
<1>5. PICK m \in Nat, n \in Nat : x = m * BlockSize /\ y = n * BlockSize
  BY <1>2, <1>4
<1>6. ~ (x < y) /\ ~ (y < x)
  <2>1. x < y => y - x >= BlockSize
    BY <1>3, <1>5
  <2>2. y < x => x - y >= BlockSize
    BY <1>3, <1>5
  <2> QED
    BY <1>1, <1>4, <2>1, <2>2
<1> QED
  BY <1>1, <1>4, <1>6

\* The message: its i-th byte is i.
Numbers(n) == [i \in 1 .. n |-> i]

\* It has n bytes.
LEMMA NumbersTyped ==
    ASSUME NEW n \in Nat
    PROVE  Numbers(n) \in Seq(Bytes) /\ Len(Numbers(n)) = n /\ \A i \in 1 .. n : Numbers(n)[i] = i
<1>1. \A i \in 1 .. n : i \in Bytes
  BY DEF Bytes
<1> QED
  BY <1>1 DEF Numbers

\* The n bytes that follow the first c.
Follow(w, c, n) == \A i \in 1 .. n : w[i] = c + i

\* The message and the bytes read next.
LEMMA NumbersGoOn ==
    ASSUME NEW c \in Nat, NEW n \in Nat, NEW w \in Seq(Bytes), Len(w) = n,
           Follow(w, c, n)
    PROVE  Numbers(c) \o w = Numbers(c + n)
<1>1. PICK q \in Seq(Bytes), r \in Seq(Bytes) :
          /\ q = Numbers(c) /\ r = Numbers(c + n) /\ Len(q) = c /\ Len(r) = c + n
          /\ \A i \in 1 .. c : q[i] = i
          /\ \A i \in 1 .. c + n : r[i] = i
  <2>1. c + n \in Nat
    OBVIOUS
  <2> QED
    BY <2>1, NumbersTyped
<1>2. PICK t \in Seq(Bytes) :
          /\ t = q \o w /\ Len(t) = c + n
          /\ \A i \in 1 .. c + n : t[i] = IF i <= c THEN q[i] ELSE w[i - c]
  <2>1. /\ q \o w \in Seq(Bytes) /\ Len(q \o w) = Len(q) + Len(w)
        /\ \A i \in 1 .. Len(q) + Len(w) : (q \o w)[i] = IF i <= Len(q) THEN q[i] ELSE w[i - Len(q)]
    BY ConcatProperties
  <2>2. Len(q) = c
    BY <1>1
  <2> QED
    BY <2>1, <2>2
<1>3. \A i \in 1 .. c + n : t[i] = r[i]
  <2> TAKE i \in 1 .. c + n
  <2>1. CASE i <= c
    BY <1>1, <1>2, <2>1
  <2>2. CASE ~ (i <= c)
    <3>1. i - c \in 1 .. n /\ c + (i - c) = i
      BY <2>2
    <3>2. w[i - c] = i
      BY <3>1 DEF Follow
    <3> QED
      BY <1>1, <1>2, <2>2, <3>2
  <2> QED
    BY <2>1, <2>2
<1>4. t = r
  BY <1>1, <1>2, <1>3, SeqEqual
<1> QED
  BY <1>1, <1>2, <1>4

\* The message and the 0x80.
LEMMA BodyIs ==
    ASSUME NEW c \in Nat, NEW q, q = Numbers(c)
    PROVE  /\ q \o Run(1, One) = [i \in 1 .. c + 1 |-> IF i <= c THEN i ELSE One]
           /\ q \o Run(1, One) \in Seq(Bytes) /\ Len(q \o Run(1, One)) = c + 1
<1>1. One \in Bytes /\ 1 \in Nat
  BY DEF One, Bytes
<1>2. q \in Seq(Bytes) /\ Len(q) = c /\ \A i \in 1 .. c : q[i] = i
  BY NumbersTyped
<1>3. PICK s \in Seq(Bytes) : s = Run(1, One) /\ Len(s) = 1 /\ s[1] = One
  <2>1. 1 \in 1 .. 1
    OBVIOUS
  <2> QED
    BY <1>1, <2>1, RunTyped
<1>4. PICK t \in Seq(Bytes) :
          /\ t = q \o s /\ Len(t) = c + 1
          /\ \A i \in 1 .. c + 1 : t[i] = IF i <= c THEN q[i] ELSE s[i - c]
  <2>1. /\ q \o s \in Seq(Bytes) /\ Len(q \o s) = Len(q) + Len(s)
        /\ \A i \in 1 .. Len(q) + Len(s) : (q \o s)[i] = IF i <= Len(q) THEN q[i] ELSE s[i - Len(q)]
    BY <1>2, ConcatProperties
  <2>2. Len(q) = c /\ Len(s) = 1
    BY <1>2, <1>3
  <2>3. /\ Len(q \o s) = c + 1
        /\ \A i \in 1 .. c + 1 : (q \o s)[i] = IF i <= c THEN q[i] ELSE s[i - c]
    BY <2>1, <2>2
  <2> QED
    BY <2>1, <2>3
<1>5. \A i \in 1 .. c + 1 : t[i] = IF i <= c THEN i ELSE One
  <2> TAKE i \in 1 .. c + 1
  <2>1. CASE i <= c
    BY <1>2, <1>4, <2>1
  <2>2. CASE ~ (i <= c)
    <3>1. i - c = 1
      BY <2>2
    <3> QED
      BY <1>3, <1>4, <2>2, <3>1
  <2> QED
    BY <2>1, <2>2
<1>6. PICK u : u = [i \in 1 .. c + 1 |-> IF i <= c THEN i ELSE One]
  OBVIOUS
<1>7. u = t
  <2>1. DOMAIN t = 1 .. c + 1 /\ t = [i \in DOMAIN t |-> t[i]]
    BY <1>4, LenProperties
  <2> QED
    BY <1>5, <1>6, <2>1
<1> QED
  BY <1>3, <1>4, <1>6, <1>7

\* So what finalize processed is the padded message.
LEMMA PaddedIs ==
    ASSUME NEW c \in Nat, NEW e, NEW z \in 0 .. BlockSize - 1,
           Padded(e, Numbers(c) \o Run(1, One), z, c)
    PROVE  FlattenSeq(e.processed) = PaddedMessage(c)
<1>1. PICK b \in Seq(Bytes) : /\ b = Numbers(c) \o Run(1, One) /\ Len(b) = c + 1
                              /\ b = [i \in 1 .. c + 1 |-> IF i <= c THEN i ELSE One]
  BY BodyIs
<1>2. PICK s \in Seq(Bytes), t \in Seq(Bytes) :
          /\ s = Run(z, Zero) /\ t = Run(LengthSize, LengthOf(c)) /\ Len(s) = z /\ Len(t) = LengthSize
  <2>1. Zero \in Bytes /\ LengthOf(c) \in Bytes /\ z \in Nat /\ LengthSize \in Nat
    BY Sha256Assumption DEF Zero, LengthOf, Bytes
  <2> QED
    BY <2>1, RunTyped
<1>3. FlattenSeq(e.processed) = (b \o s) \o t
  BY <1>1, <1>2 DEF Padded
<1>4. Len((b \o s) \o t) = c + 1 + z + LengthSize
  <2>1. b \o s \in Seq(Bytes) /\ Len(b \o s) = Len(b) + Len(s)
    BY ConcatProperties
  <2>2. PICK r \in Seq(Bytes) : r = b \o s
    BY <2>1
  <2>3. Len(r \o t) = Len(r) + Len(t)
    BY ConcatProperties
  <2> QED
    BY <1>1, <1>2, <2>1, <2>2, <2>3
<1>5. (c + 1 + z + LengthSize) % BlockSize = 0
  <2>1. PICK m \in Nat : c + 1 + z + LengthSize = m * BlockSize
    BY <1>3, <1>4 DEF Padded, InBlocks
  <2>2. (m * BlockSize) % BlockSize = 0
    BY Sha256Assumption
  <2> QED
    BY <2>1, <2>2
<1> DEFINE Z(k) == (c + 1 + k + LengthSize) % BlockSize = 0
<1>6. PICK k : k = (CHOOSE x \in 0 .. BlockSize - 1 : Z(x))
  OBVIOUS
<1>7. k \in 0 .. BlockSize - 1 /\ Z(k)
  <2>1. Z(z)
    BY <1>5
  <2> HIDE DEF Z
  <2> QED
    BY <1>6, <2>1
<1>8. k = z
  <2>1. PICK a \in Nat : a = c + 1 + LengthSize
    BY Sha256Assumption
  <2>2. c + 1 + z + LengthSize = a + z /\ c + 1 + k + LengthSize = a + k
    BY <1>7, <2>1, Sha256Assumption
  <2>3. (a + z) % BlockSize = 0 /\ (a + k) % BlockSize = 0
    BY <1>5, <1>7, <2>2
  <2> QED
    BY <1>7, <2>3, OneMultiple
<1>9. PaddedMessage(c) = (b \o [i \in 1 .. k |-> Zero]) \o [i \in 1 .. LengthSize |-> LengthOf(c)]
  BY <1>1, <1>6 DEF PaddedMessage
<1> QED
  BY <1>2, <1>3, <1>8, <1>9 DEF Run

\* Before finalize the object has read the bytes that it counted; then it has
\* processed them, padded.
ShaInv ==
    \/ ReadBy(digest, Numbers(digest.count), digest.count)
    \/ digest.final /\ FlattenSeq(digest.processed) = PaddedMessage(digest.count)

\* A new object has read nothing.
LEMMA ShaStarts ==
    ASSUME Sha256Init
    PROVE  ShaInv
<1>1. PICK f : f = [i \in 1 .. BlockSize |-> Zero]
  OBVIOUS
<1>2. f \in Blocks
  <2>1. Zero \in Bytes /\ BlockSize \in Nat
    BY Sha256Assumption DEF Zero, Bytes
  <2>2. f \in Seq(Bytes) /\ Len(f) = BlockSize
    BY <1>1, <2>1
  <2> QED
    BY <2>2 DEF Blocks
<1>3. PICK p \in Seq(Seq(Bytes)), q \in Seq(Bytes) : p = <<>> /\ q = <<>> /\ Len(q) = 0
  BY EmptySeq
<1>4. Reads(p, f, 0, q)
  <2>1. SubSeq(f, 1, 0) = <<>>
    BY <1>2, NoneRead DEF Blocks
  <2>2. FlattenSeq(p) = q
    BY <1>3, FlattenSteps
  <2>3. q \o q = q
    BY <1>3, ConcatEmptySeq
  <2>4. 0 \in 0 .. BlockSize /\ 0 = 0 * BlockSize
    BY Sha256Assumption
  <2> QED
    BY <1>2, <1>3, <2>1, <2>2, <2>3, <2>4 DEF Reads
<1>5. digest = DigestOf(p, f, 0, 0)
  BY <1>1, <1>3 DEF Sha256Init, NewDigest, DigestOf, NotFinal
<1>6. Numbers(0) = q
  BY <1>3, EmptySeq, NumbersTyped
<1>7. ReadBy(digest, q, 0)
  BY <1>4, <1>5, Sha256Assumption DEF ReadBy
<1>8. digest.count = 0
  BY <1>7, ReadTyped
<1> QED
  BY <1>6, <1>7, <1>8 DEF ShaInv

\* The smaller of two numbers.
LEMMA MinOfTwo ==
    ASSUME NEW a \in Nat, NEW b \in Nat
    PROVE  Min({a, b}) \in {a, b} /\ Min({a, b}) <= a /\ Min({a, b}) <= b
<1> DEFINE Least(m) == m \in {a, b} /\ \A y \in {a, b} : m <= y
<1>1. \E m : Least(m)
  BY DEF Least
<1>2. Min({a, b}) = CHOOSE m \in {a, b} : \A y \in {a, b} : m <= y
  BY DEF Min
<1>3. PICK m : m = (CHOOSE k : Least(k))
  OBVIOUS
<1>4. Least(m)
  <2> HIDE DEF Least
  <2> QED
    BY <1>1, <1>3
<1>5. Min({a, b}) = m
  BY <1>2, <1>3
<1> QED
  BY <1>4, <1>5

\* What a turn of ingest's loop starts from and ends in, when k bytes were counted:
\* an object that has read the bytes before the span, and the rest of the k.
SpanOf(d, r, s) == [object |-> d, data |-> r, size |-> s]
SpanAt(o, d, r, s, k) ==
    o = SpanOf(d, r, s) /\ ReadBy(d, Numbers(r), k) /\ r \in Nat /\ s \in Nat /\ r + s = k
Spans(k) == {o \in [object : Digests, data : Nat, size : Nat] :
                 SpanAt(o, o.object, o.data, o.size, k)}

\* They are such.
LEMMA SpanTyped ==
    ASSUME NEW k, NEW o, NEW d, NEW r, NEW s, SpanAt(o, d, r, s, k)
    PROVE  o \in Spans(k) /\ o.object = d /\ o.data = r /\ o.size = s
<1>1. o.object = d /\ o.data = r /\ o.size = s
  BY DEF SpanAt, SpanOf
<1>2. d \in Digests
  BY ReadTyped DEF SpanAt
<1>3. o \in [object : Digests, data : Nat, size : Nat]
  BY <1>2 DEF SpanAt, SpanOf
<1> QED
  BY <1>1, <1>3 DEF Spans

\* The piece of a turn: `take` bytes more, in the buffer or in the block that they
\* complete; and the span has got shorter, or is used up.
LEMMA PieceRead ==
    ASSUME NEW k \in Nat, NEW o \in Spans(k), NEW turn
    PROVE  /\ IngestPiece(o, turn) \in Spans(k)
           /\ IngestPiece(o, turn).size < o.size \/ IngestPiece(o, turn).size = 0
<1>0. PICK d \in Digests, r \in Nat, s \in Nat : SpanAt(o, d, r, s, k)
  <2>1. /\ SpanAt(o, o.object, o.data, o.size, k)
        /\ o.object \in Digests /\ o.data \in Nat /\ o.size \in Nat
    BY DEF Spans
  <2> QED
    BY <2>1, Zenon
<1>1. /\ o = SpanOf(d, r, s) /\ r + s = k /\ ReadBy(d, Numbers(r), k)
      /\ o.object = d /\ o.data = r /\ o.size = s
  <2>1. r + s = k /\ o = SpanOf(d, r, s) /\ ReadBy(d, Numbers(r), k)
    BY <1>0 DEF SpanAt
  <2>2. o.object = d /\ o.data = r /\ o.size = s
    BY <1>0, SpanTyped
  <2> QED
    BY <2>1, <2>2
<1>2. PICK p, f, n : Reads(p, f, n, Numbers(r)) /\ n < BlockSize /\ d = DigestOf(p, f, n, k)
  BY <1>1 DEF ReadBy
<1>3. /\ f \in Seq(Bytes) /\ Len(f) = BlockSize /\ DOMAIN f = 1 .. BlockSize
      /\ n \in Nat /\ BlockSize \in Nat
  BY <1>2, ReadsFacts, Sha256Assumption
<1>4. PICK take \in Nat : /\ take = Min({s, BlockSize - n}) /\ take <= s /\ n + take <= BlockSize
                          /\ take = s \/ n + take = BlockSize
  <2>1. BlockSize - n \in Nat
    BY <1>2, <1>3
  <2>2. PICK m : m = Min({s, BlockSize - n})
    OBVIOUS
  <2>3. m \in {s, BlockSize - n} /\ m <= s /\ m <= BlockSize - n
    BY <2>1, <2>2, MinOfTwo
  <2>4. m \in Nat /\ n + m <= BlockSize /\ (m = s \/ n + m = BlockSize)
    BY <1>3, <2>1, <2>3
  <2> QED
    BY <2>2, <2>3, <2>4
<1>5. PICK w \in Seq(Bytes) : w = [i \in 1 .. take |-> r + i] /\ Len(w) = take /\ Follow(w, r, take)
  <2>1. \A i \in 1 .. take : r + i \in Bytes
    BY DEF Bytes
  <2>2. PICK w : w = [i \in 1 .. take |-> r + i]
    OBVIOUS
  <2>3. w \in Seq(Bytes) /\ Len(w) = take
    BY <2>1, <2>2
  <2>4. Follow(w, r, take)
    BY <2>2 DEF Follow
  <2> QED
    BY <2>2, <2>3, <2>4
<1>6. PICK g : g = [i \in 1 .. BlockSize |-> IF i - n \in 1 .. take THEN r + (i - n) ELSE f[i]]
  OBVIOUS
<1>7. /\ g \in Blocks
      /\ \A i \in 1 .. n : g[i] = f[i]
      /\ \A i \in 1 .. Len(w) : g[n + i] = w[i]
  <2>1. \A i \in 1 .. BlockSize : g[i] \in Bytes
    <3> TAKE i \in 1 .. BlockSize
    <3>1. f[i] \in Bytes
      BY <1>3, ElementOfSeq
    <3>2. r + (i - n) \in Bytes
      BY <1>3 DEF Bytes
    <3> QED
      BY <1>6, <3>1, <3>2
  <2>2. g \in Seq(Bytes) /\ Len(g) = BlockSize
    BY <1>3, <1>6, <2>1
  <2>3. \A i \in 1 .. n : g[i] = f[i]
    BY <1>2, <1>3, <1>6
  <2>4. \A i \in 1 .. Len(w) : g[n + i] = w[i]
    <3> TAKE i \in 1 .. Len(w)
    <3>1. n + i \in 1 .. BlockSize /\ (n + i) - n = i /\ i \in 1 .. take
      BY <1>3, <1>4, <1>5
    <3>2. g[n + i] = r + i /\ w[i] = r + i
      BY <1>5, <1>6, <3>1
    <3> QED
      BY <3>2
  <2> QED
    BY <2>2, <2>3, <2>4 DEF Blocks
<1>8. Reads(p, g, n + take, Numbers(r + take))
  <2>1. Reads(p, g, n + Len(w), Numbers(r) \o w)
    <3>1. n + Len(w) <= BlockSize
      BY <1>4, <1>5
    <3>2. Reads(p, f, n, Numbers(r))
      BY <1>2
    <3> QED
      BY <1>7, <3>1, <3>2, ReadsMore
  <2>2. Numbers(r) \o w = Numbers(r + take)
    BY <1>5, NumbersGoOn
  <2> QED
    BY <1>5, <2>1, <2>2
<1>9. PICK e : e = DigestOf(p, g, n + take, k)
  OBVIOUS
<1>10. PICK v : v = IF n + take = BlockSize THEN DigestOf(Append(p, g), g, 0, k) ELSE e
  OBVIOUS
<1>11. IngestPiece(o, turn) = SpanOf(v, r + take, s - take)
  <2>1. d.buf = f /\ d.bufLen = n
    BY <1>2 DEF DigestOf
  <2>2. PICK c : c = [d EXCEPT !.buf = [i \in 1 .. BlockSize |->
                                   IF i - d.bufLen \in 1 .. take THEN o.data + (i - d.bufLen) ELSE @[i]],
                               !.bufLen = @ + take]
    OBVIOUS
  <2>3. c = Buffered(d, g, n + take)
    BY <1>1, <1>6, <2>1, <2>2 DEF Buffered
  <2>4. c = e
    BY <1>2, <1>9, <2>3, BufferSet
  <2>5. ProcessBlock(e) = DigestOf(Append(p, g), g, 0, k) /\ e.bufLen = n + take
    <3>1. ProcessBlock(e) = DigestOf(Append(p, g), g, 0, k)
      BY <1>9, BlockTaken
    <3>2. e.bufLen = n + take
      BY <1>9 DEF DigestOf
    <3> QED
      BY <3>1, <3>2
  <2>6. IngestPiece(o, turn) = SpanOf(IF c.bufLen = BlockSize THEN ProcessBlock(c) ELSE c,
                                      r + take, s - take)
    BY <1>1, <1>4, <2>1, <2>2 DEF IngestPiece, SpanOf
  <2> QED
    BY <1>10, <2>4, <2>5, <2>6
<1>12. ReadBy(v, Numbers(r + take), k)
  <2>1. CASE n + take = BlockSize
    <3>1. Reads(Append(p, g), g, 0, Numbers(r + take))
      BY <1>7, <1>8, <2>1, ReadsBlock
    <3>2. 0 < BlockSize
      BY Sha256Assumption
    <3> QED
      BY <1>10, <2>1, <3>1, <3>2 DEF ReadBy
  <2>2. CASE n + take # BlockSize
    <3>1. n + take < BlockSize
      BY <1>3, <1>4, <2>2
    <3> QED
      BY <1>8, <1>9, <1>10, <2>2, <3>1 DEF ReadBy
  <2> QED
    BY <2>1, <2>2
<1>13. r + take \in Nat /\ s - take \in Nat /\ (r + take) + (s - take) = k
  BY <1>1, <1>4
<1>14. SpanAt(IngestPiece(o, turn), v, r + take, s - take, k)
  BY <1>11, <1>12, <1>13 DEF SpanAt
<1>15. s - take < s \/ s - take = 0
  BY <1>2, <1>3, <1>4
<1>16. IngestPiece(o, turn) \in Spans(k) /\ IngestPiece(o, turn).size = s - take
  BY <1>14, SpanTyped
<1> QED
  BY <1>1, <1>15, <1>16

\* The turns of the loop, one for each element of q.
Turns == Nat
Looped(o, q) == FoldLeft(IngestPiece, o, q)

\* They follow each other.
LEMMA LoopSteps ==
    ASSUME NEW K \in Nat, NEW o \in Spans(K), NEW s \in Seq(Turns), NEW c \in Turns
    PROVE  /\ Looped(o, <<>>) = o /\ Looped(o, s) \in Spans(K)
           /\ Looped(o, Append(s, c)) = IngestPiece(Looped(o, s), c)
<1> DEFINE D == Spans(K)
           base == o
           Op(p, x) == IngestPiece(p, x)
           Eq(g, q) == g = [t \in SUBSET DOMAIN q |->
                              IF t = {} THEN base ELSE Op(g[t \ {Max(t)}], q[Max(t)])]
           It(q) == CHOOSE g : Eq(g, q)
<1>1. \A q : Looped(o, q) = It(q)[DOMAIN q]
  BY DEF Looped, FoldLeft, MapThenFoldSet
<1>2. base \in D /\ \A p \in D, x \in Turns : Op(p, x) \in D
  BY PieceRead
<1> HIDE DEF D, base, Op
<1>3. PICK F : OpOn(F, D, Turns) /\ \A d \in D, e \in Turns : F[<<d, e>>] = Op(d, e)
  <2> DEFINE F == [y \in D \X Turns |-> Op(y[1], y[2])]
  <2>1. \A d \in D, e \in Turns : F[<<d, e>>] = Op(d, e) /\ F[<<d, e>>] \in D
    BY <1>2
  <2> QED
    BY <2>1 DEF OpOn
<1>4. ASSUME NEW q \in Seq(Turns), NEW k, k = It(q)
      PROVE  /\ FoldsIn(k, F, D, base, q) /\ k[{}] = base
  <2>1. PICK g : Runs(g, F, D, Turns, base, q)
    <3> HIDE DEF It, Eq
    <3>1. base \in D /\ OpOn(F, D, Turns)
      BY <1>2, <1>3
    <3> QED
      BY <3>1, FoldsRun
  <2>2. Eq(g, q)
    BY <1>3, <2>1 DEF Folds, Runs
  <2> DEFINE Q(h) == Eq(h, q)
  <2>3. Q(k)
    <3>1. k = (CHOOSE h : Q(h)) /\ Q(g)
      BY <1>4, <2>2
    <3> HIDE DEF Q
    <3> QED
      BY <3>1
  <2>4. Eq(k, q) /\ \A t \in SUBSET DOMAIN q : t # {} => q[Max(t)] \in Turns
    BY <2>1, <2>3 DEF Runs
  <2> QED
    BY <1>3, <2>4 DEF FoldsIn
<1>5. Looped(o, <<>>) = base
  <2>1. PICK k : k = It(<<>>)
    OBVIOUS
  <2>2. k[{}] = base
    BY <1>4, <2>1, EmptySeq
  <2>3. DOMAIN <<>> = {}
    OBVIOUS
  <2> HIDE DEF It
  <2> QED
    BY <1>1, <2>1, <2>2, <2>3
<1>6. PICK r, g, h : r = Append(s, c) /\ g = It(s) /\ h = It(r)
  OBVIOUS
<1>7. r \in Seq(Turns) /\ OneMore(s, r) /\ r[Len(r)] = c
  BY <1>6, AppendProperties DEF OneMore
<1>8. FoldsIn(g, F, D, base, s) /\ FoldsIn(h, F, D, base, r)
  BY <1>4, <1>6, <1>7
<1>9. Looped(o, s) = g[DOMAIN s] /\ Looped(o, r) = h[DOMAIN r]
  <2> HIDE DEF It
  <2> QED
    BY <1>1, <1>6
<1> HIDE DEF It
<1>10. g[DOMAIN s] \in D /\ h[DOMAIN r] = F[<<g[DOMAIN s], r[Len(r)]>>]
  <2>1. base \in D /\ OpOn(F, D, Turns)
    BY <1>2, <1>3
  <2>2. r \in Seq(Turns) /\ OneMore(s, r)
    BY <1>7
  <2> QED
    BY <1>8, <2>1, <2>2, FoldsGoOn
<1>11. Looped(o, s) \in D /\ Looped(o, r) = Op(Looped(o, s), c)
  BY <1>3, <1>7, <1>9, <1>10
<1> QED
  BY <1>5, <1>6, <1>11 DEF D, Op, base

\* So as many turns as there were bytes use the span up.
LEMMA AllRead ==
    ASSUME NEW k \in Nat, NEW o \in Spans(k), NEW s \in Seq(Turns), o.size <= Len(s)
    PROVE  ReadBy(Looped(o, s).object, Numbers(k), k)
<1> DEFINE Left(q) == Looped(o, q).size
           T == {n \in Nat : \A q \in Seq(Turns) :
                     Len(q) = n => Left(q) \in Nat /\ (Left(q) + n <= o.size \/ Left(q) = 0)}
<1>1. o.size \in Nat
  BY DEF Spans
<1>2. 0 \in T
  <2> SUFFICES ASSUME NEW q \in Seq(Turns), Len(q) = 0
               PROVE  Left(q) \in Nat /\ (Left(q) + 0 <= o.size \/ Left(q) = 0)
    OBVIOUS
  <2>1. q = <<>>
    BY EmptySeq
  <2>2. Looped(o, <<>>) = o
    <3>1. 0 \in Turns /\ <<>> \in Seq(Turns)
      BY EmptySeq DEF Turns
    <3> QED
      BY <3>1, LoopSteps
  <2> QED
    BY <1>1, <2>1, <2>2
<1>3. ASSUME NEW n \in Nat \ {0}, n - 1 \in T
      PROVE  n \in T
  <2> SUFFICES ASSUME NEW q \in Seq(Turns), Len(q) = n
               PROVE  Left(q) \in Nat /\ (Left(q) + n <= o.size \/ Left(q) = 0)
    OBVIOUS
  <2>1. q # <<>>
    BY EmptySeq
  <2>2. PICK u \in Seq(Turns), x \in Turns : q = Append(u, x)
    BY <2>1, SequenceEmptyOrAppend
  <2>3. Len(q) = Len(u) + 1 /\ Len(u) \in Nat
    BY <2>2, AppendProperties, LenProperties
  <2>4. PICK a : a = Looped(o, u) /\ a \in Spans(k)
    BY LoopSteps
  <2>5. PICK b : b = IngestPiece(a, x)
    OBVIOUS
  <2>6. Looped(o, q) = b
    BY <2>2, <2>4, <2>5, LoopSteps
  <2>7. b \in Spans(k) /\ (b.size < a.size \/ b.size = 0)
    BY <2>4, <2>5, PieceRead
  <2>8. a.size \in Nat /\ b.size \in Nat
    BY <2>4, <2>7 DEF Spans
  <2>9. a.size + (n - 1) <= o.size \/ a.size = 0
    <3>1. Len(u) = n - 1
      BY <2>3
    <3> QED
      BY <1>3, <2>4, <3>1
  <2>10. b.size + n <= o.size \/ b.size = 0
    BY <1>1, <2>7, <2>8, <2>9
  <2> QED
    BY <2>6, <2>8, <2>10
<1>4. T = Nat
  <2>1. T \in SUBSET Nat
    OBVIOUS
  <2> HIDE DEF T
  <2> QED
    BY <1>2, <1>3, <2>1, NatSteps
<1>5. Len(s) \in T /\ Len(s) \in Nat
  BY <1>4, LenProperties
<1>6. PICK a : a = Looped(o, s) /\ a \in Spans(k)
  <2>1. 0 \in Turns
    BY DEF Turns
  <2> QED
    BY <2>1, LoopSteps
<1>7. a.size \in Nat /\ a.data \in Nat /\ a.data + a.size = k /\ ReadBy(a.object, Numbers(a.data), k)
  BY <1>6 DEF Spans, SpanAt
<1>8. a.size + Len(s) <= o.size \/ a.size = 0
  BY <1>5, <1>6
<1>9. a.data = k
  BY <1>1, <1>5, <1>7, <1>8
<1> QED
  BY <1>6, <1>7, <1>9

\* ingest.
LEMMA IngestKeeps ==
    ASSUME ShaInv, NEW n \in 0 .. MaxMessage, Ingest(n)
    PROVE  ShaInv'
<1>1. PICK c \in Nat : c = digest.count /\ ReadBy(digest, Numbers(c), c)
  BY ReadTyped DEF ShaInv, Ingest
<1>2. n \in Nat
  BY Sha256Assumption
<1>3. PICK p, f, m : Reads(p, f, m, Numbers(c)) /\ m < BlockSize /\ digest = DigestOf(p, f, m, c)
  BY <1>1 DEF ReadBy
<1>4. PICK k \in Nat : k = c + n
  BY <1>2
<1>5. PICK d : d = [digest EXCEPT !.count = @ + n]
  OBVIOUS
<1>6. d = DigestOf(p, f, m, k)
  <2>1. d = [digest EXCEPT !.count = k]
    BY <1>1, <1>4, <1>5
  <2> QED
    BY <1>3, <2>1 DEF DigestOf
<1>7. ReadBy(d, Numbers(c), k)
  BY <1>3, <1>6 DEF ReadBy
<1>8. PICK o : o = SpanOf(d, c, n)
  OBVIOUS
<1>9. o \in Spans(k) /\ o.size = n
  <2>1. SpanAt(o, d, c, n, k)
    BY <1>2, <1>4, <1>7, <1>8 DEF SpanAt
  <2> QED
    BY <2>1, SpanTyped
<1>10. PICK s \in Seq(Turns) : s = [turn \in 1 .. n |-> turn] /\ Len(s) = n
  <2>1. \A turn \in 1 .. n : turn \in Turns
    BY DEF Turns
  <2>2. PICK s : s = [turn \in 1 .. n |-> turn]
    OBVIOUS
  <2>3. s \in Seq(Turns) /\ Len(s) = n
    BY <1>2, <2>1, <2>2
  <2> QED
    BY <2>2, <2>3
<1>11. ReadBy(Looped(o, s).object, Numbers(k), k)
  <2>1. o.size <= Len(s)
    BY <1>2, <1>9, <1>10
  <2> QED
    BY <1>9, <2>1, AllRead
<1>12. digest' = Looped(o, s).object
  BY <1>1, <1>5, <1>8, <1>10 DEF Ingest, Looped, SpanOf
<1>13. ReadBy(digest', Numbers(k), k) /\ digest'.count = k
  BY <1>11, <1>12, ReadTyped
<1> QED
  BY <1>13 DEF ShaInv

\* finalize.
LEMMA FinalizeKeeps ==
    ASSUME ShaInv, Finalize
    PROVE  ShaInv'
<1>1. PICK c \in Nat : c = digest.count /\ ReadBy(digest, Numbers(c), c)
  BY ReadTyped DEF ShaInv, Finalize
<1>2. PICK e : e = Finalized(digest)
  OBVIOUS
<1>3. PICK z \in 0 .. BlockSize - 1 : Padded(e, Numbers(c) \o Run(1, One), z, c)
  BY <1>1, <1>2, FinalRead
<1>4. FlattenSeq(e.processed) = PaddedMessage(c)
  BY <1>3, PaddedIs
<1>5. PICK p, f, n : e = DigestOf(p, f, n, c)
  BY <1>3 DEF Padded
<1>6. digest' = [e EXCEPT !.final = TRUE]
  BY <1>2 DEF Finalize
<1>7. digest'.final /\ digest'.processed = e.processed /\ digest'.count = c
  BY <1>5, <1>6 DEF DigestOf
<1> QED
  BY <1>4, <1>7 DEF ShaInv

\* Whatever the sizes of a block and of the length are, and whatever the length
\* of a message: the blocks that Sha256 processes are those of the padded message,
\* however the message was cut into calls of ingest, whose loop cuts each call into
\* the pieces that its buffer has room for (sha256.hpp:83).
THEOREM DigestsOfMessages == Sha256Spec => []DigestOfMessage
<1>1. Sha256Init => ShaInv
  BY ShaStarts
<1>2. ASSUME ShaInv, [Sha256Next]_digest
      PROVE  ShaInv'
  <2>1. CASE UNCHANGED digest
    BY <1>2, <2>1 DEF ShaInv
  <2>2. CASE \E n \in 0 .. MaxMessage : Ingest(n)
    BY <1>2, <2>2, IngestKeeps
  <2>3. CASE Finalize
    BY <1>2, <2>3, FinalizeKeeps
  <2> QED
    BY <1>2, <2>1, <2>2, <2>3 DEF Sha256Next
<1>3. ShaInv => DigestOfMessage
  BY ReadTyped DEF ShaInv, DigestOfMessage
<1> QED
  BY <1>1, <1>2, <1>3, PTL DEF Sha256Spec

-----------------------------------------------------------------------------
(* Sequences around one of their elements.                                 *)

\* What is before the i-th element of a sequence, and what is behind it.
Ahead(s, i) == SubSeq(s, 1, i - 1)
Behind(s, i) == SubSeq(s, i + 1, Len(s))

\* What they are, element by element.
LEMMA AroundFacts ==
    ASSUME NEW S, NEW s \in Seq(S), NEW i \in 1 .. Len(s)
    PROVE  /\ Ahead(s, i) \in Seq(S) /\ Len(Ahead(s, i)) = i - 1
           /\ \A j \in 1 .. i - 1 : Ahead(s, i)[j] = s[j]
           /\ Behind(s, i) \in Seq(S) /\ Len(Behind(s, i)) = Len(s) - i
           /\ \A j \in 1 .. Len(s) - i : Behind(s, i)[j] = s[i + j]
<1>1. Len(s) \in Nat /\ i \in Nat /\ \A j \in 1 .. Len(s) : s[j] \in S
  BY LenProperties, ElementOfSeq
<1>2. /\ SubSeq(s, 1, i - 1) \in Seq(S) /\ Len(SubSeq(s, 1, i - 1)) = i - 1
      /\ \A j \in 1 .. i - 1 : SubSeq(s, 1, i - 1)[j] = s[j]
  <2>1. 1 \in Int /\ i - 1 \in Int /\ \A j \in 1 .. i - 1 : s[j] \in S
    BY <1>1
  <2>2. /\ SubSeq(s, 1, i - 1) \in Seq(S)
        /\ Len(SubSeq(s, 1, i - 1)) = IF 1 <= i - 1 THEN i - 1 - 1 + 1 ELSE 0
        /\ \A j \in 1 .. i - 1 - 1 + 1 : SubSeq(s, 1, i - 1)[j] = s[1 + j - 1]
    BY <2>1, SubSeqProperties
  <2> QED
    BY <1>1, <2>2
<1>3. /\ SubSeq(s, i + 1, Len(s)) \in Seq(S) /\ Len(SubSeq(s, i + 1, Len(s))) = Len(s) - i
      /\ \A j \in 1 .. Len(s) - i : SubSeq(s, i + 1, Len(s))[j] = s[i + j]
  <2>1. i + 1 \in Int /\ Len(s) \in Int /\ \A j \in i + 1 .. Len(s) : s[j] \in S
    BY <1>1
  <2>2. /\ SubSeq(s, i + 1, Len(s)) \in Seq(S)
        /\ Len(SubSeq(s, i + 1, Len(s))) = IF i + 1 <= Len(s) THEN Len(s) - (i + 1) + 1 ELSE 0
        /\ \A j \in 1 .. Len(s) - (i + 1) + 1 : SubSeq(s, i + 1, Len(s))[j] = s[i + 1 + j - 1]
    BY <2>1, SubSeqProperties
  <2> QED
    BY <1>1, <2>2
<1> QED
  BY <1>2, <1>3 DEF Ahead, Behind

\* w is q without its p-th element, n.
OneApart(q, w, p, n) ==
    /\ p \in 1 .. Len(q) /\ Len(q) = Len(w) + 1 /\ Len(w) \in Nat /\ q[p] = n
    /\ \A i \in 1 .. Len(w) : w[i] = IF i < p THEN q[i] ELSE q[i + 1]
    /\ \A i \in 1 .. Len(q) : i # p => q[i] = IF i < p THEN w[i] ELSE w[i - 1]

\* A sequence with an element in its middle, and without it.
LEMMA ApartFacts ==
    ASSUME NEW S, NEW a \in Seq(S), NEW c \in Seq(S), NEW n \in S
    PROVE  /\ a \o <<n>> \o c \in Seq(S) /\ a \o c \in Seq(S)
           /\ OneApart(a \o <<n>> \o c, a \o c, Len(a) + 1, n)
<1>1. <<n>> \in Seq(S) /\ Len(<<n>>) = 1 /\ <<n>>[1] = n
  BY OneElement
<1>2. Len(a) \in Nat /\ Len(c) \in Nat
  BY LenProperties
<1>3. PICK d \in Seq(S) : d = a \o <<n>>
  BY <1>1, ConcatProperties
<1>4. /\ Len(d) = Len(a) + 1 /\ d[Len(a) + 1] = n
      /\ \A i \in 1 .. Len(a) : d[i] = a[i]
  <2>1. /\ Len(a \o <<n>>) = Len(a) + Len(<<n>>)
        /\ \A i \in 1 .. Len(a) + Len(<<n>>) :
              (a \o <<n>>)[i] = IF i <= Len(a) THEN a[i] ELSE <<n>>[i - Len(a)]
    BY <1>1, ConcatProperties
  <2> QED
    BY <1>1, <1>2, <1>3, <2>1
<1>5. /\ d \o c \in Seq(S) /\ Len(d \o c) = Len(d) + Len(c)
      /\ \A i \in 1 .. Len(d) + Len(c) : (d \o c)[i] = IF i <= Len(d) THEN d[i] ELSE c[i - Len(d)]
  BY ConcatProperties
<1>6. /\ a \o c \in Seq(S) /\ Len(a \o c) = Len(a) + Len(c)
      /\ \A i \in 1 .. Len(a) + Len(c) : (a \o c)[i] = IF i <= Len(a) THEN a[i] ELSE c[i - Len(a)]
  BY ConcatProperties
<1>7. PICK q, w : q = d \o c /\ w = a \o c
  OBVIOUS
<1>8. OneApart(q, w, Len(a) + 1, n)
  <2>1. Len(q) = Len(a) + 1 + Len(c) /\ Len(w) = Len(a) + Len(c)
    BY <1>2, <1>4, <1>5, <1>6, <1>7
  <2>2. \A i \in 1 .. Len(q) : q[i] = IF i <= Len(a) + 1 THEN d[i] ELSE c[i - (Len(a) + 1)]
    BY <1>4, <1>5, <1>7, <2>1
  <2>3. \A i \in 1 .. Len(w) : w[i] = IF i <= Len(a) THEN a[i] ELSE c[i - Len(a)]
    BY <1>6, <1>7, <2>1
  <2>4. ASSUME NEW i \in 1 .. Len(w)
        PROVE  w[i] = IF i < Len(a) + 1 THEN q[i] ELSE q[i + 1]
    <3>1. CASE i <= Len(a)
      <4>1. i \in 1 .. Len(q) /\ i \in 1 .. Len(a)
        BY <1>2, <2>1, <3>1
      <4> QED
        BY <1>2, <1>4, <2>2, <2>3, <3>1, <4>1
    <3>2. CASE ~ (i <= Len(a))
      <4>1. i + 1 \in 1 .. Len(q) /\ ~ (i + 1 <= Len(a) + 1) /\ i + 1 - (Len(a) + 1) = i - Len(a)
        BY <1>2, <2>1, <3>2
      <4>2. q[i + 1] = c[i - Len(a)] /\ w[i] = c[i - Len(a)]
        BY <2>2, <2>3, <3>2, <4>1
      <4> QED
        BY <1>2, <3>2, <4>2
    <3> QED
      BY <3>1, <3>2
  <2>5. ASSUME NEW i \in 1 .. Len(q), i # Len(a) + 1
        PROVE  q[i] = IF i < Len(a) + 1 THEN w[i] ELSE w[i - 1]
    <3>1. CASE i <= Len(a)
      <4>1. i \in 1 .. Len(w) /\ i \in 1 .. Len(a)
        BY <1>2, <2>1, <3>1
      <4> QED
        BY <1>2, <1>4, <2>2, <2>3, <3>1, <4>1
    <3>2. CASE ~ (i <= Len(a))
      <4>1. i - 1 \in 1 .. Len(w) /\ ~ (i - 1 <= Len(a)) /\ ~ (i <= Len(a) + 1)
            /\ i - 1 - Len(a) = i - (Len(a) + 1)
        BY <1>2, <2>1, <2>5, <3>2
      <4>2. q[i] = c[i - (Len(a) + 1)] /\ w[i - 1] = c[i - (Len(a) + 1)]
        BY <2>2, <2>3, <4>1
      <4> QED
        BY <1>2, <3>2, <4>2
    <3> QED
      BY <3>1, <3>2
  <2>6. q[Len(a) + 1] = n
    BY <1>2, <1>4, <2>1, <2>2
  <2> QED
    BY <1>2, <2>1, <2>4, <2>5, <2>6 DEF OneApart
<1> QED
  BY <1>3, <1>5, <1>6, <1>7, <1>8

\* t is s with x in the place of its i-th element.
Replaced(t, s, i, x) == t = [s EXCEPT ![i] = x]

\* What a sequence is after a replacement.
LEMMA ReplacedFacts ==
    ASSUME NEW S, NEW s \in Seq(S), NEW i \in 1 .. Len(s), NEW x \in S, NEW t, Replaced(t, s, i, x)
    PROVE  /\ t \in Seq(S) /\ Len(t) = Len(s) /\ t[i] = x
           /\ \A j \in 1 .. Len(s) : t[j] = IF j = i THEN x ELSE s[j]
<1>1. [s EXCEPT ![i] = x] \in Seq(S) /\ Len([s EXCEPT ![i] = x]) = Len(s)
  BY ExceptSeq
<1>2. \A j \in 1 .. Len(s) : [s EXCEPT ![i] = x][j] = IF j = i THEN x ELSE s[j]
  BY ExceptSeq
<1> QED
  BY <1>1, <1>2 DEF Replaced

\* A sequence is what is before an element, the element, and what is behind it.
LEMMA AroundJoins ==
    ASSUME NEW S, NEW s \in Seq(S), NEW i \in 1 .. Len(s)
    PROVE  s = Ahead(s, i) \o <<s[i]>> \o Behind(s, i)
<1> DEFINE Facts(a, c) == /\ Len(a) = i - 1 /\ Len(c) = Len(s) - i
                          /\ \A j \in 1 .. i - 1 : a[j] = s[j]
                          /\ \A j \in 1 .. Len(s) - i : c[j] = s[i + j]
<1>1. PICK a, c \in Seq(S) : a = Ahead(s, i) /\ c = Behind(s, i) /\ Facts(a, c)
  <2>1. Ahead(s, i) \in Seq(S) /\ Behind(s, i) \in Seq(S)
    BY AroundFacts
  <2>2. Len(Ahead(s, i)) = i - 1 /\ Len(Behind(s, i)) = Len(s) - i
    BY AroundFacts
  <2>3. \A j \in 1 .. i - 1 : Ahead(s, i)[j] = s[j]
    BY AroundFacts
  <2>4. \A j \in 1 .. Len(s) - i : Behind(s, i)[j] = s[i + j]
    BY AroundFacts
  <2>5. Facts(Ahead(s, i), Behind(s, i))
    BY <2>2, <2>3, <2>4
  <2> HIDE DEF Facts
  <2> QED
    BY <2>1, <2>5
<1>2. Facts(a, c)
  BY <1>1
<1>3. Len(s) \in Nat /\ i \in Nat
  BY LenProperties
<1>4. PICK y \in S : y = s[i]
  BY ElementOfSeq
<1>5. PICK q : q = a \o <<y>> \o c
  OBVIOUS
<1>6. PICK w : w = a \o c
  OBVIOUS
<1>7. q \in Seq(S) /\ OneApart(q, w, i, y)
  BY <1>2, <1>3, <1>5, <1>6, ApartFacts
<1>8. /\ Len(w) = Len(a) + Len(c)
      /\ \A j \in 1 .. Len(a) + Len(c) : w[j] = IF j <= Len(a) THEN a[j] ELSE c[j - Len(a)]
  BY <1>6, ConcatProperties
<1>9. Len(w) = Len(s) - 1 /\ \A j \in 1 .. Len(s) - 1 : w[j] = IF j < i THEN s[j] ELSE s[j + 1]
  <2>1. Len(w) = Len(s) - 1 /\ Len(a) + Len(c) = Len(s) - 1
    BY <1>2, <1>3, <1>8
  <2>2. ASSUME NEW j \in 1 .. Len(s) - 1
        PROVE  w[j] = IF j < i THEN s[j] ELSE s[j + 1]
    <3>1. CASE j < i
      <4>1. j \in 1 .. i - 1 /\ j <= Len(a) /\ j \in 1 .. Len(a) + Len(c)
        BY <1>2, <1>3, <2>1, <3>1
      <4>2. w[j] = a[j] /\ a[j] = s[j]
        BY <1>2, <1>8, <4>1
      <4> QED
        BY <3>1, <4>2
    <3>2. CASE ~ (j < i)
      <4>1. /\ ~ (j <= Len(a)) /\ j \in 1 .. Len(a) + Len(c)
            /\ j - Len(a) \in 1 .. Len(s) - i /\ i + (j - Len(a)) = j + 1
        BY <1>2, <1>3, <2>1, <3>2
      <4>2. w[j] = c[j - Len(a)] /\ c[j - Len(a)] = s[i + (j - Len(a))]
        BY <1>2, <1>8, <4>1
      <4> QED
        BY <3>2, <4>1, <4>2
    <3> QED
      BY <3>1, <3>2
  <2> QED
    BY <2>1, <2>2
<1>10. Len(q) = Len(s)
  BY <1>3, <1>7, <1>9 DEF OneApart
<1>11. \A j \in 1 .. Len(s) : q[j] = s[j]
  BY <1>3, <1>4, <1>7, <1>9, <1>10 DEF OneApart
<1>12. q = s
  BY <1>7, <1>10, <1>11, SeqEqual
<1> QED
  BY <1>1, <1>4, <1>5, <1>12

\* What is around a replaced element stays.
LEMMA AroundSame ==
    ASSUME NEW S, NEW s \in Seq(S), NEW i \in 1 .. Len(s), NEW x \in S, NEW t, Replaced(t, s, i, x)
    PROVE  Ahead(t, i) = Ahead(s, i) /\ Behind(t, i) = Behind(s, i)
<1>1. t \in Seq(S)
  BY ReplacedFacts
<1>2. Len(t) = Len(s) /\ \A j \in 1 .. Len(s) : t[j] = IF j = i THEN x ELSE s[j]
  BY ReplacedFacts
<1>3. Len(s) \in Nat /\ i \in Nat /\ i \in 1 .. Len(t)
  BY <1>2, LenProperties
<1>4. /\ Ahead(t, i) \in Seq(S) /\ Len(Ahead(t, i)) = i - 1
      /\ \A j \in 1 .. i - 1 : Ahead(t, i)[j] = t[j]
      /\ Behind(t, i) \in Seq(S) /\ Len(Behind(t, i)) = Len(t) - i
      /\ \A j \in 1 .. Len(t) - i : Behind(t, i)[j] = t[i + j]
  BY <1>1, <1>3, AroundFacts
<1>5. /\ Ahead(s, i) \in Seq(S) /\ Len(Ahead(s, i)) = i - 1
      /\ \A j \in 1 .. i - 1 : Ahead(s, i)[j] = s[j]
      /\ Behind(s, i) \in Seq(S) /\ Len(Behind(s, i)) = Len(s) - i
      /\ \A j \in 1 .. Len(s) - i : Behind(s, i)[j] = s[i + j]
  BY AroundFacts
<1>6. Ahead(t, i) = Ahead(s, i)
  <2>1. \A j \in 1 .. Len(Ahead(t, i)) : Ahead(t, i)[j] = Ahead(s, i)[j]
    <3> SUFFICES ASSUME NEW j \in 1 .. i - 1
                 PROVE  Ahead(t, i)[j] = Ahead(s, i)[j]
      BY <1>4
    <3>1. j \in 1 .. Len(s) /\ j # i
      BY <1>3
    <3>2. t[j] = s[j]
      BY <1>2, <3>1
    <3> QED
      BY <1>4, <1>5, <3>2
  <2> QED
    BY <1>4, <1>5, <2>1, SeqEqual
<1>7. Behind(t, i) = Behind(s, i)
  <2>1. \A j \in 1 .. Len(Behind(t, i)) : Behind(t, i)[j] = Behind(s, i)[j]
    <3> SUFFICES ASSUME NEW j \in 1 .. Len(s) - i
                 PROVE  Behind(t, i)[j] = Behind(s, i)[j]
      BY <1>2, <1>4
    <3>1. i + j \in 1 .. Len(s) /\ i + j # i
      BY <1>3
    <3> QED
      BY <1>2, <1>4, <1>5, <3>1
  <2>2. Len(Behind(t, i)) = Len(Behind(s, i))
    BY <1>2, <1>4, <1>5
  <2> QED
    BY <1>4, <1>5, <2>1, <2>2, SeqEqual
<1> QED
  BY <1>6, <1>7

\* A sequence with an element replaced, put together.
LEMMA ReplacedJoins ==
    ASSUME NEW S, NEW s \in Seq(S), NEW i \in 1 .. Len(s), NEW x \in S, NEW t, Replaced(t, s, i, x)
    PROVE  t = Ahead(s, i) \o <<x>> \o Behind(s, i)
<1>1. t \in Seq(S) /\ Len(t) = Len(s) /\ t[i] = x
  BY ReplacedFacts
<1>2. i \in 1 .. Len(t)
  BY <1>1
<1>3. t = Ahead(t, i) \o <<t[i]>> \o Behind(t, i)
  BY <1>1, <1>2, AroundJoins
<1> QED
  BY <1>1, <1>3, AroundSame

\* The parts of two sequences of parts.
LEMMA FlattenJoins ==
    ASSUME NEW S, NEW s \in Seq(Seq(S)), NEW t \in Seq(Seq(S))
    PROVE  FlattenSeq(s \o t) = FlattenSeq(s) \o FlattenSeq(t)
<1> DEFINE T == {n \in Nat : \A q \in Seq(Seq(S)) : Len(q) = n =>
                    FlattenSeq(s \o q) = FlattenSeq(s) \o FlattenSeq(q)}
<1>1. FlattenSeq(s) \in Seq(S)
  <2>1. <<>> \in Seq(S)
    BY EmptySeq
  <2> QED
    BY <2>1, FlattenSteps
<1>2. 0 \in T
  <2> SUFFICES ASSUME NEW q \in Seq(Seq(S)), Len(q) = 0
               PROVE  FlattenSeq(s \o q) = FlattenSeq(s) \o FlattenSeq(q)
    OBVIOUS
  <2>1. q = <<>> /\ s \o q = s
    BY EmptySeq, ConcatEmptySeq
  <2>2. FlattenSeq(<<>>) = <<>>
    BY <1>1, FlattenSteps
  <2>3. FlattenSeq(s) \o <<>> = FlattenSeq(s)
    BY <1>1, ConcatEmptySeq
  <2> QED
    BY <2>1, <2>2, <2>3
<1>3. ASSUME NEW n \in Nat \ {0}, n - 1 \in T
      PROVE  n \in T
  <2> SUFFICES ASSUME NEW q \in Seq(Seq(S)), Len(q) = n
               PROVE  FlattenSeq(s \o q) = FlattenSeq(s) \o FlattenSeq(q)
    OBVIOUS
  <2>1. q # <<>>
    BY EmptySeq
  <2>2. PICK o \in Seq(Seq(S)), x \in Seq(S) : q = Append(o, x)
    BY <2>1, SequenceEmptyOrAppend
  <2>3. Len(q) = Len(o) + 1 /\ Len(o) \in Nat
    BY <2>2, AppendProperties, LenProperties
  <2>4. FlattenSeq(s \o o) = FlattenSeq(s) \o FlattenSeq(o)
    BY <1>3, <2>3
  <2> HIDE DEF T
  <2>5. s \o Append(o, x) = Append(s \o o, x) /\ s \o o \in Seq(Seq(S))
    <3>1. s \o Append(o, x) = Append(s \o o, x)
      <4>1. Joined(s, o, x)
        BY ConcatJoined
      <4> QED
        BY <4>1 DEF Joined
    <3>2. s \o o \in Seq(Seq(S))
      BY ConcatProperties
    <3> QED
      BY <3>1, <3>2
  <2>6. FlattenSeq(Append(s \o o, x)) = FlattenSeq(s \o o) \o x
    BY <2>5, FlattenSteps
  <2>7. FlattenSeq(Append(o, x)) = FlattenSeq(o) \o x /\ FlattenSeq(o) \in Seq(S)
    BY FlattenSteps
  <2>8. FlattenSeq(s) \o FlattenSeq(o) \o x = FlattenSeq(s) \o (FlattenSeq(o) \o x)
    <3>1. Three(S, FlattenSeq(s), FlattenSeq(o), x)
      BY <1>1, <2>7 DEF Three
    <3>2. Regrouped(FlattenSeq(s), FlattenSeq(o), x)
      BY <3>1, RegroupThree
    <3> QED
      BY <3>2 DEF Regrouped
  <2> QED
    BY <2>2, <2>4, <2>5, <2>6, <2>7, <2>8
<1>4. T = Nat
  <2>1. T \in SUBSET Nat
    OBVIOUS
  <2> HIDE DEF T
  <2> QED
    BY <1>2, <1>3, <2>1, NatSteps
<1>5. Len(t) \in T
  BY <1>4, LenProperties
<1> QED
  BY <1>5

\* The whole of one part.
LEMMA FlattenOne ==
    ASSUME NEW S, NEW x \in Seq(S)
    PROVE  FlattenSeq(<<x>>) = x /\ <<x>> \in Seq(Seq(S))
<1>1. <<>> \in Seq(Seq(S))
  BY EmptySeq
<1>2. FlattenSeq(<<>>) = <<>> /\ FlattenSeq(Append(<<>>, x)) = FlattenSeq(<<>>) \o x
  BY <1>1, FlattenSteps
<1>3. Append(<<>>, x) = <<x>> /\ <<>> \o x = x /\ <<x>> \in Seq(Seq(S))
  BY OneElement, ConcatEmptySeq
<1> QED
  BY <1>2, <1>3

\* Where one part is within the whole, and another in its place.
LEMMA FlattenAround ==
    ASSUME NEW S, NEW b \in Seq(Seq(S)), NEW i \in 1 .. Len(b), NEW x \in Seq(S),
           NEW r, Replaced(r, b, i, x)
    PROVE  /\ FlattenSeq(Ahead(b, i)) \in Seq(S) /\ FlattenSeq(Behind(b, i)) \in Seq(S)
           /\ FlattenSeq(b) = FlattenSeq(Ahead(b, i)) \o b[i] \o FlattenSeq(Behind(b, i))
           /\ FlattenSeq(r) = FlattenSeq(Ahead(b, i)) \o x \o FlattenSeq(Behind(b, i))
<1>1. PICK a, c \in Seq(Seq(S)) : a = Ahead(b, i) /\ c = Behind(b, i)
  BY AroundFacts
<1>2. FlattenSeq(a) \in Seq(S) /\ FlattenSeq(c) \in Seq(S)
  BY FlattenSteps
<1>3. ASSUME NEW y \in Seq(S)
      PROVE  FlattenSeq(a \o <<y>> \o c) = FlattenSeq(a) \o y \o FlattenSeq(c)
  <2>1. <<y>> \in Seq(Seq(S)) /\ FlattenSeq(<<y>>) = y
    BY FlattenOne
  <2>2. a \o <<y>> \in Seq(Seq(S))
    BY <2>1, ConcatProperties
  <2>3. FlattenSeq(a \o <<y>>) = FlattenSeq(a) \o y
    BY <2>1, FlattenJoins
  <2>4. FlattenSeq(a \o <<y>> \o c) = FlattenSeq(a \o <<y>>) \o FlattenSeq(c)
    BY <2>2, FlattenJoins
  <2> QED
    BY <2>3, <2>4
<1>4. b[i] \in Seq(S)
  BY ElementOfSeq
<1>5. b = a \o <<b[i]>> \o c
  BY <1>1, AroundJoins
<1>6. r = a \o <<x>> \o c
  BY <1>1, ReplacedJoins
<1>7. FlattenSeq(a \o <<b[i]>> \o c) = FlattenSeq(a) \o b[i] \o FlattenSeq(c)
  BY <1>3, <1>4
<1>8. FlattenSeq(a \o <<x>> \o c) = FlattenSeq(a) \o x \o FlattenSeq(c)
  BY <1>3
<1> QED
  BY <1>1, <1>2, <1>5, <1>6, <1>7, <1>8

\* n is an element of one of the parts.
InPart(n, b) == \E i \in 1 .. Len(b) : \E j \in 1 .. Len(b[i]) : b[i][j] = n
\* n is an element of q.
Among(n, q) == \E j \in 1 .. Len(q) : q[j] = n

\* The elements of two sequences joined.
LEMMA AmongBoth ==
    ASSUME NEW S, NEW s \in Seq(S), NEW t \in Seq(S), NEW n
    PROVE  Among(n, s \o t) <=> Among(n, s) \/ Among(n, t)
<1>1. Len(s) \in Nat /\ Len(t) \in Nat
  BY LenProperties
<1>2. PICK q : q = s \o t
  OBVIOUS
<1>3. /\ Len(q) = Len(s) + Len(t)
      /\ \A i \in 1 .. Len(s) + Len(t) : q[i] = IF i <= Len(s) THEN s[i] ELSE t[i - Len(s)]
  BY <1>2, ConcatProperties
<1>4. ASSUME NEW j \in 1 .. Len(q), q[j] = n
      PROVE  Among(n, s) \/ Among(n, t)
  <2>1. CASE j <= Len(s)
    BY <1>1, <1>3, <1>4, <2>1 DEF Among
  <2>2. CASE ~ (j <= Len(s))
    <3>1. j - Len(s) \in 1 .. Len(t) /\ t[j - Len(s)] = n
      BY <1>1, <1>3, <1>4, <2>2
    <3> QED
      BY <3>1 DEF Among
  <2> QED
    BY <2>1, <2>2
<1>5. ASSUME NEW j \in 1 .. Len(s), s[j] = n
      PROVE  Among(n, q)
  <2>1. j \in 1 .. Len(q) /\ q[j] = n
    BY <1>1, <1>3, <1>5
  <2> QED
    BY <2>1 DEF Among
<1>6. ASSUME NEW j \in 1 .. Len(t), t[j] = n
      PROVE  Among(n, q)
  <2>1. j + Len(s) \in 1 .. Len(s) + Len(t) /\ ~ (j + Len(s) <= Len(s)) /\ j + Len(s) - Len(s) = j
    BY <1>1
  <2>2. j + Len(s) \in 1 .. Len(q) /\ q[j + Len(s)] = n
    BY <1>3, <1>6, <2>1
  <2> QED
    BY <2>2 DEF Among
<1> QED
  BY <1>2, <1>4, <1>5, <1>6 DEF Among

\* What stands in the whole stands in a part, and conversely.
LEMMA AmongParts ==
    ASSUME NEW S, NEW b \in Seq(Seq(S)), NEW n
    PROVE  Among(n, FlattenSeq(b)) <=> InPart(n, b)
<1>1. ASSUME NEW i \in 1 .. Len(b), NEW j \in 1 .. Len(b[i]), b[i][j] = n
      PROVE  Among(n, FlattenSeq(b))
  <2>1. b[i] \in Seq(S) /\ <<>> \in Seq(S)
    BY ElementOfSeq, EmptySeq
  <2>2. PICK a, c \in Seq(S) : FlattenSeq(b) = a \o b[i] \o c
    <3>1. /\ FlattenSeq(Ahead(b, i)) \in Seq(S) /\ FlattenSeq(Behind(b, i)) \in Seq(S)
          /\ FlattenSeq(b) = FlattenSeq(Ahead(b, i)) \o b[i] \o FlattenSeq(Behind(b, i))
      <4>1. PICK r : Replaced(r, b, i, <<>>)
        BY DEF Replaced
      <4> QED
        BY <2>1, <4>1, FlattenAround
    <3> QED
      BY <3>1
  <2>3. Among(n, b[i]) /\ a \o b[i] \in Seq(S)
    BY <1>1, <2>1, ConcatProperties DEF Among
  <2>4. Among(n, a \o b[i])
    BY <2>1, <2>3, AmongBoth
  <2>5. PICK d \in Seq(S) : d = a \o b[i]
    BY <2>3
  <2>6. Among(n, d \o c)
    BY <2>4, <2>5, AmongBoth
  <2> QED
    BY <2>2, <2>5, <2>6
<1> DEFINE T == {m \in Nat : \A q \in Seq(Seq(S)) : Len(q) = m /\ Among(n, FlattenSeq(q)) => InPart(n, q)}
<1>2. <<>> \in Seq(S) /\ <<>> \in Seq(Seq(S))
  BY EmptySeq
<1>3. 0 \in T
  <2> SUFFICES ASSUME NEW q \in Seq(Seq(S)), Len(q) = 0, Among(n, FlattenSeq(q))
               PROVE  InPart(n, q)
    OBVIOUS
  <2>1. q = <<>>
    BY EmptySeq
  <2>2. FlattenSeq(<<>>) = <<>>
    BY <1>2, FlattenSteps
  <2>3. Among(n, <<>>)
    BY <2>1, <2>2
  <2> QED
    BY <2>3, EmptySeq DEF Among
<1>4. ASSUME NEW m \in Nat \ {0}, m - 1 \in T
      PROVE  m \in T
  <2> SUFFICES ASSUME NEW q \in Seq(Seq(S)), Len(q) = m, Among(n, FlattenSeq(q))
               PROVE  InPart(n, q)
    OBVIOUS
  <2>1. q # <<>>
    BY EmptySeq
  <2>2. PICK o \in Seq(Seq(S)), x \in Seq(S) : q = Append(o, x)
    BY <2>1, SequenceEmptyOrAppend
  <2>3. /\ Len(q) = Len(o) + 1 /\ Len(o) \in Nat /\ q[Len(o) + 1] = x
        /\ \A i \in 1 .. Len(o) : q[i] = o[i]
    BY <2>2, AppendProperties, LenProperties
  <2>4. FlattenSeq(Append(o, x)) = FlattenSeq(o) \o x /\ FlattenSeq(o) \in Seq(S)
    BY FlattenSteps
  <2>5. Among(n, FlattenSeq(o) \o x)
    BY <2>2, <2>4
  <2>6. Among(n, FlattenSeq(o)) \/ Among(n, x)
    BY <2>4, <2>5, AmongBoth
  <2>7. CASE Among(n, FlattenSeq(o))
    <3>1. InPart(n, o)
      BY <1>4, <2>3, <2>7
    <3>2. PICK i \in 1 .. Len(o) : \E j \in 1 .. Len(o[i]) : o[i][j] = n
      BY <3>1 DEF InPart
    <3>3. i \in 1 .. Len(q) /\ q[i] = o[i]
      BY <2>3
    <3> QED
      BY <3>2, <3>3 DEF InPart
  <2>8. CASE Among(n, x)
    <3>1. Len(o) + 1 \in 1 .. Len(q)
      BY <2>3
    <3> QED
      BY <2>3, <2>8, <3>1 DEF InPart, Among
  <2> QED
    BY <2>6, <2>7, <2>8
<1>5. T = Nat
  <2>1. T \in SUBSET Nat
    OBVIOUS
  <2> HIDE DEF T
  <2> QED
    BY <1>3, <1>4, <2>1, NatSteps
<1>6. Len(b) \in T
  BY <1>5, LenProperties
<1> QED
  BY <1>1, <1>6 DEF InPart

-----------------------------------------------------------------------------
(* Hash tables: nodes and their keys.                                      *)

\* What nodes hold: a value of a call, or what operator[] first puts there.
Given == Values \cup {1}
KeyedNodes == [key : Keys, value : Given]
KeysOf(E) == {n.key : n \in E}

\* q is made of the nodes E, each once, and no two of them have the same key.
Lists(q, E) ==
    /\ q \in Seq(KeyedNodes) /\ E \in SUBSET KeyedNodes
    /\ \A n \in KeyedNodes : n \in E <=> Among(n, q)
    /\ \A i, j \in 1 .. Len(q) : q[i].key = q[j].key => i = j

\* The elements with one more.
LEMMA ApartAmong ==
    ASSUME NEW q \in Seq(KeyedNodes), NEW w \in Seq(KeyedNodes), NEW p, NEW n, OneApart(q, w, p, n), NEW m
    PROVE  Among(m, q) <=> m = n \/ Among(m, w)
<1>1. /\ p \in 1 .. Len(q) /\ Len(q) = Len(w) + 1 /\ Len(w) \in Nat /\ q[p] = n
      /\ \A i \in 1 .. Len(w) : w[i] = IF i < p THEN q[i] ELSE q[i + 1]
      /\ \A i \in 1 .. Len(q) : i # p => q[i] = IF i < p THEN w[i] ELSE w[i - 1]
  BY DEF OneApart
<1>2. ASSUME NEW i \in 1 .. Len(q), q[i] = m, m # n
      PROVE  Among(m, w)
  <2>1. i # p
    BY <1>1, <1>2
  <2>2. CASE i < p
    <3>1. i \in 1 .. Len(w) /\ w[i] = m
      BY <1>1, <1>2, <2>1, <2>2
    <3> QED
      BY <3>1 DEF Among
  <2>3. CASE ~ (i < p)
    <3>1. i - 1 \in 1 .. Len(w) /\ w[i - 1] = m
      BY <1>1, <1>2, <2>1, <2>3
    <3> QED
      BY <3>1 DEF Among
  <2> QED
    BY <2>2, <2>3
<1>3. ASSUME NEW i \in 1 .. Len(w), w[i] = m
      PROVE  Among(m, q)
  <2>1. CASE i < p
    <3>1. i \in 1 .. Len(q) /\ q[i] = m
      BY <1>1, <1>3, <2>1
    <3> QED
      BY <3>1 DEF Among
  <2>2. CASE ~ (i < p)
    <3>1. i + 1 \in 1 .. Len(q) /\ q[i + 1] = m
      BY <1>1, <1>3, <2>2
    <3> QED
      BY <3>1 DEF Among
  <2> QED
    BY <2>1, <2>2
<1>4. ASSUME m = n
      PROVE  Among(m, q)
  BY <1>1, <1>4 DEF Among
<1> QED
  BY <1>2, <1>3, <1>4 DEF Among

\* One node more, of a new key.
LEMMA OneListed ==
    ASSUME NEW q \in Seq(KeyedNodes), NEW w, NEW p, NEW n \in KeyedNodes, OneApart(q, w, p, n),
           NEW E, Lists(w, E), n.key \notin KeysOf(E)
    PROVE  Lists(q, E \cup {n})
<1>1. /\ w \in Seq(KeyedNodes) /\ E \in SUBSET KeyedNodes
      /\ \A m \in KeyedNodes : m \in E <=> Among(m, w)
      /\ \A i, j \in 1 .. Len(w) : w[i].key = w[j].key => i = j
  BY DEF Lists
<1>2. /\ p \in 1 .. Len(q) /\ Len(q) = Len(w) + 1 /\ Len(w) \in Nat /\ q[p] = n
      /\ \A i \in 1 .. Len(w) : w[i] = IF i < p THEN q[i] ELSE q[i + 1]
      /\ \A i \in 1 .. Len(q) : i # p => q[i] = IF i < p THEN w[i] ELSE w[i - 1]
  BY DEF OneApart
<1>3. \A m \in KeyedNodes : m \in E \cup {n} <=> Among(m, q)
  BY <1>1, ApartAmong
<1>4. ASSUME NEW i \in 1 .. Len(q), i # p
      PROVE  \E k \in 1 .. Len(w) : q[i] = w[k] /\ k = IF i < p THEN i ELSE i - 1
  <2>1. CASE i < p
    <3>1. i \in 1 .. Len(w) /\ q[i] = w[i]
      BY <1>2, <1>4, <2>1
    <3> QED
      BY <2>1, <3>1
  <2>2. CASE ~ (i < p)
    <3>1. i - 1 \in 1 .. Len(w) /\ q[i] = w[i - 1]
      BY <1>2, <1>4, <2>2
    <3> QED
      BY <2>2, <3>1
  <2> QED
    BY <2>1, <2>2
<1>5. ASSUME NEW k \in 1 .. Len(w)
      PROVE  w[k].key # n.key
  <2>1. w[k] \in KeyedNodes /\ Among(w[k], w)
    BY <1>1, ElementOfSeq DEF Among
  <2>2. w[k] \in E
    BY <1>1, <2>1
  <2> QED
    BY <2>2 DEF KeysOf
<1>6. ASSUME NEW i \in 1 .. Len(q), NEW j \in 1 .. Len(q), q[i].key = q[j].key
      PROVE  i = j
  <2>1. CASE i = p \/ j = p
    BY <1>2, <1>4, <1>5, <1>6, <2>1
  <2>2. CASE i # p /\ j # p
    <3>1. PICK k \in 1 .. Len(w) : q[i] = w[k] /\ k = IF i < p THEN i ELSE i - 1
      BY <1>4, <2>2
    <3>2. PICK l \in 1 .. Len(w) : q[j] = w[l] /\ l = IF j < p THEN j ELSE j - 1
      BY <1>4, <2>2
    <3>3. k = l
      BY <1>1, <1>6, <3>1, <3>2
    <3> QED
      BY <1>2, <2>2, <3>1, <3>2, <3>3
  <2> QED
    BY <2>1, <2>2
<1> QED
  BY <1>1, <1>3, <1>6 DEF Lists

\* One node less.
LEMMA OneUnlisted ==
    ASSUME NEW q, NEW w \in Seq(KeyedNodes), NEW p, NEW n \in KeyedNodes, OneApart(q, w, p, n),
           NEW E, Lists(q, E)
    PROVE  n \in E /\ n.key \notin KeysOf(E \ {n}) /\ Lists(w, E \ {n})
<1>1. /\ q \in Seq(KeyedNodes) /\ E \in SUBSET KeyedNodes
      /\ \A m \in KeyedNodes : m \in E <=> Among(m, q)
      /\ \A i, j \in 1 .. Len(q) : q[i].key = q[j].key => i = j
  BY DEF Lists
<1>2. /\ p \in 1 .. Len(q) /\ Len(q) = Len(w) + 1 /\ Len(w) \in Nat /\ q[p] = n
      /\ \A i \in 1 .. Len(w) : w[i] = IF i < p THEN q[i] ELSE q[i + 1]
      /\ \A i \in 1 .. Len(q) : i # p => q[i] = IF i < p THEN w[i] ELSE w[i - 1]
  BY DEF OneApart
<1>3. \A m \in KeyedNodes : Among(m, q) <=> m = n \/ Among(m, w)
  BY <1>1, ApartAmong
<1>4. ASSUME NEW i \in 1 .. Len(w)
      PROVE  \E k \in 1 .. Len(q) : k # p /\ w[i] = q[k] /\ k = IF i < p THEN i ELSE i + 1
  BY <1>2
<1>5. n \in E
  BY <1>1, <1>2 DEF Among
<1>6. ASSUME NEW m \in E, m # n
      PROVE  m.key # n.key
  <2>1. PICK i \in 1 .. Len(q) : q[i] = m
    BY <1>1 DEF Among
  <2> QED
    BY <1>1, <1>2, <1>6, <2>1
<1>7. ~ Among(n, w)
  <2>1. ASSUME NEW i \in 1 .. Len(w), w[i] = n
        PROVE  FALSE
    BY <1>1, <1>2, <1>4, <2>1
  <2> QED
    BY <2>1 DEF Among
<1>8. \A m \in KeyedNodes : m \in E \ {n} <=> Among(m, w)
  BY <1>1, <1>3, <1>7
<1>9. ASSUME NEW i \in 1 .. Len(w), NEW j \in 1 .. Len(w), w[i].key = w[j].key
      PROVE  i = j
  <2>1. PICK k \in 1 .. Len(q) : w[i] = q[k] /\ k = IF i < p THEN i ELSE i + 1
    BY <1>4
  <2>2. PICK l \in 1 .. Len(q) : w[j] = q[l] /\ l = IF j < p THEN j ELSE j + 1
    BY <1>4
  <2>3. k = l
    BY <1>1, <1>9, <2>1, <2>2
  <2> QED
    BY <1>2, <2>1, <2>2, <2>3
<1>10. n.key \notin KeysOf(E \ {n})
  BY <1>6 DEF KeysOf
<1>11. Lists(w, E \ {n})
  BY <1>1, <1>8, <1>9 DEF Lists
<1> QED
  BY <1>5, <1>10, <1>11

-----------------------------------------------------------------------------
(* Hash tables: the buckets.                                               *)

\* Each node stands in the bucket that it is looked up in.
InPlace(b) == \A i \in 1 .. Len(b) : \A j \in 1 .. Len(b[i]) : (b[i][j].key % Len(b)) + 1 = i

\* Buckets that hold the nodes E.
Hold(b, E) == b \in Seq(Seq(KeyedNodes)) /\ InPlace(b) /\ Lists(FlattenSeq(b), E)

\* Four in a row.
Four(S, a, x, y, c) == Three(S, a, x, y) /\ c \in Seq(S)

\* The same of four, and with an element in the middle.
Paired(a, x, y, c) == a \o (x \o y) \o c = (a \o x) \o (y \o c)
Centred(a, x, n, y, c) == a \o (x \o <<n>> \o y) \o c = (a \o x) \o <<n>> \o (y \o c)

\* The parentheses of four can be moved.
LEMMA RegroupFour ==
    ASSUME NEW S, NEW a, NEW x, NEW y, NEW c, Four(S, a, x, y, c)
    PROVE  Paired(a, x, y, c)
<1>1. Three(S, a, x, y) /\ a \in Seq(S) /\ x \in Seq(S) /\ y \in Seq(S)
  BY DEF Four, Three
<1>2. Regrouped(a, x, y)
  BY <1>1, RegroupThree
<1>3. a \o x \in Seq(S)
  BY <1>1, ConcatProperties
<1>4. Three(S, a \o x, y, c)
  BY <1>1, <1>3 DEF Four, Three
<1>5. Regrouped(a \o x, y, c)
  BY <1>4, RegroupThree
<1> QED
  BY <1>2, <1>5 DEF Regrouped, Paired

\* And those around an element.
LEMMA RegroupAround ==
    ASSUME NEW S, NEW a, NEW x, NEW y, NEW c, Four(S, a, x, y, c), NEW n \in S
    PROVE  Centred(a, x, n, y, c)
<1>1. <<n>> \in Seq(S)
  BY OneElement
<1>2. x \o <<n>> \in Seq(S)
  <2>1. x \in Seq(S)
    BY DEF Four, Three
  <2> QED
    BY <1>1, <2>1, ConcatProperties
<1>3. Four(S, a, x \o <<n>>, y, c) /\ Three(S, a, x, <<n>>)
  BY <1>1, <1>2 DEF Four, Three
<1>4. Paired(a, x \o <<n>>, y, c)
  BY <1>3, RegroupFour
<1>5. Regrouped(a, x, <<n>>)
  BY <1>3, RegroupThree
<1> QED
  BY <1>4, <1>5 DEF Paired, Regrouped, Centred

\* The nodes of two sequences are in place if those of both together are, and conversely.
AllAt(x, m, i) == \A j \in 1 .. Len(x) : (x[j].key % m) + 1 = i

\* Where the nodes of two parts of a bucket belong.
LEMMA BothAt ==
    ASSUME NEW x \in Seq(KeyedNodes), NEW y \in Seq(KeyedNodes), NEW m, NEW i
    PROVE  AllAt(x \o y, m, i) <=> AllAt(x, m, i) /\ AllAt(y, m, i)
<1>1. Len(x) \in Nat /\ Len(y) \in Nat
  BY LenProperties
<1>2. PICK q : q = x \o y
  OBVIOUS
<1>3. /\ Len(q) = Len(x) + Len(y)
      /\ \A j \in 1 .. Len(x) + Len(y) : q[j] = IF j <= Len(x) THEN x[j] ELSE y[j - Len(x)]
  BY <1>2, ConcatProperties
<1>4. ASSUME AllAt(q, m, i)
      PROVE  AllAt(x, m, i) /\ AllAt(y, m, i)
  <2>1. ASSUME NEW j \in 1 .. Len(x) PROVE (x[j].key % m) + 1 = i
    <3>1. j \in 1 .. Len(q) /\ q[j] = x[j]
      BY <1>1, <1>3
    <3> QED
      BY <1>4, <3>1 DEF AllAt
  <2>2. ASSUME NEW j \in 1 .. Len(y) PROVE (y[j].key % m) + 1 = i
    <3>1. j + Len(x) \in 1 .. Len(x) + Len(y) /\ ~ (j + Len(x) <= Len(x)) /\ j + Len(x) - Len(x) = j
      BY <1>1
    <3>2. j + Len(x) \in 1 .. Len(q) /\ q[j + Len(x)] = y[j]
      BY <1>3, <3>1
    <3> QED
      BY <1>4, <3>2 DEF AllAt
  <2> QED
    BY <2>1, <2>2 DEF AllAt
<1>5. ASSUME AllAt(x, m, i), AllAt(y, m, i)
      PROVE  AllAt(q, m, i)
  <2>1. ASSUME NEW j \in 1 .. Len(q) PROVE (q[j].key % m) + 1 = i
    <3>1. CASE j <= Len(x)
      <4>1. j \in 1 .. Len(x) /\ q[j] = x[j]
        BY <1>1, <1>3, <3>1
      <4> QED
        BY <1>5, <4>1 DEF AllAt
    <3>2. CASE ~ (j <= Len(x))
      <4>1. j - Len(x) \in 1 .. Len(y) /\ q[j] = y[j - Len(x)]
        BY <1>1, <1>3, <3>2
      <4> QED
        BY <1>5, <4>1 DEF AllAt
    <3> QED
      BY <3>1, <3>2
  <2> QED
    BY <2>1 DEF AllAt
<1> QED
  BY <1>2, <1>4, <1>5

\* A sequence of buckets is in place if one is and the others are.
LEMMA PlaceOne ==
    ASSUME NEW b \in Seq(Seq(KeyedNodes)), NEW i \in 1 .. Len(b), NEW x \in Seq(KeyedNodes),
           NEW r, Replaced(r, b, i, x)
    PROVE  /\ InPlace(b) => AllAt(b[i], Len(b), i)
           /\ InPlace(r) => AllAt(x, Len(b), i)
           /\ AllAt(b[i], Len(b), i) /\ InPlace(r) => InPlace(b)
           /\ AllAt(x, Len(b), i) /\ InPlace(b) => InPlace(r)
<1>1. /\ Len(r) = Len(b) /\ r[i] = x
      /\ \A j \in 1 .. Len(b) : r[j] = IF j = i THEN x ELSE b[j]
  BY ReplacedFacts
<1>2. (InPlace(b) => AllAt(b[i], Len(b), i)) /\ (InPlace(r) => AllAt(x, Len(b), i))
  BY <1>1 DEF InPlace, AllAt
<1>3. ASSUME AllAt(b[i], Len(b), i), InPlace(r), NEW k \in 1 .. Len(b), NEW j \in 1 .. Len(b[k])
      PROVE  (b[k][j].key % Len(b)) + 1 = k
  <2>1. CASE k = i
    BY <1>3, <2>1 DEF AllAt
  <2>2. CASE k # i
    <3>1. k \in 1 .. Len(r) /\ r[k] = b[k]
      BY <1>1, <2>2
    <3> QED
      BY <1>1, <1>3, <3>1 DEF InPlace
  <2> QED
    BY <2>1, <2>2
<1>4. ASSUME AllAt(x, Len(b), i), InPlace(b), NEW k \in 1 .. Len(r), NEW j \in 1 .. Len(r[k])
      PROVE  (r[k][j].key % Len(r)) + 1 = k
  <2>1. CASE k = i
    BY <1>1, <1>4, <2>1 DEF AllAt
  <2>2. CASE k # i
    <3>1. k \in 1 .. Len(b) /\ r[k] = b[k] /\ j \in 1 .. Len(b[k])
      BY <1>1, <1>4, <2>2
    <3> QED
      BY <1>1, <1>4, <3>1 DEF InPlace
  <2> QED
    BY <2>1, <2>2
<1> QED
  BY <1>2, <1>3, <1>4 DEF InPlace

\* Where a node stands in a bucket.
LEMMA AtBetween ==
    ASSUME NEW x \in Seq(KeyedNodes), NEW y \in Seq(KeyedNodes), NEW n \in KeyedNodes, NEW m, NEW i
    PROVE  AllAt(x \o <<n>> \o y, m, i) <=> AllAt(x \o y, m, i) /\ (n.key % m) + 1 = i
<1>1. PICK e \in Seq(KeyedNodes) : e = <<n>>
  BY OneElement
<1>2. AllAt(e, m, i) <=> (n.key % m) + 1 = i
  BY <1>1, OneElement DEF AllAt
<1>3. PICK d \in Seq(KeyedNodes) : d = x \o e
  BY ConcatProperties
<1>4. AllAt(d, m, i) <=> AllAt(x, m, i) /\ AllAt(e, m, i)
  BY <1>3, BothAt
<1>5. AllAt(d \o y, m, i) <=> AllAt(d, m, i) /\ AllAt(y, m, i)
  BY BothAt
<1>6. AllAt(x \o y, m, i) <=> AllAt(x, m, i) /\ AllAt(y, m, i)
  BY BothAt
<1> QED
  BY <1>1, <1>2, <1>3, <1>4, <1>5, <1>6

\* The nodes of b are those of r without n.
FlatApart(r, b, n) == \E p : OneApart(FlattenSeq(r), FlattenSeq(b), p, n)

\* The whole with a node in the middle of a part, and without it.
LEMMA ApartAround ==
    ASSUME NEW S, NEW a, NEW x, NEW y, NEW c, Four(S, a, x, y, c), NEW n \in S
    PROVE  \E p : OneApart(a \o (x \o <<n>> \o y) \o c, a \o (x \o y) \o c, p, n)
<1>1. Paired(a, x, y, c)
  BY RegroupFour
<1>2. Centred(a, x, n, y, c)
  BY RegroupAround
<1>3. PICK f \in Seq(S), g \in Seq(S) : f = a \o x /\ g = y \o c
  <2>1. a \in Seq(S) /\ x \in Seq(S) /\ y \in Seq(S) /\ c \in Seq(S)
    BY DEF Four, Three
  <2> QED
    BY <2>1, ConcatProperties
<1>4. OneApart(f \o <<n>> \o g, f \o g, Len(f) + 1, n)
  BY ApartFacts
<1>5. OneApart((a \o x) \o <<n>> \o (y \o c), (a \o x) \o (y \o c), Len(f) + 1, n)
  BY <1>3, <1>4
<1>6. OneApart(a \o (x \o <<n>> \o y) \o c, a \o (x \o y) \o c, Len(f) + 1, n)
  BY <1>1, <1>2, <1>5 DEF Paired, Centred
<1> QED
  BY <1>6

\* So it is with buckets put together.
LEMMA FlatBetween ==
    ASSUME NEW a, NEW x, NEW y, NEW c, Four(KeyedNodes, a, x, y, c), NEW n \in KeyedNodes, NEW b, NEW r,
           FlattenSeq(b) = a \o (x \o y) \o c, FlattenSeq(r) = a \o (x \o <<n>> \o y) \o c
    PROVE  FlatApart(r, b, n)
<1>1. \E p : OneApart(a \o (x \o <<n>> \o y) \o c, a \o (x \o y) \o c, p, n)
  BY ApartAround
<1> QED
  BY <1>1 DEF FlatApart

\* What is around the i-th bucket is the same in r, which has z in its place.
Around(r, b, i, z) ==
    \E a \in Seq(KeyedNodes), c \in Seq(KeyedNodes) :
        FlattenSeq(b) = a \o b[i] \o c /\ FlattenSeq(r) = a \o z \o c

\* Replacing a bucket leaves what is around it.
LEMMA BucketsApart ==
    ASSUME NEW b \in Seq(Seq(KeyedNodes)), NEW i \in 1 .. Len(b), NEW z \in Seq(KeyedNodes),
           NEW r, Replaced(r, b, i, z)
    PROVE  Around(r, b, i, z)
<1>1. FlattenSeq(Ahead(b, i)) \in Seq(KeyedNodes) /\ FlattenSeq(Behind(b, i)) \in Seq(KeyedNodes)
  BY FlattenAround
<1>2. FlattenSeq(b) = FlattenSeq(Ahead(b, i)) \o b[i] \o FlattenSeq(Behind(b, i))
  BY FlattenAround
<1>3. FlattenSeq(r) = FlattenSeq(Ahead(b, i)) \o z \o FlattenSeq(Behind(b, i))
  BY FlattenAround
<1> QED
  BY <1>1, <1>2, <1>3 DEF Around

\* r is b with n between x and y in the i-th bucket.
Widened(r, b, i, x, y, n) ==
    /\ b \in Seq(Seq(KeyedNodes)) /\ i \in 1 .. Len(b) /\ n \in KeyedNodes
    /\ x \in Seq(KeyedNodes) /\ y \in Seq(KeyedNodes)
    /\ b[i] = x \o y /\ Replaced(r, b, i, x \o <<n>> \o y)

\* What is joined is a sequence.
LEMMA BetweenTyped ==
    ASSUME NEW S, NEW x \in Seq(S), NEW y \in Seq(S), NEW n \in S
    PROVE  x \o y \in Seq(S) /\ x \o <<n>> \o y \in Seq(S)
<1>1. <<n>> \in Seq(S)
  BY OneElement
<1> QED
  BY <1>1, ConcatProperties

\* The nodes of such buckets: one more, where its bucket is.
LEMMA WidenedFacts ==
    ASSUME NEW r, NEW b, NEW i, NEW x, NEW y, NEW n, Widened(r, b, i, x, y, n)
    PROVE  /\ r \in Seq(Seq(KeyedNodes)) /\ Len(r) = Len(b)
           /\ r[i] = x \o <<n>> \o y
           /\ FlatApart(r, b, n)
           /\ InPlace(r) <=> InPlace(b) /\ (n.key % Len(b)) + 1 = i
<1>1. /\ b \in Seq(Seq(KeyedNodes)) /\ i \in 1 .. Len(b) /\ n \in KeyedNodes
      /\ x \in Seq(KeyedNodes) /\ y \in Seq(KeyedNodes)
      /\ b[i] = x \o y /\ Replaced(r, b, i, x \o <<n>> \o y)
  BY DEF Widened
<1>2. PICK z \in Seq(KeyedNodes) : z = x \o <<n>> \o y
  BY <1>1, BetweenTyped
<1>3. Replaced(r, b, i, z)
  BY <1>1, <1>2
<1>4. r \in Seq(Seq(KeyedNodes)) /\ Len(r) = Len(b) /\ r[i] = z
  BY <1>1, <1>3, ReplacedFacts
<1>5. Around(r, b, i, z)
  BY <1>1, <1>3, BucketsApart
<1>6. FlatApart(r, b, n)
  <2>1. PICK a \in Seq(KeyedNodes), c \in Seq(KeyedNodes) :
            FlattenSeq(b) = a \o b[i] \o c /\ FlattenSeq(r) = a \o z \o c
    BY <1>5 DEF Around
  <2>2. Four(KeyedNodes, a, x, y, c)
    BY <1>1 DEF Four, Three
  <2>3. FlattenSeq(b) = a \o (x \o y) \o c /\ FlattenSeq(r) = a \o (x \o <<n>> \o y) \o c
    BY <1>1, <1>2, <2>1
  <2> QED
    BY <1>1, <2>2, <2>3, FlatBetween
<1>7. /\ InPlace(b) => AllAt(b[i], Len(b), i)
      /\ InPlace(r) => AllAt(z, Len(b), i)
      /\ AllAt(b[i], Len(b), i) /\ InPlace(r) => InPlace(b)
      /\ AllAt(z, Len(b), i) /\ InPlace(b) => InPlace(r)
  BY <1>1, <1>3, PlaceOne
<1>8. AllAt(x \o <<n>> \o y, Len(b), i) <=> AllAt(x \o y, Len(b), i) /\ (n.key % Len(b)) + 1 = i
  BY <1>1, AtBetween
<1>9. InPlace(r) <=> InPlace(b) /\ (n.key % Len(b)) + 1 = i
  BY <1>1, <1>2, <1>7, <1>8
<1> QED
  BY <1>2, <1>4, <1>6, <1>9

\* One node more in a bucket, of a new key.
LEMMA BucketAdds ==
    ASSUME NEW r, NEW b, NEW i, NEW x, NEW y, NEW n, Widened(r, b, i, x, y, n),
           NEW E, Hold(b, E), (n.key % Len(b)) + 1 = i, n.key \notin KeysOf(E)
    PROVE  Hold(r, E \cup {n}) /\ Len(FlattenSeq(r)) = Len(FlattenSeq(b)) + 1
<1>1. InPlace(b) /\ Lists(FlattenSeq(b), E) /\ n \in KeyedNodes
  BY DEF Hold, Widened
<1>2. r \in Seq(Seq(KeyedNodes)) /\ FlatApart(r, b, n) /\ InPlace(r)
  BY <1>1, WidenedFacts
<1>3. PICK p : OneApart(FlattenSeq(r), FlattenSeq(b), p, n)
  BY <1>2 DEF FlatApart
<1>4. FlattenSeq(r) \in Seq(KeyedNodes)
  <2>1. <<>> \in Seq(KeyedNodes)
    BY EmptySeq
  <2> QED
    BY <1>2, <2>1, FlattenSteps
<1>5. Lists(FlattenSeq(r), E \cup {n})
  BY <1>1, <1>3, <1>4, OneListed
<1>6. Len(FlattenSeq(r)) = Len(FlattenSeq(b)) + 1
  BY <1>3 DEF OneApart
<1> QED
  BY <1>2, <1>5, <1>6 DEF Hold

\* One node less in a bucket.
LEMMA BucketDrops ==
    ASSUME NEW r, NEW b, NEW i, NEW x, NEW y, NEW n, Widened(r, b, i, x, y, n),
           NEW E, Hold(r, E)
    PROVE  /\ Hold(b, E \ {n}) /\ n \in E /\ n.key \notin KeysOf(E \ {n})
           /\ (n.key % Len(b)) + 1 = i /\ Len(b) = Len(r)
           /\ Len(FlattenSeq(r)) = Len(FlattenSeq(b)) + 1
<1>1. InPlace(r) /\ Lists(FlattenSeq(r), E) /\ n \in KeyedNodes /\ b \in Seq(Seq(KeyedNodes))
  BY DEF Hold, Widened
<1>2. Len(r) = Len(b) /\ FlatApart(r, b, n) /\ InPlace(b) /\ (n.key % Len(b)) + 1 = i
  <2>1. InPlace(r) <=> InPlace(b) /\ (n.key % Len(b)) + 1 = i
    BY WidenedFacts
  <2>2. Len(r) = Len(b) /\ FlatApart(r, b, n)
    BY WidenedFacts
  <2> QED
    BY <1>1, <2>1, <2>2
<1>3. PICK p : OneApart(FlattenSeq(r), FlattenSeq(b), p, n)
  BY <1>2 DEF FlatApart
<1>4. FlattenSeq(b) \in Seq(KeyedNodes)
  <2>1. <<>> \in Seq(KeyedNodes)
    BY EmptySeq
  <2> QED
    BY <1>1, <2>1, FlattenSteps
<1>5. n \in E /\ n.key \notin KeysOf(E \ {n}) /\ Lists(FlattenSeq(b), E \ {n})
  BY <1>1, <1>3, <1>4, OneUnlisted
<1>6. Len(FlattenSeq(r)) = Len(FlattenSeq(b)) + 1
  BY <1>3 DEF OneApart
<1> QED
  BY <1>1, <1>2, <1>5, <1>6 DEF Hold

\* The least number of a set.
LEMMA LeastOf ==
    ASSUME NEW T \in SUBSET Nat, T # {}
    PROVE  Min(T) \in T /\ \A y \in T : Min(T) <= y
<1>1. \E x \in T : \A y \in T : x <= y
  BY LeastNat
<1> QED
  BY <1>1, Zenon DEF Min

-----------------------------------------------------------------------------
(* Hash tables: lookups and links.                                         *)

\* Replacing an element again, and putting back the one that was there.
LEMMA ReplacedAgain ==
    ASSUME NEW S, NEW s \in Seq(S), NEW i \in 1 .. Len(s), NEW x \in S, NEW z \in S,
           NEW d, Replaced(d, s, i, x), NEW r, Replaced(r, s, i, z)
    PROVE  Replaced(r, d, i, z)
<1>1. d \in Seq(S) /\ Len(d) = Len(s) /\ \A j \in 1 .. Len(s) : d[j] = IF j = i THEN x ELSE s[j]
  BY ReplacedFacts
<1>2. r \in Seq(S) /\ Len(r) = Len(s) /\ \A j \in 1 .. Len(s) : r[j] = IF j = i THEN z ELSE s[j]
  BY ReplacedFacts
<1>3. PICK t : Replaced(t, d, i, z)
  BY DEF Replaced
<1>4. i \in 1 .. Len(d)
  BY <1>1
<1>5. t \in Seq(S) /\ Len(t) = Len(d) /\ \A j \in 1 .. Len(d) : t[j] = IF j = i THEN z ELSE d[j]
  BY <1>1, <1>3, <1>4, ReplacedFacts
<1>6. \A j \in 1 .. Len(t) : t[j] = r[j]
  BY <1>1, <1>2, <1>5
<1>7. t = r
  BY <1>1, <1>2, <1>5, <1>6, SeqEqual
<1> QED
  BY <1>3, <1>7

\* The element that was there, put back.
LEMMA ReplacedBack ==
    ASSUME NEW S, NEW s \in Seq(S), NEW i \in 1 .. Len(s), NEW x \in S,
           NEW d, Replaced(d, s, i, x)
    PROVE  Replaced(s, d, i, s[i])
<1>1. s[i] \in S /\ s = [s EXCEPT ![i] = s[i]]
  BY ElementOfSeq, LenProperties
<1>2. Replaced(s, s, i, s[i])
  BY <1>1 DEF Replaced
<1> QED
  BY <1>1, <1>2, ReplacedAgain

Tables == [buckets : Seq(Seq(KeyedNodes)), size : Nat]

\* A table with an array, of the nodes E.
Tells(t, E) == t \in Tables /\ Hold(t.buckets, E)
Sound(t, E) == Tells(t, E) /\ t.size = Len(Nodes(t))

\* A remainder is below what it is taken by.
LEMMA RestBelow ==
    ASSUME NEW m \in Nat, m > 0, NEW k \in Nat
    PROVE  (k % m) + 1 \in 1 .. m
OBVIOUS

\* The chain of a key is a bucket.
LEMMA BucketAt ==
    ASSUME NEW t \in Tables, Len(t.buckets) > 0, NEW k \in Keys
    PROVE  /\ BucketIndex(t, k) \in 1 .. Len(t.buckets)
           /\ Chain(t, k) \in Seq(KeyedNodes) /\ Chain(t, k) = t.buckets[BucketIndex(t, k)]
<1>1. t.buckets \in Seq(Seq(KeyedNodes))
  BY DEF Tables
<1>2. Len(t.buckets) \in Nat /\ k \in Nat
  BY <1>1, LenProperties, CollectionsAssumption
<1>3. (k % Len(t.buckets)) + 1 \in 1 .. Len(t.buckets)
  BY <1>2, RestBelow
<1>4. BucketIndex(t, k) \in 1 .. Len(t.buckets)
  BY <1>3 DEF BucketIndex
<1> QED
  BY <1>1, <1>4, ElementOfSeq DEF Chain

\* What SelectInSeq finds of a key.
LEMMA PlaceIs ==
    ASSUME NEW t, NEW k, Chain(t, k) \in Seq(KeyedNodes)
    PROVE  /\ Place(t, k) \in 0 .. Len(Chain(t, k))
           /\ Place(t, k) > 0 => Chain(t, k)[Place(t, k)].key = k
           /\ \A j \in 1 .. Len(Chain(t, k)) :
                  Chain(t, k)[j].key = k => Place(t, k) > 0 /\ Place(t, k) <= j
<1> DEFINE T == {j \in 1 .. Len(Chain(t, k)) : Chain(t, k)[j].key = k}
<1>1. Len(Chain(t, k)) \in Nat
  BY LenProperties
<1>2. Place(t, k) = IF T # {} THEN Min(T) ELSE 0
  BY DEF Place, SelectInSeq
<1>3. CASE T = {}
  BY <1>1, <1>2, <1>3
<1>4. CASE T # {}
  <2>1. T \in SUBSET Nat
    BY <1>1
  <2>2. Min(T) \in T /\ \A y \in T : Min(T) <= y
    <3> HIDE DEF T
    <3> QED
      BY <1>4, <2>1, LeastOf
  <2> QED
    <3>1. Place(t, k) = Min(T)
      BY <1>2, <1>4
    <3>2. Place(t, k) \in 1 .. Len(Chain(t, k)) /\ Chain(t, k)[Place(t, k)].key = k
      BY <2>2, <3>1
    <3>3. ASSUME NEW j \in 1 .. Len(Chain(t, k)), Chain(t, k)[j].key = k
          PROVE  Place(t, k) <= j
      <4>1. j \in T
        BY <3>3
      <4> HIDE DEF T
      <4> QED
        BY <2>2, <3>1, <4>1
    <3> HIDE DEF T
    <3> QED
      BY <1>1, <3>2, <3>3
<1> QED
  BY <1>3, <1>4

\* A node is known by its key.
LEMMA KeyOnce ==
    ASSUME NEW q, NEW E, Lists(q, E), NEW m \in E, NEW n \in E, m.key = n.key
    PROVE  m = n
<1>1. PICK i \in 1 .. Len(q) : q[i] = m
  BY DEF Lists, Among
<1>2. PICK j \in 1 .. Len(q) : q[j] = n
  BY DEF Lists, Among
<1>3. i = j
  BY <1>1, <1>2 DEF Lists
<1> QED
  BY <1>1, <1>2, <1>3

\* A node stands in the chain that its key is looked up in.
LEMMA Found ==
    ASSUME NEW t, NEW E, Tells(t, E), Len(t.buckets) > 0, NEW k \in Keys
    PROVE  /\ Place(t, k) > 0 => Chain(t, k)[Place(t, k)] \in E /\ Chain(t, k)[Place(t, k)].key = k
           /\ k \in KeysOf(E) => Place(t, k) > 0
           /\ \A j \in 1 .. Len(Chain(t, k)) : Chain(t, k)[j] \in E
<1>1. /\ t \in Tables /\ t.buckets \in Seq(Seq(KeyedNodes)) /\ InPlace(t.buckets)
      /\ Lists(FlattenSeq(t.buckets), E)
  BY DEF Tells, Hold
<1>2. /\ BucketIndex(t, k) \in 1 .. Len(t.buckets)
      /\ Chain(t, k) \in Seq(KeyedNodes) /\ Chain(t, k) = t.buckets[BucketIndex(t, k)]
  BY <1>1, BucketAt
<1>3. /\ Place(t, k) \in 0 .. Len(Chain(t, k))
      /\ Place(t, k) > 0 => Chain(t, k)[Place(t, k)].key = k
      /\ \A j \in 1 .. Len(Chain(t, k)) :
             Chain(t, k)[j].key = k => Place(t, k) > 0 /\ Place(t, k) <= j
  BY <1>2, PlaceIs
<1>4. ASSUME NEW j \in 1 .. Len(Chain(t, k))
      PROVE  Chain(t, k)[j] \in E
  <2>1. InPart(Chain(t, k)[j], t.buckets)
    BY <1>2 DEF InPart
  <2>2. Among(Chain(t, k)[j], FlattenSeq(t.buckets)) /\ Chain(t, k)[j] \in KeyedNodes
    BY <1>1, <1>2, <2>1, AmongParts, ElementOfSeq
  <2> QED
    BY <1>1, <2>2 DEF Lists
<1>5. ASSUME NEW n \in E, n.key = k
      PROVE  Place(t, k) > 0
  <2>1. Among(n, FlattenSeq(t.buckets))
    BY <1>1 DEF Lists
  <2>2. InPart(n, t.buckets)
    BY <1>1, <2>1, AmongParts
  <2>3. PICK i \in 1 .. Len(t.buckets) : \E j \in 1 .. Len(t.buckets[i]) : t.buckets[i][j] = n
    BY <2>2 DEF InPart
  <2>4. PICK j \in 1 .. Len(t.buckets[i]) : t.buckets[i][j] = n
    BY <2>3
  <2>5. i = BucketIndex(t, k)
    BY <1>1, <1>5, <2>4 DEF InPlace, BucketIndex
  <2> QED
    BY <1>2, <1>3, <1>5, <2>4, <2>5
<1>6. Place(t, k) > 0 => Place(t, k) \in 1 .. Len(Chain(t, k))
  BY <1>2, <1>3, LenProperties
<1> QED
  BY <1>3, <1>4, <1>5, <1>6 DEF KeysOf

\* A new head of a chain.
LEMMA LinkTells ==
    ASSUME NEW t, NEW E, Tells(t, E), Len(t.buckets) > 0, NEW n \in KeyedNodes, n.key \notin KeysOf(E)
    PROVE  /\ Tells(LinkFront(t, n), E \cup {n})
           /\ Len(LinkFront(t, n).buckets) = Len(t.buckets) /\ LinkFront(t, n).size = t.size
           /\ Len(Nodes(LinkFront(t, n))) = Len(Nodes(t)) + 1
<1>1. /\ t \in Tables /\ t.buckets \in Seq(Seq(KeyedNodes)) /\ n.key \in Keys
      /\ Hold(t.buckets, E)
  BY DEF Tells, Hold, KeyedNodes
<1>2. /\ BucketIndex(t, n.key) \in 1 .. Len(t.buckets)
      /\ Chain(t, n.key) \in Seq(KeyedNodes) /\ Chain(t, n.key) = t.buckets[BucketIndex(t, n.key)]
  BY <1>1, BucketAt
<1>3. PICK i, y : i = BucketIndex(t, n.key) /\ y = Chain(t, n.key)
  OBVIOUS
<1>4. PICK r : Replaced(r, t.buckets, i, <<n>> \o y)
  BY DEF Replaced
<1>5. LinkFront(t, n) = [t EXCEPT !.buckets = r]
  BY <1>1, <1>2, <1>3, <1>4 DEF LinkFront, Replaced, Tables
<1>6. <<>> \in Seq(KeyedNodes) /\ <<>> \o y = y /\ <<>> \o <<n>> = <<n>>
  <2>1. y \in Seq(KeyedNodes) /\ <<n>> \in Seq(KeyedNodes)
    BY <1>2, <1>3, OneElement
  <2> QED
    BY <2>1, EmptySeq, ConcatEmptySeq
<1>7. Widened(r, t.buckets, i, <<>>, y, n)
  BY <1>1, <1>2, <1>3, <1>4, <1>6 DEF Widened
<1>8. (n.key % Len(t.buckets)) + 1 = i
  BY <1>3 DEF BucketIndex
<1>9. Hold(r, E \cup {n}) /\ Len(FlattenSeq(r)) = Len(FlattenSeq(t.buckets)) + 1
  BY <1>1, <1>7, <1>8, BucketAdds
<1>10. r \in Seq(Seq(KeyedNodes)) /\ Len(r) = Len(t.buckets)
  BY <1>7, WidenedFacts
<1>11. /\ LinkFront(t, n) \in Tables /\ LinkFront(t, n).buckets = r /\ LinkFront(t, n).size = t.size
  BY <1>1, <1>5, <1>10 DEF Tables
<1> QED
  BY <1>9, <1>10, <1>11 DEF Tells, Nodes

-----------------------------------------------------------------------------
(* Hash tables: erasing a node, and writing its value.                     *)

\* The nodes of other keys.
Others(E, k) == {n \in E : n.key # k}

\* They are all but one node.
LEMMA OthersAre ==
    ASSUME NEW q, NEW E, Lists(q, E), NEW n \in E
    PROVE  E \ {n} = Others(E, n.key)
<1>1. \A m \in E : m.key = n.key => m = n
  BY KeyOnce
<1> QED
  BY <1>1 DEF Others

\* The node of a key, in the bucket it stands in.
SplitAt(t, E, k, i, x, y, n) ==
    /\ i = BucketIndex(t, k) /\ x = Ahead(Chain(t, k), Place(t, k))
    /\ y = Behind(Chain(t, k), Place(t, k)) /\ n = Chain(t, k)[Place(t, k)]
    /\ n.key = k /\ n \in KeyedNodes
    /\ t.buckets[i] = x \o <<n>> \o y
    /\ Len(x) = Place(t, k) - 1 /\ Place(t, k) \in 1 .. Len(t.buckets[i])
SplitIn(t, E, k) ==
    \E i \in 1 .. Len(t.buckets), x \in Seq(KeyedNodes), y \in Seq(KeyedNodes), n \in E :
        SplitAt(t, E, k, i, x, y, n)

\* The bucket of a node that was found, around it.
LEMMA FoundAround ==
    ASSUME NEW t, NEW E, Tells(t, E), Len(t.buckets) > 0, NEW k \in Keys, Place(t, k) > 0
    PROVE  SplitIn(t, E, k)
<1>1. t \in Tables /\ E \in SUBSET KeyedNodes
  BY DEF Tells, Hold, Lists
<1>2. PICK i : i = BucketIndex(t, k)
  OBVIOUS
<1>3. PICK s : s = Chain(t, k)
  OBVIOUS
<1>4. i \in 1 .. Len(t.buckets) /\ s \in Seq(KeyedNodes) /\ s = t.buckets[i]
  BY <1>1, <1>2, <1>3, BucketAt
<1>5. Place(t, k) \in 0 .. Len(s)
  BY <1>3, <1>4, PlaceIs
<1>6. PICK p : p = Place(t, k)
  OBVIOUS
<1>7. p \in 1 .. Len(s)
  BY <1>4, <1>5, <1>6, LenProperties
<1>8. Ahead(s, p) \in Seq(KeyedNodes) /\ Len(Ahead(s, p)) = p - 1 /\ Behind(s, p) \in Seq(KeyedNodes)
  BY <1>4, <1>7, AroundFacts
<1>9. s = Ahead(s, p) \o <<s[p]>> \o Behind(s, p)
  BY <1>4, <1>7, AroundJoins
<1>10. s[p] \in E /\ s[p].key = k
  BY <1>3, <1>6, Found
<1>11. SplitAt(t, E, k, i, Ahead(s, p), Behind(s, p), s[p])
  BY <1>1, <1>2, <1>3, <1>4, <1>6, <1>7, <1>8, <1>9, <1>10 DEF SplitAt
<1> QED
  BY <1>4, <1>8, <1>10, <1>11 DEF SplitIn

\* The table without the node of a key, whose bucket becomes z.
ErasedAt(t, k, i, z) ==
    \E d : Replaced(d, t.buckets, i, z) /\ Erase(t, k) = [t EXCEPT !.buckets = d, !.size = @ - 1]

\* What erase makes of the node found.
LEMMA EraseIs ==
    ASSUME NEW t \in Tables, NEW E, NEW k \in Keys, Place(t, k) # 0,
           NEW i, NEW x, NEW y, NEW n, SplitAt(t, E, k, i, x, y, n), NEW z, z = x \o y
    PROVE  ErasedAt(t, k, i, z)
<1>1. PICK d : Replaced(d, t.buckets, i, z)
  BY DEF Replaced
<1>2. i = BucketIndex(t, k) /\ t.buckets[i] = Chain(t, k)
  BY DEF SplitAt, Chain
<1>3. RemoveAt(t.buckets[i], Place(t, k)) = z
  BY <1>2 DEF SplitAt, RemoveAt, Ahead, Behind
<1>4. Erase(t, k) = [t EXCEPT !.buckets = d, !.size = @ - 1]
  BY <1>1, <1>2, <1>3 DEF Erase, Replaced, Tables
<1> QED
  BY <1>1, <1>4 DEF ErasedAt

\* Erase leaves the nodes of other keys, and counts them.
LEMMA EraseTells ==
    ASSUME NEW t, NEW E, Sound(t, E), Len(t.buckets) > 0, NEW k \in Keys
    PROVE  Sound(Erase(t, k), Others(E, k)) /\ Len(Erase(t, k).buckets) = Len(t.buckets)
<1>1. /\ Tells(t, E) /\ t \in Tables /\ t.size = Len(Nodes(t)) /\ Hold(t.buckets, E)
      /\ Lists(FlattenSeq(t.buckets), E) /\ t.buckets \in Seq(Seq(KeyedNodes))
  BY DEF Sound, Tells, Hold
<1>2. CASE Place(t, k) = 0
  <2>1. Others(E, k) = E
    <3>1. k \notin KeysOf(E)
      BY <1>1, <1>2, Found
    <3> QED
      BY <3>1 DEF Others, KeysOf
  <2>2. Erase(t, k) = t
    BY <1>2 DEF Erase
  <2> QED
    BY <2>1, <2>2
<1>3. CASE Place(t, k) # 0
  <2>1. Place(t, k) > 0
    <3>1. Chain(t, k) \in Seq(KeyedNodes)
      BY <1>1, BucketAt
    <3>2. Place(t, k) \in 0 .. Len(Chain(t, k)) /\ Len(Chain(t, k)) \in Nat
      BY <3>1, PlaceIs, LenProperties
    <3> QED
      BY <1>3, <3>2
  <2>2. PICK i \in 1 .. Len(t.buckets), x \in Seq(KeyedNodes), y \in Seq(KeyedNodes), n \in E :
        /\ i = BucketIndex(t, k) /\ x = Ahead(Chain(t, k), Place(t, k))
        /\ y = Behind(Chain(t, k), Place(t, k)) /\ n = Chain(t, k)[Place(t, k)]
        /\ n.key = k /\ n \in KeyedNodes
        /\ t.buckets[i] = x \o <<n>> \o y
        /\ Len(x) = Place(t, k) - 1 /\ Place(t, k) \in 1 .. Len(t.buckets[i])
    <3>1. SplitIn(t, E, k)
      BY <1>1, <2>1, FoundAround
    <3> QED
      BY <3>1 DEF SplitIn, SplitAt
  <2>3. PICK z \in Seq(KeyedNodes) : z = x \o y
    BY ConcatProperties
  <2>4. ErasedAt(t, k, i, z)
    <3>1. SplitAt(t, E, k, i, x, y, n)
      BY <2>2 DEF SplitAt
    <3> QED
      BY <1>1, <1>3, <2>3, <3>1, EraseIs
  <2>5. PICK d : Replaced(d, t.buckets, i, z) /\ Erase(t, k) = [t EXCEPT !.buckets = d, !.size = @ - 1]
    BY <2>4 DEF ErasedAt
  <2>6. d \in Seq(Seq(KeyedNodes)) /\ Len(d) = Len(t.buckets) /\ d[i] = z
    BY <1>1, <2>5, ReplacedFacts
  <2>7. Widened(t.buckets, d, i, x, y, n)
    <3>1. Replaced(t.buckets, d, i, t.buckets[i])
      BY <1>1, <2>5, ReplacedBack
    <3>2. Replaced(t.buckets, d, i, x \o <<n>> \o y)
      BY <2>2, <3>1
    <3>3. i \in 1 .. Len(d) /\ d[i] = x \o y
      BY <2>3, <2>6
    <3> QED
      BY <2>2, <2>6, <3>2, <3>3 DEF Widened
  <2>8. Hold(d, E \ {n}) /\ Len(FlattenSeq(t.buckets)) = Len(FlattenSeq(d)) + 1
    BY <1>1, <2>7, BucketDrops
  <2>9. E \ {n} = Others(E, k)
    BY <1>1, <2>2, OthersAre
  <2>10. Len(FlattenSeq(d)) \in Nat /\ FlattenSeq(t.buckets) \in Seq(KeyedNodes)
    <3>1. FlattenSeq(d) \in Seq(KeyedNodes) /\ FlattenSeq(t.buckets) \in Seq(KeyedNodes)
      BY <1>1, <2>8 DEF Hold, Lists
    <3> QED
      BY <3>1, LenProperties
  <2>11. Erase(t, k).buckets = d /\ Erase(t, k).size = t.size - 1
    BY <1>1, <2>5 DEF Tables
  <2>12. t.size - 1 = Len(FlattenSeq(d)) /\ t.size - 1 \in Nat
    BY <1>1, <2>8, <2>10 DEF Nodes
  <2>13. Erase(t, k) \in Tables
    BY <1>1, <2>5, <2>6, <2>12 DEF Tables
  <2> QED
    BY <2>6, <2>8, <2>9, <2>11, <2>12, <2>13 DEF Sound, Tells, Nodes
<1> QED
  BY <1>2, <1>3

\* A value written to a key that is there.
LEMMA SetTells ==
    ASSUME NEW t, NEW E, Sound(t, E), Len(t.buckets) > 0, NEW k \in Keys, k \in KeysOf(E), NEW v \in Given
    PROVE  /\ Sound(SetValue(t, k, v), Others(E, k) \cup {[key |-> k, value |-> v]})
           /\ Len(SetValue(t, k, v).buckets) = Len(t.buckets)
<1>1. /\ Tells(t, E) /\ t \in Tables /\ t.size = Len(Nodes(t)) /\ Hold(t.buckets, E)
      /\ Lists(FlattenSeq(t.buckets), E) /\ t.buckets \in Seq(Seq(KeyedNodes))
  BY DEF Sound, Tells, Hold
<1>2. Place(t, k) > 0
  BY <1>1, Found
<1>3. PICK i \in 1 .. Len(t.buckets), x \in Seq(KeyedNodes), y \in Seq(KeyedNodes), n \in E :
      /\ i = BucketIndex(t, k) /\ x = Ahead(Chain(t, k), Place(t, k))
      /\ y = Behind(Chain(t, k), Place(t, k)) /\ n = Chain(t, k)[Place(t, k)]
      /\ n.key = k /\ n \in KeyedNodes
      /\ t.buckets[i] = x \o <<n>> \o y
      /\ Len(x) = Place(t, k) - 1 /\ Place(t, k) \in 1 .. Len(t.buckets[i])
  <2>1. SplitIn(t, E, k)
    BY <1>1, <1>2, FoundAround
  <2> QED
    BY <2>1 DEF SplitIn, SplitAt
<1>4. PICK m : m = [key |-> k, value |-> v]
  OBVIOUS
<1>5. m \in KeyedNodes /\ m.key = k
  BY <1>4 DEF KeyedNodes
<1>6. PICK z \in Seq(KeyedNodes) : z = x \o y
  BY ConcatProperties
<1>7. PICK w \in Seq(KeyedNodes) : w = x \o <<m>> \o y
  BY <1>5, BetweenTyped
<1>8. PICK d : Replaced(d, t.buckets, i, z)
  BY DEF Replaced
<1>9. PICK r : Replaced(r, t.buckets, i, w)
  BY DEF Replaced
<1>10. SetValue(t, k, v) = [t EXCEPT !.buckets = r]
  <2>1. PICK s \in Seq(KeyedNodes) : s = t.buckets[i]
    <3>1. t.buckets \in Seq(Seq(KeyedNodes))
      BY <1>1
    <3>2. t.buckets[i] \in Seq(KeyedNodes)
      BY <3>1, ElementOfSeq
    <3> QED
      BY <3>2
  <2>2. PICK p \in 1 .. Len(s) : p = Place(t, k)
    <3>1. Place(t, k) \in 1 .. Len(t.buckets[i])
      BY <1>3
    <3>2. Place(t, k) \in 1 .. Len(s)
      BY <2>1, <3>1
    <3> QED
      BY <3>2
  <2>3. s = Chain(t, k)
    <3>1. i = BucketIndex(t, k)
      BY <1>3
    <3> QED
      BY <2>1, <3>1 DEF Chain
  <2>4. x = Ahead(s, p) /\ y = Behind(s, p) /\ s[p] = n
    BY <1>3, <2>2, <2>3
  <2>5. [n EXCEPT !.value = v] = m
    <3>1. n = [key |-> k, value |-> n.value]
      BY <1>3 DEF KeyedNodes
    <3> QED
      BY <1>4, <3>1
  <2>6. PICK u : Replaced(u, s, p, m)
    BY DEF Replaced
  <2>7. u = w
    BY <1>5, <1>7, <2>4, <2>6, ReplacedJoins
  <2>8. [s EXCEPT ![p].value = v] = w
    <3>1. [s EXCEPT ![p].value = v] = [s EXCEPT ![p] = [s[p] EXCEPT !.value = v]]
      OBVIOUS
    <3> QED
      BY <2>4, <2>5, <2>6, <2>7, <3>1 DEF Replaced
  <2>9. [t.buckets EXCEPT ![i][p].value = v] = r
    <3>1. [t.buckets EXCEPT ![i][p].value = v] = [t.buckets EXCEPT ![i] = [s EXCEPT ![p].value = v]]
      BY <2>1
    <3> QED
      BY <1>9, <2>8, <3>1 DEF Replaced
  <2>10. SetValue(t, k, v) = [t EXCEPT !.buckets = [t.buckets EXCEPT ![i][p].value = v]]
    BY <1>1, <1>3, <2>2 DEF SetValue, Tables
  <2> QED
    BY <2>9, <2>10
<1>11. d \in Seq(Seq(KeyedNodes)) /\ Len(d) = Len(t.buckets) /\ d[i] = z
  BY <1>1, <1>8, ReplacedFacts
<1>12. r \in Seq(Seq(KeyedNodes)) /\ Len(r) = Len(t.buckets)
  BY <1>1, <1>9, ReplacedFacts
<1>13. i \in 1 .. Len(d) /\ d[i] = x \o y
  BY <1>6, <1>11
<1>14. Widened(t.buckets, d, i, x, y, n)
  <2>1. Replaced(t.buckets, d, i, t.buckets[i])
    BY <1>1, <1>8, ReplacedBack
  <2>2. Replaced(t.buckets, d, i, x \o <<n>> \o y)
    BY <1>3, <2>1
  <2> QED
    BY <1>3, <1>11, <1>13, <2>2 DEF Widened
<1>15. Widened(r, d, i, x, y, m)
  <2>1. Replaced(r, d, i, w)
    BY <1>1, <1>8, <1>9, ReplacedAgain
  <2>2. Replaced(r, d, i, x \o <<m>> \o y)
    BY <1>7, <2>1
  <2> QED
    BY <1>5, <1>11, <1>13, <2>2 DEF Widened
<1>16. /\ Hold(d, E \ {n}) /\ n.key \notin KeysOf(E \ {n}) /\ (n.key % Len(d)) + 1 = i
       /\ Len(FlattenSeq(t.buckets)) = Len(FlattenSeq(d)) + 1
  <2>1. Hold(t.buckets, E)
    BY <1>1
  <2>2. Hold(d, E \ {n})
    BY <1>14, <2>1, BucketDrops
  <2>3. n.key \notin KeysOf(E \ {n})
    BY <1>14, <2>1, BucketDrops
  <2>4. (n.key % Len(d)) + 1 = i
    BY <1>14, <2>1, BucketDrops
  <2>5. Len(FlattenSeq(t.buckets)) = Len(FlattenSeq(d)) + 1
    BY <1>14, <2>1, BucketDrops
  <2> QED
    BY <2>2, <2>3, <2>4, <2>5
<1>17. (m.key % Len(d)) + 1 = i /\ m.key \notin KeysOf(E \ {n})
  BY <1>3, <1>5, <1>16
<1>18. Hold(r, (E \ {n}) \cup {m}) /\ Len(FlattenSeq(r)) = Len(FlattenSeq(d)) + 1
  BY <1>15, <1>16, <1>17, BucketAdds
<1>19. E \ {n} = Others(E, k)
  BY <1>1, <1>3, OthersAre
<1>20. /\ SetValue(t, k, v) \in Tables /\ SetValue(t, k, v).buckets = r
       /\ SetValue(t, k, v).size = t.size
  BY <1>1, <1>10, <1>12 DEF Tables
<1>21. t.size = Len(FlattenSeq(r))
  BY <1>1, <1>16, <1>18 DEF Nodes
<1> QED
  BY <1>4, <1>12, <1>18, <1>19, <1>20, <1>21 DEF Sound, Tells, Nodes

-----------------------------------------------------------------------------
(* Hash tables: new tables and rehashes.                                   *)

\* Buckets with nothing in them.
AllEmpty(b, n) == b = [i \in 1 .. n |-> <<>>]

\* They hold nothing.
LEMMA EmptyBuckets ==
    ASSUME NEW n \in Nat, NEW b, AllEmpty(b, n)
    PROVE  b \in Seq(Seq(KeyedNodes)) /\ Len(b) = n /\ FlattenSeq(b) = <<>> /\ Hold(b, {})
<1>1. <<>> \in Seq(KeyedNodes)
  BY EmptySeq
<1>2. b \in Seq(Seq(KeyedNodes)) /\ Len(b) = n /\ \A i \in 1 .. n : b[i] = <<>>
  BY <1>1 DEF AllEmpty
<1>3. \A m : ~ InPart(m, b)
  <2>1. Len(<<>>) = 0
    BY EmptySeq
  <2> QED
    BY <1>2, <2>1 DEF InPart
<1>4. FlattenSeq(b) \in Seq(KeyedNodes)
  BY <1>1, <1>2, FlattenSteps
<1>5. \A m : ~ Among(m, FlattenSeq(b))
  BY <1>2, <1>3, AmongParts
<1>6. Len(FlattenSeq(b)) = 0
  <2>1. Len(FlattenSeq(b)) \in Nat
    BY <1>4, LenProperties
  <2>2. 1 \notin 1 .. Len(FlattenSeq(b))
    BY <1>5 DEF Among
  <2> QED
    BY <2>1, <2>2
<1>7. FlattenSeq(b) = <<>>
  BY <1>4, <1>6, EmptySeq
<1>8. InPlace(b)
  <2>1. Len(<<>>) = 0
    BY EmptySeq
  <2> QED
    BY <1>2, <2>1 DEF InPlace
<1>9. Lists(FlattenSeq(b), {})
  BY <1>4, <1>5, <1>6 DEF Lists
<1> QED
  BY <1>2, <1>7, <1>8, <1>9 DEF Hold

\* A new table holds nothing.
LEMMA EmptyTells ==
    ASSUME NEW n \in Nat
    PROVE  /\ Sound(EmptyTable(n), {}) /\ Len(EmptyTable(n).buckets) = n
           /\ EmptyTable(n).size = 0 /\ Nodes(EmptyTable(n)) = <<>>
<1>1. PICK b : AllEmpty(b, n)
  BY DEF AllEmpty
<1>2. EmptyTable(n) = [buckets |-> b, size |-> 0]
  BY <1>1 DEF EmptyTable, AllEmpty
<1>3. EmptyTable(n).buckets = b /\ EmptyTable(n).size = 0
  BY <1>2
<1>4. b \in Seq(Seq(KeyedNodes)) /\ Len(b) = n /\ FlattenSeq(b) = <<>> /\ Hold(b, {})
  BY <1>1, EmptyBuckets
<1>5. EmptyTable(n) \in Tables
  BY <1>2, <1>4 DEF Tables
<1>6. Len(<<>>) = 0
  BY EmptySeq
<1> QED
  BY <1>3, <1>4, <1>5, <1>6 DEF Sound, Tells, Nodes

\* The tables of m buckets.
TablesOf(m) == {t \in Tables : Len(t.buckets) = m}

\* A link leaves the number of buckets.
LEMMA LinkTyped ==
    ASSUME NEW m \in Nat \ {0}, NEW t \in TablesOf(m), NEW n \in KeyedNodes
    PROVE  LinkFront(t, n) \in TablesOf(m) /\ LinkFront(t, n).size = t.size
<1>1. t \in Tables /\ t.buckets \in Seq(Seq(KeyedNodes)) /\ n.key \in Keys /\ Len(t.buckets) = m
  BY DEF TablesOf, Tables, KeyedNodes
<1>2. /\ BucketIndex(t, n.key) \in 1 .. Len(t.buckets)
      /\ Chain(t, n.key) \in Seq(KeyedNodes) /\ Chain(t, n.key) = t.buckets[BucketIndex(t, n.key)]
  BY <1>1, BucketAt
<1>3. PICK i, y : i = BucketIndex(t, n.key) /\ y = Chain(t, n.key)
  OBVIOUS
<1>4. PICK z \in Seq(KeyedNodes) : z = <<n>> \o y
  <2>1. <<n>> \in Seq(KeyedNodes) /\ y \in Seq(KeyedNodes)
    BY <1>2, <1>3, OneElement
  <2> QED
    BY <2>1, ConcatProperties
<1>5. PICK r : Replaced(r, t.buckets, i, z)
  BY DEF Replaced
<1>6. LinkFront(t, n) = [t EXCEPT !.buckets = r]
  BY <1>1, <1>2, <1>3, <1>4, <1>5 DEF LinkFront, Replaced, Tables
<1>7. r \in Seq(Seq(KeyedNodes)) /\ Len(r) = Len(t.buckets)
  BY <1>1, <1>2, <1>3, <1>5, ReplacedFacts
<1> QED
  BY <1>1, <1>6, <1>7 DEF TablesOf, Tables

\* The nodes s linked one after the other into m buckets.
Links(m, s) == FoldLeft(LinkFront, EmptyTable(m), s)

\* The links, node by node.
LEMMA LinkSteps ==
    ASSUME NEW m \in Nat \ {0}, NEW s \in Seq(KeyedNodes)
    PROVE  /\ Links(m, <<>>) = EmptyTable(m)
           /\ \A c \in KeyedNodes : Links(m, Append(s, c)) = LinkFront(Links(m, s), c)
<1> DEFINE D == TablesOf(m)
           base == EmptyTable(m)
           Op(p, x) == LinkFront(p, x)
           Eq(g, q) == g = [t \in SUBSET DOMAIN q |->
                              IF t = {} THEN base ELSE Op(g[t \ {Max(t)}], q[Max(t)])]
           It(q) == CHOOSE g : Eq(g, q)
<1>1. \A q : Links(m, q) = It(q)[DOMAIN q]
  BY DEF Links, FoldLeft, MapThenFoldSet
<1>2. base \in D /\ \A p \in D, x \in KeyedNodes : Op(p, x) \in D
  BY EmptyTells, LinkTyped DEF Sound, Tells, TablesOf
<1> HIDE DEF D, base, Op
<1>3. PICK F : OpOn(F, D, KeyedNodes) /\ \A d \in D, e \in KeyedNodes : F[<<d, e>>] = Op(d, e)
  <2> DEFINE F == [y \in D \X KeyedNodes |-> Op(y[1], y[2])]
  <2>1. \A d \in D, e \in KeyedNodes : F[<<d, e>>] = Op(d, e) /\ F[<<d, e>>] \in D
    BY <1>2
  <2> QED
    BY <2>1 DEF OpOn
<1>4. ASSUME NEW q \in Seq(KeyedNodes), NEW k, k = It(q)
      PROVE  /\ FoldsIn(k, F, D, base, q) /\ k[{}] = base
  <2>1. PICK g : Runs(g, F, D, KeyedNodes, base, q)
    <3> HIDE DEF It, Eq
    <3>1. base \in D /\ OpOn(F, D, KeyedNodes)
      BY <1>2, <1>3
    <3> QED
      BY <3>1, FoldsRun
  <2>2. Eq(g, q)
    BY <1>3, <2>1 DEF Folds, Runs
  <2> DEFINE Q(h) == Eq(h, q)
  <2>3. Q(k)
    <3>1. k = (CHOOSE h : Q(h)) /\ Q(g)
      BY <1>4, <2>2
    <3> HIDE DEF Q
    <3> QED
      BY <3>1
  <2>4. Eq(k, q) /\ \A t \in SUBSET DOMAIN q : t # {} => q[Max(t)] \in KeyedNodes
    BY <2>1, <2>3 DEF Runs
  <2> QED
    BY <1>3, <2>4 DEF FoldsIn
<1>5. Links(m, <<>>) = base
  <2>1. PICK k : k = It(<<>>)
    OBVIOUS
  <2>2. k[{}] = base
    BY <1>4, <2>1, EmptySeq
  <2>3. DOMAIN <<>> = {}
    OBVIOUS
  <2> HIDE DEF It
  <2> QED
    BY <1>1, <2>1, <2>2, <2>3
<1>6. ASSUME NEW c \in KeyedNodes
      PROVE  Links(m, Append(s, c)) = Op(Links(m, s), c)
  <2>1. PICK r, g, h : r = Append(s, c) /\ g = It(s) /\ h = It(r)
    OBVIOUS
  <2>2. r \in Seq(KeyedNodes) /\ OneMore(s, r) /\ r[Len(r)] = c
    BY <2>1, AppendProperties DEF OneMore
  <2>3. FoldsIn(g, F, D, base, s) /\ FoldsIn(h, F, D, base, r)
    BY <1>4, <2>1, <2>2
  <2>4. Links(m, s) = g[DOMAIN s] /\ Links(m, r) = h[DOMAIN r]
    <3> HIDE DEF It
    <3> QED
      BY <1>1, <2>1
  <2> HIDE DEF It
  <2>5. g[DOMAIN s] \in D /\ h[DOMAIN r] = F[<<g[DOMAIN s], r[Len(r)]>>]
    <3>1. base \in D /\ OpOn(F, D, KeyedNodes)
      BY <1>2, <1>3
    <3>2. r \in Seq(KeyedNodes) /\ OneMore(s, r)
      BY <2>2
    <3> QED
      BY <2>3, <3>1, <3>2, FoldsGoOn
  <2>6. Links(m, s) \in D /\ Links(m, r) = Op(Links(m, s), c)
    BY <1>3, <2>2, <2>4, <2>5
  <2> QED
    BY <2>1, <2>6
<1> QED
  BY <1>5, <1>6 DEF Op, base

\* The last of the nodes.
LEMMA LastUnlisted ==
    ASSUME NEW o \in Seq(KeyedNodes), NEW x \in KeyedNodes, NEW F, Lists(Append(o, x), F)
    PROVE  x.key \notin KeysOf(F \ {x}) /\ Lists(o, F \ {x}) /\ x \in F
<1>1. PICK q : q = Append(o, x)
  OBVIOUS
<1>2. /\ Len(q) = Len(o) + 1 /\ Len(o) \in Nat /\ q[Len(o) + 1] = x
      /\ \A i \in 1 .. Len(o) : q[i] = o[i]
  BY <1>1, AppendProperties, LenProperties
<1>3. OneApart(q, o, Len(o) + 1, x)
  BY <1>2 DEF OneApart
<1> QED
  BY <1>1, <1>3, OneUnlisted

\* Nodes of different keys, linked.
LEMMA LinksTell ==
    ASSUME NEW m \in Nat \ {0}, NEW s, NEW E, Lists(s, E)
    PROVE  /\ Tells(Links(m, s), E) /\ Len(Nodes(Links(m, s))) = Len(s)
           /\ Len(Links(m, s).buckets) = m
<1> DEFINE T == {k \in Nat : \A q : \A F : Lists(q, F) /\ Len(q) = k =>
                    /\ Tells(Links(m, q), F) /\ Len(Nodes(Links(m, q))) = Len(q)
                    /\ Len(Links(m, q).buckets) = m}
<1>1. 0 \in T
  <2> SUFFICES ASSUME NEW q, NEW F, Lists(q, F), Len(q) = 0
               PROVE  /\ Tells(Links(m, q), F) /\ Len(Nodes(Links(m, q))) = Len(q)
                      /\ Len(Links(m, q).buckets) = m
    OBVIOUS
  <2>1. q \in Seq(KeyedNodes) /\ q = <<>> /\ F = {}
    <3>1. q \in Seq(KeyedNodes) /\ F \in SUBSET KeyedNodes /\ \A n \in KeyedNodes : n \in F <=> Among(n, q)
      BY DEF Lists
    <3>2. \A n : ~ Among(n, q)
      BY DEF Among
    <3> QED
      BY <3>1, <3>2, EmptySeq
  <2>2. Links(m, <<>>) = EmptyTable(m)
    <3>1. <<>> \in Seq(KeyedNodes)
      BY EmptySeq
    <3> QED
      BY <3>1, LinkSteps
  <2>3. Tells(EmptyTable(m), {}) /\ Len(EmptyTable(m).buckets) = m /\ Nodes(EmptyTable(m)) = <<>>
    BY EmptyTells DEF Sound
  <2> QED
    BY <2>1, <2>2, <2>3
<1>2. ASSUME NEW k \in Nat \ {0}, k - 1 \in T
      PROVE  k \in T
  <2> SUFFICES ASSUME NEW q, NEW F, Lists(q, F), Len(q) = k
               PROVE  /\ Tells(Links(m, q), F) /\ Len(Nodes(Links(m, q))) = Len(q)
                      /\ Len(Links(m, q).buckets) = m
    OBVIOUS
  <2>1. q \in Seq(KeyedNodes) /\ q # <<>>
    BY EmptySeq DEF Lists
  <2>2. PICK o \in Seq(KeyedNodes), x \in KeyedNodes : q = Append(o, x)
    BY <2>1, SequenceEmptyOrAppend
  <2>3. Len(q) = Len(o) + 1 /\ Len(o) \in Nat
    BY <2>2, AppendProperties, LenProperties
  <2>4. x.key \notin KeysOf(F \ {x}) /\ Lists(o, F \ {x}) /\ x \in F
    BY <2>2, LastUnlisted
  <2>5. /\ Tells(Links(m, o), F \ {x}) /\ Len(Nodes(Links(m, o))) = Len(o)
        /\ Len(Links(m, o).buckets) = m
    BY <1>2, <2>3, <2>4
  <2>6. Links(m, Append(o, x)) = LinkFront(Links(m, o), x)
    BY LinkSteps
  <2>7. PICK t : t = Links(m, o)
    OBVIOUS
  <2>8. /\ Tells(LinkFront(t, x), (F \ {x}) \cup {x})
        /\ Len(LinkFront(t, x).buckets) = Len(t.buckets)
        /\ Len(Nodes(LinkFront(t, x))) = Len(Nodes(t)) + 1
    BY <2>4, <2>5, <2>7, LinkTells
  <2>9. (F \ {x}) \cup {x} = F
    BY <2>4
  <2> QED
    BY <2>2, <2>3, <2>5, <2>6, <2>7, <2>8, <2>9
<1>3. T = Nat
  <2>1. T \in SUBSET Nat
    OBVIOUS
  <2> HIDE DEF T
  <2> QED
    BY <1>1, <1>2, <2>1, NatSteps
<1>4. Len(s) \in T
  BY <1>3, LenProperties DEF Lists
<1> QED
  BY <1>4

\* A rehash keeps the nodes, whatever the array.
LEMMA RehashTells ==
    ASSUME NEW t, NEW E, Sound(t, E), NEW n \in Nat \ {0}
    PROVE  Sound(RehashTo(t, n), E) /\ Len(RehashTo(t, n).buckets) = n /\ RehashTo(t, n).size = t.size
<1>1. t \in Tables /\ Lists(Nodes(t), E) /\ t.size = Len(Nodes(t)) /\ t.size \in Nat
  BY DEF Sound, Tells, Hold, Nodes, Tables
<1>2. PICK u : u = Links(n, Nodes(t))
  OBVIOUS
<1>3. Tells(u, E) /\ Len(Nodes(u)) = Len(Nodes(t)) /\ Len(u.buckets) = n
  BY <1>1, <1>2, LinksTell
<1>4. RehashTo(t, n) = [u EXCEPT !.size = t.size]
  BY <1>2 DEF RehashTo, Links
<1>5. /\ RehashTo(t, n) \in Tables /\ RehashTo(t, n).buckets = u.buckets
      /\ RehashTo(t, n).size = t.size
  BY <1>1, <1>3, <1>4 DEF Tells, Tables
<1> QED
  BY <1>1, <1>3, <1>5 DEF Sound, Tells, Nodes

-----------------------------------------------------------------------------
(* Hash tables: insertions, erasures and copies.                           *)

\* The nodes with an entry more, unless its key is there.
WithEntry(E, k, v) == IF k \in KeysOf(E) THEN E ELSE E \cup {[key |-> k, value |-> v]}

\* A key is found where it stands, and only then.
LEMMA PlaceTells ==
    ASSUME NEW t, NEW E, Tells(t, E), Len(t.buckets) > 0, NEW k \in Keys
    PROVE  Place(t, k) \in Nat /\ (Place(t, k) > 0 <=> k \in KeysOf(E))
<1>1. Chain(t, k) \in Seq(KeyedNodes)
  BY BucketAt DEF Tells
<1>2. Place(t, k) \in 0 .. Len(Chain(t, k)) /\ Len(Chain(t, k)) \in Nat
  BY <1>1, PlaceIs, LenProperties
<1>3. Place(t, k) > 0 => k \in KeysOf(E)
  BY Found DEF KeysOf
<1>4. k \in KeysOf(E) => Place(t, k) > 0
  BY Found
<1> QED
  BY <1>2, <1>3, <1>4

\* emplace adds an entry of a key that is not there, with the rehash it may need.
LEMMA EmplaceTells ==
    ASSUME NEW t, NEW E, Sound(t, E), Len(t.buckets) > 0, NEW k \in Keys, NEW v \in Given
    PROVE  /\ Sound(Emplace(t, k, v).table, WithEntry(E, k, v))
           /\ Len(Emplace(t, k, v).table.buckets) > 0
<1>1. Tells(t, E) /\ t \in Tables /\ t.size = Len(Nodes(t)) /\ t.buckets \in Seq(Seq(KeyedNodes))
  BY DEF Sound, Tells, Tables
<1>2. Place(t, k) > 0 <=> k \in KeysOf(E)
  BY <1>1, PlaceTells
<1>3. CASE k \in KeysOf(E)
  <2>1. Emplace(t, k, v).table = t
    BY <1>2, <1>3 DEF Emplace
  <2> QED
    BY <1>3, <2>1 DEF WithEntry
<1>4. CASE k \notin KeysOf(E)
  <2>1. PICK n : n = [key |-> k, value |-> v]
    OBVIOUS
  <2>2. n \in KeyedNodes /\ n.key = k
    BY <2>1 DEF KeyedNodes
  <2>3. PICK u : u = LinkFront(t, n)
    OBVIOUS
  <2>4. /\ Tells(u, E \cup {n}) /\ Len(u.buckets) = Len(t.buckets) /\ u.size = t.size
        /\ Len(Nodes(u)) = Len(Nodes(t)) + 1
    BY <1>1, <1>4, <2>2, <2>3, LinkTells
  <2>5. PICK w : w = [u EXCEPT !.size = @ + 1]
    OBVIOUS
  <2>6. /\ w \in Tables /\ w.buckets = u.buckets /\ w.size = t.size + 1
    BY <2>4, <2>5 DEF Tells, Tables
  <2>7. Sound(w, E \cup {n}) /\ Len(w.buckets) = Len(t.buckets)
    BY <1>1, <2>4, <2>6 DEF Sound, Tells, Nodes
  <2>8. Emplace(t, k, v).table = RehashIfNeeded(w)
    BY <1>2, <1>4, <2>1, <2>3, <2>5 DEF Emplace
  <2>9. Sound(RehashIfNeeded(w), E \cup {n}) /\ Len(RehashIfNeeded(w).buckets) > 0
    <3>1. 2 * Len(w.buckets) \in Nat \ {0}
      <4>1. Len(t.buckets) \in Nat
        BY <1>1, LenProperties
      <4> QED
        BY <2>7, <4>1
    <3>2. /\ Sound(RehashTo(w, 2 * Len(w.buckets)), E \cup {n})
          /\ Len(RehashTo(w, 2 * Len(w.buckets)).buckets) = 2 * Len(w.buckets)
      BY <2>7, <3>1, RehashTells
    <3> QED
      BY <2>7, <3>1, <3>2 DEF RehashIfNeeded
  <2> QED
    BY <1>4, <2>1, <2>8, <2>9 DEF WithEntry
<1> QED
  BY <1>3, <1>4

\* The same of a node.
LEMMA InsertTells ==
    ASSUME NEW t, NEW E, Sound(t, E), Len(t.buckets) > 0, NEW n \in KeyedNodes
    PROVE  /\ Sound(Insert(t, n), IF n.key \in KeysOf(E) THEN E ELSE E \cup {n})
           /\ Len(Insert(t, n).buckets) > 0
<1>1. n.key \in Keys /\ n.value \in Given /\ n = [key |-> n.key, value |-> n.value]
  BY DEF KeyedNodes
<1>2. Sound(Insert(t, n), WithEntry(E, n.key, n.value)) /\ Len(Insert(t, n).buckets) > 0
  BY <1>1, EmplaceTells DEF Insert
<1>3. WithEntry(E, n.key, n.value) = IF n.key \in KeysOf(E) THEN E ELSE E \cup {n}
  BY <1>1 DEF WithEntry
<1> QED
  BY <1>2, <1>3

\* The tables with an array.
HeldTables == {t \in Tables : Len(t.buckets) > 0 /\ \E E : Sound(t, E)}

\* An insertion leaves such a table.
LEMMA InsertHeld ==
    ASSUME NEW t \in HeldTables, NEW n \in KeyedNodes
    PROVE  Insert(t, n) \in HeldTables
<1>1. PICK E : Sound(t, E) /\ Len(t.buckets) > 0
  BY DEF HeldTables
<1>2. PICK F : Sound(Insert(t, n), F) /\ Len(Insert(t, n).buckets) > 0
  BY <1>1, InsertTells
<1> QED
  BY <1>2 DEF HeldTables, Sound, Tells

\* So does an erasure.
LEMMA EraseHeld ==
    ASSUME NEW t \in HeldTables, NEW k \in Keys
    PROVE  Erase(t, k) \in HeldTables
<1>1. PICK E : Sound(t, E) /\ Len(t.buckets) > 0
  BY DEF HeldTables
<1>2. Sound(Erase(t, k), Others(E, k)) /\ Len(Erase(t, k).buckets) = Len(t.buckets)
  BY <1>1, EraseTells
<1> QED
  BY <1>1, <1>2 DEF HeldTables, Sound, Tells

\* The nodes s inserted one after the other.
Inserts(t, s) == FoldLeft(Insert, t, s)

\* The insertions, node by node.
LEMMA InsertSteps ==
    ASSUME NEW u \in HeldTables, NEW s \in Seq(KeyedNodes)
    PROVE  /\ Inserts(u, <<>>) = u
           /\ \A c \in KeyedNodes : Inserts(u, Append(s, c)) = Insert(Inserts(u, s), c)
<1> DEFINE D == HeldTables
           base == u
           Op(p, x) == Insert(p, x)
           Eq(g, q) == g = [t \in SUBSET DOMAIN q |->
                              IF t = {} THEN base ELSE Op(g[t \ {Max(t)}], q[Max(t)])]
           It(q) == CHOOSE g : Eq(g, q)
<1>1. \A q : Inserts(u, q) = It(q)[DOMAIN q]
  BY DEF Inserts, FoldLeft, MapThenFoldSet
<1>2. base \in D /\ \A p \in D, x \in KeyedNodes : Op(p, x) \in D
  BY InsertHeld
<1> HIDE DEF D, base, Op
<1>3. PICK F : OpOn(F, D, KeyedNodes) /\ \A d \in D, e \in KeyedNodes : F[<<d, e>>] = Op(d, e)
  <2> DEFINE F == [y \in D \X KeyedNodes |-> Op(y[1], y[2])]
  <2>1. \A d \in D, e \in KeyedNodes : F[<<d, e>>] = Op(d, e) /\ F[<<d, e>>] \in D
    BY <1>2
  <2> QED
    BY <2>1 DEF OpOn
<1>4. ASSUME NEW q \in Seq(KeyedNodes), NEW k, k = It(q)
      PROVE  /\ FoldsIn(k, F, D, base, q) /\ k[{}] = base
  <2>1. PICK g : Runs(g, F, D, KeyedNodes, base, q)
    <3> HIDE DEF It, Eq
    <3>1. base \in D /\ OpOn(F, D, KeyedNodes)
      BY <1>2, <1>3
    <3> QED
      BY <3>1, FoldsRun
  <2>2. Eq(g, q)
    BY <1>3, <2>1 DEF Folds, Runs
  <2> DEFINE Q(h) == Eq(h, q)
  <2>3. Q(k)
    <3>1. k = (CHOOSE h : Q(h)) /\ Q(g)
      BY <1>4, <2>2
    <3> HIDE DEF Q
    <3> QED
      BY <3>1
  <2>4. Eq(k, q) /\ \A t \in SUBSET DOMAIN q : t # {} => q[Max(t)] \in KeyedNodes
    BY <2>1, <2>3 DEF Runs
  <2> QED
    BY <1>3, <2>4 DEF FoldsIn
<1>5. Inserts(u, <<>>) = base
  <2>1. PICK k : k = It(<<>>)
    OBVIOUS
  <2>2. k[{}] = base
    BY <1>4, <2>1, EmptySeq
  <2>3. DOMAIN <<>> = {}
    OBVIOUS
  <2> HIDE DEF It
  <2> QED
    BY <1>1, <2>1, <2>2, <2>3
<1>6. ASSUME NEW c \in KeyedNodes
      PROVE  Inserts(u, Append(s, c)) = Op(Inserts(u, s), c)
  <2>1. PICK r, g, h : r = Append(s, c) /\ g = It(s) /\ h = It(r)
    OBVIOUS
  <2>2. r \in Seq(KeyedNodes) /\ OneMore(s, r) /\ r[Len(r)] = c
    BY <2>1, AppendProperties DEF OneMore
  <2>3. FoldsIn(g, F, D, base, s) /\ FoldsIn(h, F, D, base, r)
    BY <1>4, <2>1, <2>2
  <2>4. Inserts(u, s) = g[DOMAIN s] /\ Inserts(u, r) = h[DOMAIN r]
    <3> HIDE DEF It
    <3> QED
      BY <1>1, <2>1
  <2> HIDE DEF It
  <2>5. g[DOMAIN s] \in D /\ h[DOMAIN r] = F[<<g[DOMAIN s], r[Len(r)]>>]
    <3>1. base \in D /\ OpOn(F, D, KeyedNodes)
      BY <1>2, <1>3
    <3>2. r \in Seq(KeyedNodes) /\ OneMore(s, r)
      BY <2>2
    <3> QED
      BY <2>3, <3>1, <3>2, FoldsGoOn
  <2>6. Inserts(u, s) \in D /\ Inserts(u, r) = Op(Inserts(u, s), c)
    BY <1>3, <2>2, <2>4, <2>5
  <2> QED
    BY <2>1, <2>6
<1> QED
  BY <1>5, <1>6 DEF Op, base

\* The erasures, key by key.
LEMMA EraseSteps ==
    ASSUME NEW u \in HeldTables, NEW s \in Seq(Keys)
    PROVE  /\ EraseAll(u, <<>>) = u
           /\ \A c \in Keys : EraseAll(u, Append(s, c)) = Erase(EraseAll(u, s), c)
<1> DEFINE D == HeldTables
           base == u
           Op(p, x) == Erase(p, x)
           Eq(g, q) == g = [t \in SUBSET DOMAIN q |->
                              IF t = {} THEN base ELSE Op(g[t \ {Max(t)}], q[Max(t)])]
           It(q) == CHOOSE g : Eq(g, q)
<1>1. \A q : EraseAll(u, q) = It(q)[DOMAIN q]
  BY DEF EraseAll, FoldLeft, MapThenFoldSet
<1>2. base \in D /\ \A p \in D, x \in Keys : Op(p, x) \in D
  BY EraseHeld
<1> HIDE DEF D, base, Op
<1>3. PICK F : OpOn(F, D, Keys) /\ \A d \in D, e \in Keys : F[<<d, e>>] = Op(d, e)
  <2> DEFINE F == [y \in D \X Keys |-> Op(y[1], y[2])]
  <2>1. \A d \in D, e \in Keys : F[<<d, e>>] = Op(d, e) /\ F[<<d, e>>] \in D
    BY <1>2
  <2> QED
    BY <2>1 DEF OpOn
<1>4. ASSUME NEW q \in Seq(Keys), NEW k, k = It(q)
      PROVE  /\ FoldsIn(k, F, D, base, q) /\ k[{}] = base
  <2>1. PICK g : Runs(g, F, D, Keys, base, q)
    <3> HIDE DEF It, Eq
    <3>1. base \in D /\ OpOn(F, D, Keys)
      BY <1>2, <1>3
    <3> QED
      BY <3>1, FoldsRun
  <2>2. Eq(g, q)
    BY <1>3, <2>1 DEF Folds, Runs
  <2> DEFINE Q(h) == Eq(h, q)
  <2>3. Q(k)
    <3>1. k = (CHOOSE h : Q(h)) /\ Q(g)
      BY <1>4, <2>2
    <3> HIDE DEF Q
    <3> QED
      BY <3>1
  <2>4. Eq(k, q) /\ \A t \in SUBSET DOMAIN q : t # {} => q[Max(t)] \in Keys
    BY <2>1, <2>3 DEF Runs
  <2> QED
    BY <1>3, <2>4 DEF FoldsIn
<1>5. EraseAll(u, <<>>) = base
  <2>1. PICK k : k = It(<<>>)
    OBVIOUS
  <2>2. k[{}] = base
    BY <1>4, <2>1, EmptySeq
  <2>3. DOMAIN <<>> = {}
    OBVIOUS
  <2> HIDE DEF It
  <2> QED
    BY <1>1, <2>1, <2>2, <2>3
<1>6. ASSUME NEW c \in Keys
      PROVE  EraseAll(u, Append(s, c)) = Op(EraseAll(u, s), c)
  <2>1. PICK r, g, h : r = Append(s, c) /\ g = It(s) /\ h = It(r)
    OBVIOUS
  <2>2. r \in Seq(Keys) /\ OneMore(s, r) /\ r[Len(r)] = c
    BY <2>1, AppendProperties DEF OneMore
  <2>3. FoldsIn(g, F, D, base, s) /\ FoldsIn(h, F, D, base, r)
    BY <1>4, <2>1, <2>2
  <2>4. EraseAll(u, s) = g[DOMAIN s] /\ EraseAll(u, r) = h[DOMAIN r]
    <3> HIDE DEF It
    <3> QED
      BY <1>1, <2>1
  <2> HIDE DEF It
  <2>5. g[DOMAIN s] \in D /\ h[DOMAIN r] = F[<<g[DOMAIN s], r[Len(r)]>>]
    <3>1. base \in D /\ OpOn(F, D, Keys)
      BY <1>2, <1>3
    <3>2. r \in Seq(Keys) /\ OneMore(s, r)
      BY <2>2
    <3> QED
      BY <2>3, <3>1, <3>2, FoldsGoOn
  <2>6. EraseAll(u, s) \in D /\ EraseAll(u, r) = Op(EraseAll(u, s), c)
    BY <1>3, <2>2, <2>4, <2>5
  <2> QED
    BY <2>1, <2>6
<1> QED
  BY <1>5, <1>6 DEF Op, base

\* Nodes of different keys, inserted into an empty table.
LEMMA InsertsTell ==
    ASSUME NEW u, Sound(u, {}), Len(u.buckets) > 0, NEW s, NEW E, Lists(s, E)
    PROVE  Sound(Inserts(u, s), E) /\ Len(Inserts(u, s).buckets) > 0
<1> DEFINE T == {k \in Nat : \A q : \A F : Lists(q, F) /\ Len(q) = k =>
                    Sound(Inserts(u, q), F) /\ Len(Inserts(u, q).buckets) > 0}
<1>1. u \in HeldTables
  BY DEF HeldTables, Sound, Tells
<1>2. 0 \in T
  <2> SUFFICES ASSUME NEW q, NEW F, Lists(q, F), Len(q) = 0
               PROVE  Sound(Inserts(u, q), F) /\ Len(Inserts(u, q).buckets) > 0
    OBVIOUS
  <2>1. q \in Seq(KeyedNodes) /\ q = <<>> /\ F = {}
    <3>1. q \in Seq(KeyedNodes) /\ F \in SUBSET KeyedNodes /\ \A n \in KeyedNodes : n \in F <=> Among(n, q)
      BY DEF Lists
    <3>2. \A n : ~ Among(n, q)
      BY DEF Among
    <3> QED
      BY <3>1, <3>2, EmptySeq
  <2>2. Inserts(u, <<>>) = u
    <3>1. <<>> \in Seq(KeyedNodes)
      BY EmptySeq
    <3> QED
      BY <1>1, <3>1, InsertSteps
  <2> QED
    BY <2>1, <2>2
<1>3. ASSUME NEW k \in Nat \ {0}, k - 1 \in T
      PROVE  k \in T
  <2> SUFFICES ASSUME NEW q, NEW F, Lists(q, F), Len(q) = k
               PROVE  Sound(Inserts(u, q), F) /\ Len(Inserts(u, q).buckets) > 0
    OBVIOUS
  <2>1. q \in Seq(KeyedNodes) /\ q # <<>>
    BY EmptySeq DEF Lists
  <2>2. PICK o \in Seq(KeyedNodes), x \in KeyedNodes : q = Append(o, x)
    BY <2>1, SequenceEmptyOrAppend
  <2>3. Len(q) = Len(o) + 1 /\ Len(o) \in Nat
    BY <2>2, AppendProperties, LenProperties
  <2>4. x.key \notin KeysOf(F \ {x}) /\ Lists(o, F \ {x}) /\ x \in F
    BY <2>2, LastUnlisted
  <2>5. Sound(Inserts(u, o), F \ {x}) /\ Len(Inserts(u, o).buckets) > 0
    BY <1>3, <2>3, <2>4
  <2>6. Inserts(u, Append(o, x)) = Insert(Inserts(u, o), x)
    BY <1>1, InsertSteps
  <2>7. PICK t : t = Inserts(u, o)
    OBVIOUS
  <2>8. /\ Sound(Insert(t, x), IF x.key \in KeysOf(F \ {x}) THEN F \ {x} ELSE (F \ {x}) \cup {x})
        /\ Len(Insert(t, x).buckets) > 0
    BY <2>5, <2>7, InsertTells
  <2>9. (IF x.key \in KeysOf(F \ {x}) THEN F \ {x} ELSE (F \ {x}) \cup {x}) = F
    BY <2>4
  <2> QED
    BY <2>2, <2>6, <2>7, <2>8, <2>9
<1>4. T = Nat
  <2>1. T \in SUBSET Nat
    OBVIOUS
  <2> HIDE DEF T
  <2> QED
    BY <1>2, <1>3, <2>1, NatSteps
<1>5. Len(s) \in T
  BY <1>4, LenProperties DEF Lists
<1> QED
  BY <1>5

\* The nodes whose keys are not among ks.
Kept(E, ks) == {n \in E : ~ Among(n.key, ks)}

\* The elements with a last one.
LEMMA AmongAppend ==
    ASSUME NEW S, NEW s \in Seq(S), NEW x \in S, NEW m
    PROVE  Among(m, Append(s, x)) <=> Among(m, s) \/ m = x
<1>1. Append(s, x) = s \o <<x>> /\ <<x>> \in Seq(S) /\ Len(<<x>>) = 1 /\ <<x>>[1] = x
  BY AppendIsConcat, OneElement
<1>2. Among(m, s \o <<x>>) <=> Among(m, s) \/ Among(m, <<x>>)
  BY <1>1, AmongBoth
<1>3. Among(m, <<x>>) <=> m = x
  BY <1>1 DEF Among
<1> QED
  BY <1>1, <1>2, <1>3

\* Erasing keys one after the other leaves the nodes of the others.
LEMMA ErasesTell ==
    ASSUME NEW u, NEW E, Sound(u, E), Len(u.buckets) > 0, NEW ks \in Seq(Keys)
    PROVE  Sound(EraseAll(u, ks), Kept(E, ks)) /\ Len(EraseAll(u, ks).buckets) = Len(u.buckets)
<1> DEFINE T == {k \in Nat : \A q \in Seq(Keys) : Len(q) = k =>
                    /\ Sound(EraseAll(u, q), Kept(E, q))
                    /\ Len(EraseAll(u, q).buckets) = Len(u.buckets)}
<1>1. u \in HeldTables
  BY DEF HeldTables, Sound, Tells
<1>2. 0 \in T
  <2> SUFFICES ASSUME NEW q \in Seq(Keys), Len(q) = 0
               PROVE  /\ Sound(EraseAll(u, q), Kept(E, q))
                      /\ Len(EraseAll(u, q).buckets) = Len(u.buckets)
    OBVIOUS
  <2>1. q = <<>> /\ Kept(E, q) = E
    BY EmptySeq DEF Kept, Among
  <2>2. EraseAll(u, <<>>) = u
    <3>1. <<>> \in Seq(Keys)
      BY EmptySeq
    <3> QED
      BY <1>1, <3>1, EraseSteps
  <2> QED
    BY <2>1, <2>2
<1>3. ASSUME NEW k \in Nat \ {0}, k - 1 \in T
      PROVE  k \in T
  <2> SUFFICES ASSUME NEW q \in Seq(Keys), Len(q) = k
               PROVE  /\ Sound(EraseAll(u, q), Kept(E, q))
                      /\ Len(EraseAll(u, q).buckets) = Len(u.buckets)
    OBVIOUS
  <2>1. q # <<>>
    BY EmptySeq
  <2>2. PICK o \in Seq(Keys), x \in Keys : q = Append(o, x)
    BY <2>1, SequenceEmptyOrAppend
  <2>3. Len(q) = Len(o) + 1 /\ Len(o) \in Nat
    BY <2>2, AppendProperties, LenProperties
  <2>4. Sound(EraseAll(u, o), Kept(E, o)) /\ Len(EraseAll(u, o).buckets) = Len(u.buckets)
    BY <1>3, <2>3
  <2>5. EraseAll(u, Append(o, x)) = Erase(EraseAll(u, o), x)
    BY <1>1, EraseSteps
  <2>6. PICK t : t = EraseAll(u, o)
    OBVIOUS
  <2>7. Sound(Erase(t, x), Others(Kept(E, o), x)) /\ Len(Erase(t, x).buckets) = Len(t.buckets)
    BY <2>4, <2>6, EraseTells
  <2>8. Others(Kept(E, o), x) = Kept(E, q)
    <3>1. \A m : Among(m, q) <=> Among(m, o) \/ m = x
      BY <2>2, AmongAppend
    <3> QED
      BY <3>1 DEF Others, Kept
  <2> QED
    BY <2>2, <2>4, <2>5, <2>6, <2>7, <2>8
<1>4. T = Nat
  <2>1. T \in SUBSET Nat
    OBVIOUS
  <2> HIDE DEF T
  <2> QED
    BY <1>2, <1>3, <2>1, NatSteps
<1>5. Len(ks) \in T
  BY <1>4, LenProperties
<1> QED
  BY <1>5

\* A copy, also into a table that holds nothing.
LEMMA CopyTells ==
    ASSUME NEW u, NEW E, Sound(u, E), Len(u.buckets) > 0
    PROVE  Sound(CopyOf(u), E) /\ Len(CopyOf(u).buckets) > 0
<1>1. Len(u.buckets) \in Nat /\ Lists(Nodes(u), E)
  BY LenProperties DEF Sound, Tells, Tables, Hold, Nodes
<1>2. PICK t : t = EmptyTable(Len(u.buckets))
  OBVIOUS
<1>3. Sound(t, {}) /\ Len(t.buckets) > 0
  BY <1>1, <1>2, EmptyTells
<1>4. Sound(Inserts(t, Nodes(u)), E) /\ Len(Inserts(t, Nodes(u)).buckets) > 0
  BY <1>1, <1>3, InsertsTell
<1> QED
  BY <1>2, <1>4 DEF CopyOf, Inserts

\* The copy assignment to a table whose count is 0.
LEMMA CopyIntoTells ==
    ASSUME NEW t \in Tables, t.size = 0, NEW u, NEW E, Sound(u, E), Len(u.buckets) > 0
    PROVE  Sound(CopyInto(t, u), E) /\ Len(CopyInto(t, u).buckets) > 0
<1>1. Len(u.buckets) \in Nat \ {0} /\ Lists(Nodes(u), E) /\ Len(t.buckets) \in Nat
  BY LenProperties DEF Sound, Tells, Tables, Hold, Nodes
<1>2. PICK w : w = EmptyTable(Len(t.buckets))
  OBVIOUS
<1>3. ClearChains(t) = w
  <2>1. PICK b : AllEmpty(b, Len(t.buckets))
    BY DEF AllEmpty
  <2>2. w = [buckets |-> b, size |-> 0]
    BY <1>2, <2>1 DEF EmptyTable, AllEmpty
  <2>3. w = [w EXCEPT !.size = 0]
    BY <2>2
  <2>4. ClearChains(t) = [w EXCEPT !.size = t.size]
    BY <1>2 DEF ClearChains
  <2> QED
    BY <2>3, <2>4
<1>4. Sound(w, {})
  BY <1>1, <1>2, EmptyTells
<1>5. PICK r : r = RehashTo(w, Len(u.buckets))
  OBVIOUS
<1>6. Sound(r, {}) /\ Len(r.buckets) > 0
  BY <1>1, <1>4, <1>5, RehashTells
<1>7. Sound(Inserts(r, Nodes(u)), E) /\ Len(Inserts(r, Nodes(u)).buckets) > 0
  BY <1>1, <1>6, InsertsTell
<1> QED
  BY <1>3, <1>5, <1>7 DEF CopyInto, Inserts

-----------------------------------------------------------------------------
(* Hash tables: the entries the calls should have left.                    *)

\* The functions from keys to values, and the nodes of one.
Dicts == UNION {[K -> Values] : K \in SUBSET Keys}
EntriesOf(D) == {[key |-> k, value |-> D[k]] : k \in DOMAIN D}

\* The nodes of a function from keys to values.
LEMMA EntriesAre ==
    ASSUME NEW D \in Dicts
    PROVE  /\ DOMAIN D \in SUBSET Keys /\ EntriesOf(D) \in SUBSET KeyedNodes
           /\ KeysOf(EntriesOf(D)) = DOMAIN D
           /\ \A n \in EntriesOf(D) : n.key \in DOMAIN D /\ n.value = D[n.key]
<1>1. PICK K \in SUBSET Keys : D \in [K -> Values]
  BY DEF Dicts
<1>2. DOMAIN D = K /\ \A k \in K : D[k] \in Values
  BY <1>1
<1>3. \A n \in EntriesOf(D) : n.key \in DOMAIN D /\ n.value = D[n.key]
  BY DEF EntriesOf
<1>4. \A k \in DOMAIN D : [key |-> k, value |-> D[k]] \in KeyedNodes
  <2> TAKE k \in DOMAIN D
  <2>1. k \in Keys /\ D[k] \in Given
    BY <1>2 DEF Given
  <2> QED
    BY <2>1 DEF KeyedNodes
<1>5. EntriesOf(D) \in SUBSET KeyedNodes
  BY <1>4 DEF EntriesOf
<1>6. KeysOf(EntriesOf(D)) = DOMAIN D
  <2>1. \A k \in DOMAIN D : [key |-> k, value |-> D[k]] \in EntriesOf(D)
    BY DEF EntriesOf
  <2>2. ASSUME NEW k \in DOMAIN D
        PROVE  k \in KeysOf(EntriesOf(D))
    <3>1. PICK n \in EntriesOf(D) : n = [key |-> k, value |-> D[k]]
      BY <2>1
    <3>2. n.key = k
      BY <3>1
    <3> QED
      BY <3>2 DEF KeysOf
  <2>3. \A k \in KeysOf(EntriesOf(D)) : k \in DOMAIN D
    BY <1>3 DEF KeysOf
  <2> QED
    BY <2>2, <2>3
<1> QED
  BY <1>1, <1>2, <1>3, <1>5, <1>6

\* Functions on a set of keys are among them.
LEMMA DictTyped ==
    ASSUME NEW K \in SUBSET Keys, NEW D \in [K -> Values]
    PROVE  D \in Dicts
BY DEF Dicts

\* Nothing is in the empty one.
LEMMA NoEntriesAre == NoEntries \in Dicts /\ EntriesOf(NoEntries) = {}
<1>1. NoEntries \in [{} -> Values] /\ DOMAIN NoEntries = {}
  BY DEF NoEntries
<1>2. NoEntries \in Dicts
  BY <1>1, DictTyped
<1>3. EntriesOf(NoEntries) = {}
  BY <1>1 DEF EntriesOf
<1> QED
  BY <1>2, <1>3

\* The entries after an insertion.
LEMMA ExtendedEntries ==
    ASSUME NEW D \in Dicts, NEW k \in Keys, NEW v \in Values
    PROVE  Extended(D, k, v) \in Dicts /\ EntriesOf(Extended(D, k, v)) = WithEntry(EntriesOf(D), k, v)
<1>1. PICK K \in SUBSET Keys : D \in [K -> Values]
  BY DEF Dicts
<1>2. PICK X : X = Extended(D, k, v)
  OBVIOUS
<1>3. /\ DOMAIN X = K \cup {k} /\ X \in [K \cup {k} -> Values]
      /\ \A x \in K \cup {k} : X[x] = IF x \in K THEN D[x] ELSE v
  BY <1>1, <1>2 DEF Extended
<1>4. X \in Dicts
  <2>1. K \cup {k} \in SUBSET Keys
    OBVIOUS
  <2> QED
    BY <1>3, <2>1, DictTyped
<1>5. KeysOf(EntriesOf(D)) = K /\ DOMAIN D = K
  BY <1>1, EntriesAre
<1>6. CASE k \in K
  <2>1. EntriesOf(X) = EntriesOf(D)
    BY <1>3, <1>5, <1>6 DEF EntriesOf
  <2> QED
    BY <1>2, <1>4, <1>5, <1>6, <2>1 DEF WithEntry
<1>7. CASE k \notin K
  <2>1. EntriesOf(X) = EntriesOf(D) \cup {[key |-> k, value |-> v]}
    BY <1>3, <1>5, <1>7 DEF EntriesOf
  <2> QED
    BY <1>2, <1>4, <1>5, <1>7, <2>1 DEF WithEntry
<1> QED
  BY <1>6, <1>7

\* The entries after an assignment.
LEMMA UpdatedEntries ==
    ASSUME NEW D \in Dicts, NEW k \in Keys, NEW v \in Values
    PROVE  /\ Updated(D, k, v) \in Dicts
           /\ EntriesOf(Updated(D, k, v)) = Others(EntriesOf(D), k) \cup {[key |-> k, value |-> v]}
<1>1. PICK K \in SUBSET Keys : D \in [K -> Values]
  BY DEF Dicts
<1>2. PICK X : X = Updated(D, k, v)
  OBVIOUS
<1>3. /\ DOMAIN X = K \cup {k} /\ X \in [K \cup {k} -> Values] /\ X[k] = v
      /\ \A x \in K : x # k => X[x] = D[x]
  BY <1>1, <1>2 DEF Updated
<1>4. X \in Dicts
  <2>1. K \cup {k} \in SUBSET Keys
    OBVIOUS
  <2> QED
    BY <1>3, <2>1, DictTyped
<1>5. EntriesOf(X) = Others(EntriesOf(D), k) \cup {[key |-> k, value |-> v]}
  <2>1. DOMAIN D = K
    BY <1>1
  <2>2. ASSUME NEW n \in EntriesOf(X)
        PROVE  n \in Others(EntriesOf(D), k) \/ n = [key |-> k, value |-> v]
    <3>1. PICK x \in K \cup {k} : n = [key |-> x, value |-> X[x]]
      BY <1>3 DEF EntriesOf
    <3>2. CASE x = k
      BY <1>3, <3>1, <3>2
    <3>3. CASE x # k
      <4>1. x \in DOMAIN D /\ n = [key |-> x, value |-> D[x]]
        BY <1>3, <2>1, <3>1, <3>3
      <4> QED
        BY <3>1, <3>3, <4>1 DEF EntriesOf, Others
    <3> QED
      BY <3>2, <3>3
  <2>3. ASSUME NEW n \in Others(EntriesOf(D), k)
        PROVE  n \in EntriesOf(X)
    <3>1. PICK x \in DOMAIN D : n = [key |-> x, value |-> D[x]]
      BY DEF EntriesOf, Others
    <3>2. x # k /\ x \in DOMAIN X
      BY <1>3, <2>1, <3>1 DEF Others
    <3>3. n = [key |-> x, value |-> X[x]]
      BY <1>3, <2>1, <3>1, <3>2
    <3> QED
      BY <3>2, <3>3 DEF EntriesOf
  <2>4. [key |-> k, value |-> v] \in EntriesOf(X)
    BY <1>3 DEF EntriesOf
  <2> QED
    BY <2>2, <2>3, <2>4
<1> QED
  BY <1>2, <1>4, <1>5

\* The entries after an erasure.
LEMMA RestrictedEntries ==
    ASSUME NEW D \in Dicts, NEW ks
    PROVE  /\ Restrict(D, DOMAIN D \ ks) \in Dicts
           /\ EntriesOf(Restrict(D, DOMAIN D \ ks)) = {n \in EntriesOf(D) : n.key \notin ks}
<1>1. PICK K \in SUBSET Keys : D \in [K -> Values]
  BY DEF Dicts
<1>2. PICK X : X = Restrict(D, DOMAIN D \ ks)
  OBVIOUS
<1>3. /\ DOMAIN X = K \ ks /\ X \in [K \ ks -> Values] /\ DOMAIN D = K
      /\ \A x \in K \ ks : X[x] = D[x]
  BY <1>1, <1>2 DEF Restrict
<1>4. X \in Dicts
  <2>1. K \ ks \in SUBSET Keys
    OBVIOUS
  <2> QED
    BY <1>3, <2>1, DictTyped
<1>5. EntriesOf(X) = {n \in EntriesOf(D) : n.key \notin ks}
  <2>1. ASSUME NEW n \in EntriesOf(X)
        PROVE  n \in EntriesOf(D) /\ n.key \notin ks
    <3>1. PICK x \in K \ ks : n = [key |-> x, value |-> X[x]]
      BY <1>3 DEF EntriesOf
    <3>2. n = [key |-> x, value |-> D[x]] /\ x \in DOMAIN D /\ n.key = x
      BY <1>3, <3>1
    <3> QED
      BY <3>1, <3>2 DEF EntriesOf
  <2>2. ASSUME NEW n \in EntriesOf(D), n.key \notin ks
        PROVE  n \in EntriesOf(X)
    <3>1. PICK x \in K : n = [key |-> x, value |-> D[x]]
      BY <1>3 DEF EntriesOf
    <3>2. x \in DOMAIN X
      BY <1>3, <2>2, <3>1
    <3>3. n = [key |-> x, value |-> X[x]]
      BY <1>3, <3>1, <3>2
    <3> QED
      BY <3>2, <3>3 DEF EntriesOf
  <2> QED
    BY <2>1, <2>2
<1> QED
  BY <1>2, <1>4, <1>5

\* As many nodes as keys.
LEMMA CountedKeys ==
    ASSUME NEW q, NEW D \in Dicts, Lists(q, EntriesOf(D))
    PROVE  Cardinality(DOMAIN D) = Len(q)
<1>1. q \in Seq(KeyedNodes) /\ Len(q) \in Nat
  BY LenProperties DEF Lists
<1>2. /\ \A n \in KeyedNodes : n \in EntriesOf(D) <=> Among(n, q)
      /\ \A i, j \in 1 .. Len(q) : q[i].key = q[j].key => i = j
      /\ EntriesOf(D) \in SUBSET KeyedNodes
  BY DEF Lists
<1>3. /\ \A n \in EntriesOf(D) : n.key \in DOMAIN D
      /\ KeysOf(EntriesOf(D)) = DOMAIN D
  BY EntriesAre
<1>4. PICK f : f = [i \in 1 .. Len(q) |-> q[i].key]
  OBVIOUS
<1>5. \A i \in 1 .. Len(q) : f[i] \in DOMAIN D
  <2> TAKE i \in 1 .. Len(q)
  <2>1. q[i] \in KeyedNodes /\ Among(q[i], q)
    BY <1>1, ElementOfSeq DEF Among
  <2>2. q[i] \in EntriesOf(D)
    BY <1>2, <2>1
  <2> QED
    BY <1>3, <1>4, <2>2
<1>6. \A k \in DOMAIN D : \E i \in 1 .. Len(q) : f[i] = k
  <2> TAKE k \in DOMAIN D
  <2>1. PICK n \in EntriesOf(D) : n.key = k
    BY <1>3 DEF KeysOf
  <2>2. PICK i \in 1 .. Len(q) : q[i] = n
    BY <1>2, <2>1 DEF Among
  <2> QED
    BY <1>4, <2>1, <2>2
<1>7. f \in Bijection(1 .. Len(q), DOMAIN D)
  <2>1. f \in [1 .. Len(q) -> DOMAIN D]
    BY <1>4, <1>5
  <2>2. \A i, j \in 1 .. Len(q) : f[i] = f[j] => i = j
    BY <1>2, <1>4
  <2> QED
    BY <1>6, <2>1, <2>2 DEF Bijection, Injection, Surjection, IsInjective
<1>8. ExistsBijection(1 .. Len(q), DOMAIN D)
  BY <1>7 DEF ExistsBijection
<1> QED
  BY <1>1, <1>8, FS_CountingElements

-----------------------------------------------------------------------------
(* Hash tables: the invariant, call by call.                               *)

\* The invariant: each table is made of the entries the calls should have left,
\* each in the bucket its key is looked up in, and counts them.
TableInv ==
    /\ table \in [Objects -> Tables] /\ dict \in [Objects -> Dicts]
    /\ \A o \in Objects : Sound(table[o], EntriesOf(dict[o]))

\* The invariant of one object.
LEMMA EachTable ==
    ASSUME TableInv, NEW o \in Objects
    PROVE  table[o] \in Tables /\ dict[o] \in Dicts /\ Sound(table[o], EntriesOf(dict[o]))
BY DEF TableInv

\* A call on one object.
OneBecomes(o, u, D) == Becomes(o, u) /\ dict' = [dict EXCEPT ![o] = D]

\* It keeps the invariant if the table holds the new entries.
LEMMA OneKeeps ==
    ASSUME TableInv, NEW o \in Objects, NEW u, NEW D \in Dicts, Sound(u, EntriesOf(D)),
           OneBecomes(o, u, D)
    PROVE  TableInv'
<1>1. table' = [table EXCEPT ![o] = u] /\ dict' = [dict EXCEPT ![o] = D]
  BY DEF OneBecomes, Becomes
<1>2. u \in Tables
  BY DEF Sound, Tells
<1>3. table' \in [Objects -> Tables] /\ dict' \in [Objects -> Dicts]
  BY <1>1, <1>2 DEF TableInv
<1>4. ASSUME NEW p \in Objects
      PROVE  Sound(table'[p], EntriesOf(dict'[p]))
  <2>1. CASE p = o
    <3>1. table'[p] = u /\ dict'[p] = D
      BY <1>1, <2>1 DEF TableInv
    <3> QED
      BY <3>1
  <2>2. CASE p # o
    <3>1. table'[p] = table[p] /\ dict'[p] = dict[p]
      BY <1>1, <2>2 DEF TableInv
    <3> QED
      BY <3>1, EachTable
  <2> QED
    BY <2>1, <2>2
<1> QED
  BY <1>3, <1>4 DEF TableInv

\* Each call keeps the invariant: insertion,
LEMMA TableInsertKeeps ==
    ASSUME TableInv, NEW o \in Objects, NEW k \in Keys, NEW v \in Values, TableInsert(o, k, v)
    PROVE  TableInv'
<1>1. dict[o] \in Dicts /\ Sound(table[o], EntriesOf(dict[o])) /\ Len(table[o].buckets) > 0
  BY EachTable DEF TableInsert, Usable
<1>2. v \in Given
  BY DEF Given
<1>3. Sound(Emplace(table[o], k, v).table, WithEntry(EntriesOf(dict[o]), k, v))
  BY <1>1, <1>2, EmplaceTells
<1>4. /\ Extended(dict[o], k, v) \in Dicts
      /\ EntriesOf(Extended(dict[o], k, v)) = WithEntry(EntriesOf(dict[o]), k, v)
  BY <1>1, ExtendedEntries
<1>5. OneBecomes(o, Emplace(table[o], k, v).table, Extended(dict[o], k, v))
  BY DEF TableInsert, DictInsert, OneBecomes
<1> QED
  BY <1>3, <1>4, <1>5, OneKeeps

\* What a value written to a key makes of a table.
LEMMA WriteTells ==
    ASSUME NEW t, NEW D \in Dicts, Sound(t, EntriesOf(D)), Len(t.buckets) > 0,
           NEW k \in Keys, NEW v \in Values, NEW w \in Given
    PROVE  /\ k \in DOMAIN D => Sound(SetValue(t, k, v), EntriesOf(Updated(D, k, v)))
           /\ k \notin DOMAIN D =>
                  /\ Sound(Emplace(t, k, v).table, EntriesOf(Updated(D, k, v)))
                  /\ Sound(SetValue(Emplace(t, k, w).table, k, v), EntriesOf(Updated(D, k, v)))
           /\ Place(t, k) \in Nat /\ (Place(t, k) > 0 <=> k \in DOMAIN D)
<1>1. PICK E : E = EntriesOf(D)
  OBVIOUS
<1>2. PICK n : n = [key |-> k, value |-> v]
  OBVIOUS
<1>3. EntriesOf(Updated(D, k, v)) = Others(E, k) \cup {n} /\ KeysOf(E) = DOMAIN D /\ v \in Given
  BY <1>1, <1>2, UpdatedEntries, EntriesAre DEF Given
<1>4. Sound(t, E) /\ Tells(t, E)
  BY <1>1 DEF Sound
<1>5. Place(t, k) \in Nat /\ (Place(t, k) > 0 <=> k \in DOMAIN D)
  BY <1>3, <1>4, PlaceTells
<1>6. ASSUME k \in DOMAIN D
      PROVE  Sound(SetValue(t, k, v), EntriesOf(Updated(D, k, v)))
  BY <1>2, <1>3, <1>4, <1>6, SetTells
<1>7. ASSUME k \notin DOMAIN D
      PROVE  Others(E, k) = E
  BY <1>3, <1>7 DEF Others, KeysOf
<1>8. ASSUME k \notin DOMAIN D
      PROVE  Sound(Emplace(t, k, v).table, EntriesOf(Updated(D, k, v)))
  <2>1. Sound(Emplace(t, k, v).table, WithEntry(E, k, v))
    BY <1>3, <1>4, EmplaceTells
  <2>2. WithEntry(E, k, v) = E \cup {n}
    BY <1>2, <1>3, <1>8 DEF WithEntry
  <2> QED
    BY <1>3, <1>7, <1>8, <2>1, <2>2
<1>9. ASSUME k \notin DOMAIN D
      PROVE  Sound(SetValue(Emplace(t, k, w).table, k, v), EntriesOf(Updated(D, k, v)))
  <2>1. PICK m : m = [key |-> k, value |-> w]
    OBVIOUS
  <2>2. PICK u : u = Emplace(t, k, w).table
    OBVIOUS
  <2>3. Sound(u, WithEntry(E, k, w)) /\ Len(u.buckets) > 0
    BY <1>4, <2>2, EmplaceTells
  <2>4. WithEntry(E, k, w) = E \cup {m} /\ m.key = k
    BY <1>3, <1>9, <2>1 DEF WithEntry
  <2>5. Sound(u, E \cup {m}) /\ k \in KeysOf(E \cup {m})
    BY <2>3, <2>4 DEF KeysOf
  <2>6. Sound(SetValue(u, k, v), Others(E \cup {m}, k) \cup {n})
    BY <1>2, <1>3, <2>3, <2>5, SetTells
  <2>7. Others(E \cup {m}, k) = Others(E, k)
    BY <2>4 DEF Others
  <2> QED
    BY <1>3, <2>2, <2>6, <2>7
<1> QED
  BY <1>5, <1>6, <1>8, <1>9

\* insert_or_assign,
LEMMA TableAssignKeeps ==
    ASSUME TableInv, NEW o \in Objects, NEW k \in Keys, NEW v \in Values, TableAssign(o, k, v)
    PROVE  TableInv'
<1>1. dict[o] \in Dicts /\ Sound(table[o], EntriesOf(dict[o])) /\ Len(table[o].buckets) > 0
  BY EachTable DEF TableAssign, Usable
<1>2. v \in Given
  BY DEF Given
<1>3. PICK t, D : t = table[o] /\ D = dict[o]
  OBVIOUS
<1>4. PICK u : u = IF Place(t, k) > 0 THEN SetValue(t, k, v) ELSE Emplace(t, k, v).table
  OBVIOUS
<1>5. D \in Dicts /\ Sound(t, EntriesOf(D)) /\ Len(t.buckets) > 0
  BY <1>1, <1>3
<1>6. /\ k \in DOMAIN D => Sound(SetValue(t, k, v), EntriesOf(Updated(D, k, v)))
      /\ k \notin DOMAIN D => Sound(Emplace(t, k, v).table, EntriesOf(Updated(D, k, v)))
      /\ Place(t, k) > 0 <=> k \in DOMAIN D
  BY <1>2, <1>5, WriteTells
<1>7. Sound(u, EntriesOf(Updated(D, k, v)))
  BY <1>4, <1>6
<1>8. Updated(D, k, v) \in Dicts
  BY <1>5, UpdatedEntries
<1>9. OneBecomes(o, u, Updated(D, k, v))
  BY <1>3, <1>4 DEF TableAssign, DictAssign, OneBecomes
<1> QED
  BY <1>7, <1>8, <1>9, OneKeeps

\* operator[], of a new key or one that is first in its chain,
LEMMA TableIndexKeeps ==
    ASSUME Risky = {}, TableInv, NEW o \in Objects, NEW k \in Keys, NEW v \in Values,
           TableIndex(o, k, v)
    PROVE  TableInv'
<1>1. dict[o] \in Dicts /\ Sound(table[o], EntriesOf(dict[o])) /\ Len(table[o].buckets) > 0
  BY EachTable DEF TableIndex, Usable
<1>2. 1 \in Given
  BY DEF Given
<1>3. PICK t, D : t = table[o] /\ D = dict[o]
  OBVIOUS
<1>4. PICK e : e = Emplace(t, k, 1)
  OBVIOUS
<1>5. D \in Dicts /\ Sound(t, EntriesOf(D)) /\ Len(t.buckets) > 0
  BY <1>1, <1>3
<1>6. /\ k \in DOMAIN D => Sound(SetValue(t, k, v), EntriesOf(Updated(D, k, v)))
      /\ k \notin DOMAIN D => Sound(SetValue(e.table, k, v), EntriesOf(Updated(D, k, v)))
      /\ Place(t, k) > 0 <=> k \in DOMAIN D
  BY <1>2, <1>4, <1>5, WriteTells
<1>7. Place(t, k) \in {0, 1}
  BY <1>3 DEF TableIndex
<1>8. Sound(SetValue(e.table, e.it.key, v), EntriesOf(Updated(D, k, v)))
  <2>1. CASE Place(t, k) = 0
    <3>1. e.it.key = k
      BY <1>4, <2>1 DEF Emplace, At
    <3> QED
      BY <1>6, <2>1, <3>1
  <2>2. CASE Place(t, k) = 1
    <3>1. e.table = t /\ e.it.key = Chain(t, k)[1].key
      BY <1>4, <2>2 DEF Emplace, At
    <3>2. Chain(t, k)[1].key = k
      <4>1. Tells(t, EntriesOf(D))
        BY <1>5 DEF Sound
      <4>2. Chain(t, k)[Place(t, k)].key = k
        BY <1>5, <2>2, <4>1, Found
      <4> QED
        BY <2>2, <4>2
    <3> QED
      BY <1>6, <2>2, <3>1, <3>2
  <2> QED
    BY <1>7, <2>1, <2>2
<1>9. Updated(D, k, v) \in Dicts
  BY <1>5, UpdatedEntries
<1>10. OneBecomes(o, SetValue(e.table, e.it.key, v), Updated(D, k, v))
  BY <1>3, <1>4 DEF TableIndex, DictAssign, OneBecomes
<1> QED
  BY <1>8, <1>9, <1>10, OneKeeps

\* erase of a key,
LEMMA TableEraseKeeps ==
    ASSUME TableInv, NEW o \in Objects, NEW k \in Keys, TableErase(o, k)
    PROVE  TableInv'
<1>1. dict[o] \in Dicts /\ Sound(table[o], EntriesOf(dict[o])) /\ Len(table[o].buckets) > 0
  BY EachTable DEF TableErase, Usable
<1>2. Sound(Erase(table[o], k), Others(EntriesOf(dict[o]), k))
  BY <1>1, EraseTells
<1>3. PICK D : D = Restrict(dict[o], DOMAIN dict[o] \ {k})
  OBVIOUS
<1>4. D \in Dicts /\ EntriesOf(D) = {n \in EntriesOf(dict[o]) : n.key \notin {k}}
  BY <1>1, <1>3, RestrictedEntries
<1>5. EntriesOf(D) = Others(EntriesOf(dict[o]), k)
  BY <1>4 DEF Others
<1>6. OneBecomes(o, Erase(table[o], k), D)
  BY <1>3 DEF TableErase, DictErase, OneBecomes
<1> QED
  BY <1>2, <1>4, <1>5, <1>6, OneKeeps

\* erase of a range that ends with its chain,
LEMMA TableEraseToEndKeeps ==
    ASSUME Risky = {}, TableInv, NEW o \in Objects, NEW k \in Keys, TableEraseToEnd(o, k)
    PROVE  TableInv'
<1>1. /\ dict[o] \in Dicts /\ Sound(table[o], EntriesOf(dict[o])) /\ Len(table[o].buckets) > 0
      /\ k \in DOMAIN dict[o]
  BY EachTable DEF TableEraseToEnd, Usable
<1>2. PICK t, D, E : t = table[o] /\ D = dict[o] /\ E = EntriesOf(dict[o])
  OBVIOUS
<1>3. PICK ks : ks = KeysFrom(t, k)
  OBVIOUS
<1>4. D \in Dicts /\ Sound(t, E) /\ Len(t.buckets) > 0 /\ k \in KeysOf(E)
  BY <1>1, <1>2, EntriesAre
<1>5. ks \in Seq(Keys)
  <2>1. Tells(t, E) /\ t \in Tables
    BY <1>4 DEF Sound, Tells
  <2>2. Chain(t, k) \in Seq(KeyedNodes) /\ Place(t, k) > 0
    BY <1>4, <2>1, BucketAt, Found
  <2>3. PICK s, p : s = Chain(t, k) /\ p = Place(t, k)
    OBVIOUS
  <2>4. s \in Seq(KeyedNodes) /\ p \in 1 .. Len(s) /\ Len(s) \in Nat
    BY <2>2, <2>3, PlaceIs, LenProperties
  <2>5. ASSUME NEW i \in 1 .. Len(s) + 1 - p
        PROVE  s[p + i - 1].key \in Keys
    <3>1. p + i - 1 \in 1 .. Len(s)
      BY <2>4
    <3>2. s[p + i - 1] \in KeyedNodes
      BY <2>4, <3>1, ElementOfSeq
    <3> QED
      BY <3>2 DEF KeyedNodes
  <2>6. ks = [i \in 1 .. Len(s) + 1 - p |-> s[p + i - 1].key]
    BY <1>3, <2>3 DEF KeysFrom
  <2>7. Len(s) + 1 - p \in Nat
    BY <2>4
  <2> QED
    BY <2>5, <2>6, <2>7
<1>6. Sound(EraseAll(t, ks), Kept(E, ks))
  BY <1>4, <1>5, ErasesTell
<1>7. PICK F : F = Restrict(D, DOMAIN D \ ToSet(ks))
  OBVIOUS
<1>8. F \in Dicts /\ EntriesOf(F) = {n \in E : n.key \notin ToSet(ks)}
  BY <1>2, <1>4, <1>7, RestrictedEntries
<1>9. EntriesOf(F) = Kept(E, ks)
  <2>1. DOMAIN ks = 1 .. Len(ks)
    BY <1>5, LenProperties
  <2>2. \A m : m \in ToSet(ks) <=> Among(m, ks)
    BY <2>1 DEF ToSet, Among
  <2> QED
    BY <1>8, <2>2 DEF Kept
<1>10. OneBecomes(o, EraseAll(t, ks), F)
  BY <1>2, <1>3, <1>7 DEF TableEraseToEnd, DictErase, OneBecomes
<1> QED
  BY <1>6, <1>8, <1>9, <1>10, OneKeeps

\* clear,
LEMMA TableClearKeeps ==
    ASSUME TableInv, NEW o \in Objects, TableClear(o)
    PROVE  TableInv'
<1>1. table[o] \in Tables /\ dict[o] \in Dicts
  BY EachTable
<1>2. Len(table[o].buckets) \in Nat
  BY <1>1, LenProperties DEF Tables
<1>3. PICK u, D : u = EmptyTable(Len(table[o].buckets)) /\ D = Restrict(dict[o], DOMAIN dict[o] \ DOMAIN dict[o])
  OBVIOUS
<1>4. Sound(u, {})
  BY <1>2, <1>3, EmptyTells
<1>5. D \in Dicts /\ EntriesOf(D) = {n \in EntriesOf(dict[o]) : n.key \notin DOMAIN dict[o]}
  BY <1>1, <1>3, RestrictedEntries
<1>6. EntriesOf(D) = {}
  BY <1>1, <1>5, EntriesAre
<1>7. OneBecomes(o, u, D)
  BY <1>3 DEF TableClear, DictErase, OneBecomes
<1> QED
  BY <1>4, <1>5, <1>6, <1>7, OneKeeps

\* reserve,
LEMMA TableReserveKeeps ==
    ASSUME TableInv, NEW o \in Objects, NEW k \in Keys, TableReserve(o, k)
    PROVE  TableInv'
<1>1. dict[o] \in Dicts /\ Sound(table[o], EntriesOf(dict[o])) /\ dict \in [Objects -> Dicts]
  BY EachTable DEF TableInv
<1>2. PICK t : t = table[o]
  OBVIOUS
<1>3. PICK asked : asked = IF k + 1 < DefaultBuckets THEN DefaultBuckets ELSE k + 1
  OBVIOUS
<1>4. asked \in Nat \ {0}
  BY <1>3, CollectionsAssumption, TableAssumption
<1>5. PICK u : u = IF t.size > Len(t.buckets) \/ asked > Len(t.buckets) THEN RehashTo(t, asked) ELSE t
  OBVIOUS
<1>6. Sound(u, EntriesOf(dict[o]))
  BY <1>1, <1>2, <1>4, <1>5, RehashTells
<1>7. OneBecomes(o, u, dict[o])
  <2>1. Becomes(o, u) /\ dict' = dict
    BY <1>2, <1>3, <1>5 DEF TableReserve
  <2>2. dict = [dict EXCEPT ![o] = dict[o]]
    BY <1>1
  <2> QED
    BY <2>1, <2>2 DEF OneBecomes
<1> QED
  BY <1>1, <1>6, <1>7, OneKeeps

\* the copy assignment to a table that counts nothing,
LEMMA TableCopyAssignKeeps ==
    ASSUME Risky = {}, TableInv, NEW o \in Objects, TableCopyAssign(o)
    PROVE  TableInv'
<1>1. Peer(o) \in Objects
  BY PeerFacts
<1>2. PICK p : p = Peer(o)
  OBVIOUS
<1>3. /\ dict[p] \in Dicts /\ Sound(table[p], EntriesOf(dict[p])) /\ table[o] \in Tables
      /\ Len(table[p].buckets) > 0 /\ table[o].size = 0
  BY <1>1, <1>2, EachTable DEF TableCopyAssign, Usable
<1>4. Sound(CopyInto(table[o], table[p]), EntriesOf(dict[p]))
  BY <1>3, CopyIntoTells
<1>5. OneBecomes(o, CopyInto(table[o], table[p]), dict[p])
  BY <1>2 DEF TableCopyAssign, DictCopy, OneBecomes
<1> QED
  BY <1>3, <1>4, <1>5, OneKeeps

\* the copy constructor,
LEMMA TableCopyConstructKeeps ==
    ASSUME TableInv, NEW o \in Objects, TableCopyConstruct(o)
    PROVE  TableInv'
<1>1. Peer(o) \in Objects
  BY PeerFacts
<1>2. PICK p : p = Peer(o)
  OBVIOUS
<1>3. dict[p] \in Dicts /\ Sound(table[p], EntriesOf(dict[p])) /\ Len(table[p].buckets) > 0
  BY <1>1, <1>2, EachTable DEF TableCopyConstruct, Usable
<1>4. Sound(CopyOf(table[p]), EntriesOf(dict[p]))
  BY <1>3, CopyTells
<1>5. OneBecomes(o, CopyOf(table[p]), dict[p])
  BY <1>2 DEF TableCopyConstruct, DictCopy, OneBecomes
<1> QED
  BY <1>3, <1>4, <1>5, OneKeeps

\* the moves,
LEMMA TableMoveKeeps ==
    ASSUME TableInv, NEW o \in Objects, TableMove(o)
    PROVE  TableInv'
<1>1. PICK p : p = Peer(o)
  OBVIOUS
<1>2. p \in Objects /\ p # o /\ Objects = {o, p}
  BY <1>1, PeerFacts
<1>3. PICK t, D : t = table[p] /\ D = dict[p]
  OBVIOUS
<1>4. t \in Tables /\ D \in Dicts /\ Sound(t, EntriesOf(D))
  BY <1>2, <1>3, EachTable
<1>5. /\ table' = [table EXCEPT ![o] = t, ![p] = MovedFrom]
      /\ dict' = [dict EXCEPT ![o] = D, ![p] = NoEntries]
  BY <1>1, <1>3 DEF TableMove, DictMove
<1>6. NoEntries \in Dicts /\ Sound(MovedFrom, EntriesOf(NoEntries)) /\ MovedFrom \in Tables
  <2>1. Sound(EmptyTable(0), {})
    BY EmptyTells
  <2> QED
    BY <2>1, NoEntriesAre DEF MovedFrom, Sound, Tells
<1>7. /\ table'[o] = t /\ table'[p] = MovedFrom /\ dict'[o] = D /\ dict'[p] = NoEntries
      /\ table' \in [Objects -> Tables] /\ dict' \in [Objects -> Dicts]
  <2>1. table \in [Objects -> Tables] /\ dict \in [Objects -> Dicts]
    BY DEF TableInv
  <2> QED
    BY <1>2, <1>4, <1>5, <1>6, <2>1
<1>8. \A q \in Objects : Sound(table'[q], EntriesOf(dict'[q]))
  BY <1>2, <1>4, <1>6, <1>7
<1> QED
  BY <1>7, <1>8 DEF TableInv

\* and swap.
LEMMA TableSwapKeeps ==
    ASSUME TableInv, TableSwap
    PROVE  TableInv'
<1>1. \A o \in Objects : Peer(o) \in Objects
  BY PeerFacts
<1>2. /\ table' = [o \in Objects |-> table[Peer(o)]]
      /\ dict' = [o \in Objects |-> dict[Peer(o)]]
  BY DEF TableSwap, DictSwap
<1>3. /\ table' \in [Objects -> Tables] /\ dict' \in [Objects -> Dicts]
      /\ \A o \in Objects : table'[o] = table[Peer(o)] /\ dict'[o] = dict[Peer(o)]
  BY <1>1, <1>2 DEF TableInv
<1>4. \A o \in Objects : Sound(table'[o], EntriesOf(dict'[o]))
  BY <1>1, <1>3, EachTable
<1> QED
  BY <1>3, <1>4 DEF TableInv

-----------------------------------------------------------------------------
(* Hash tables: the iterators that erase returns.                          *)

\* What of a sequence is behind a part of it.
LEMMA BehindPart ==
    ASSUME NEW S, NEW a \in Seq(S), NEW c \in Seq(S), NEW q, q = a \o c
    PROVE  SubSeq(q, Len(a) + 1, Len(q)) = c /\ SubSeq(q, Len(q) + 1, Len(q)) = <<>>
<1>1. /\ q \in Seq(S) /\ Len(q) = Len(a) + Len(c)
      /\ \A i \in 1 .. Len(a) + Len(c) : q[i] = IF i <= Len(a) THEN a[i] ELSE c[i - Len(a)]
  BY ConcatProperties
<1>2. Len(a) \in Nat /\ Len(c) \in Nat /\ Len(q) \in Nat
  BY <1>1, LenProperties
<1>3. ASSUME NEW n \in Nat, n <= Len(q)
      PROVE  /\ SubSeq(q, n + 1, Len(q)) \in Seq(S) /\ Len(SubSeq(q, n + 1, Len(q))) = Len(q) - n
             /\ \A j \in 1 .. Len(q) - n : SubSeq(q, n + 1, Len(q))[j] = q[n + j]
  <2>1. n + 1 \in Int /\ Len(q) \in Int /\ \A j \in n + 1 .. Len(q) : q[j] \in S
    <3>1. \A j \in n + 1 .. Len(q) : j \in 1 .. Len(q)
      BY <1>2, <1>3
    <3> QED
      BY <1>1, <1>2, <3>1, ElementOfSeq
  <2>2. /\ SubSeq(q, n + 1, Len(q)) \in Seq(S)
        /\ Len(SubSeq(q, n + 1, Len(q))) = IF n + 1 <= Len(q) THEN Len(q) - (n + 1) + 1 ELSE 0
        /\ \A j \in 1 .. Len(q) - (n + 1) + 1 : SubSeq(q, n + 1, Len(q))[j] = q[n + 1 + j - 1]
    BY <2>1, SubSeqProperties
  <2>3. PICK w : w = SubSeq(q, n + 1, Len(q))
    OBVIOUS
  <2>4. w \in Seq(S)
    BY <2>2, <2>3
  <2>5. Len(w) = Len(q) - n
    <3>1. Len(w) = IF n + 1 <= Len(q) THEN Len(q) - (n + 1) + 1 ELSE 0
      BY <2>2, <2>3
    <3>2. PICK l \in Nat : l = Len(q)
      BY <1>2
    <3>3. CASE n + 1 <= l
      <4>1. l - (n + 1) + 1 = l - n
        BY <3>2, <3>3
      <4> QED
        BY <3>1, <3>2, <3>3, <4>1
    <3>4. CASE ~ (n + 1 <= l)
      <4>1. l - n = 0
        BY <1>3, <3>2, <3>4
      <4> QED
        BY <3>1, <3>2, <3>4, <4>1
    <3> QED
      BY <3>3, <3>4
  <2>6. ASSUME NEW j \in 1 .. Len(q) - n
        PROVE  w[j] = q[n + j]
    <3>1. j \in 1 .. Len(q) - (n + 1) + 1 /\ n + 1 + j - 1 = n + j
      BY <1>2
    <3> QED
      BY <2>2, <2>3, <3>1
  <2> QED
    BY <2>3, <2>4, <2>5, <2>6
<1>4. SubSeq(q, Len(q) + 1, Len(q)) = <<>>
  <2>1. SubSeq(q, Len(q) + 1, Len(q)) \in Seq(S) /\ Len(SubSeq(q, Len(q) + 1, Len(q))) = 0
    BY <1>2, <1>3
  <2> QED
    BY <2>1, EmptySeq
<1>5. PICK r : r = SubSeq(q, Len(a) + 1, Len(q))
  OBVIOUS
<1>6. /\ r \in Seq(S) /\ Len(r) = Len(c)
      /\ \A j \in 1 .. Len(c) : r[j] = q[Len(a) + j]
  <2>1. Len(a) <= Len(q) /\ Len(q) - Len(a) = Len(c)
    BY <1>1, <1>2
  <2> QED
    BY <1>2, <1>3, <1>5, <2>1
<1>7. \A j \in 1 .. Len(c) : r[j] = c[j]
  <2> TAKE j \in 1 .. Len(c)
  <2>1. /\ Len(a) + j \in 1 .. Len(a) + Len(c) /\ ~ (Len(a) + j <= Len(a))
        /\ Len(a) + j - Len(a) = j
    BY <1>2
  <2> QED
    BY <1>1, <1>6, <2>1
<1>8. r = c
  BY <1>6, <1>7, SeqEqual
<1> QED
  BY <1>4, <1>5, <1>8

\* No key twice.
OnceEach(q) == \A i, j \in 1 .. Len(q) : q[i].key = q[j].key => i = j

\* Nor in a part of what has none twice.
LEMMA OnceInPart ==
    ASSUME NEW S, NEW a \in Seq(S), NEW z \in Seq(S), NEW c \in Seq(S), OnceEach(a \o z \o c)
    PROVE  OnceEach(z)
<1>1. PICK d \in Seq(S) : d = a \o z
  BY ConcatProperties
<1>2. PICK q : q = d \o c
  OBVIOUS
<1>3. Len(a) \in Nat /\ Len(z) \in Nat /\ Len(c) \in Nat
  BY LenProperties
<1>4. /\ Len(d) = Len(a) + Len(z)
      /\ \A i \in 1 .. Len(a) + Len(z) : d[i] = IF i <= Len(a) THEN a[i] ELSE z[i - Len(a)]
  BY <1>1, ConcatProperties
<1>5. /\ Len(q) = Len(d) + Len(c)
      /\ \A i \in 1 .. Len(d) + Len(c) : q[i] = IF i <= Len(d) THEN d[i] ELSE c[i - Len(d)]
  BY <1>2, ConcatProperties
<1>6. ASSUME NEW i \in 1 .. Len(z)
      PROVE  Len(a) + i \in 1 .. Len(q) /\ q[Len(a) + i] = z[i]
  <2>1. /\ Len(a) + i \in 1 .. Len(a) + Len(z) /\ ~ (Len(a) + i <= Len(a))
        /\ Len(a) + i - Len(a) = i
    BY <1>3
  <2>2. d[Len(a) + i] = z[i]
    BY <1>4, <2>1
  <2>3. Len(a) + i \in 1 .. Len(d) + Len(c) /\ Len(a) + i <= Len(d)
    BY <1>3, <1>4, <2>1
  <2> QED
    BY <1>5, <2>2, <2>3
<1>7. OnceEach(q)
  BY <1>1, <1>2
<1>8. ASSUME NEW i \in 1 .. Len(z), NEW j \in 1 .. Len(z), z[i].key = z[j].key
      PROVE  i = j
  <2>1. Len(a) + i = Len(a) + j
    BY <1>6, <1>7, <1>8 DEF OnceEach
  <2> QED
    BY <1>3, <2>1
<1> QED
  BY <1>8 DEF OnceEach

\* Where a key is found that stands there only.
PlaceOf(s, k) == SelectInSeq(s, LAMBDA n : n.key = k)

\* It is found in the only place where it stands.
LEMMA OnlyPlace ==
    ASSUME NEW S, NEW s \in Seq(S), OnceEach(s), NEW i \in 1 .. Len(s)
    PROVE  PlaceOf(s, s[i].key) = i
<1>1. PICK k : k = s[i].key
  OBVIOUS
<1> DEFINE T == {j \in 1 .. Len(s) : s[j].key = k}
<1>2. T = {i}
  BY <1>1 DEF OnceEach
<1>3. Len(s) \in Nat
  BY LenProperties
<1>4. PlaceOf(s, k) = IF T # {} THEN Min(T) ELSE 0
  BY DEF PlaceOf, SelectInSeq
<1>5. T \in SUBSET Nat /\ T # {}
  BY <1>2, <1>3
<1>6. Min(T) \in T
  <2> HIDE DEF T
  <2> QED
    BY <1>5, LeastOf
<1> QED
  BY <1>1, <1>2, <1>4, <1>5, <1>6

\* The whole around a part.
FlatSides(S, b, i) ==
    \E a \in Seq(S), c \in Seq(S) : c = FlattenSeq(Behind(b, i)) /\ FlattenSeq(b) = a \o b[i] \o c

\* What is around a bucket.
LEMMA FlatAt ==
    ASSUME NEW S, NEW b \in Seq(Seq(S)), NEW i \in 1 .. Len(b)
    PROVE  FlatSides(S, b, i)
<1>1. PICK w \in Seq(S) : w = b[i]
  BY ElementOfSeq
<1>2. PICK r : Replaced(r, b, i, w)
  BY DEF Replaced
<1>3. /\ FlattenSeq(Ahead(b, i)) \in Seq(S) /\ FlattenSeq(Behind(b, i)) \in Seq(S)
      /\ FlattenSeq(b) = FlattenSeq(Ahead(b, i)) \o b[i] \o FlattenSeq(Behind(b, i))
  BY <1>2, FlattenAround
<1> QED
  BY <1>3 DEF FlatSides

\* The nodes behind one: the rest of its bucket and the buckets behind it.
LEMMA NodesAfterAre ==
    ASSUME NEW t, NEW E, Tells(t, E), NEW k \in Keys,
           NEW i \in 1 .. Len(t.buckets), NEW x \in Seq(KeyedNodes), NEW y \in Seq(KeyedNodes), NEW n,
           SplitAt(t, E, k, i, x, y, n)
    PROVE  NodesAfter(t, k) = y \o FlattenSeq(Behind(t.buckets, i))
<1>1. /\ t.buckets \in Seq(Seq(KeyedNodes)) /\ OnceEach(FlattenSeq(t.buckets))
      /\ n \in KeyedNodes /\ n.key = k /\ t.buckets[i] = x \o <<n>> \o y
  BY DEF Tells, Tables, Hold, Lists, OnceEach, SplitAt
<1>2. PICK a \in Seq(KeyedNodes), c \in Seq(KeyedNodes) :
          c = FlattenSeq(Behind(t.buckets, i)) /\ FlattenSeq(t.buckets) = a \o t.buckets[i] \o c
  <2>1. FlatSides(KeyedNodes, t.buckets, i)
    BY <1>1, FlatAt
  <2> QED
    BY <2>1 DEF FlatSides
<1>3. FlattenSeq(t.buckets) = (a \o x) \o <<n>> \o (y \o c)
  <2>1. Four(KeyedNodes, a, x, y, c)
    BY DEF Four, Three
  <2>2. a \o (x \o <<n>> \o y) \o c = (a \o x) \o <<n>> \o (y \o c)
    <3>1. n \in KeyedNodes
      BY <1>1
    <3>2. Centred(a, x, n, y, c)
      BY <2>1, <3>1, RegroupAround
    <3> QED
      BY <3>2 DEF Centred
  <2> QED
    BY <1>1, <1>2, <2>2
<1>4. PICK f \in Seq(KeyedNodes), g \in Seq(KeyedNodes) : f = a \o x /\ g = y \o c
  BY ConcatProperties
<1>5. PICK h \in Seq(KeyedNodes) : h = f \o <<n>> /\ Len(h) = Len(f) + 1
  <2>1. PICK e \in Seq(KeyedNodes) : e = <<n>> /\ Len(e) = 1
    BY <1>1, OneElement
  <2>2. f \o e \in Seq(KeyedNodes) /\ Len(f \o e) = Len(f) + Len(e)
    BY ConcatProperties
  <2> QED
    BY <2>1, <2>2
<1>6. PICK q : q = Nodes(t)
  OBVIOUS
<1>7. q = f \o <<n>> \o g /\ q = h \o g /\ OnceEach(q)
  BY <1>1, <1>3, <1>4, <1>5, <1>6 DEF Nodes
<1>8. q \in Seq(KeyedNodes) /\ Len(f) + 1 \in 1 .. Len(q) /\ q[Len(f) + 1] = n
  <2>1. f \o <<n>> \o g \in Seq(KeyedNodes) /\ OneApart(f \o <<n>> \o g, f \o g, Len(f) + 1, n)
    BY <1>1, ApartFacts
  <2> QED
    BY <1>7, <2>1 DEF OneApart
<1>9. PlaceOf(q, k) = Len(f) + 1
  BY <1>1, <1>7, <1>8, OnlyPlace
<1>10. SubSeq(q, Len(h) + 1, Len(q)) = g
  BY <1>7, BehindPart
<1>11. NodesAfter(t, k) = SubSeq(q, PlaceOf(q, k) + 1, Len(q))
  BY <1>6 DEF NodesAfter, PlaceOf
<1> QED
  BY <1>2, <1>4, <1>5, <1>9, <1>10, <1>11

\* The next node of the bucket, found where it stands when the node is gone.
LEMMA NextPlace ==
    ASSUME NEW u, NEW F, Tells(u, F), NEW i \in 1 .. Len(u.buckets),
           NEW x \in Seq(KeyedNodes), NEW y \in Seq(KeyedNodes), y # <<>>, u.buckets[i] = x \o y
    PROVE  Place(u, y[1].key) = Len(x) + 1 /\ y[1].key # 0
<1>1. /\ u.buckets \in Seq(Seq(KeyedNodes)) /\ InPlace(u.buckets)
      /\ OnceEach(FlattenSeq(u.buckets))
  BY DEF Tells, Tables, Hold, Lists, OnceEach
<1>2. PICK z \in Seq(KeyedNodes) : z = x \o y
  BY ConcatProperties
<1>3. OnceEach(z)
  <2>1. PICK a \in Seq(KeyedNodes), c \in Seq(KeyedNodes) :
            FlattenSeq(u.buckets) = a \o u.buckets[i] \o c
    <3>1. FlatSides(KeyedNodes, u.buckets, i)
      BY <1>1, FlatAt
    <3> QED
      BY <3>1 DEF FlatSides
  <2>2. OnceEach(a \o z \o c)
    BY <1>1, <1>2, <2>1
  <2> QED
    BY <2>2, OnceInPart
<1>4. Len(x) \in Nat /\ Len(y) \in Nat /\ Len(y) # 0
  BY LenProperties, EmptySeq
<1>5. Len(x) + 1 \in 1 .. Len(z) /\ z[Len(x) + 1] = y[1]
  <2>1. /\ Len(z) = Len(x) + Len(y)
        /\ \A j \in 1 .. Len(x) + Len(y) : z[j] = IF j <= Len(x) THEN x[j] ELSE y[j - Len(x)]
    BY <1>2, ConcatProperties
  <2>2. Len(x) + 1 \in 1 .. Len(x) + Len(y) /\ ~ (Len(x) + 1 <= Len(x)) /\ Len(x) + 1 - Len(x) = 1
    BY <1>4
  <2> QED
    BY <2>1, <2>2
<1>6. PICK k : k = y[1].key
  OBVIOUS
<1>7. PlaceOf(z, k) = Len(x) + 1
  BY <1>3, <1>5, <1>6, OnlyPlace
<1>8. (k % Len(u.buckets)) + 1 = i
  <2>1. u.buckets[i] = z
    BY <1>2
  <2> QED
    BY <1>1, <1>5, <1>6, <2>1 DEF InPlace
<1>9. Place(u, k) = PlaceOf(z, k)
  BY <1>2, <1>8 DEF Place, PlaceOf, Chain, BucketIndex
<1>10. k # 0
  <2>1. 1 \in 1 .. Len(y)
    BY <1>4
  <2>2. y[1] \in KeyedNodes
    BY <2>1, ElementOfSeq
  <2> QED
    BY <1>6, <2>2, CollectionsAssumption DEF KeyedNodes
<1> QED
  BY <1>6, <1>7, <1>9, <1>10

\* So the loop goes on with the nodes behind the one erased.
LEMMA EraseGoesOn ==
    ASSUME NEW t, NEW E, Sound(t, E), Len(t.buckets) > 0, NEW k \in Keys, k \in KeysOf(E)
    PROVE  GoesOn(t, k)
<1>1. Tells(t, E) /\ t \in Tables /\ t.buckets \in Seq(Seq(KeyedNodes))
  BY DEF Sound, Tells, Tables
<1>2. Place(t, k) > 0
  BY <1>1, Found
<1>3. PICK i \in 1 .. Len(t.buckets), x \in Seq(KeyedNodes), y \in Seq(KeyedNodes), n \in E :
          SplitAt(t, E, k, i, x, y, n)
  <2>1. SplitIn(t, E, k)
    BY <1>1, <1>2, FoundAround
  <2> QED
    BY <2>1 DEF SplitIn
<1>4. PICK z \in Seq(KeyedNodes) : z = x \o y
  BY ConcatProperties
<1>5. PICK u : u = Erase(t, k)
  OBVIOUS
<1>6. Replaced(u.buckets, t.buckets, i, z)
  <2>1. Place(t, k) # 0
    BY <1>2
  <2>2. ErasedAt(t, k, i, z)
    BY <1>1, <1>3, <1>4, <2>1, EraseIs
  <2>3. PICK d : Replaced(d, t.buckets, i, z) /\ u = [t EXCEPT !.buckets = d, !.size = @ - 1]
    BY <1>5, <2>2 DEF ErasedAt
  <2>4. u.buckets = d
    BY <1>1, <2>3 DEF Tables
  <2> QED
    BY <2>3, <2>4
<1>7. /\ u.buckets \in Seq(Seq(KeyedNodes)) /\ Len(u.buckets) = Len(t.buckets) /\ u.buckets[i] = z
      /\ Behind(u.buckets, i) = Behind(t.buckets, i)
  BY <1>1, <1>6, ReplacedFacts, AroundSame
<1>8. Tells(u, Others(E, k))
  BY <1>5, EraseTells DEF Sound
<1>9. PICK it : it = AfterErase(t, k)
  OBVIOUS
<1>10. /\ it.bucket = i /\ it.of = Len(t.buckets)
       /\ it.key = IF y = <<>> THEN 0 ELSE y[1].key
  BY <1>3, <1>9 DEF AfterErase, At, SplitAt, Behind
<1>11. PICK c : c = FlattenSeq(Behind(t.buckets, i))
  OBVIOUS
<1>12. FlattenSeq(SubSeq(u.buckets, it.bucket + 1, it.of)) = c
  BY <1>7, <1>10, <1>11 DEF Behind
<1>13. /\ SubSeq(z, Len(x) + 1, Len(z)) = y
       /\ SubSeq(z, Len(z) + 1, Len(z)) = <<>>
  BY <1>4, BehindPart
<1>14. PICK from : from = IF it.key = 0 THEN Len(z) + 1 ELSE Place(u, it.key)
  OBVIOUS
<1>15. SubSeq(z, from, Len(z)) = y
  <2>1. CASE y = <<>>
    BY <1>10, <1>13, <1>14, <2>1
  <2>2. CASE y # <<>>
    <3>1. i \in 1 .. Len(u.buckets) /\ u.buckets[i] = x \o y
      BY <1>4, <1>7
    <3>2. Place(u, y[1].key) = Len(x) + 1 /\ y[1].key # 0
      BY <1>8, <2>2, <3>1, NextPlace
    <3>3. from = Len(x) + 1
      BY <1>10, <1>14, <2>2, <3>2
    <3> QED
      BY <1>13, <3>3
  <2> QED
    BY <2>1, <2>2
<1>16. NodesFrom(u, it) = y \o c
  BY <1>7, <1>10, <1>12, <1>14, <1>15 DEF NodesFrom
<1>17. NodesAfter(t, k) = y \o c
  BY <1>1, <1>3, <1>11, NodesAfterAre
<1> QED
  BY <1>5, <1>7, <1>9, <1>10, <1>16, <1>17 DEF GoesOn

-----------------------------------------------------------------------------
(* Hash tables: the theorems.                                              *)

\* The invariant at the start,
LEMMA TableInvInit == TableInit => TableInv
<1> SUFFICES ASSUME TableInit PROVE TableInv
  OBVIOUS
<1>1. /\ table = [o \in Objects |-> EmptyTable(DefaultBuckets)]
      /\ dict = [o \in Objects |-> NoEntries]
  BY DEF TableInit, DictInit
<1>2. Sound(EmptyTable(DefaultBuckets), {}) /\ EmptyTable(DefaultBuckets) \in Tables
  <2>1. DefaultBuckets \in Nat
    BY TableAssumption
  <2>2. Sound(EmptyTable(DefaultBuckets), {})
    BY <2>1, EmptyTells
  <2> QED
    BY <2>2 DEF Sound, Tells
<1>3. PICK t : t = EmptyTable(DefaultBuckets)
  OBVIOUS
<1>4. /\ table \in [Objects -> Tables] /\ dict \in [Objects -> Dicts]
      /\ \A o \in Objects : table[o] = t /\ dict[o] = NoEntries
  BY <1>1, <1>2, <1>3, NoEntriesAre
<1> QED
  BY <1>2, <1>3, <1>4, NoEntriesAre DEF TableInv

\* and after every call.
LEMMA TableInvStep ==
    ASSUME Risky = {}, TableInv, TableNext
    PROVE  TableInv'
<1>1. ASSUME NEW o \in Objects, NEW k \in Keys, NEW v \in Values,
             TableInsert(o, k, v) \/ TableAssign(o, k, v) \/ TableIndex(o, k, v)
      PROVE  TableInv'
  BY <1>1, TableInsertKeeps, TableAssignKeeps, TableIndexKeeps
<1>2. ASSUME NEW o \in Objects, NEW k \in Keys,
             TableErase(o, k) \/ TableEraseToEnd(o, k) \/ TableReserve(o, k)
      PROVE  TableInv'
  BY <1>2, TableEraseKeeps, TableEraseToEndKeeps, TableReserveKeeps
<1>3. ASSUME NEW o \in Objects,
             TableClear(o) \/ TableCopyAssign(o) \/ TableCopyConstruct(o) \/ TableMove(o)
      PROVE  TableInv'
  BY <1>3, TableClearKeeps, TableCopyAssignKeeps, TableCopyConstructKeeps, TableMoveKeeps
<1>4. ASSUME TableSwap
      PROVE  TableInv'
  BY <1>4, TableSwapKeeps
<1> QED
  BY <1>1, <1>2, <1>3, <1>4 DEF TableNext

\* A table that holds anything has an array.
LEMMA ArrayThere ==
    ASSUME NEW t, NEW E, Tells(t, E), NEW k \in KeysOf(E)
    PROVE  Len(t.buckets) > 0
<1>1. PICK n \in E : n.key = k
  BY DEF KeysOf
<1>2. /\ t.buckets \in Seq(Seq(KeyedNodes)) /\ n \in KeyedNodes
      /\ Among(n, FlattenSeq(t.buckets))
  BY DEF Tells, Hold, Lists
<1>3. InPart(n, t.buckets)
  BY <1>2, AmongParts
<1>4. PICK i \in 1 .. Len(t.buckets) : TRUE
  BY <1>3 DEF InPart
<1>5. Len(t.buckets) \in Nat
  BY <1>2, LenProperties
<1> QED
  BY <1>4, <1>5

\* From the invariant, what a run checks.
LEMMA TableInvHolds == TableInv => TableHolds
<1> SUFFICES ASSUME TableInv, NEW o \in Objects
             PROVE  /\ table[o].size = Len(Nodes(table[o]))
                    /\ table[o].size = Cardinality(DOMAIN dict[o])
                    /\ \A k \in DOMAIN dict[o] :
                           /\ Place(table[o], k) > 0
                           /\ Chain(table[o], k)[Place(table[o], k)].value = dict[o][k]
  BY DEF TableHolds
<1>1. PICK t, D : t = table[o] /\ D = dict[o]
  OBVIOUS
<1>2. /\ D \in Dicts /\ Tells(t, EntriesOf(D)) /\ t.size = Len(Nodes(t)) /\ t \in Tables
      /\ Lists(Nodes(t), EntriesOf(D))
  BY <1>1, EachTable DEF Sound, Tells, Hold, Nodes
<1>3. Cardinality(DOMAIN D) = Len(Nodes(t))
  BY <1>2, CountedKeys
<1>4. ASSUME NEW k \in DOMAIN D
      PROVE  Place(t, k) > 0 /\ Chain(t, k)[Place(t, k)].value = D[k]
  <2>1. k \in Keys /\ k \in KeysOf(EntriesOf(D)) /\ \A n \in EntriesOf(D) : n.value = D[n.key]
    BY <1>2, EntriesAre
  <2>2. Len(t.buckets) > 0
    BY <1>2, <2>1, ArrayThere
  <2>3. Place(t, k) > 0
    BY <1>2, <2>1, <2>2, Found
  <2>4. Chain(t, k)[Place(t, k)] \in EntriesOf(D) /\ Chain(t, k)[Place(t, k)].key = k
    BY <1>2, <2>1, <2>2, <2>3, Found
  <2> QED
    BY <2>1, <2>3, <2>4
<1> QED
  BY <1>1, <1>2, <1>3, <1>4

\* The iterators of erase, from the invariant.
LEMMA TableInvContinues == TableInv => EraseContinues
<1> SUFFICES ASSUME TableInv, NEW o \in Objects, NEW k \in DOMAIN dict[o]
             PROVE  GoesOn(table[o], k)
  BY DEF EraseContinues
<1>1. PICK t, D : t = table[o] /\ D = dict[o]
  OBVIOUS
<1>2. D \in Dicts /\ Sound(t, EntriesOf(D)) /\ Tells(t, EntriesOf(D))
  BY <1>1, EachTable DEF Sound
<1>3. k \in Keys /\ k \in KeysOf(EntriesOf(D))
  BY <1>1, <1>2, EntriesAre
<1>4. Len(t.buckets) > 0
  BY <1>2, <1>3, ArrayThere
<1> QED
  BY <1>1, <1>2, <1>3, <1>4, EraseGoesOn

\* Whatever keys are inserted, assigned, erased, copied, moved and rehashed, into
\* however many buckets: a hash table holds the entries that the calls should have
\* left, each once and in the chain its key is looked up in, and counts them right.
\* What `Risky` lists are the calls that a run refutes: operator[] of a key further
\* down its chain, erase of a range over several chains, a copy to a table that
\* still counts something.
THEOREM TablesKeepEntries ==
    ASSUME Risky = {}
    PROVE  TableSpec => []TablesHold
<1>1. TableInit => TableInv
  BY TableInvInit
<1>2. TableInv /\ [TableNext /\ UNCHANGED subject]_<<tableVars, subject>> => TableInv'
  <2> SUFFICES ASSUME TableInv, [TableNext /\ UNCHANGED subject]_<<tableVars, subject>>
               PROVE  TableInv'
    OBVIOUS
  <2>1. CASE TableNext
    BY <2>1, TableInvStep
  <2>2. CASE UNCHANGED tableVars
    BY <2>2 DEF tableVars, TableInv
  <2> QED
    BY <2>1, <2>2
<1>3. TableInv => TablesHold
  BY TableInvHolds DEF TablesHold
<1> QED
  BY <1>1, <1>2, <1>3, PTL DEF TableSpec

\* From any entry of any such table, a loop that erases through the iterators that
\* erase returns goes on with exactly the nodes that operator++ would have come to.
THEOREM TableErasesGoOn ==
    ASSUME Risky = {}
    PROVE  TableSpec => []EraseLoopsContinue
<1>1. TableInit => TableInv
  BY TableInvInit
<1>2. TableInv /\ [TableNext /\ UNCHANGED subject]_<<tableVars, subject>> => TableInv'
  <2> SUFFICES ASSUME TableInv, [TableNext /\ UNCHANGED subject]_<<tableVars, subject>>
               PROVE  TableInv'
    OBVIOUS
  <2>1. CASE TableNext
    BY <2>1, TableInvStep
  <2>2. CASE UNCHANGED tableVars
    BY <2>2 DEF tableVars, TableInv
  <2> QED
    BY <2>1, <2>2
<1>3. TableInv => EraseLoopsContinue
  BY TableInvContinues DEF EraseLoopsContinue
<1> QED
  BY <1>1, <1>2, <1>3, PTL DEF TableSpec

=============================================================================
