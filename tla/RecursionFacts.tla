--------------------------- MODULE RecursionFacts ---------------------------
(***************************************************************************)
(* Facts about recursive functions over an interval of natural numbers,    *)
(* which is how the models write the loops of the code, and about          *)
(* FlattenSeq.  The rules for induction of the library have a predicate as *)
(* parameter; here the predicate is a set, and the least number that is    *)
(* not in it is the counterexample.                                        *)
(***************************************************************************)
EXTENDS Integers, Sequences, SequencesExt, FiniteSetsExt, SequenceTheorems,
        WellFoundedInduction, TLAPS

-----------------------------------------------------------------------------
(* Induction.                                                              *)

\* A set of natural numbers that is not empty has a least element.
LEMMA LeastOf ==
    ASSUME NEW T, T \subseteq Nat, T # {}
    PROVE  \E m \in T : \A k \in T : m <= k
<1> DEFINE R == {ss \in Nat \X Nat : ss[1] < ss[2]}
<1>1. IsWellFoundedOn(R, Nat)
  BY NatLessThanWellFounded DEF OpToRel
<1> HIDE DEF R
<1>2. PICK x \in T : \A y \in T : ~(<<y, x>> \in R)
  BY <1>1, WFMin
<1>3. ASSUME NEW y \in T PROVE x <= y
  <2>1. x \in Nat /\ y \in Nat
    OBVIOUS
  <2>2. ~(y < x)
    <3>1. <<y, x>> \in Nat \X Nat /\ <<y, x>>[1] = y /\ <<y, x>>[2] = x
      BY <2>1
    <3> QED
      BY <1>2, <3>1 DEF R
  <2> QED
    BY <2>1, <2>2
<1> QED
  BY <1>3

\* A set that has 0, and k whenever it has k - 1, has all of 0..n.
LEMMA UpTo ==
    ASSUME NEW n \in Nat, NEW T, 0 \in T, \A k \in 1..n : k - 1 \in T => k \in T
    PROVE  \A k \in 0..n : k \in T
<1> SUFFICES ASSUME ~ \A k \in 0..n : k \in T PROVE FALSE
  OBVIOUS
<1> DEFINE M == {k \in 0..n : k \notin T}
<1>1. M \subseteq Nat /\ M # {}
  OBVIOUS
<1> HIDE DEF M
<1>2. PICK m \in M : \A k \in M : m <= k
  BY <1>1, LeastOf
<1>3. m \in 1..n /\ m \notin T
  BY DEF M
<1>4. m - 1 \in 0..n /\ ~(m <= m - 1)
  BY <1>3
<1>5. m - 1 \in T
  BY <1>2, <1>4 DEF M
<1> QED
  BY <1>3, <1>5

\* A bounded set of integers that is not empty has a least element, and Min
\* and Max are what they should be.
LEMMA MinIs ==
    ASSUME NEW a \in Int, NEW b \in Int, NEW T, T \subseteq a..b, T # {}
    PROVE  Min(T) \in T /\ \A k \in T : Min(T) <= k
<1> DEFINE M == {k - a : k \in T}
<1>1. M \subseteq Nat /\ M # {}
  OBVIOUS
<1>2. \A k \in T : k \in Int
  OBVIOUS
<1>3. PICK m \in M : \A k \in M : m <= k
  <2> HIDE DEF M
  <2> QED
    BY <1>1, LeastOf
<1>4. PICK x \in T : m = x - a
  OBVIOUS
<1>5. \A y \in T : x <= y
  <2>1. ASSUME NEW y \in T PROVE x <= y
    <3>1. y - a \in M
      OBVIOUS
    <3>2. m <= y - a
      BY <1>3, <3>1
    <3>3. x \in Int /\ y \in Int
      BY <1>2
    <3> HIDE DEF M
    <3> QED
      BY <1>4, <3>2, <3>3
  <2> QED
    BY <2>1
<1> HIDE DEF M
<1> QED
  BY <1>5 DEF Min

LEMMA MaxIs ==
    ASSUME NEW a \in Int, NEW b \in Int, NEW T, T \subseteq a..b, T # {}
    PROVE  Max(T) \in T /\ \A k \in T : Max(T) >= k
<1> DEFINE M == {b - k : k \in T}
<1>1. M \subseteq Nat /\ M # {}
  OBVIOUS
<1>2. \A k \in T : k \in Int
  OBVIOUS
<1>3. PICK m \in M : \A k \in M : m <= k
  <2> HIDE DEF M
  <2> QED
    BY <1>1, LeastOf
<1>4. PICK x \in T : m = b - x
  OBVIOUS
<1>5. \A y \in T : x >= y
  <2>1. ASSUME NEW y \in T PROVE x >= y
    <3>1. b - y \in M
      OBVIOUS
    <3>2. m <= b - y
      BY <1>3, <3>1
    <3>3. x \in Int /\ y \in Int
      BY <1>2
    <3> HIDE DEF M
    <3> QED
      BY <1>4, <3>2, <3>3
  <2> QED
    BY <2>1
<1> HIDE DEF M
<1> QED
  BY <1>5 DEF Max

\* The smaller of two numbers, and the larger one.
LEMMA MinOfTwo ==
    ASSUME NEW a \in Int, NEW b \in Int
    PROVE  Min({a, b}) = IF a <= b THEN a ELSE b
<1>1. CASE a <= b
  <2>1. {a, b} \subseteq a..b /\ {a, b} # {}
    BY <1>1
  <2> QED
    BY <1>1, <2>1, MinIs
<1>2. CASE ~(a <= b)
  <2>1. {a, b} \subseteq b..a /\ {a, b} # {}
    BY <1>2
  <2>2. Min({a, b}) \in {a, b} /\ \A k \in {a, b} : Min({a, b}) <= k
    BY <2>1, MinIs
  <2> QED
    BY <1>2, <2>2
<1> QED
  BY <1>1, <1>2

LEMMA MaxOfTwo ==
    ASSUME NEW a \in Int, NEW b \in Int
    PROVE  Max({a, b}) = IF a <= b THEN b ELSE a
<1>1. CASE a <= b
  <2>1. {a, b} \subseteq a..b /\ {a, b} # {}
    BY <1>1
  <2>2. Max({a, b}) \in {a, b} /\ \A k \in {a, b} : Max({a, b}) >= k
    BY <2>1, MaxIs
  <2> QED
    BY <1>1, <2>2
<1>2. CASE ~(a <= b)
  <2>1. {a, b} \subseteq b..a /\ {a, b} # {}
    BY <1>2
  <2>2. Max({a, b}) \in {a, b} /\ \A k \in {a, b} : Max({a, b}) >= k
    BY <2>1, MaxIs
  <2> QED
    BY <1>2, <2>2
<1> QED
  BY <1>1, <1>2

\* A loop of n rounds that keeps its state in S, and the history of its states.
StaysIn(step, n, S) == \A k \in 1..n, a \in S : step[k][a] \in S
IsHistory(f, step, n, S, base) ==
    f \in [0..n -> S] /\ f[0] = base /\ \A k \in 1..n : f[k] = step[k][f[k - 1]]

\* Every such loop has a history.
LEMMA Rounds ==
    ASSUME NEW S, NEW n \in Nat, NEW base \in S, NEW step, StaysIn(step, n, S)
    PROVE  \E f : IsHistory(f, step, n, S, base)
<1> DEFINE Runs(m) == \E f \in [0..m -> S] :
                         f[0] = base /\ \A k \in 1..m : f[k] = step[k][f[k - 1]]
           T == {m \in 0..n : Runs(m)}
<1>1. 0 \in T
  <2>1. [k \in 0..0 |-> base] \in [0..0 -> S] /\ [k \in 0..0 |-> base][0] = base
    OBVIOUS
  <2>2. \A k \in 1..0 : FALSE
    OBVIOUS
  <2>3. Runs(0)
    BY <2>1, <2>2
  <2> QED
    BY <2>3
<1>2. ASSUME NEW m \in 1..n, m - 1 \in T PROVE m \in T
  <2>1. PICK f \in [0..m - 1 -> S] :
          f[0] = base /\ \A k \in 1..m - 1 : f[k] = step[k][f[k - 1]]
    BY <1>2
  <2>2. m - 1 \in 0..m - 1 /\ m \in Nat
    OBVIOUS
  <2>3. f[m - 1] \in S /\ step[m][f[m - 1]] \in S
    <3>1. f[m - 1] \in S
      BY <2>2
    <3> QED
      BY <3>1 DEF StaysIn
  <2> DEFINE g == [k \in 0..m |-> IF k = m THEN step[m][f[m - 1]] ELSE f[k]]
  <2>4. g \in [0..m -> S]
    <3>1. step[m][f[m - 1]] \in S
      BY <2>3
    <3>2. \A k \in 0..m : k # m => k \in 0..m - 1
      OBVIOUS
    <3> QED
      BY <3>1, <3>2
  <2>5. g[0] = base
    BY <2>1
  <2>6. ASSUME NEW k \in 1..m PROVE g[k] = step[k][g[k - 1]]
    <3>1. k - 1 \in 0..m /\ k - 1 # m /\ k \in 0..m
      OBVIOUS
    <3>2. g[k - 1] = f[k - 1]
      BY <3>1
    <3>3. CASE k = m
      BY <3>1, <3>2, <3>3
    <3>4. CASE k # m
      <4>1. k \in 1..m - 1
        BY <3>4
      <4>2. g[k] = f[k]
        BY <3>1, <3>4
      <4> QED
        BY <2>1, <3>2, <4>1, <4>2
    <3> QED
      BY <3>3, <3>4
  <2> HIDE DEF g
  <2>7. Runs(m)
    BY <2>4, <2>5, <2>6
  <2> HIDE DEF Runs
  <2>8. m \in 0..n
    OBVIOUS
  <2> QED
    BY <2>7, <2>8
<1> HIDE DEF T
<1>3. n \in T
  <2>1. \A k \in 0..n : k \in T
    BY <1>1, <1>2, UpTo
  <2> QED
    BY <2>1
<1> QED
  BY <1>3 DEF T, IsHistory

\* A search from 1 to n + 1 that at each place stops with a value in S or goes
\* on at a later place, and the results of the search from each place.
GoesOn(n, S, stop, val, next) ==
    \A p \in 1..n + 1 : IF p \in stop THEN val[p] \in S ELSE next[p] \in p + 1..n + 1
Finds(f, n, stop, val, next) ==
    \A p \in 1..n + 1 : f[p] = IF p \in stop THEN val[p] ELSE f[next[p]]
IsSearch(f, n, S, stop, val, next) ==
    f \in [1..n + 1 -> S] /\ Finds(f, n, stop, val, next)

\* Every such search has a result from every place.
LEMMA Searches ==
    ASSUME NEW S, NEW n \in Nat, NEW stop, NEW val, NEW next, GoesOn(n, S, stop, val, next)
    PROVE  \E f : IsSearch(f, n, S, stop, val, next)
<1> DEFINE From(k) == n + 1 - k..n + 1
           Found(k) == \E f \in [From(k) -> S] :
                         \A p \in From(k) : f[p] = IF p \in stop THEN val[p] ELSE f[next[p]]
           T == {k \in 0..n : Found(k)}
<1>1. 0 \in T
  <2>1. n + 1 \in stop /\ val[n + 1] \in S
    <3>1. n + 1 \in 1..n + 1 /\ (n + 1) + 1..n + 1 = {}
      OBVIOUS
    <3> QED
      BY <3>1 DEF GoesOn
  <2> DEFINE g == [p \in From(0) |-> val[n + 1]]
  <2>2. g \in [From(0) -> S] /\ \A p \in From(0) : p = n + 1 /\ g[p] = val[n + 1]
    BY <2>1
  <2> HIDE DEF g
  <2>3. Found(0)
    BY <2>1, <2>2
  <2> HIDE DEF Found
  <2> QED
    BY <2>3
<1>2. ASSUME NEW k \in 1..n, k - 1 \in T PROVE k \in T
  <2>1. PICK f \in [From(k - 1) -> S] :
          \A p \in From(k - 1) : f[p] = IF p \in stop THEN val[p] ELSE f[next[p]]
    BY <1>2
  <2> DEFINE q == n + 1 - k
             x == IF q \in stop THEN val[q] ELSE f[next[q]]
             g == [p \in From(k) |-> IF p = q THEN x ELSE f[p]]
  <2>2. q \in 1..n + 1 /\ q \in From(k) /\ \A p \in From(k) : p # q => p \in From(k - 1)
    OBVIOUS
  <2>3. \A p \in From(k) : p \notin stop => next[p] \in From(k) /\ next[p] # q /\ next[p] \in From(k - 1)
    <3>1. ASSUME NEW p \in From(k), p \notin stop
          PROVE  next[p] \in From(k) /\ next[p] # q /\ next[p] \in From(k - 1)
      <4>1. next[p] \in p + 1..n + 1
        BY <3>1 DEF GoesOn
      <4> QED
        BY <4>1
    <3> QED
      BY <3>1
  <2>4. x \in S
    <3>1. CASE q \in stop
      BY <2>2, <3>1 DEF GoesOn
    <3>2. CASE q \notin stop
      <4>1. next[q] \in From(k - 1)
        BY <2>2, <2>3, <3>2
      <4> HIDE DEF From
      <4> QED
        BY <3>2, <4>1
    <3> QED
      BY <3>1, <3>2
  <2> HIDE DEF x, From
  <2>5. g \in [From(k) -> S]
    BY <2>2, <2>4
  <2>6. ASSUME NEW p \in From(k) PROVE g[p] = IF p \in stop THEN val[p] ELSE g[next[p]]
    <3>1. p \notin stop => g[next[p]] = f[next[p]]
      BY <2>3
    <3>2. CASE p = q
      BY <3>1, <3>2 DEF x
    <3>3. CASE p # q
      <4>1. p \in From(k - 1) /\ g[p] = f[p]
        BY <2>2, <3>3
      <4> QED
        BY <2>1, <3>1, <4>1
    <3> QED
      BY <3>2, <3>3
  <2> HIDE DEF g
  <2>7. Found(k)
    BY <2>5, <2>6
  <2> HIDE DEF Found
  <2>8. k \in 0..n
    OBVIOUS
  <2> QED
    BY <2>7, <2>8
<1> HIDE DEF T
<1>3. n \in T
  <2>1. \A k \in 0..n : k \in T
    BY <1>1, <1>2, UpTo
  <2> QED
    BY <2>1
<1>4. From(n) = 1..n + 1
  OBVIOUS
<1> HIDE DEF From
<1> QED
  BY <1>3, <1>4 DEF T, IsSearch, Finds

\* Whatever goes through a search in this way, its results are in S.
ResultsIn(g, n, S) == \A p \in 1..n + 1 : g[p] \in S

LEMMA SearchType ==
    ASSUME NEW S, NEW n \in Nat, NEW stop, NEW val, NEW next, GoesOn(n, S, stop, val, next),
           NEW g, Finds(g, n, stop, val, next)
    PROVE  ResultsIn(g, n, S)
<1> DEFINE Same(k) == \A p \in n + 1 - k..n + 1 : g[p] \in S
           T == {k \in 0..n : Same(k)}
<1>1. \A p \in 1..n + 1 : g[p] = IF p \in stop THEN val[p] ELSE g[next[p]]
  BY DEF Finds
<1>2. 0 \in T
  <2>1. n + 1 \in 1..n + 1 /\ (n + 1) + 1..n + 1 = {}
    OBVIOUS
  <2>2. n + 1 \in stop /\ val[n + 1] \in S
    BY <2>1 DEF GoesOn
  <2>3. g[n + 1] \in S
    BY <1>1, <2>1, <2>2
  <2>4. \A p \in n + 1 - 0..n + 1 : p = n + 1
    OBVIOUS
  <2>5. Same(0)
    BY <2>3, <2>4
  <2> HIDE DEF Same
  <2> QED
    BY <2>5
<1>3. ASSUME NEW k \in 1..n, k - 1 \in T PROVE k \in T
  <2>1. Same(k - 1)
    BY <1>3
  <2>2. ASSUME NEW p \in n + 1 - k..n + 1 PROVE g[p] \in S
    <3>1. CASE p \in stop
      <4>1. p \in 1..n + 1
        OBVIOUS
      <4>2. val[p] \in S
        BY <3>1, <4>1 DEF GoesOn
      <4> QED
        BY <1>1, <3>1, <4>1, <4>2
    <3>2. CASE p \notin stop
      <4>1. p \in 1..n + 1
        OBVIOUS
      <4>2. next[p] \in p + 1..n + 1
        BY <3>2, <4>1 DEF GoesOn
      <4>3. next[p] \in n + 1 - (k - 1)..n + 1
        BY <4>2
      <4>4. g[next[p]] \in S
        BY <2>1, <4>3
      <4> QED
        BY <1>1, <3>2, <4>1, <4>4
    <3> QED
      BY <3>1, <3>2
  <2>3. Same(k)
    BY <2>2
  <2>4. k \in 0..n
    OBVIOUS
  <2> HIDE DEF Same
  <2> QED
    BY <2>3, <2>4
<1> HIDE DEF T
<1>4. n \in T
  <2>1. \A k \in 0..n : k \in T
    BY <1>2, <1>3, UpTo
  <2> QED
    BY <2>1
<1>5. n + 1 - n = 1
  OBVIOUS
<1> QED
  BY <1>4, <1>5 DEF T, ResultsIn

-----------------------------------------------------------------------------
(* FlattenSeq.                                                             *)

\* FlattenSeq is what is there after the last round of a loop that appends one
\* sequence in each.
LEMMA FlattenRounds ==
    ASSUME NEW X, NEW ss \in Seq(Seq(X))
    PROVE  \E f \in [0..Len(ss) -> Seq(X)] :
             /\ f[0] = <<>> /\ \A k \in 1..Len(ss) : f[k] = f[k - 1] \o ss[k]
             /\ FlattenSeq(ss) = f[Len(ss)]
<1> DEFINE n == Len(ss)
           step == [k \in 1..n |-> [a \in Seq(X) |-> a \o ss[k]]]
           Round(h, i) == IF i = 1 THEN ss[i] ELSE h[i - 1] \o ss[i]
<1>1. n \in Nat /\ <<>> \in Seq(X) /\ \A k \in 1..n : ss[k] \in Seq(X)
  BY EmptySeq, ElementOfSeq
<1>2. step \in [1..n -> [Seq(X) -> Seq(X)]]
  <2>1. ASSUME NEW k \in 1..n PROVE [a \in Seq(X) |-> a \o ss[k]] \in [Seq(X) -> Seq(X)]
    <3>1. ss[k] \in Seq(X)
      BY <1>1
    <3>2. \A a \in Seq(X) : a \o ss[k] \in Seq(X)
      BY <3>1, ConcatProperties
    <3> QED
      BY <3>2
  <2> QED
    BY <2>1
<1>3. \A k \in 1..n, a \in Seq(X) : step[k][a] = a \o ss[k]
  OBVIOUS
<1> HIDE DEF step, n
<1>4. PICK f \in [0..n -> Seq(X)] :
        f[0] = <<>> /\ \A k \in 1..n : f[k] = step[k][f[k - 1]]
  <2> DEFINE S == Seq(X)
  <2>1. <<>> \in S
    BY <1>1
  <2>2. StaysIn(step, n, S)
    BY <1>2 DEF StaysIn
  <2> HIDE DEF S
  <2>3. \E f : IsHistory(f, step, n, S, <<>>)
    BY <1>1, <2>1, <2>2, Rounds
  <2> QED
    BY <2>3 DEF S, IsHistory
<1>5. \A k \in 1..n : f[k] = f[k - 1] \o ss[k]
  <2>1. ASSUME NEW k \in 1..n PROVE f[k] = f[k - 1] \o ss[k]
    <3>1. k - 1 \in 0..n
      BY <1>1
    <3>2. f[k - 1] \in Seq(X)
      BY <3>1
    <3> QED
      BY <1>3, <1>4, <3>2
  <2> QED
    BY <2>1
<1>6. ASSUME NEW h, h = [i \in 1..n |-> Round(h, i)]
      PROVE  \A k \in 1..n : h[k] = f[k]
  <2> DEFINE T == {k \in 0..n : k = 0 \/ h[k] = f[k]}
  <2>1. 0 \in T
    BY <1>1
  <2>2. ASSUME NEW k \in 1..n, k - 1 \in T PROVE k \in T
    <3>1. h[k] = Round(h, k)
      BY <1>6
    <3>2. CASE k = 1
      <4>1. f[1] = <<>> \o ss[1]
        <5>1. 1 \in 1..n /\ 1 - 1 = 0
          BY <3>2
        <5> QED
          BY <1>4, <1>5, <5>1
      <4>2. ss[1] \in Seq(X)
        BY <1>1, <3>2
      <4>3. f[1] = ss[1]
        BY <4>1, <4>2, ConcatEmptySeq
      <4> QED
        BY <3>1, <3>2, <4>3
    <3>3. CASE k # 1
      <4>1. h[k - 1] = f[k - 1]
        BY <2>2, <3>3
      <4>2. h[k] = f[k - 1] \o ss[k]
        BY <3>1, <3>3, <4>1
      <4>3. k \in 0..n /\ h[k] = f[k]
        <5>1. n \in Nat /\ f[k] = f[k - 1] \o ss[k]
          BY <1>1, <1>5
        <5> QED
          BY <4>2, <5>1
      <4> QED
        BY <4>3
    <3> QED
      BY <3>2, <3>3
  <2> HIDE DEF T
  <2>3. \A k \in 0..n : k \in T
    BY <1>1, <2>1, <2>2, UpTo
  <2> QED
    BY <2>3 DEF T
<1>7. \E h : h = [i \in 1..n |-> Round(h, i)]
  <2> DEFINE g == [i \in 1..n |-> f[i]]
  <2>1. ASSUME NEW i \in 1..n PROVE g[i] = Round(g, i)
    <3>1. CASE i = 1
      <4>1. f[1] = <<>> \o ss[1]
        <5>1. 1 \in 1..n /\ 1 - 1 = 0
          BY <3>1
        <5> QED
          BY <1>4, <1>5, <5>1
      <4>2. ss[1] \in Seq(X)
        BY <1>1, <3>1
      <4>3. f[1] = ss[1]
        BY <4>1, <4>2, ConcatEmptySeq
      <4> QED
        BY <3>1, <4>3
    <3>2. CASE i # 1
      <4>1. i - 1 \in 1..n
        BY <1>1, <3>2
      <4> QED
        BY <1>5, <3>2, <4>1
    <3> QED
      BY <3>1, <3>2
  <2>2. g = [i \in 1..n |-> g[i]]
    OBVIOUS
  <2> HIDE DEF g
  <2>3. g = [i \in 1..n |-> Round(g, i)]
    BY <2>1, <2>2
  <2> QED
    BY <2>3
<1>8. FlattenSeq(ss) = f[n]
  <2>1. CASE n = 0
    <3>1. ss = <<>>
      BY <2>1, EmptySeq DEF n
    <3>2. FlattenSeq(ss) = ss
      BY <2>1 DEF FlattenSeq, n
    <3> QED
      BY <1>4, <2>1, <3>1, <3>2
  <2>2. CASE n # 0
    <3> DEFINE c == CHOOSE h : h = [i \in 1..n |-> Round(h, i)]
    <3>1. c = [i \in 1..n |-> Round(c, i)]
      BY <1>7
    <3>2. FlattenSeq(ss) = c[n]
      BY <2>2 DEF FlattenSeq, n
    <3> HIDE DEF c
    <3>3. \A k \in 1..n : c[k] = f[k]
      BY <1>6, <3>1
    <3> QED
      BY <1>1, <2>2, <3>2, <3>3
  <2> QED
    BY <2>1, <2>2
<1> QED
  BY <1>4, <1>5, <1>8 DEF n

\* What holds of the empty sequence, and goes on holding when one of the
\* sequences is appended, holds of all of them together.
LEMMA FlattenIn ==
    ASSUME NEW X, NEW ss \in Seq(Seq(X)), NEW S,
           <<>> \in S, \A k \in 1..Len(ss) : \A a \in S \cap Seq(X) : a \o ss[k] \in S
    PROVE  FlattenSeq(ss) \in S /\ FlattenSeq(ss) \in Seq(X)
<1>1. PICK f \in [0..Len(ss) -> Seq(X)] :
        /\ f[0] = <<>> /\ \A k \in 1..Len(ss) : f[k] = f[k - 1] \o ss[k]
        /\ FlattenSeq(ss) = f[Len(ss)]
  BY FlattenRounds
<1>2. Len(ss) \in Nat
  OBVIOUS
<1> DEFINE T == {k \in 0..Len(ss) : f[k] \in S}
<1>3. 0 \in T
  BY <1>1, <1>2
<1>4. ASSUME NEW k \in 1..Len(ss), k - 1 \in T PROVE k \in T
  <2>1. k \in 0..Len(ss) /\ k - 1 \in 0..Len(ss)
    BY <1>2
  <2>2. f[k - 1] \in S \cap Seq(X)
    BY <1>4, <2>1
  <2>3. f[k] \in S
    BY <1>1, <2>2
  <2> QED
    BY <2>1, <2>3
<1> HIDE DEF T
<1>5. \A k \in 0..Len(ss) : k \in T
  BY <1>2, <1>3, <1>4, UpTo
<1>6. Len(ss) \in T
  BY <1>2, <1>5
<1> QED
  BY <1>1, <1>2, <1>6 DEF T

LEMMA FlattenType ==
    ASSUME NEW X, NEW ss \in Seq(Seq(X))
    PROVE  FlattenSeq(ss) \in Seq(X)
<1>1. \A k \in 1..Len(ss) : ss[k] \in Seq(X)
  BY ElementOfSeq
<1>2. \A k \in 1..Len(ss) : \A a \in Seq(X) \cap Seq(X) : a \o ss[k] \in Seq(X)
  BY <1>1, ConcatProperties
<1>3. <<>> \in Seq(X)
  BY EmptySeq
<1> DEFINE S == Seq(X)
<1>4. <<>> \in S /\ \A k \in 1..Len(ss) : \A a \in S \cap Seq(X) : a \o ss[k] \in S
  BY <1>2, <1>3
<1> HIDE DEF S
<1> QED
  BY <1>4, FlattenIn

LEMMA FlattenEmpty == FlattenSeq(<<>>) = <<>>
BY DEF FlattenSeq

LEMMA FlattenAppend ==
    ASSUME NEW X, NEW ss \in Seq(Seq(X)), NEW s \in Seq(X)
    PROVE  FlattenSeq(Append(ss, s)) = FlattenSeq(ss) \o s
<1> DEFINE n == Len(ss)
           tt == Append(ss, s)
<1>1. tt \in Seq(Seq(X)) /\ Len(tt) = n + 1 /\ tt[n + 1] = s /\ n \in Nat
  BY AppendProperties
<1>2. \A k \in 1..n : tt[k] = ss[k]
  BY AppendProperties
<1> HIDE DEF tt
<1>3. PICK f \in [0..n -> Seq(X)] :
        /\ f[0] = <<>> /\ \A k \in 1..n : f[k] = f[k - 1] \o ss[k]
        /\ FlattenSeq(ss) = f[n]
  BY FlattenRounds
<1> HIDE DEF n
<1>4. PICK g \in [0..Len(tt) -> Seq(X)] :
        /\ g[0] = <<>> /\ \A k \in 1..Len(tt) : g[k] = g[k - 1] \o tt[k]
        /\ FlattenSeq(tt) = g[Len(tt)]
  BY <1>1, FlattenRounds
<1> DEFINE T == {k \in 0..n : g[k] = f[k]}
<1>5. 0 \in T
  BY <1>1, <1>3, <1>4
<1>6. ASSUME NEW k \in 1..n, k - 1 \in T PROVE k \in T
  <2>1. k \in 0..n /\ k \in 1..Len(tt)
    BY <1>1
  <2>2. f[k] = f[k - 1] \o ss[k] /\ g[k] = g[k - 1] \o tt[k] /\ tt[k] = ss[k]
    BY <1>2, <1>3, <1>4, <2>1
  <2>3. g[k - 1] = f[k - 1]
    BY <1>6
  <2>4. g[k] = f[k]
    BY <2>2, <2>3
  <2> QED
    BY <2>1, <2>4
<1> HIDE DEF T
<1>7. \A k \in 0..n : k \in T
  BY <1>1, <1>5, <1>6, UpTo
<1>8. g[n] = f[n]
  BY <1>1, <1>7 DEF T
<1>9. n + 1 \in 1..Len(tt) /\ (n + 1) - 1 = n
  BY <1>1
<1>10. g[n + 1] = g[n] \o s
  <2>1. g[n + 1] = g[(n + 1) - 1] \o tt[n + 1]
    BY <1>4, <1>9
  <2> QED
    BY <1>1, <1>9, <2>1
<1>11. FlattenSeq(tt) = f[n] \o s
  BY <1>1, <1>4, <1>8, <1>10
<1> QED
  BY <1>3, <1>11 DEF tt

\* Where each of the sequences begins in what they make together.
AreOffsets(off, ss) ==
    /\ off \in [0..Len(ss) -> Nat] /\ off[0] = 0
    /\ \A k \in 1..Len(ss) : off[k] = off[k - 1] + Len(ss[k])
    /\ Len(FlattenSeq(ss)) = off[Len(ss)]
    /\ \A k \in 1..Len(ss) : \A j \in 1..Len(ss[k]) :
          /\ off[k - 1] + j \in 1..Len(FlattenSeq(ss))
          /\ FlattenSeq(ss)[off[k - 1] + j] = ss[k][j]

LEMMA FlattenAt ==
    ASSUME NEW X, NEW ss \in Seq(Seq(X))
    PROVE  \E off : AreOffsets(off, ss)
<1> DEFINE n == Len(ss)
<1>1. n \in Nat /\ \A k \in 1..n : ss[k] \in Seq(X) /\ Len(ss[k]) \in Nat
  BY ElementOfSeq
<1>2. PICK f \in [0..n -> Seq(X)] :
        /\ f[0] = <<>> /\ \A k \in 1..n : f[k] = f[k - 1] \o ss[k]
        /\ FlattenSeq(ss) = f[n]
  BY FlattenRounds
<1> HIDE DEF n
<1> DEFINE off == [k \in 0..n |-> Len(f[k])]
<1>3. off \in [0..n -> Nat] /\ off[0] = 0
  BY <1>1, <1>2
<1>4. ASSUME NEW k \in 1..n
      PROVE  /\ k - 1 \in 0..n /\ k \in 0..n /\ f[k - 1] \in Seq(X) /\ f[k] \in Seq(X)
             /\ off[k] = off[k - 1] + Len(ss[k])
             /\ \A i \in 1..off[k - 1] : f[k][i] = f[k - 1][i]
             /\ \A j \in 1..Len(ss[k]) : f[k][off[k - 1] + j] = ss[k][j]
  <2>1. k - 1 \in 0..n /\ k \in 0..n
    BY <1>1
  <2>2. f[k - 1] \in Seq(X) /\ f[k] \in Seq(X) /\ ss[k] \in Seq(X) /\ f[k] = f[k - 1] \o ss[k]
    BY <1>1, <1>2, <2>1
  <2>3. \A a, b \in Seq(X) :
          /\ Len(a \o b) = Len(a) + Len(b)
          /\ \A i \in 1..Len(a) : (a \o b)[i] = a[i]
          /\ \A j \in 1..Len(b) : (a \o b)[Len(a) + j] = b[j]
    OBVIOUS
  <2>4. off[k - 1] = Len(f[k - 1]) /\ off[k] = Len(f[k])
    BY <2>1
  <2> HIDE DEF off
  <2>5. /\ Len(f[k]) = Len(f[k - 1]) + Len(ss[k])
        /\ \A i \in 1..Len(f[k - 1]) : f[k][i] = f[k - 1][i]
        /\ \A j \in 1..Len(ss[k]) : f[k][Len(f[k - 1]) + j] = ss[k][j]
    <3> DEFINE a == f[k - 1]
               b == ss[k]
    <3>1. a \in Seq(X) /\ b \in Seq(X) /\ f[k] = a \o b
      BY <2>2
    <3> HIDE DEF a, b
    <3>2. /\ Len(f[k]) = Len(a) + Len(b)
          /\ \A i \in 1..Len(a) : f[k][i] = a[i]
          /\ \A j \in 1..Len(b) : f[k][Len(a) + j] = b[j]
      BY <2>3, <3>1
    <3> QED
      BY <3>2 DEF a, b
  <2> QED
    BY <2>1, <2>2, <2>4, <2>5
<1>5. \A k \in 0..n : off[k] \in Nat /\ off[k] = Len(f[k])
  BY <1>3
<1> HIDE DEF off
<1> DEFINE Placed(m) == \A k \in 1..m : \A j \in 1..Len(ss[k]) :
                          off[k - 1] + j \in 1..off[m] /\ f[m][off[k - 1] + j] = ss[k][j]
           T == {m \in 0..n : Placed(m)}
<1>6. 0 \in T
  <2>1. 0 \in 0..n /\ \A k \in 1..0 : FALSE
    BY <1>1
  <2> QED
    BY <2>1
<1>7. ASSUME NEW m \in 1..n, m - 1 \in T PROVE m \in T
  <2>1. Placed(m - 1)
    BY <1>7
  <2>2. ASSUME NEW k \in 1..m, NEW j \in 1..Len(ss[k])
        PROVE  off[k - 1] + j \in 1..off[m] /\ f[m][off[k - 1] + j] = ss[k][j]
    <3>1. off[m] = off[m - 1] + Len(ss[m]) /\ off[m - 1] \in Nat /\ off[m] \in Nat
      BY <1>1, <1>4, <1>5
    <3>2. CASE k = m
      <4>1. j \in 1..Len(ss[m]) /\ Len(ss[m]) \in Nat
        BY <1>1, <3>2
      <4>2. off[m - 1] + j \in 1..off[m]
        <5> DEFINE x == off[m - 1]
                   y == Len(ss[m])
        <5>1. x \in Nat /\ y \in Nat /\ off[m] = x + y /\ j \in 1..y
          BY <3>1, <4>1
        <5> HIDE DEF x, y
        <5>2. x + j \in 1..x + y
          BY <5>1
        <5> QED
          BY <5>1, <5>2 DEF x
      <4> QED
        BY <1>4, <3>2, <4>1, <4>2
    <3>3. CASE k # m
      <4>1. k \in 1..m - 1
        BY <1>1, <3>3
      <4>2. off[k - 1] + j \in 1..off[m - 1] /\ f[m - 1][off[k - 1] + j] = ss[k][j]
        BY <2>1, <4>1
      <4>3. off[k - 1] + j \in 1..off[m]
        <5>1. Len(ss[m]) \in Nat
          BY <1>1
        <5> QED
          BY <3>1, <4>2, <5>1
      <4> QED
        BY <1>4, <4>2, <4>3
    <3> QED
      BY <3>2, <3>3
  <2>3. Placed(m)
    BY <2>2
  <2>4. m \in 0..n
    BY <1>1
  <2> HIDE DEF Placed
  <2> QED
    BY <2>3, <2>4
<1> HIDE DEF T
<1>8. n \in T
  <2>1. \A m \in 0..n : m \in T
    BY <1>1, <1>6, <1>7, UpTo
  <2> QED
    BY <1>1, <2>1
<1>9. Placed(n) /\ off[n] = Len(f[n])
  BY <1>1, <1>5, <1>8 DEF T
<1>10. Len(FlattenSeq(ss)) = off[n] /\ FlattenSeq(ss) = f[n]
  BY <1>2, <1>9
<1>11. \A k \in 1..n : \A j \in 1..Len(ss[k]) :
         off[k - 1] + j \in 1..Len(FlattenSeq(ss)) /\ FlattenSeq(ss)[off[k - 1] + j] = ss[k][j]
  BY <1>9, <1>10
<1>12. \A k \in 1..n : off[k] = off[k - 1] + Len(ss[k])
  BY <1>4
<1> HIDE DEF Placed
<1>13. /\ off \in [0..Len(ss) -> Nat] /\ off[0] = 0
       /\ \A k \in 1..Len(ss) : off[k] = off[k - 1] + Len(ss[k])
       /\ Len(FlattenSeq(ss)) = off[Len(ss)]
  BY <1>3, <1>10, <1>12 DEF n
<1>14. AreOffsets(off, ss)
  BY <1>11, <1>13 DEF n, AreOffsets
<1> QED
  BY <1>14
=============================================================================
