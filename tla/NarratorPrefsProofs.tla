------------------------- MODULE NarratorPrefsProofs -------------------------
(***************************************************************************)
(* Theorems about NarratorPrefs, for files, lines, values and volumes of   *)
(* any kind and number.                                                    *)
(*                                                                         *)
(* The first part gives the loops of pref_get and of the numbers their     *)
(* types; that is enough for the level.  The second part follows pref_get  *)
(* from line to line through a buffer that holds the whole file, finds     *)
(* what Setting reads in the file, and shows that a number a long holds is *)
(* read as it is written.  The last part is the reader of the clients.     *)
(***************************************************************************)
EXTENDS NarratorPrefs, FiniteSetTheorems, RecursionFacts

\* STRING has all of these, but the provers know nothing of its elements.
Symbol  == STRING \cup {NewLine, Blank, "voice", "_male", "_female", "port", "gain"}
Symbols == Seq(Symbol)

-----------------------------------------------------------------------------
(* The types of what is read.                                              *)

\* The first place from a to b that is in P, or the place behind b.
First(a, b, P) == Min({i \in a..b : i \in P} \cup {b + 1})

LEMMA FirstOf ==
    ASSUME NEW a \in Int, NEW b \in Int, a <= b + 1, NEW P
    PROVE  /\ First(a, b, P) \in a..b + 1 /\ (First(a, b, P) <= b => First(a, b, P) \in P)
           /\ \A i \in a..First(a, b, P) - 1 : i \notin P
<1> DEFINE M == {i \in a..b : i \in P} \cup {b + 1}
           m == Min(M)
<1>1. M \subseteq a..b + 1 /\ M # {}
  OBVIOUS
<1>2. m \in M /\ \A k \in M : m <= k
  <2> HIDE DEF M
  <2>1. b + 1 \in Int
    OBVIOUS
  <2> QED
    BY <1>1, <2>1, MinIs
<1> HIDE DEF m
<1>3. m \in a..b + 1 /\ (m <= b => m \in P)
  BY <1>2
<1>4. \A i \in a..m - 1 : i \notin P
  <2>1. ASSUME NEW i \in a..m - 1, i \in P PROVE FALSE
    <3>1. i \in a..b /\ ~(m <= i)
      BY <1>3
    <3>2. i \in M
      BY <2>1, <3>1
    <3> QED
      BY <1>2, <3>1, <3>2
  <2> QED
    BY <2>1
<1> QED
  BY <1>3, <1>4 DEF m, First

\* A part of a sequence of symbols.
LEMMA PartType ==
    ASSUME NEW s \in Symbols, NEW a \in Int, NEW b \in Int, a >= 1, b <= Len(s)
    PROVE  /\ SubSeq(s, a, b) \in Symbols
           /\ Len(SubSeq(s, a, b)) = IF a <= b THEN b - a + 1 ELSE 0
           /\ \A i \in 1..b - a + 1 : SubSeq(s, a, b)[i] = s[a + i - 1]
<1>1. \A i \in a..b : s[i] \in Symbol
  BY DEF Symbols
<1> QED
  BY <1>1, SubSeqProperties DEF Symbols

\* The lines as they stand in the file.
FileLines(f) == [i \in 1..Len(f) |-> Append(f[i], NewLine)]

LEMMA FileLinesType ==
    ASSUME NEW f \in Seq(Symbols)
    PROVE  /\ FileLines(f) \in Seq(Symbols) /\ Len(FileLines(f)) = Len(f)
           /\ \A i \in 1..Len(f) :
                /\ Len(FileLines(f)[i]) = Len(f[i]) + 1
                /\ FileLines(f)[i][Len(f[i]) + 1] = NewLine
                /\ \A j \in 1..Len(f[i]) : FileLines(f)[i][j] = f[i][j]
<1>1. Len(f) \in Nat /\ NewLine \in Symbol
  <2>1. Len(f) \in Nat
    OBVIOUS
  <2>2. NewLine \in Symbol
    BY DEF Symbol
  <2> QED
    BY <2>1, <2>2
<1>2. ASSUME NEW i \in 1..Len(f)
      PROVE  /\ Append(f[i], NewLine) \in Symbols /\ FileLines(f)[i] = Append(f[i], NewLine)
             /\ Len(Append(f[i], NewLine)) = Len(f[i]) + 1
             /\ Append(f[i], NewLine)[Len(f[i]) + 1] = NewLine
             /\ \A j \in 1..Len(f[i]) : Append(f[i], NewLine)[j] = f[i][j]
  <2>1. f[i] \in Seq(Symbol)
    BY DEF Symbols
  <2>2. FileLines(f)[i] = Append(f[i], NewLine)
    BY DEF FileLines
  <2>3. /\ Append(f[i], NewLine) \in Seq(Symbol)
        /\ Len(Append(f[i], NewLine)) = Len(f[i]) + 1
        /\ Append(f[i], NewLine)[Len(f[i]) + 1] = NewLine
        /\ \A j \in 1..Len(f[i]) : Append(f[i], NewLine)[j] = f[i][j]
    BY <1>1, <2>1, AppendProperties
  <2> QED
    BY <2>2, <2>3 DEF Symbols
<1>3. FileLines(f) \in Seq(Symbols) /\ Len(FileLines(f)) = Len(f)
  <2>1. \A i \in 1..Len(f) : Append(f[i], NewLine) \in Symbols
    BY <1>2
  <2> QED
    BY <1>1, <2>1, IsASeq DEF FileLines
<1> QED
  BY <1>2, <1>3

LEMMA BufferType ==
    ASSUME NEW f \in Seq(Symbols)
    PROVE  Buffer(f) \in Symbols
<1> DEFINE all == FlattenSeq(FileLines(f))
<1>1. all \in Symbols
  BY FileLinesType, FlattenType DEF Symbols
<1>2. Buffer(f) = SubSeq(all, 1, Min({MaxRead, Len(all)}))
  BY DEF Buffer, FileLines
<1> HIDE DEF all
<1>3. Len(all) \in Nat
  BY <1>1 DEF Symbols
<1>4. Min({MaxRead, Len(all)}) \in Int /\ Min({MaxRead, Len(all)}) <= Len(all)
  BY <1>3, PrefsAssumption, MinOfTwo
<1> QED
  BY <1>1, <1>2, <1>4, PartType

LEMMA KeysType ==
    ASSUME NEW key \in Keys
    PROVE  /\ key \in Symbols /\ Len(key) > 0
           /\ \A j \in 1..Len(key) : key[j] \notin {Blank, NewLine}
<1>1. {"voice", "_male", "_female", "port", "gain"} \subseteq Symbol \ {Blank, NewLine}
  BY DEF Symbol, Blank, NewLine
<1>2. \A x \in Symbol \ {Blank, NewLine} :
        <<x>> \in Symbols /\ Len(<<x>>) > 0 /\ \A j \in 1..Len(<<x>>) : <<x>>[j] \notin {Blank, NewLine}
  BY DEF Symbols
<1>3. \A x, y \in Symbol \ {Blank, NewLine} :
        /\ <<x, y>> \in Symbols /\ Len(<<x, y>>) > 0
        /\ \A j \in 1..Len(<<x, y>>) : <<x, y>>[j] \notin {Blank, NewLine}
  BY DEF Symbols
<1>4. \/ \E x \in Symbol \ {Blank, NewLine} : key = <<x>>
      \/ \E x, y \in Symbol \ {Blank, NewLine} : key = <<x, y>>
  BY <1>1 DEF Keys, voice, voice_male, voice_female, port, gain
<1> HIDE DEF Symbol
<1> QED
  BY <1>2, <1>3, <1>4

\* Where a key matches.
LEMMA MatchesIs ==
    ASSUME NEW buf \in Symbols, NEW p \in 1..Len(buf), NEW key \in Symbols
    PROVE  Matches(buf, p, key) <=>
             /\ p + Len(key) <= Len(buf)
             /\ \A j \in 1..Len(key) : buf[p + j - 1] = key[j]
             /\ buf[p + Len(key)] = Blank
<1> DEFINE s == Append(key, Blank)
           m == Len(key)
           n == Len(buf)
           t == SubSeq(buf, p, n)
<1>1. Blank \in Symbol /\ n \in Nat /\ m \in Nat /\ p \in Int
  <2>1. Blank \in Symbol
    BY DEF Symbol
  <2> QED
    BY <2>1 DEF Symbols
<1>2. /\ s \in Symbols /\ Len(s) = m + 1 /\ s[m + 1] = Blank
      /\ \A j \in 1..m : s[j] = key[j]
  BY <1>1, AppendProperties DEF Symbols
<1>3. /\ t \in Symbols /\ Len(t) = n - p + 1
      /\ \A i \in 1..n - p + 1 : t[i] = buf[p + i - 1]
  <2>1. p >= 1 /\ n <= Len(buf) /\ p <= n
    OBVIOUS
  <2> HIDE DEF n
  <2> QED
    BY <1>1, <2>1, PartType
<1>4. Matches(buf, p, key) <=> Len(s) <= Len(t) /\ SubSeq(s, 1, Len(s)) = SubSeq(t, 1, Len(s))
  BY DEF Matches, IsPrefix
<1>5. SubSeq(s, 1, Len(s)) = s
  BY <1>2, SubSeqFull DEF Symbols
<1> HIDE DEF s, t, m, n
<1>6. Len(s) <= Len(t) <=> p + m <= n
  BY <1>1, <1>2, <1>3
<1>7. ASSUME p + m <= n
      PROVE  s = SubSeq(t, 1, Len(s)) <=> /\ \A j \in 1..m : buf[p + j - 1] = key[j]
                                          /\ buf[p + m] = Blank
  <2> DEFINE u == SubSeq(t, 1, m + 1)
  <2>1. /\ u \in Symbols /\ Len(u) = m + 1 /\ \A i \in 1..m + 1 : u[i] = t[1 + i - 1]
    <3>1. 1 \in Int /\ m + 1 \in Int /\ 1 >= 1 /\ m + 1 <= Len(t) /\ 1 <= m + 1 /\ (m + 1) - 1 + 1 = m + 1
      BY <1>1, <1>3, <1>7
    <3> QED
      BY <1>3, <3>1, PartType
  <2>2. \A i \in 1..m + 1 : u[i] = buf[p + i - 1]
    <3>1. ASSUME NEW i \in 1..m + 1 PROVE u[i] = buf[p + i - 1]
      <4>1. 1 + i - 1 = i /\ i \in 1..n - p + 1
        BY <1>1, <1>7
      <4> QED
        BY <1>3, <2>1, <4>1
    <3> QED
      BY <3>1
  <2> HIDE DEF u
  <2>3. s = u <=> \A i \in 1..m + 1 : s[i] = u[i]
    <3>1. (\A i \in 1..m + 1 : s[i] = u[i]) => s = u
      BY <1>2, <2>1, SeqEqual DEF Symbols
    <3> QED
      BY <3>1
  <2>4. m + 1 \in 1..m + 1 /\ p + (m + 1) - 1 = p + m /\ \A j \in 1..m : j \in 1..m + 1
    BY <1>1
  <2>5. (\A i \in 1..m + 1 : s[i] = u[i]) <=> /\ \A j \in 1..m : buf[p + j - 1] = key[j]
                                              /\ buf[p + m] = Blank
    <3>1. ASSUME \A i \in 1..m + 1 : s[i] = u[i]
          PROVE  /\ \A j \in 1..m : buf[p + j - 1] = key[j]
                 /\ buf[p + m] = Blank
      BY <1>2, <2>2, <2>4, <3>1
    <3>2. ASSUME \A j \in 1..m : buf[p + j - 1] = key[j], buf[p + m] = Blank
          PROVE  \A i \in 1..m + 1 : s[i] = u[i]
      <4>1. ASSUME NEW i \in 1..m + 1 PROVE s[i] = u[i]
        <5>1. CASE i = m + 1
          BY <1>2, <2>2, <2>4, <3>2, <5>1
        <5>2. CASE i # m + 1
          <6>1. i \in 1..m
            BY <1>1, <5>2
          <6> QED
            BY <1>2, <2>2, <3>2, <6>1
        <5> QED
          BY <5>1, <5>2
      <4> QED
        BY <4>1
    <3> QED
      BY <3>1, <3>2
  <2> QED
    BY <1>2, <2>3, <2>5 DEF u
<1> QED
  BY <1>4, <1>5, <1>6, <1>7 DEF m, n

\* A value lies inside the buffer.
LEMMA ValueType ==
    ASSUME NEW buf \in Symbols, NEW p \in 1..Len(buf) + 1
    PROVE  ValueAt(buf, p) \in Symbols
<1> DEFINE n == Len(buf)
           start == Min({i \in p..n : buf[i] # Blank} \cup {n + 1})
           end == Min({i \in start..n : buf[i] \in {Blank, NewLine}} \cup {n + 1})
<1>1. n \in Nat /\ p \in Int /\ ValueRoom \in Nat
  BY PrefsAssumption DEF Symbols
<1>2. start \in p..n + 1
  <2> DEFINE P == {i \in p..n : buf[i] # Blank}
  <2>1. P = {i \in p..n : i \in P}
    OBVIOUS
  <2> HIDE DEF P, n
  <2>2. First(p, n, P) \in p..n + 1
    <3>1. p <= n + 1 /\ n \in Int
      BY <1>1 DEF n
    <3> QED
      BY <1>1, <3>1, FirstOf
  <2> QED
    BY <2>1, <2>2 DEF P, First
<1> HIDE DEF start
<1>3. end \in start..n + 1
  <2> DEFINE P == {i \in start..n : buf[i] \in {Blank, NewLine}}
  <2>1. P = {i \in start..n : i \in P}
    OBVIOUS
  <2> HIDE DEF P, n
  <2>2. First(start, n, P) \in start..n + 1
    <3>1. start \in Int /\ start <= n + 1 /\ n \in Int
      BY <1>1, <1>2
    <3> QED
      BY <3>1, FirstOf
  <2> QED
    BY <2>1, <2>2 DEF P, First
<1> HIDE DEF end
<1>4. /\ start \in Int /\ start >= 1 /\ Min({end, start + ValueRoom}) - 1 \in Int
      /\ Min({end, start + ValueRoom}) - 1 <= n
  <2>1. start \in Int /\ end \in Int /\ start + ValueRoom \in Int /\ start >= 1 /\ end <= n + 1
    BY <1>1, <1>2, <1>3
  <2>2. Min({end, start + ValueRoom}) = IF end <= start + ValueRoom THEN end ELSE start + ValueRoom
    BY <2>1, MinOfTwo
  <2> HIDE DEF n
  <2> QED
    BY <1>1, <2>1, <2>2
<1>5. ValueAt(buf, p) = SubSeq(buf, start, Min({end, start + ValueRoom}) - 1)
  BY DEF ValueAt, start, end
<1> QED
  BY <1>4, <1>5, PartType

\* From each place of the buffer to where pref_get looks next, the places it
\* stops at, and what it has found there.
NextLine(buf, p) == Min({i \in p..Len(buf) : buf[i] = NewLine} \cup {Len(buf)}) + 1
StopsAt(buf, key) == {p \in 1..Len(buf) + 1 : p > Len(buf) \/ Matches(buf, p, key)}
Found(buf, key, default) ==
    [p \in 1..Len(buf) + 1 |-> IF p > Len(buf) THEN default ELSE ValueAt(buf, p + Len(key))]

LEMMA NextLineIs ==
    ASSUME NEW buf \in Symbols, NEW p \in 1..Len(buf)
    PROVE  /\ NextLine(buf, p) \in p + 1..Len(buf) + 1
           /\ \A e \in p..Len(buf) :
                buf[e] = NewLine /\ (\A i \in p..e - 1 : buf[i] # NewLine) => NextLine(buf, p) = e + 1
<1> DEFINE n == Len(buf)
           M == {i \in p..n : buf[i] = NewLine} \cup {n}
           m == Min(M)
<1>1. n \in Nat /\ p \in Int /\ n \in Int
  BY DEF Symbols
<1>2. M \subseteq p..n /\ M # {}
  BY <1>1
<1>3. m \in M /\ \A k \in M : m <= k
  <2> HIDE DEF M, n
  <2> QED
    BY <1>1, <1>2, MinIs
<1>4. NextLine(buf, p) = m + 1
  BY DEF NextLine
<1> HIDE DEF m
<1>5. m \in p..n
  BY <1>2, <1>3
<1>6. ASSUME NEW e \in p..n, buf[e] = NewLine, \A i \in p..e - 1 : buf[i] # NewLine
      PROVE  m = e
  <2>1. e \in M
    BY <1>6
  <2>2. m <= e /\ e \in Int /\ m \in Int
    BY <1>3, <1>5, <2>1
  <2>3. buf[m] = NewLine \/ m = n
    BY <1>3
  <2>4. ~(m < e)
    <3> SUFFICES ASSUME m < e PROVE FALSE
      OBVIOUS
    <3>1. m \in p..e - 1 /\ m # n
      <4> HIDE DEF n
      <4> QED
        BY <1>1, <1>5
    <3> QED
      BY <1>6, <2>3, <3>1
  <2> QED
    BY <2>2, <2>4
<1>7. m + 1 \in p + 1..n + 1
  <2> HIDE DEF n
  <2> QED
    BY <1>1, <1>5
<1> HIDE DEF n, M
<1> QED
  BY <1>4, <1>6, <1>7 DEF n

\* pref_get is such a search, from the first line on.
LEMMA PrefGetSearch ==
    ASSUME NEW buf \in Symbols, NEW key \in Keys, NEW default
    PROVE  \E from : /\ from \in [1..Len(buf) + 1 -> Symbols \cup {default}]
                     /\ from[Len(buf) + 1] = default
                     /\ \A p \in 1..Len(buf) :
                          from[p] = IF Matches(buf, p, key) THEN ValueAt(buf, p + Len(key))
                                    ELSE from[NextLine(buf, p)]
                     /\ pref_get(buf, key, default) = from[1]
<1> DEFINE n == Len(buf)
           S == Symbols \cup {default}
           stop == StopsAt(buf, key)
           val == Found(buf, key, default)
           next == [p \in 1..n + 1 |-> NextLine(buf, p)]
           Body(h, p) == IF p > n THEN default
                         ELSE IF Matches(buf, p, key) THEN ValueAt(buf, p + Len(key))
                         ELSE h[Min({i \in p..n : buf[i] = NewLine} \cup {n}) + 1]
           c == CHOOSE h : h = [p \in 1..n + 1 |-> Body(h, p)]
<1>1. n \in Nat
  BY DEF Symbols
<1>2. key \in Symbols /\ Len(key) \in Nat
  BY KeysType DEF Symbols
<1>3. GoesOn(n, S, stop, val, next)
  <2>1. ASSUME NEW p \in 1..n + 1, p \in stop PROVE val[p] \in S
    <3>1. CASE p > n
      BY <3>1 DEF Found
    <3>2. CASE ~(p > n)
      <4>1. p \in 1..n /\ Matches(buf, p, key)
        BY <1>1, <2>1, <3>2 DEF StopsAt
      <4>2. p + Len(key) \in 1..n + 1
        <5>1. p + Len(key) <= n
          BY <1>2, <4>1, MatchesIs
        <5> HIDE DEF n
        <5> QED
          BY <1>1, <1>2, <5>1
      <4>3. ValueAt(buf, p + Len(key)) \in Symbols
        BY <4>2, ValueType
      <4> QED
        BY <3>2, <4>3 DEF Found
    <3> QED
      BY <3>1, <3>2
  <2>2. ASSUME NEW p \in 1..n + 1, p \notin stop PROVE next[p] \in p + 1..n + 1
    <3>1. p \in 1..n
      BY <1>1, <2>2 DEF StopsAt
    <3> QED
      BY <3>1, NextLineIs
  <2> HIDE DEF stop, val, next, n
  <2> QED
    BY <2>1, <2>2 DEF GoesOn
<1> HIDE DEF S
<1>4. PICK f : IsSearch(f, n, S, stop, val, next)
  <2> HIDE DEF stop, val, next, n
  <2> QED
    BY <1>1, <1>3, Searches
<1>5. ASSUME NEW h, NEW p \in 1..n + 1
      PROVE  Body(h, p) = IF p \in stop THEN val[p] ELSE h[next[p]]
  BY DEF StopsAt, Found, NextLine
<1> HIDE DEF stop, val, next, n
<1>6. f = [p \in 1..n + 1 |-> Body(f, p)]
  <2>1. f = [p \in 1..n + 1 |-> f[p]]
    BY <1>4 DEF IsSearch
  <2>2. \A p \in 1..n + 1 : f[p] = Body(f, p)
    BY <1>4, <1>5 DEF IsSearch, Finds
  <2> HIDE DEF Body
  <2> QED
    BY <2>1, <2>2
<1>7. c = [p \in 1..n + 1 |-> Body(c, p)]
  BY <1>6
<1> HIDE DEF c
<1>8. Finds(c, n, stop, val, next)
  <2>1. \A p \in 1..n + 1 : c[p] = Body(c, p)
    BY <1>7
  <2> HIDE DEF Body
  <2> QED
    BY <1>5, <2>1 DEF Finds
<1>9. ResultsIn(c, n, S)
  <2> HIDE DEF Body
  <2> QED
    BY <1>1, <1>3, <1>8, SearchType
<1>10. c \in [1..n + 1 -> S]
  <2>1. c = [p \in 1..n + 1 |-> c[p]]
    <3> HIDE DEF Body
    <3> QED
      BY <1>7
  <2> QED
    BY <1>9, <2>1 DEF ResultsIn
<1>11. c[n + 1] = default
  BY <1>1, <1>7
<1>12. \A p \in 1..n : c[p] = IF Matches(buf, p, key) THEN ValueAt(buf, p + Len(key))
                               ELSE c[NextLine(buf, p)]
  <2>1. ASSUME NEW p \in 1..n
        PROVE  c[p] = IF Matches(buf, p, key) THEN ValueAt(buf, p + Len(key))
                      ELSE c[NextLine(buf, p)]
    <3>1. p \in 1..n + 1 /\ ~(p > n)
      BY <1>1
    <3>2. c[p] = Body(c, p)
      BY <1>7, <3>1
    <3> QED
      BY <3>1, <3>2 DEF NextLine, n
  <2> QED
    BY <2>1
<1>13. pref_get(buf, key, default) = c[1]
  BY Zenon DEF pref_get, c, n
<1> QED
  BY <1>10, <1>11, <1>12, <1>13 DEF n, S

-----------------------------------------------------------------------------
(* Numbers.                                                                *)

LEMMA DigitRange ==
    \A d \in DOMAIN Digit : Digit[d] \in 0..9
<1>1. DOMAIN Digit = {"0", "1", "9"}
  BY DEF Digit
<1>2. "0" # "1" /\ "0" # "9" /\ "1" # "9"
  OBVIOUS
<1>3. Digit["0"] = 0 /\ Digit["1"] = 1 /\ Digit["9"] = 9
  BY <1>2 DEF Digit
<1> QED
  BY <1>1, <1>3

\* A long stays in its width.
LEMMA WrapType ==
    ASSUME NEW n \in Int
    PROVE  Wrap(n) \in -LongHalf..LongHalf - 1
<1>1. LongHalf \in Int /\ LongHalf > 0
  BY PrefsAssumption
<1>2. (n + LongHalf) % (2 * LongHalf) \in 0..2 * LongHalf - 1
  <2>1. \A a, m \in Int : m > 0 => a % m \in 0..m - 1
    OBVIOUS
  <2>2. n + LongHalf \in Int /\ 2 * LongHalf \in Int /\ 2 * LongHalf > 0
    BY <1>1
  <2> HIDE <1>1
  <2> QED
    BY <2>1, <2>2
<1> DEFINE r == (n + LongHalf) % (2 * LongHalf)
<1>3. Wrap(n) = r - LongHalf
  BY DEF Wrap
<1> HIDE DEF r
<1> QED
  BY <1>1, <1>2, <1>3 DEF r

\* The digits a value begins with.
LEMMA DigitsIs ==
    ASSUME NEW value \in Symbols
    PROVE  /\ Digits(value) \in Symbols /\ Len(Digits(value)) \in 0..Len(value)
           /\ \A i \in 1..Len(Digits(value)) :
                Digits(value)[i] = value[i] /\ value[i] \in DOMAIN Digit
           /\ Len(Digits(value)) < Len(value) =>
                value[Len(Digits(value)) + 1] \notin DOMAIN Digit
<1> DEFINE n == Len(value)
           P == {i \in 1..n : value[i] \notin DOMAIN Digit}
           m == First(1, n, P)
<1>1. n \in Nat
  BY DEF Symbols
<1>2. Digits(value) = SubSeq(value, 1, m - 1)
  <2>1. {i \in 1..n : i \in P} = P
    OBVIOUS
  <2> QED
    BY <2>1 DEF Digits, First
<1>3. /\ m \in 1..n + 1 /\ (m <= n => m \in P)
      /\ \A i \in 1..m - 1 : i \notin P
  <2>1. 1 \in Int /\ n \in Int /\ 1 <= n + 1
    BY <1>1
  <2> HIDE DEF n, P
  <2> QED
    BY <2>1, FirstOf
<1> HIDE DEF m
<1>4. /\ SubSeq(value, 1, m - 1) \in Symbols /\ Len(SubSeq(value, 1, m - 1)) = m - 1
      /\ \A i \in 1..m - 1 : SubSeq(value, 1, m - 1)[i] = value[i]
  <2>1. 1 \in Int /\ m - 1 \in Int /\ 1 >= 1 /\ m - 1 <= n /\ (m - 1) - 1 + 1 = m - 1 /\ m - 1 \in Nat
    BY <1>1, <1>3
  <2>2. SubSeq(value, 1, m - 1) \in Symbols
        /\ Len(SubSeq(value, 1, m - 1)) = (IF 1 <= m - 1 THEN (m - 1) - 1 + 1 ELSE 0)
        /\ \A i \in 1..(m - 1) - 1 + 1 : SubSeq(value, 1, m - 1)[i] = value[1 + i - 1]
    BY <2>1, PartType
  <2>3. \A i \in 1..m - 1 : 1 + i - 1 = i
    BY <2>1
  <2>4. (IF 1 <= m - 1 THEN (m - 1) - 1 + 1 ELSE 0) = m - 1
    BY <2>1
  <2> QED
    BY <2>1, <2>2, <2>3, <2>4
<1>5. \A i \in 1..m - 1 : value[i] \in DOMAIN Digit
  <2>1. \A i \in 1..m - 1 : i \in 1..n
    BY <1>1, <1>3
  <2> QED
    BY <1>3, <2>1
<1>6. m - 1 < n => value[m] \notin DOMAIN Digit /\ (m - 1) + 1 = m
  <2>1. m - 1 < n => m <= n /\ (m - 1) + 1 = m
    BY <1>1, <1>3
  <2> QED
    BY <1>3, <2>1
<1>7. m - 1 \in 0..n
  BY <1>1, <1>3
<1> HIDE DEF n, P
<1> QED
  BY <1>2, <1>4, <1>5, <1>6, <1>7 DEF n

\* The rounds of a loop over digits, in which each sum goes through w.
Sums(f, d, n, w) ==
    /\ f \in [0..n -> Int] /\ f[0] = 0
    /\ \A k \in 1..n : f[k] = w[10 * f[k - 1] + d[k]]

LEMMA SumsExist ==
    ASSUME NEW n \in Nat, NEW d \in [1..n -> 0..9], NEW w \in [Int -> Int]
    PROVE  \E f : Sums(f, d, n, w)
<1> DEFINE step == [k \in 1..n |-> [a \in Int |-> w[10 * a + d[k]]]]
<1>1. StaysIn(step, n, Int)
  <2>1. ASSUME NEW k \in 1..n, NEW a \in Int PROVE step[k][a] \in Int
    <3> DEFINE x == d[k]
    <3>1. x \in 0..9 /\ step[k][a] = w[10 * a + x]
      OBVIOUS
    <3> HIDE DEF x, step
    <3>2. 10 * a + x \in Int
      BY <3>1
    <3> QED
      BY <3>1, <3>2
  <2> HIDE DEF step
  <2> QED
    BY <2>1 DEF StaysIn
<1>2. \A k \in 1..n, a \in Int : step[k][a] = w[10 * a + d[k]]
  OBVIOUS
<1> HIDE DEF step
<1>3. PICK f : IsHistory(f, step, n, Int, 0)
  <2>1. 0 \in Int
    OBVIOUS
  <2> QED
    BY <1>1, <2>1, Rounds
<1>4. \A k \in 1..n : f[k - 1] \in Int
  <2>1. \A k \in 1..n : k - 1 \in 0..n
    OBVIOUS
  <2> QED
    BY <1>3, <2>1 DEF IsHistory
<1>5. \A k \in 1..n : f[k] = w[10 * f[k - 1] + d[k]]
  <2>1. \A k \in 1..n : f[k] = step[k][f[k - 1]]
    BY <1>3 DEF IsHistory
  <2> QED
    BY <1>2, <1>4, <2>1
<1> QED
  BY <1>3, <1>5 DEF IsHistory, Sums

\* The digits as numbers, and the two ways to sum them.
Figures(digits) == [k \in 1..Len(digits) |-> Digit[digits[k]]]
InLong == [s \in Int |-> Wrap(s)]
AsIs   == [s \in Int |-> s]

LEMMA FiguresType ==
    ASSUME NEW digits \in Symbols, \A i \in 1..Len(digits) : digits[i] \in DOMAIN Digit
    PROVE  Figures(digits) \in [1..Len(digits) -> 0..9]
BY DigitRange DEF Figures

\* Number sums the digits in a long.
LEMMA NumberIs ==
    ASSUME NEW value \in Symbols
    PROVE  \E f : /\ Sums(f, Figures(Digits(value)), Len(Digits(value)), InLong)
                  /\ Number(value) = f[Len(Digits(value))]
<1> DEFINE digits == Digits(value)
           n == Len(digits)
           Body(h, k) == IF k = 0 THEN 0 ELSE Wrap(10 * h[k - 1] + Digit[digits[k]])
           c == CHOOSE h : h = [k \in 0..n |-> Body(h, k)]
<1>1. n \in Nat /\ Figures(digits) \in [1..n -> 0..9]
  BY DigitsIs, FiguresType DEF Symbols
<1>2. InLong \in [Int -> Int]
  <2>1. \A s \in Int : Wrap(s) \in Int
    <3>1. \A s \in Int : Wrap(s) \in -LongHalf..LongHalf - 1
      BY WrapType
    <3> QED
      BY <3>1, PrefsAssumption
  <2> QED
    BY <2>1 DEF InLong
<1>3. \A k \in 1..n : Figures(digits)[k] = Digit[digits[k]] /\ Digit[digits[k]] \in Int
  <2>1. \A k \in 1..n : Figures(digits)[k] = Digit[digits[k]]
    BY DEF Figures
  <2>2. \A k \in 1..n : Figures(digits)[k] \in 0..9
    BY <1>1
  <2> QED
    BY <2>1, <2>2
<1> HIDE DEF digits, n
<1>4. ASSUME NEW h, NEW k \in 1..n, h[k - 1] \in Int
      PROVE  InLong[10 * h[k - 1] + Figures(digits)[k]] = Body(h, k)
  <2>1. 10 * h[k - 1] + Digit[digits[k]] \in Int /\ k # 0
    BY <1>3, <1>4
  <2> QED
    BY <1>3, <2>1 DEF InLong
<1>5. PICK f : Sums(f, Figures(digits), n, InLong)
  BY <1>1, <1>2, SumsExist
<1>6. f = [k \in 0..n |-> Body(f, k)]
  <2>1. f = [k \in 0..n |-> f[k]]
    BY <1>5 DEF Sums
  <2>2. \A k \in 0..n : f[k] = Body(f, k)
    <3>1. ASSUME NEW k \in 1..n PROVE f[k] = Body(f, k)
      <4>1. k - 1 \in 0..n
        BY <1>1
      <4>2. f[k - 1] \in Int
        BY <1>5, <4>1 DEF Sums
      <4> QED
        BY <1>4, <1>5, <4>2 DEF Sums
    <3>2. f[0] = Body(f, 0)
      BY <1>5 DEF Sums
    <3>3. \A k \in 0..n : k = 0 \/ k \in 1..n
      BY <1>1
    <3> HIDE DEF Body
    <3> QED
      BY <3>1, <3>2, <3>3
  <2> HIDE DEF Body
  <2> QED
    BY <2>1, <2>2
<1>7. c = [k \in 0..n |-> Body(c, k)]
  BY <1>6
<1> HIDE DEF c
<1>8. \A k \in 0..n : c[k] = Body(c, k)
  BY <1>7
<1>9. \A k \in 0..n : c[k] \in Int
  <2> DEFINE T == {k \in 0..n : c[k] \in Int}
  <2>1. 0 \in T
    <3>1. 0 \in 0..n
      BY <1>1
    <3>2. c[0] = Body(c, 0)
      BY <1>8, <3>1
    <3> QED
      BY <3>1, <3>2
  <2>2. ASSUME NEW k \in 1..n, k - 1 \in T PROVE k \in T
    <3>1. c[k - 1] \in Int /\ k \in 0..n
      BY <1>1, <2>2
    <3>2. InLong[10 * c[k - 1] + Figures(digits)[k]] = Body(c, k)
      BY <1>4, <3>1
    <3>3. 10 * c[k - 1] + Figures(digits)[k] \in Int
      BY <1>3, <3>1
    <3>4. Body(c, k) \in Int
      BY <1>2, <3>2, <3>3
    <3> HIDE DEF Body
    <3> QED
      BY <1>8, <3>1, <3>4
  <2> HIDE DEF T
  <2>3. \A k \in 0..n : k \in T
    BY <1>1, <2>1, <2>2, UpTo
  <2> QED
    BY <2>3 DEF T
<1>10. Sums(c, Figures(digits), n, InLong)
  <2>1. c \in [0..n -> Int]
    <3>1. c = [k \in 0..n |-> c[k]]
      <4> HIDE DEF Body
      <4> QED
        BY <1>7
    <3> QED
      BY <1>9, <3>1
  <2>2. c[0] = 0
    <3>1. 0 \in 0..n
      BY <1>1
    <3> QED
      BY <1>8, <3>1
  <2>3. ASSUME NEW k \in 1..n PROVE c[k] = InLong[10 * c[k - 1] + Figures(digits)[k]]
    <3>1. k - 1 \in 0..n /\ k \in 0..n
      BY <1>1
    <3>2. InLong[10 * c[k - 1] + Figures(digits)[k]] = Body(c, k)
      BY <1>4, <1>9, <3>1
    <3> HIDE DEF Body
    <3> QED
      BY <1>8, <3>1, <3>2
  <2> QED
    BY <2>1, <2>2, <2>3 DEF Sums
<1>11. Number(value) = c[n]
  BY Zenon DEF Number, c, n, digits
<1> QED
  BY <1>10, <1>11 DEF n, digits

LEMMA NumberType ==
    ASSUME NEW value \in Symbols
    PROVE  Number(value) \in Int
<1>1. Len(Digits(value)) \in Nat
  BY DigitsIs DEF Symbols
<1> QED
  BY <1>1, NumberIs DEF Sums

-----------------------------------------------------------------------------
(* The level.                                                              *)

LEMMA VolumeSafe ==
    ASSUME NEW vol \in Nat, prefs.gain \in 1..100
    PROVE  Volume(vol) \in 0..Unity /\ (vol > 0 <=> Volume(vol) > 0)
<1> DEFINE m == Min({vol, MAXVOL})
           g == prefs.gain
           x == m * (Unity \div MAXVOL)
<1>1. m \in 0..64 /\ (vol > 0 <=> m > 0)
  <2>1. m = IF vol <= 64 THEN vol ELSE 64
    BY MinOfTwo DEF MAXVOL
  <2> HIDE DEF m
  <2>2. m \in 0..64
    BY <2>1
  <2>3. vol > 0 <=> m > 0
    BY <2>1
  <2> QED
    BY <2>2, <2>3
<1> HIDE DEF m
<1>2. x = m * 1024
  BY SMT DEF Unity, MAXVOL
<1>3. Volume(vol) = (x * g) \div 100
  BY DEF Volume, m
<1> HIDE DEF x, g
<1>4. g \in 1..100
  BY DEF g
<1>5. x \in 0..Unity /\ (m > 0 => x >= 1024) /\ (m = 0 => x = 0)
  <2>1. m \in Int /\ 0 <= m /\ m <= 64
    BY <1>1
  <2>2. x \in Int /\ 0 <= x /\ x <= 65536
    BY <1>2, <2>1
  <2>3. x \in 0..Unity
    <3>1. x \in Int /\ 0 <= x
      BY <2>2
    <3>2. Unity \in Int /\ x <= Unity
      BY <2>2, SMT DEF Unity
    <3> QED
      BY <3>1, <3>2
  <2>4. m > 0 => x >= 1024
    BY <1>2, <2>1
  <2>5. m = 0 => x = 0
    BY <1>2
  <2> QED
    BY <2>3, <2>4, <2>5
<1>6. /\ x * g \in Int /\ x * g >= x /\ x * g <= x * 100
      /\ (x = 0 => x * g = 0)
  <2>1. x \in Int /\ x >= 0 /\ g \in Int /\ 1 <= g /\ g <= 100
    BY <1>4, <1>5
  <2>2. x * g \in Int
    BY <2>1
  <2>3. x * g >= x
    BY <2>1, SMT
  <2>4. x * g <= x * 100
    BY <2>1, SMT
  <2>5. x = 0 => x * g = 0
    BY <2>1
  <2> QED
    BY <2>2, <2>3, <2>4, <2>5
<1> DEFINE y == x * g
<1>7. y \in Int /\ y >= x /\ y <= x * 100 /\ (x = 0 => y = 0) /\ x \in Int /\ x >= 0
  BY <1>5, <1>6
<1> HIDE DEF y
<1>8. y \div 100 \in 0..x
  BY <1>7, SMT
<1>9. x >= 1024 => y \div 100 > 0
  BY <1>7, SMT
<1>10. x = 0 => y \div 100 = 0
  BY <1>7, SMT
<1>11. Volume(vol) = y \div 100
  BY <1>3 DEF y
<1>12. Volume(vol) \in 0..Unity
  <2>1. Unity \in Int
    BY SMT DEF Unity
  <2> QED
    BY <1>5, <1>8, <1>11, <2>1
<1>13. CASE m > 0
  BY <1>1, <1>5, <1>9, <1>11, <1>12, <1>13
<1>14. CASE m = 0
  BY <1>1, <1>5, <1>10, <1>11, <1>12, <1>14
<1> QED
  BY <1>1, <1>13, <1>14

LEMMA GainSafe ==
    ASSUME NEW value \in Symbols
    PROVE  GainOf(value) \in 1..100
<1>1. CASE value = <<>>
  BY <1>1 DEF GainOf, Defaults
<1>2. CASE value # <<>>
  <2>1. Number(value) \in Int
    BY NumberType
  <2> DEFINE low == Min({100, Number(value)})
  <2>2. low \in Int /\ low <= 100
    BY <2>1, MinOfTwo
  <2> HIDE DEF low
  <2>3. Max({1, low}) \in 1..100
    <3>1. Max({1, low}) = IF 1 <= low THEN low ELSE 1
      BY <2>2, MaxOfTwo
    <3> QED
      BY <2>2, <3>1
  <2> QED
    BY <1>2, <2>3 DEF GainOf, low
<1> QED
  BY <1>1, <1>2

\* Of pref_get, what it finds is a sequence of symbols.
LEMMA PrefGetType ==
    ASSUME NEW buf \in Symbols, NEW key \in Keys, NEW default \in Symbols
    PROVE  pref_get(buf, key, default) \in Symbols
<1>1. Symbols \cup {default} = Symbols
  OBVIOUS
<1>2. 1 \in 1..Len(buf) + 1
  BY DEF Symbols
<1>3. PICK from : /\ from \in [1..Len(buf) + 1 -> Symbols \cup {default}]
                  /\ pref_get(buf, key, default) = from[1]
  BY PrefGetSearch
<1>4. from[1] \in Symbols \cup {default}
  BY <1>2, <1>3
<1> QED
  BY <1>1, <1>3, <1>4

\* The file is one of the given ones, the snapshot's gain is in its range, and
\* so is the level of every request.
LevelInv ==
    /\ file \in Seq(Symbols)
    /\ prefs.gain \in 1..100
    /\ LevelIsSafe

LEMMA LevelStart == Init => LevelInv
<1> SUFFICES ASSUME Init PROVE LevelInv
  OBVIOUS
<1>1. file \in Seq(Symbols)
  <2>1. \A line \in Lines : line \in Symbols
    <3>1. STRING \subseteq Symbol
      BY DEF Symbol
    <3>2. \A line \in Seq(STRING) : line \in Symbols
      <4> DEFINE S == STRING
                 T == Symbol
      <4>1. S \subseteq T
        BY <3>1
      <4> HIDE DEF S, T
      <4>2. \A line \in Seq(S) : line \in Seq(T)
        BY <4>1
      <4> QED
        BY <4>2 DEF S, T, Symbols
    <3> QED
      BY <3>2, PrefsAssumption
  <2>2. PICK n \in 0..MaxLines : file \in [1..n -> Lines]
    BY DEF Init
  <2>3. n \in Nat
    BY PrefsAssumption
  <2>4. file \in [1..n -> Symbols]
    BY <2>1, <2>2
  <2> QED
    BY <2>3, <2>4
<1>2. prefs.gain \in 1..100
  BY DEF Init, Defaults
<1>3. LevelIsSafe
  BY DEF Init, LevelIsSafe, NoRequest, Unity
<1> QED
  BY <1>1, <1>2, <1>3 DEF LevelInv

LEMMA LevelStep == LevelInv /\ [Next]_vars => LevelInv'
<1> SUFFICES ASSUME LevelInv, [Next]_vars PROVE LevelInv'
  OBVIOUS
<1> USE DEF LevelInv
<1>0. Defaults.gain \in 1..100 /\ NoRequest.volume = 0 /\ NoRequest.asked = 0
  BY DEF Defaults, NoRequest
<1>a. 0 \in 0..Unity
  BY SMT DEF Unity
<1>1. CASE Open
  <2>1. nw_read_prefs(Buffer(file)).gain \in 1..100
    <3>1. Buffer(file) \in Symbols /\ <<>> \in Symbols /\ gain \in Keys
      BY BufferType DEF Symbols, Keys
    <3>2. pref_get(Buffer(file), gain, <<>>) \in Symbols
      BY <3>1, PrefGetType
    <3> QED
      BY <3>2, GainSafe DEF nw_read_prefs
  <2>2. prefs'.gain \in 1..100
    BY <1>0, <1>1, <2>1 DEF Open
  <2> QED
    BY <1>1, <2>2 DEF Open, LevelIsSafe
<1>2. CASE Close
  <2>1. prefs' = Defaults /\ request' = NoRequest /\ file' = file
    BY <1>2 DEF Close
  <2>2. LevelIsSafe'
    BY <1>0, <1>a, <2>1 DEF LevelIsSafe
  <2> QED
    BY <1>0, <2>1, <2>2
<1>3. ASSUME NEW sex \in Sexes, NEW vol \in Volumes, NEW text \in Texts, Write(sex, vol, text)
      PROVE  LevelInv'
  <2>1. file' = file /\ prefs' = prefs
    BY <1>3 DEF Write
  <2>2. \/ request' = NoRequest
        \/ request'.volume = Volume(vol) /\ request'.asked = vol
    BY <1>3 DEF Write
  <2>3. vol \in Nat
    BY PrefsAssumption
  <2>4. Volume(vol) \in 0..Unity /\ (vol > 0 <=> Volume(vol) > 0)
    BY <2>3, VolumeSafe
  <2>5. LevelIsSafe'
    <3>1. CASE request' = NoRequest
      BY <1>0, <1>a, <3>1 DEF LevelIsSafe
    <3>2. CASE request'.volume = Volume(vol) /\ request'.asked = vol
      BY <2>4, <3>2 DEF LevelIsSafe
    <3> QED
      BY <2>2, <3>1, <3>2
  <2> QED
    BY <2>1, <2>5
<1>4. CASE UNCHANGED vars
  BY <1>4 DEF vars, LevelIsSafe
<1> QED
  BY <1>1, <1>2, <1>3, <1>4 DEF Next

\* Whatever the file says and whatever volume a caller asks for, the level
\* nw_do_write gives AHI is within full scale, and silent only if the caller
\* asked for silence.
THEOREM LevelSafe == Spec => []LevelIsSafe
<1>1. LevelInv => LevelIsSafe
  BY DEF LevelInv
<1> QED
  BY LevelStart, LevelStep, <1>1, PTL DEF Spec

-----------------------------------------------------------------------------
(* From line to line through a buffer that holds the whole file.           *)

\* There is only one such place.
LEMMA FirstUnique ==
    ASSUME NEW a \in Int, NEW b \in Int, a <= b + 1, NEW P,
           NEW m \in a..b + 1, m <= b => m \in P, \A i \in a..m - 1 : i \notin P
    PROVE  First(a, b, P) = m
<1> DEFINE q == First(a, b, P)
<1>1. /\ q \in a..b + 1 /\ (q <= b => q \in P)
      /\ \A i \in a..q - 1 : i \notin P
  BY FirstOf
<1> HIDE DEF q
<1>2. ~(q < m)
  <2> SUFFICES ASSUME q < m PROVE FALSE
    OBVIOUS
  <2>1. q \in a..m - 1 /\ q <= b
    BY <1>1
  <2> QED
    BY <1>1, <2>1
<1>3. ~(m < q)
  <2> SUFFICES ASSUME m < q PROVE FALSE
    OBVIOUS
  <2>1. m \in a..q - 1 /\ m <= b
    BY <1>1
  <2> QED
    BY <1>1, <2>1
<1>4. q = m
  BY <1>1, <1>2, <1>3
<1> QED
  BY <1>4 DEF q

\* The lines of a file end where their text does.
LinesClean(f) == \A i \in 1..Len(f) : \A j \in 1..Len(f[i]) : f[i][j] # NewLine

\* The buffer holds all lines of the file, each behind the ones before it.
Holds(buf, f, off) ==
    /\ off \in [0..Len(f) -> Nat] /\ off[0] = 0 /\ off[Len(f)] = Len(buf)
    /\ \A k \in 1..Len(f) :
         /\ off[k] = off[k - 1] + Len(f[k]) + 1
         /\ off[k] \in 1..Len(buf) /\ buf[off[k]] = NewLine
         /\ \A j \in 1..Len(f[k]) :
              off[k - 1] + j \in 1..Len(buf) /\ buf[off[k - 1] + j] = f[k][j]

LEMMA BufferHolds ==
    ASSUME NEW f \in Seq(Symbols), Len(FlattenSeq(FileLines(f))) <= MaxRead
    PROVE  \E off : Holds(Buffer(f), f, off)
<1> DEFINE all == FlattenSeq(FileLines(f))
           ss == FileLines(f)
<1>1. ss \in Seq(Seq(Symbol)) /\ Len(ss) = Len(f) /\ Len(f) \in Nat
  BY FileLinesType DEF Symbols
<1>2. all \in Seq(Symbol)
  BY <1>1, FlattenType
<1>3. Buffer(f) = all
  <2>1. Buffer(f) = SubSeq(all, 1, Min({MaxRead, Len(all)}))
    BY DEF Buffer, FileLines
  <2>2. Len(all) <= MaxRead
    OBVIOUS
  <2> HIDE DEF all
  <2>3. Len(all) \in Int /\ MaxRead \in Int
    BY <1>2, PrefsAssumption
  <2>4. Min({MaxRead, Len(all)}) = Len(all)
    BY <2>2, <2>3, MinOfTwo
  <2> QED
    BY <1>2, <2>1, <2>4, SubSeqFull
<1>4. PICK off \in [0..Len(ss) -> Nat] :
        /\ off[0] = 0 /\ \A k \in 1..Len(ss) : off[k] = off[k - 1] + Len(ss[k])
        /\ Len(all) = off[Len(ss)]
        /\ \A k \in 1..Len(ss) : \A j \in 1..Len(ss[k]) :
              off[k - 1] + j \in 1..Len(all) /\ all[off[k - 1] + j] = ss[k][j]
  BY <1>1, FlattenAt DEF AreOffsets
<1>5. \A i \in 1..Len(f) :
        /\ Len(ss[i]) = Len(f[i]) + 1 /\ ss[i][Len(f[i]) + 1] = NewLine
        /\ \A j \in 1..Len(f[i]) : ss[i][j] = f[i][j]
  BY FileLinesType
<1>6. \A i \in 1..Len(f) : Len(f[i]) \in Nat
  BY DEF Symbols
<1> HIDE DEF all, ss
<1>7. ASSUME NEW k \in 1..Len(f)
      PROVE  /\ off[k] = off[k - 1] + Len(f[k]) + 1
             /\ off[k] \in 1..Len(all) /\ all[off[k]] = NewLine
             /\ \A j \in 1..Len(f[k]) :
                  off[k - 1] + j \in 1..Len(all) /\ all[off[k - 1] + j] = f[k][j]
  <2>1. k \in 1..Len(ss) /\ k - 1 \in 0..Len(ss)
    BY <1>1
  <2> DEFINE o == off[k - 1]
             n == Len(f[k])
  <2>2. o \in Nat /\ n \in Nat
    BY <1>6, <2>1
  <2>3. off[k] = o + (n + 1)
    BY <1>4, <1>5, <2>1
  <2>4. \A j \in 1..n + 1 : o + j \in 1..Len(all) /\ all[o + j] = ss[k][j]
    BY <1>4, <1>5, <2>1
  <2>5. /\ n + 1 \in 1..n + 1 /\ \A j \in 1..n : j \in 1..n + 1
        /\ o + (n + 1) = o + n + 1
    BY <2>2
  <2>6. ss[k][n + 1] = NewLine /\ \A j \in 1..n : ss[k][j] = f[k][j]
    BY <1>5
  <2> HIDE DEF o, n
  <2>7. off[k] = o + n + 1 /\ off[k] \in 1..Len(all) /\ all[off[k]] = NewLine
    BY <2>3, <2>4, <2>5, <2>6
  <2>8. \A j \in 1..n : o + j \in 1..Len(all) /\ all[o + j] = f[k][j]
    BY <2>4, <2>5, <2>6
  <2> QED
    BY <2>7, <2>8 DEF o, n
<1>8. Holds(all, f, off)
  BY <1>1, <1>4, <1>7 DEF Holds
<1> QED
  BY <1>3, <1>8

\* The first word of a line.
LEMMA WordIs ==
    ASSUME NEW s \in Symbols
    PROVE  /\ UpToBlank(s) \in Symbols /\ Len(UpToBlank(s)) \in 0..Len(s)
           /\ \A j \in 1..Len(UpToBlank(s)) : UpToBlank(s)[j] = s[j] /\ s[j] # Blank
           /\ Len(UpToBlank(s)) < Len(s) => s[Len(UpToBlank(s)) + 1] = Blank
<1> DEFINE n == Len(s)
           P == {i \in 1..n : s[i] = Blank}
           m == First(1, n, P)
<1>1. n \in Nat
  BY DEF Symbols
<1>2. UpToBlank(s) = SubSeq(s, 1, m - 1)
  <2>1. {i \in 1..n : i \in P} = P
    OBVIOUS
  <2> QED
    BY <2>1 DEF UpToBlank, First
<1>3. /\ m \in 1..n + 1 /\ (m <= n => m \in P)
      /\ \A i \in 1..m - 1 : i \notin P
  <2>1. 1 \in Int /\ n \in Int /\ 1 <= n + 1
    BY <1>1
  <2> HIDE DEF n, P
  <2> QED
    BY <2>1, FirstOf
<1> HIDE DEF m
<1>4. /\ SubSeq(s, 1, m - 1) \in Symbols /\ Len(SubSeq(s, 1, m - 1)) = m - 1
      /\ \A i \in 1..m - 1 : SubSeq(s, 1, m - 1)[i] = s[i]
  <2>1. 1 \in Int /\ m - 1 \in Int /\ 1 >= 1 /\ m - 1 <= n /\ (m - 1) - 1 + 1 = m - 1 /\ m - 1 \in Nat
    BY <1>1, <1>3
  <2>2. SubSeq(s, 1, m - 1) \in Symbols
        /\ Len(SubSeq(s, 1, m - 1)) = (IF 1 <= m - 1 THEN (m - 1) - 1 + 1 ELSE 0)
        /\ \A i \in 1..(m - 1) - 1 + 1 : SubSeq(s, 1, m - 1)[i] = s[1 + i - 1]
    BY <2>1, PartType
  <2>3. \A i \in 1..m - 1 : 1 + i - 1 = i
    BY <2>1
  <2>4. (IF 1 <= m - 1 THEN (m - 1) - 1 + 1 ELSE 0) = m - 1
    BY <2>1
  <2> QED
    BY <2>1, <2>2, <2>3, <2>4
<1>5. \A i \in 1..m - 1 : s[i] # Blank
  <2>1. \A i \in 1..m - 1 : i \in 1..n
    BY <1>1, <1>3
  <2> QED
    BY <1>3, <2>1
<1>6. m - 1 < n => s[m] = Blank /\ (m - 1) + 1 = m
  <2>1. m - 1 < n => m <= n /\ (m - 1) + 1 = m
    BY <1>1, <1>3
  <2> QED
    BY <1>3, <2>1
<1>7. m - 1 \in 0..n
  BY <1>1, <1>3
<1> HIDE DEF n, P
<1> QED
  BY <1>2, <1>4, <1>5, <1>6, <1>7 DEF n

\* A sequence is known by its elements.
LEMMA SameSymbols ==
    ASSUME NEW s \in Symbols, NEW t \in Symbols, Len(s) = Len(t),
           \A j \in 1..Len(t) : s[j] = t[j]
    PROVE  s = t
BY SeqEqual DEF Symbols

\* A line sets a key if it begins with it and a blank.
Sets(line, key) ==
    /\ Len(key) + 1 <= Len(line) /\ line[Len(key) + 1] = Blank
    /\ \A j \in 1..Len(key) : line[j] = key[j]

LEMMA SetsIs ==
    ASSUME NEW line \in Symbols, NEW key \in Keys
    PROVE  Blank \in Range(line) /\ UpToBlank(line) = key <=> Sets(line, key)
<1> DEFINE m == Len(key)
           n == Len(line)
           w == UpToBlank(line)
<1>1. /\ key \in Symbols /\ m \in Nat /\ m > 0 /\ n \in Nat
      /\ \A j \in 1..m : key[j] # Blank
  BY KeysType DEF Symbols
<1>2. /\ w \in Symbols /\ Len(w) \in 0..n
      /\ \A j \in 1..Len(w) : w[j] = line[j] /\ line[j] # Blank
      /\ Len(w) < n => line[Len(w) + 1] = Blank
  BY WordIs
<1> HIDE DEF w
<1>3. ASSUME Blank \in Range(line), w = key PROVE Sets(line, key)
  <2>1. PICK i \in 1..n : line[i] = Blank
    BY <1>3 DEF Range, Symbols
  <2>2. Len(w) = m
    BY <1>3
  <2>3. i \notin 1..m
    BY <1>2, <2>1, <2>2
  <2>4. m < n /\ m + 1 <= n
    <3> HIDE DEF m, n
    <3> QED
      BY <1>1, <2>1, <2>3
  <2> QED
    BY <1>2, <1>3, <2>2, <2>4 DEF Sets
<1>4. ASSUME Sets(line, key) PROVE Blank \in Range(line) /\ w = key
  <2>1. m + 1 <= n /\ line[m + 1] = Blank /\ \A j \in 1..m : line[j] = key[j]
    BY <1>4 DEF Sets
  <2>2. Blank \in Range(line)
    <3>1. m + 1 \in DOMAIN line
      <4>1. m + 1 \in 1..n
        <5> HIDE DEF m, n
        <5> QED
          BY <1>1, <2>1
      <4> QED
        BY <4>1 DEF Symbols
    <3> QED
      BY <2>1, <3>1 DEF Range
  <2> HIDE DEF n, m
  <2>3. Len(w) = m
    <3>1. ~(m < Len(w))
      <4>1. m < Len(w) => m + 1 \in 1..Len(w)
        BY <1>1, <1>2
      <4> QED
        BY <1>2, <2>1, <4>1
    <3>2. ~(Len(w) < m)
      <4>1. Len(w) < m => Len(w) < n /\ Len(w) + 1 \in 1..m
        BY <1>1, <1>2, <2>1
      <4>2. \A j \in 1..m : line[j] # Blank
        BY <1>1, <2>1
      <4> QED
        BY <1>2, <4>1, <4>2
    <3> QED
      BY <1>1, <1>2, <3>1, <3>2
  <2>4. \A j \in 1..m : w[j] = key[j]
    BY <1>2, <2>1, <2>3
  <2>5. w = key
    BY <1>1, <1>2, <2>3, <2>4, SameSymbols DEF m
  <2> QED
    BY <2>2, <2>5
<1> QED
  BY <1>3, <1>4 DEF w

\* pref_get finds a key at the start of a line that sets it, and not at the
\* start of another one.
LEMMA MatchesLine ==
    ASSUME NEW buf \in Symbols, NEW f \in Seq(Symbols), LinesClean(f),
           NEW off, Holds(buf, f, off), NEW k \in 1..Len(f), NEW key \in Keys
    PROVE  /\ off[k - 1] + 1 \in 1..Len(buf)
           /\ Matches(buf, off[k - 1] + 1, key) <=> Sets(f[k], key)
<1> DEFINE o == off[k - 1]
           line == f[k]
           n == Len(line)
           m == Len(key)
<1>1. /\ line \in Symbols /\ n \in Nat /\ key \in Symbols /\ m \in Nat /\ m > 0
      /\ \A j \in 1..m : key[j] \notin {Blank, NewLine}
  <2>1. line \in Symbols
    OBVIOUS
  <2> QED
    BY <2>1, KeysType DEF Symbols
<1>2. o \in Nat /\ Len(buf) \in Nat
  <2>1. k - 1 \in 0..Len(f)
    OBVIOUS
  <2>2. off \in [0..Len(f) -> Nat]
    BY DEF Holds
  <2>3. o \in Nat
    BY <2>1, <2>2
  <2>4. Len(buf) \in Nat
    BY DEF Symbols
  <2> QED
    BY <2>3, <2>4
<1>3. /\ o + n + 1 \in 1..Len(buf) /\ buf[o + n + 1] = NewLine
      /\ \A j \in 1..n : o + j \in 1..Len(buf) /\ buf[o + j] = line[j] /\ line[j] # NewLine
  <2>1. off[k] = o + n + 1
    BY DEF Holds
  <2>2. off[k] \in 1..Len(buf) /\ buf[off[k]] = NewLine
    BY DEF Holds
  <2>3. \A j \in 1..n : o + j \in 1..Len(buf) /\ buf[o + j] = line[j]
    BY DEF Holds
  <2>4. \A j \in 1..n : line[j] # NewLine
    BY DEF LinesClean
  <2> QED
    BY <2>1, <2>2, <2>3, <2>4
<1> HIDE DEF o, line, n
<1>4. o + 1 \in 1..Len(buf)
  BY <1>1, <1>2, <1>3
<1>5. Matches(buf, o + 1, key) <=>
        /\ o + 1 + m <= Len(buf)
        /\ \A j \in 1..m : buf[o + 1 + j - 1] = key[j]
        /\ buf[o + 1 + m] = Blank
  BY <1>1, <1>4, MatchesIs
<1> HIDE DEF m
<1>6. ASSUME Matches(buf, o + 1, key) PROVE Sets(line, key)
  <2>1. \A j \in 1..m : o + 1 + j - 1 = o + j /\ o + 1 + m = o + (m + 1)
    BY <1>1, <1>2
  <2>2. \A j \in 1..m : buf[o + j] = key[j]
    BY <1>5, <1>6, <2>1
  <2>3. buf[o + (m + 1)] = Blank
    <3>1. o + 1 + m = o + (m + 1)
      BY <1>1, <1>2
    <3> QED
      BY <1>5, <1>6, <3>1
  <2>4. m + 1 <= n
    <3>1. ~(n < m)
      <4>1. n < m => n + 1 \in 1..m /\ o + n + 1 = o + (n + 1)
        BY <1>1, <1>2
      <4> QED
        BY <1>1, <1>3, <2>2, <4>1
    <3>2. n # m
      <4>1. n = m => o + n + 1 = o + (m + 1)
        BY <1>1, <1>2
      <4> QED
        BY <1>3, <2>3, <4>1 DEF Blank, NewLine
    <3> QED
      BY <1>1, <3>1, <3>2
  <2>5. m + 1 \in 1..n /\ \A j \in 1..m : j \in 1..n
    BY <1>1, <2>4
  <2>6. line[m + 1] = Blank /\ \A j \in 1..m : line[j] = key[j]
    BY <1>3, <2>2, <2>3, <2>5
  <2> QED
    BY <2>4, <2>6 DEF Sets, m, n
<1>7. ASSUME Sets(line, key) PROVE Matches(buf, o + 1, key)
  <2>1. m + 1 <= n /\ line[m + 1] = Blank /\ \A j \in 1..m : line[j] = key[j]
    BY <1>7 DEF Sets, m, n
  <2>2. m + 1 \in 1..n /\ \A j \in 1..m : j \in 1..n
    BY <1>1, <2>1
  <2>3. o + (m + 1) \in 1..Len(buf) /\ buf[o + (m + 1)] = Blank /\ \A j \in 1..m : buf[o + j] = key[j]
    BY <1>3, <2>1, <2>2
  <2>4. \A j \in 1..m : o + 1 + j - 1 = o + j
    BY <1>1, <1>2
  <2>5. o + 1 + m = o + (m + 1) /\ o + 1 + m <= Len(buf)
    BY <1>1, <1>2, <2>3
  <2> QED
    BY <1>5, <2>3, <2>4, <2>5
<1> QED
  BY <1>4, <1>6, <1>7 DEF o, line

\* A text without the blanks it begins with.
Skips(s, d) ==
    /\ d \in 0..Len(s) /\ FromText(s) \in Symbols /\ Len(FromText(s)) = Len(s) - d
    /\ \A j \in 1..d : s[j] = Blank
    /\ \A j \in 1..Len(s) - d : FromText(s)[j] = s[d + j]
    /\ d < Len(s) => s[d + 1] # Blank

LEMMA TextIs ==
    ASSUME NEW s \in Symbols
    PROVE  \E d : Skips(s, d)
<1> DEFINE n == Len(s)
           P == {i \in 1..n : s[i] # Blank}
           m == First(1, n, P)
           d == m - 1
<1>1. n \in Nat
  BY DEF Symbols
<1>2. FromText(s) = SubSeq(s, m, n)
  <2>1. {i \in 1..n : i \in P} = P
    OBVIOUS
  <2> QED
    BY <2>1 DEF FromText, First
<1>3. /\ m \in 1..n + 1 /\ (m <= n => m \in P)
      /\ \A i \in 1..m - 1 : i \notin P
  <2>1. 1 \in Int /\ n \in Int /\ 1 <= n + 1
    BY <1>1
  <2> HIDE DEF n, P
  <2> QED
    BY <2>1, FirstOf
<1> HIDE DEF m
<1>4. /\ SubSeq(s, m, n) \in Symbols /\ Len(SubSeq(s, m, n)) = n - d
      /\ \A i \in 1..n - d : SubSeq(s, m, n)[i] = s[d + i]
  <2>1. m \in Int /\ n \in Int /\ m >= 1 /\ n <= Len(s) /\ n - m + 1 = n - d /\ n - d \in Nat
    BY <1>1, <1>3
  <2>2. SubSeq(s, m, n) \in Symbols
        /\ Len(SubSeq(s, m, n)) = (IF m <= n THEN n - m + 1 ELSE 0)
        /\ \A i \in 1..n - m + 1 : SubSeq(s, m, n)[i] = s[m + i - 1]
    <3> HIDE DEF n
    <3> QED
      BY <2>1, PartType
  <2>3. \A i \in 1..n - d : m + i - 1 = d + i
    BY <2>1
  <2>4. (IF m <= n THEN n - m + 1 ELSE 0) = n - d
    BY <1>1, <1>3
  <2> QED
    BY <2>1, <2>2, <2>3, <2>4
<1>5. \A j \in 1..d : s[j] = Blank
  <2>1. \A i \in 1..m - 1 : i \in 1..n
    BY <1>1, <1>3
  <2> QED
    BY <1>3, <2>1
<1>6. d < n => s[d + 1] # Blank
  <2>1. d < n => m <= n /\ d + 1 = m
    BY <1>1, <1>3
  <2> QED
    BY <1>3, <2>1
<1>7. d \in 0..n
  BY <1>1, <1>3
<1> HIDE DEF n, P, d
<1>8. Skips(s, d)
  BY <1>2, <1>4, <1>5, <1>6, <1>7 DEF n, Skips
<1> QED
  BY <1>8

\* The value pref_get takes, from a place a where text begins to a place e
\* where it ends.
LEMMA ValueAtIs ==
    ASSUME NEW buf \in Symbols, NEW p \in 1..Len(buf), NEW a \in p..Len(buf),
           NEW e \in a..Len(buf), \A i \in p..a - 1 : buf[i] = Blank, buf[a] # Blank,
           buf[e] \in {Blank, NewLine}, \A i \in a..e - 1 : buf[i] \notin {Blank, NewLine},
           e - a <= ValueRoom
    PROVE  ValueAt(buf, p) = SubSeq(buf, a, e - 1)
<1> DEFINE n == Len(buf)
           P == {i \in p..n : buf[i] # Blank}
           start == Min({i \in p..n : buf[i] # Blank} \cup {n + 1})
           Q == {i \in start..n : buf[i] \in {Blank, NewLine}}
           end == Min({i \in start..n : buf[i] \in {Blank, NewLine}} \cup {n + 1})
<1>1. n \in Nat /\ p \in Int /\ a \in Int /\ e \in Int /\ ValueRoom \in Int
  BY PrefsAssumption DEF Symbols
<1>2. start = a
  <2>1. start = First(p, n, P)
    <3>1. P = {i \in p..n : i \in P}
      OBVIOUS
    <3> QED
      BY <3>1 DEF First
  <2>2. p <= n + 1 /\ a \in p..n + 1 /\ a \in P
    BY <1>1
  <2>3. \A i \in p..a - 1 : i \notin P
    OBVIOUS
  <2>4. n \in Int
    BY <1>1
  <2> HIDE DEF P, n, start
  <2> QED
    BY <1>1, <2>1, <2>2, <2>3, <2>4, FirstUnique
<1> HIDE DEF start
<1>3. end = e
  <2>1. end = First(a, n, Q)
    <3>1. Q = {i \in a..n : i \in Q}
      BY <1>2
    <3>2. end = Min({i \in a..n : i \in Q} \cup {n + 1})
      BY <1>2, <3>1
    <3> QED
      BY <3>2 DEF First
  <2>2. a <= n + 1 /\ e \in a..n + 1 /\ e \in Q
    BY <1>1, <1>2
  <2>3. \A i \in a..e - 1 : i \notin Q
    OBVIOUS
  <2>4. n \in Int
    BY <1>1
  <2> HIDE DEF Q, n, end
  <2> QED
    BY <1>1, <2>1, <2>2, <2>3, <2>4, FirstUnique
<1> HIDE DEF end
<1>4. ValueAt(buf, p) = SubSeq(buf, start, Min({end, start + ValueRoom}) - 1)
  BY DEF ValueAt, start, end
<1>5. Min({e, a + ValueRoom}) = e
  <2>1. a + ValueRoom \in Int /\ e <= a + ValueRoom
    BY <1>1
  <2> QED
    BY <1>1, <2>1, MinOfTwo
<1> QED
  BY <1>2, <1>3, <1>4, <1>5

\* The value a line gives the key it begins with.
LineValue(line, key) == UpToBlank(FromText(SubSeq(line, Len(key) + 1, Len(line))))

\* What stands behind the key.
LEMMA RestIs ==
    ASSUME NEW line \in Symbols, NEW m \in 0..Len(line)
    PROVE  /\ SubSeq(line, m + 1, Len(line)) \in Symbols
           /\ Len(SubSeq(line, m + 1, Len(line))) = Len(line) - m
           /\ \A i \in 1..Len(line) - m : SubSeq(line, m + 1, Len(line))[i] = line[m + i]
<1> DEFINE n == Len(line)
<1>1. /\ n \in Nat /\ m + 1 \in Int /\ n \in Int /\ m + 1 >= 1 /\ n <= Len(line)
      /\ n - (m + 1) + 1 = n - m /\ m \in 0..n
  BY DEF Symbols
<1> HIDE DEF n
<1>2. SubSeq(line, m + 1, n) \in Symbols
      /\ Len(SubSeq(line, m + 1, n)) = (IF m + 1 <= n THEN n - (m + 1) + 1 ELSE 0)
      /\ \A i \in 1..n - (m + 1) + 1 : SubSeq(line, m + 1, n)[i] = line[m + 1 + i - 1]
  BY <1>1, PartType
<1>3. \A i \in 1..n - m : m + 1 + i - 1 = m + i
  BY <1>1
<1>4. (IF m + 1 <= n THEN n - (m + 1) + 1 ELSE 0) = n - m
  BY <1>1
<1> QED
  BY <1>1, <1>2, <1>3, <1>4 DEF n

\* What pref_get takes behind the key is the value of the line.
LEMMA ValueOfLine ==
    ASSUME NEW buf \in Symbols, NEW f \in Seq(Symbols), LinesClean(f),
           NEW off, Holds(buf, f, off), NEW k \in 1..Len(f), NEW key \in Keys,
           Sets(f[k], key), Len(LineValue(f[k], key)) <= ValueRoom
    PROVE  ValueAt(buf, off[k - 1] + 1 + Len(key)) = LineValue(f[k], key)
<1> DEFINE o == off[k - 1]
           line == f[k]
           n == Len(line)
           m == Len(key)
           rest == SubSeq(line, m + 1, n)
           text == FromText(rest)
           v == UpToBlank(text)
           l == Len(v)
<1>1. line \in Symbols /\ n \in Nat /\ m \in Nat /\ m + 1 <= n /\ l <= ValueRoom /\ m \in 0..n
  <2>1. line \in Symbols
    OBVIOUS
  <2>2. n \in Nat /\ m \in Nat
    BY <2>1, KeysType DEF Symbols
  <2>3. m + 1 <= n
    BY DEF Sets
  <2>4. l <= ValueRoom
    BY DEF LineValue
  <2> HIDE DEF n, m
  <2> QED
    BY <2>1, <2>2, <2>3, <2>4
<1>2. o \in Nat /\ Len(buf) \in Nat
  <2>1. k - 1 \in 0..Len(f)
    OBVIOUS
  <2>2. off \in [0..Len(f) -> Nat]
    BY DEF Holds
  <2>3. o \in Nat
    BY <2>1, <2>2
  <2>4. Len(buf) \in Nat
    BY DEF Symbols
  <2> QED
    BY <2>3, <2>4
<1>3. /\ o + n + 1 \in 1..Len(buf) /\ buf[o + n + 1] = NewLine
      /\ \A j \in 1..n : o + j \in 1..Len(buf) /\ buf[o + j] = line[j] /\ line[j] # NewLine
  <2>1. off[k] = o + n + 1
    BY DEF Holds
  <2>2. off[k] \in 1..Len(buf) /\ buf[off[k]] = NewLine
    BY DEF Holds
  <2>3. \A j \in 1..n : o + j \in 1..Len(buf) /\ buf[o + j] = line[j]
    BY DEF Holds
  <2>4. \A j \in 1..n : line[j] # NewLine
    BY DEF LinesClean
  <2> QED
    BY <2>1, <2>2, <2>3, <2>4
<1>4. rest \in Symbols /\ Len(rest) = n - m /\ \A i \in 1..n - m : rest[i] = line[m + i]
  BY <1>1, RestIs
<1> HIDE DEF o, line, n, m, rest
<1>5. PICK d : Skips(rest, d)
  BY <1>4, TextIs
<1>6. /\ d \in 0..n - m /\ text \in Symbols /\ Len(text) = n - m - d
      /\ \A j \in 1..d : rest[j] = Blank
      /\ \A j \in 1..n - m - d : text[j] = rest[d + j]
      /\ d < n - m => rest[d + 1] # Blank
  BY <1>4, <1>5 DEF Skips
<1> HIDE DEF text
<1>7. /\ v \in Symbols /\ l \in 0..n - m - d
      /\ \A j \in 1..l : v[j] = text[j] /\ text[j] # Blank
      /\ l < n - m - d => text[l + 1] = Blank
  BY <1>6, WordIs
<1> HIDE DEF v, l
<1> DEFINE p == o + 1 + m
           a == p + d
           e == a + l
<1>8. /\ p \in 1..Len(buf) /\ a \in p..Len(buf) /\ e \in a..Len(buf)
      /\ e - a <= ValueRoom
  BY <1>1, <1>2, <1>3, <1>6, <1>7
\* The text of the line, seen in the buffer.
<1>9. \A i \in 1..n - m : buf[o + m + i] = rest[i] /\ rest[i] # NewLine
  <2>1. \A i \in 1..n - m : m + i \in 1..n /\ o + m + i = o + (m + i)
    BY <1>1, <1>2
  <2> QED
    BY <1>3, <1>4, <2>1
<1>10. \A j \in 1..n - m - d : buf[o + m + d + j] = text[j] /\ text[j] # NewLine
  <2>1. m \in Int /\ o \in Int /\ d \in 0..n - m /\ n \in Int
    BY <1>1, <1>2, <1>6
  <2>2. \A j \in 1..n - m - d : d + j \in 1..n - m
    BY <2>1
  <2>3. \A j \in 1..n - m - d : o + m + d + j = o + m + (d + j)
    BY <2>1
  <2> QED
    BY <1>6, <1>9, <2>2, <2>3
<1>11. \A i \in p..a - 1 : buf[i] = Blank
  <2>1. ASSUME NEW i \in p..a - 1 PROVE buf[i] = Blank
    <3> DEFINE j == i - o - m
    <3>1. j \in 1..d /\ j \in 1..n - m /\ o + m + j = i
      BY <1>1, <1>2, <1>6
    <3> HIDE DEF j
    <3>2. buf[o + m + j] = Blank
      BY <1>6, <1>9, <3>1
    <3> QED
      BY <3>1, <3>2
  <2> QED
    BY <2>1
<1>12. buf[a] # Blank
  <2>1. CASE d < n - m
    <3>1. d + 1 \in 1..n - m /\ o + m + (d + 1) = a
      BY <1>1, <1>2, <1>6, <2>1
    <3> HIDE DEF a
    <3> QED
      BY <1>6, <1>9, <2>1, <3>1
  <2>2. CASE ~(d < n - m)
    <3>1. a = o + n + 1
      BY <1>1, <1>2, <1>6, <2>2
    <3> HIDE DEF a
    <3> QED
      BY <1>3, <3>1 DEF Blank, NewLine
  <2> QED
    BY <2>1, <2>2
<1>13. buf[e] \in {Blank, NewLine}
  <2>1. CASE l < n - m - d
    <3>1. l + 1 \in 1..n - m - d /\ o + m + d + (l + 1) = e
      BY <1>1, <1>2, <1>6, <1>7, <2>1
    <3> HIDE DEF e
    <3> QED
      BY <1>7, <1>10, <2>1, <3>1
  <2>2. CASE ~(l < n - m - d)
    <3>1. e = o + n + 1
      BY <1>1, <1>2, <1>6, <1>7, <2>2
    <3> HIDE DEF e
    <3> QED
      BY <1>3, <3>1
  <2> QED
    BY <2>1, <2>2
<1>14. \A i \in a..e - 1 : buf[i] \notin {Blank, NewLine}
  <2>1. ASSUME NEW i \in a..e - 1 PROVE buf[i] \notin {Blank, NewLine}
    <3> DEFINE j == i - o - m - d
    <3>1. j \in 1..l /\ j \in 1..n - m - d /\ o + m + d + j = i
      BY <1>1, <1>2, <1>6, <1>7
    <3> HIDE DEF j
    <3>2. buf[o + m + d + j] \notin {Blank, NewLine}
      BY <1>7, <1>10, <3>1
    <3> QED
      BY <3>1, <3>2
  <2> QED
    BY <2>1
<1>15. ValueAt(buf, p) = SubSeq(buf, a, e - 1)
  <2> HIDE DEF p, a, e
  <2> QED
    BY <1>8, <1>11, <1>12, <1>13, <1>14, ValueAtIs
<1>16. SubSeq(buf, a, e - 1) = v
  <2>1. /\ a \in Int /\ e - 1 \in Int /\ a >= 1 /\ e - 1 <= Len(buf) /\ e - 1 - a + 1 = l
        /\ (IF a <= e - 1 THEN e - 1 - a + 1 ELSE 0) = l
        /\ \A i \in 1..l : a + i - 1 = o + m + d + i /\ i \in 1..n - m - d
    BY <1>1, <1>2, <1>6, <1>7, <1>8
  <2> DEFINE z == e - 1
  <2>2. /\ a \in Int /\ z \in Int /\ a >= 1 /\ z <= Len(buf) /\ z - a + 1 = l
        /\ (IF a <= z THEN z - a + 1 ELSE 0) = l
    BY <2>1
  <2> HIDE DEF a, z
  <2>3. /\ SubSeq(buf, a, z) \in Symbols /\ Len(SubSeq(buf, a, z)) = l
        /\ \A i \in 1..l : SubSeq(buf, a, z)[i] = buf[a + i - 1]
    BY <2>2, PartType
  <2>4. ASSUME NEW i \in 1..l PROVE SubSeq(buf, a, z)[i] = v[i]
    <3>1. SubSeq(buf, a, z)[i] = buf[o + m + d + i] /\ i \in 1..n - m - d
      BY <2>1, <2>3
    <3> QED
      BY <1>7, <1>10, <3>1
  <2>5. SubSeq(buf, a, z) = v
    BY <1>7, <2>3, <2>4, SameSymbols DEF l
  <2> QED
    BY <2>5 DEF z
<1>17. v = LineValue(f[k], key)
  BY DEF v, text, rest, m, n, line, LineValue
<1> QED
  BY <1>15, <1>16, <1>17 DEF p, o, m

\* In a file that fits the buffer, pref_get finds the first line that sets the
\* key, and takes its value, if that fits; or it finds none.
LEMMA PrefGetFinds ==
    ASSUME NEW f \in Seq(Symbols), LinesClean(f), Len(FlattenSeq(FileLines(f))) <= MaxRead,
           NEW key \in Keys, NEW default
    PROVE  /\ (\A i \in 1..Len(f) : ~Sets(f[i], key)) => pref_get(Buffer(f), key, default) = default
           /\ \A i \in 1..Len(f) :
                /\ Sets(f[i], key) /\ (\A j \in 1..i - 1 : ~Sets(f[j], key))
                /\ Len(LineValue(f[i], key)) <= ValueRoom
                => pref_get(Buffer(f), key, default) = LineValue(f[i], key)
<1> DEFINE buf == Buffer(f)
           n == Len(f)
           None(k) == \A i \in 1..k : ~Sets(f[i], key)
<1>1. buf \in Symbols /\ n \in Nat /\ Len(buf) \in Nat
  <2>1. buf \in Symbols
    BY BufferType
  <2> HIDE DEF buf
  <2> QED
    BY <2>1 DEF Symbols
<1>2. PICK off : Holds(buf, f, off)
  BY BufferHolds
<1> HIDE DEF buf
<1>3. PICK from : /\ from[Len(buf) + 1] = default
                  /\ \A p \in 1..Len(buf) :
                       from[p] = IF Matches(buf, p, key) THEN ValueAt(buf, p + Len(key))
                                 ELSE from[NextLine(buf, p)]
                  /\ pref_get(buf, key, default) = from[1]
  BY <1>1, PrefGetSearch
<1>4. ASSUME NEW k \in 1..n
      PROVE  /\ off[k - 1] + 1 \in 1..Len(buf)
             /\ Matches(buf, off[k - 1] + 1, key) <=> Sets(f[k], key)
  BY <1>1, <1>2, MatchesLine
<1>5. ASSUME NEW k \in 1..n
      PROVE  NextLine(buf, off[k - 1] + 1) = off[k] + 1
  <2> DEFINE o == off[k - 1]
             m == Len(f[k])
             e == off[k]
  <2>1. o \in Nat /\ m \in Nat
    <3>1. k - 1 \in 0..n /\ f[k] \in Symbols
      BY <1>1
    <3>2. off \in [0..n -> Nat]
      BY <1>2 DEF Holds
    <3>3. o \in Nat
      BY <3>1, <3>2
    <3>4. m \in Nat
      BY <3>1 DEF Symbols
    <3> QED
      BY <3>3, <3>4
  <2>2. e = o + m + 1 /\ e \in 1..Len(buf) /\ buf[e] = NewLine
    BY <1>2 DEF Holds
  <2>3. \A j \in 1..m : buf[o + j] # NewLine
    <3>1. \A j \in 1..m : buf[o + j] = f[k][j] /\ f[k][j] # NewLine
      BY <1>2 DEF Holds, LinesClean
    <3> QED
      BY <3>1
  <2>4. o + 1 \in 1..Len(buf)
    BY <1>4
  <2> HIDE DEF o, m, e
  <2>5. e \in o + 1..Len(buf)
    BY <1>1, <2>1, <2>2
  <2>6. \A i \in o + 1..e - 1 : buf[i] # NewLine
    <3>1. ASSUME NEW i \in o + 1..e - 1 PROVE buf[i] # NewLine
      <4>1. i - o \in 1..m /\ o + (i - o) = i
        BY <2>1, <2>2
      <4> QED
        BY <2>3, <4>1
    <3> QED
      BY <3>1
  <2>7. NextLine(buf, o + 1) = e + 1
    BY <1>1, <2>2, <2>4, <2>5, <2>6, NextLineIs
  <2> QED
    BY <2>7 DEF o, e
<1>6. ASSUME NEW k \in 1..n
      PROVE  from[off[k - 1] + 1] = IF Sets(f[k], key)
                                    THEN ValueAt(buf, off[k - 1] + 1 + Len(key))
                                    ELSE from[off[k] + 1]
  BY <1>3, <1>4, <1>5
<1>7. \A k \in 0..n : None(k) => from[off[k] + 1] = from[1]
  <2> DEFINE T == {k \in 0..n : None(k) => from[off[k] + 1] = from[1]}
  <2>1. 0 \in T
    <3>1. off[0] = 0 /\ 0 + 1 = 1 /\ 0 \in 0..n
      BY <1>1, <1>2 DEF Holds
    <3>2. from[off[0] + 1] = from[1]
      BY <3>1
    <3> HIDE DEF None
    <3> QED
      BY <3>1, <3>2
  <2>2. ASSUME NEW k \in 1..n, k - 1 \in T PROVE k \in T
    <3>1. k \in 0..n
      BY <1>1
    <3>2. None(k) => None(k - 1) /\ ~Sets(f[k], key)
      OBVIOUS
    <3> HIDE DEF None
    <3>3. None(k - 1) => from[off[k - 1] + 1] = from[1]
      BY <2>2
    <3> QED
      BY <1>6, <3>1, <3>2, <3>3
  <2> HIDE DEF T
  <2>3. \A k \in 0..n : k \in T
    BY <1>1, <2>1, <2>2, UpTo
  <2> QED
    BY <2>3 DEF T
<1>8. None(n) => pref_get(buf, key, default) = default
  <2>1. n \in 0..n /\ off[n] = Len(buf)
    BY <1>1, <1>2 DEF Holds
  <2> HIDE DEF None
  <2>2. None(n) => from[off[n] + 1] = from[1]
    BY <1>7, <2>1
  <2> QED
    BY <1>3, <2>1, <2>2
<1>9. ASSUME NEW i \in 1..n, Sets(f[i], key), None(i - 1), Len(LineValue(f[i], key)) <= ValueRoom
      PROVE  pref_get(buf, key, default) = LineValue(f[i], key)
  <2>1. i - 1 \in 0..n
    BY <1>1
  <2> HIDE DEF None
  <2>2. from[off[i - 1] + 1] = from[1]
    BY <1>7, <1>9, <2>1
  <2>3. ValueAt(buf, off[i - 1] + 1 + Len(key)) = LineValue(f[i], key)
    BY <1>1, <1>2, <1>9, ValueOfLine DEF n
  <2> QED
    BY <1>3, <1>6, <1>9, <2>2, <2>3
<1> QED
  BY <1>8, <1>9 DEF buf

\* Whether and where the file sets a key, in the words of LinesOf and Setting.
LEMMA SettingFound ==
    ASSUME file \in Seq(Symbols), LinesClean(file),
           Len(FlattenSeq(FileLines(file))) <= MaxRead, NEW key \in Keys, NEW default
    PROVE  /\ ~IsSet(key) => pref_get(Buffer(file), key, default) = default
           /\ Fits(key) => pref_get(Buffer(file), key, default) = Setting(key)
           /\ IsSet(key) => Setting(key) \in Symbols
<1> DEFINE n == Len(file)
           got == pref_get(Buffer(file), key, default)
<1>1. n \in Nat /\ \A i \in 1..n : file[i] \in Symbols
  OBVIOUS
<1>2. LinesOf(key) = {i \in 1..n : Sets(file[i], key)}
  BY <1>1, SetsIs DEF LinesOf
<1>3. /\ (\A i \in 1..n : ~Sets(file[i], key)) => got = default
      /\ \A i \in 1..n :
           /\ Sets(file[i], key) /\ (\A j \in 1..i - 1 : ~Sets(file[j], key))
           /\ Len(LineValue(file[i], key)) <= ValueRoom
           => got = LineValue(file[i], key)
  BY PrefGetFinds
<1> HIDE DEF got, n
<1>4. ~IsSet(key) => got = default
  <2>1. ~IsSet(key) => \A i \in 1..n : ~Sets(file[i], key)
    BY <1>2 DEF IsSet
  <2> QED
    BY <1>3, <2>1
<1>5. ASSUME IsSet(key)
      PROVE  Setting(key) \in Symbols /\ (Fits(key) => got = Setting(key))
  <2> DEFINE i == Min(LinesOf(key))
  <2>1. i \in LinesOf(key) /\ \A j \in LinesOf(key) : i <= j
    <3>1. LinesOf(key) \subseteq 1..n /\ LinesOf(key) # {}
      BY <1>2, <1>5 DEF IsSet
    <3>2. 1 \in Int /\ n \in Int
      BY <1>1
    <3> QED
      BY <3>1, <3>2, MinIs
  <2>2. Setting(key) = LineValue(file[i], key)
    BY DEF Setting, LineValue
  <2> HIDE DEF i
  <2>3. i \in 1..n /\ Sets(file[i], key) /\ file[i] \in Symbols
    BY <1>1, <1>2, <2>1
  <2>4. \A j \in 1..i - 1 : ~Sets(file[j], key)
    <3>1. \A j \in 1..i - 1 : j \in 1..n /\ ~(i <= j)
      BY <1>1, <2>3
    <3> QED
      BY <1>2, <2>1, <3>1
  <2>5. LineValue(file[i], key) \in Symbols
    <3> DEFINE line == file[i]
               m == Len(key)
    <3>1. line \in Symbols /\ m \in 0..Len(line)
      <4>1. m + 1 <= Len(line) /\ m \in Nat /\ Len(line) \in Nat
        BY <2>3, KeysType DEF Sets, Symbols
      <4> HIDE DEF m
      <4>2. m \in 0..Len(line)
        BY <4>1
      <4> QED
        BY <2>3, <4>2
    <3> HIDE DEF line, m
    <3>2. SubSeq(line, m + 1, Len(line)) \in Symbols
      BY <3>1, RestIs
    <3>3. FromText(SubSeq(line, m + 1, Len(line))) \in Symbols
      BY <3>2, TextIs DEF Skips
    <3>4. UpToBlank(FromText(SubSeq(line, m + 1, Len(line)))) \in Symbols
      BY <3>3, WordIs
    <3> QED
      BY <3>4 DEF LineValue, line, m
  <2>6. Fits(key) => got = LineValue(file[i], key)
    BY <1>3, <2>2, <2>3, <2>4 DEF Fits
  <2> QED
    BY <2>2, <2>5, <2>6
<1>6. Fits(key) => IsSet(key)
  BY DEF Fits
<1> QED
  BY <1>4, <1>5, <1>6 DEF got

-----------------------------------------------------------------------------
(* A number that a long holds is read as it is written.                    *)

LEMMA WrapKeeps ==
    ASSUME NEW n \in 0..LongHalf - 1
    PROVE  Wrap(n) = n
<1>1. LongHalf \in Int /\ LongHalf > 0
  BY PrefsAssumption
<1>2. n + LongHalf \in 0..2 * LongHalf - 1 /\ 2 * LongHalf \in Int /\ 2 * LongHalf > 0
  BY <1>1
<1>3. \A a, m \in Int : m > 0 /\ a \in 0..m - 1 => a % m = a
  OBVIOUS
<1>4. (n + LongHalf) % (2 * LongHalf) = n + LongHalf
  <2> DEFINE a == n + LongHalf
             m == 2 * LongHalf
  <2>1. a \in Int /\ m \in Int /\ m > 0 /\ a \in 0..m - 1
    BY <1>1, <1>2
  <2> HIDE DEF a, m
  <2>2. a % m = a
    BY <1>3, <2>1
  <2> QED
    BY <2>2 DEF a, m
<1> QED
  BY <1>1, <1>4 DEF Wrap

\* Plain sums the digits as they are.
LEMMA PlainIs ==
    ASSUME NEW value \in Symbols, value # <<>>,
           \A i \in 1..Len(value) : value[i] \in DOMAIN Digit
    PROVE  \E f : /\ Sums(f, Figures(value), Len(value), AsIs)
                  /\ Plain(value) = f[Len(value)]
<1> DEFINE n == Len(value)
           Body(h, k) == IF k = 0 THEN 0 ELSE 10 * h[k - 1] + Digit[value[k]]
           c == CHOOSE h : h = [k \in 0..n |-> Body(h, k)]
<1>1. n \in Nat /\ Figures(value) \in [1..n -> 0..9]
  BY FiguresType DEF Symbols
<1>2. AsIs \in [Int -> Int]
  BY DEF AsIs
<1>3. \A k \in 1..n : Figures(value)[k] = Digit[value[k]] /\ Digit[value[k]] \in Int
  <2>1. \A k \in 1..n : Figures(value)[k] = Digit[value[k]]
    BY DEF Figures
  <2>2. \A k \in 1..n : Figures(value)[k] \in 0..9
    BY <1>1
  <2> QED
    BY <2>1, <2>2
<1> HIDE DEF n
<1>4. ASSUME NEW h, NEW k \in 1..n, h[k - 1] \in Int
      PROVE  AsIs[10 * h[k - 1] + Figures(value)[k]] = Body(h, k)
  <2>1. 10 * h[k - 1] + Digit[value[k]] \in Int /\ k # 0
    BY <1>3, <1>4
  <2> QED
    BY <1>3, <2>1 DEF AsIs
<1>5. PICK f : Sums(f, Figures(value), n, AsIs)
  BY <1>1, <1>2, SumsExist
<1>6. f = [k \in 0..n |-> Body(f, k)]
  <2>1. f = [k \in 0..n |-> f[k]]
    BY <1>5 DEF Sums
  <2>2. \A k \in 0..n : f[k] = Body(f, k)
    <3>1. ASSUME NEW k \in 1..n PROVE f[k] = Body(f, k)
      <4>1. k - 1 \in 0..n
        BY <1>1
      <4>2. f[k - 1] \in Int
        BY <1>5, <4>1 DEF Sums
      <4> QED
        BY <1>4, <1>5, <4>2 DEF Sums
    <3>2. f[0] = Body(f, 0)
      BY <1>5 DEF Sums
    <3>3. \A k \in 0..n : k = 0 \/ k \in 1..n
      BY <1>1
    <3> HIDE DEF Body
    <3> QED
      BY <3>1, <3>2, <3>3
  <2> HIDE DEF Body
  <2> QED
    BY <2>1, <2>2
<1>7. c = [k \in 0..n |-> Body(c, k)]
  BY <1>6
<1> HIDE DEF c
<1>8. \A k \in 0..n : c[k] = Body(c, k)
  BY <1>7
<1>9. \A k \in 0..n : c[k] = f[k]
  <2> DEFINE T == {k \in 0..n : c[k] = f[k]}
  <2>1. 0 \in T
    <3>1. 0 \in 0..n
      BY <1>1
    <3>2. c[0] = Body(c, 0)
      BY <1>8, <3>1
    <3> QED
      BY <1>5, <3>1, <3>2 DEF Sums
  <2>2. ASSUME NEW k \in 1..n, k - 1 \in T PROVE k \in T
    <3>1. c[k - 1] = f[k - 1] /\ k \in 0..n
      BY <1>1, <2>2
    <3>2. c[k] = Body(c, k) /\ f[k] = Body(f, k)
      <4>1. \A i \in 0..n : f[i] = Body(f, i)
        BY <1>6
      <4> HIDE DEF Body
      <4> QED
        BY <1>8, <3>1, <4>1
    <3>3. Body(c, k) = Body(f, k)
      BY <3>1
    <3> HIDE DEF Body
    <3> QED
      BY <3>1, <3>2, <3>3
  <2> HIDE DEF T
  <2>3. \A k \in 0..n : k \in T
    BY <1>1, <2>1, <2>2, UpTo
  <2> QED
    BY <2>3 DEF T
<1>10. Plain(value) = c[n]
  BY Zenon DEF Plain, c, n
<1>11. n \in 0..n
  BY <1>1
<1> QED
  BY <1>5, <1>9, <1>10, <1>11 DEF n

\* A wrapped sum that would have stayed in its range is the plain sum.
LEMMA PlainNumber ==
    ASSUME NEW value \in Symbols, Plain(value) \in 1..LongHalf - 1
    PROVE  Number(value) = Plain(value)
<1> DEFINE n == Len(value)
           d == Figures(value)
<1>1. value # <<>> /\ \A i \in 1..n : value[i] \in DOMAIN Digit
  <2>1. Plain(value) # 0
    OBVIOUS
  <2> QED
    BY <2>1, Zenon DEF Plain
<1>2. n \in Nat /\ d \in [1..n -> 0..9] /\ LongHalf \in Int
  BY <1>1, FiguresType, PrefsAssumption DEF Symbols
<1>3. Digits(value) = value
  <2>1. /\ Digits(value) \in Symbols /\ Len(Digits(value)) \in 0..n
        /\ \A i \in 1..Len(Digits(value)) : Digits(value)[i] = value[i]
        /\ Len(Digits(value)) < n => value[Len(Digits(value)) + 1] \notin DOMAIN Digit
    BY DigitsIs
  <2>2. Len(Digits(value)) = n
    <3> DEFINE m == Len(Digits(value))
    <3>1. m < n => m + 1 \in 1..n
      BY <1>2, <2>1
    <3> QED
      BY <1>1, <1>2, <2>1, <3>1
  <2> QED
    BY <2>1, <2>2, SameSymbols
<1>4. PICK f : Sums(f, d, n, InLong) /\ Number(value) = f[n]
  BY <1>3, NumberIs
<1>5. PICK c : Sums(c, d, n, AsIs) /\ Plain(value) = c[n]
  BY <1>1, PlainIs
<1> HIDE DEF n, d
<1>6. \A k \in 0..n : c[k] \in Int
  BY <1>5 DEF Sums
<1>7. \A k \in 1..n : c[k] = 10 * c[k - 1] + d[k] /\ d[k] \in 0..9 /\ c[k - 1] \in Int
  <2>1. ASSUME NEW k \in 1..n
        PROVE  c[k] = 10 * c[k - 1] + d[k] /\ d[k] \in 0..9 /\ c[k - 1] \in Int
    <3>1. k - 1 \in 0..n
      BY <1>2
    <3>2. c[k - 1] \in Int /\ d[k] \in 0..9
      BY <1>2, <1>6, <3>1
    <3>3. 10 * c[k - 1] + d[k] \in Int
      BY <3>2
    <3>4. c[k] = AsIs[10 * c[k - 1] + d[k]]
      BY <1>5 DEF Sums
    <3> QED
      BY <3>2, <3>3, <3>4 DEF AsIs
  <2> QED
    BY <2>1
<1>8. \A k \in 0..n : c[k] >= 0
  <2> DEFINE T == {k \in 0..n : c[k] >= 0}
  <2>1. 0 \in T
    BY <1>2, <1>5 DEF Sums
  <2>2. ASSUME NEW k \in 1..n, k - 1 \in T PROVE k \in T
    <3>1. k \in 0..n /\ c[k - 1] >= 0
      BY <1>2, <2>2
    <3>2. c[k] >= 0
      BY <1>7, <3>1
    <3> QED
      BY <3>1, <3>2
  <2> HIDE DEF T
  <2>3. \A k \in 0..n : k \in T
    BY <1>2, <2>1, <2>2, UpTo
  <2> QED
    BY <2>3 DEF T
<1>9. \A k \in 0..n : c[n - k] <= c[n]
  <2> DEFINE T == {k \in 0..n : c[n - k] <= c[n]}
  <2>1. 0 \in T
    <3>1. 0 \in 0..n /\ n - 0 = n /\ n \in 0..n
      BY <1>2
    <3> QED
      BY <1>6, <3>1
  <2>2. ASSUME NEW k \in 1..n, k - 1 \in T PROVE k \in T
    <3> DEFINE i == n - (k - 1)
    <3>1. /\ k \in 0..n /\ i \in 1..n /\ i - 1 = n - k /\ i - 1 \in 0..n
          /\ i \in 0..n /\ n \in 0..n
      BY <1>2
    <3>2. c[i] <= c[n]
      BY <2>2
    <3> HIDE DEF i
    <3>3. c[i - 1] <= c[i]
      BY <1>7, <1>8, <3>1
    <3>4. c[i - 1] <= c[n]
      BY <1>6, <3>1, <3>2, <3>3
    <3> QED
      BY <3>1, <3>4
  <2> HIDE DEF T
  <2>3. \A k \in 0..n : k \in T
    BY <1>2, <2>1, <2>2, UpTo
  <2> QED
    BY <2>3 DEF T
<1>10. \A k \in 0..n : c[k] \in 0..LongHalf - 1
  <2>1. ASSUME NEW k \in 0..n PROVE c[k] \in 0..LongHalf - 1
    <3>1. n - k \in 0..n /\ n - (n - k) = k /\ n \in 0..n
      BY <1>2
    <3>2. c[k] <= c[n] /\ c[k] >= 0 /\ c[k] \in Int /\ c[n] \in Int
      BY <1>6, <1>8, <1>9, <3>1
    <3>3. c[n] <= LongHalf - 1
      BY <1>2, <1>5
    <3> QED
      BY <1>2, <3>2, <3>3
  <2> QED
    BY <2>1
<1>11. \A k \in 0..n : f[k] = c[k]
  <2> DEFINE T == {k \in 0..n : f[k] = c[k]}
  <2>1. 0 \in T
    BY <1>2, <1>4, <1>5 DEF Sums
  <2>2. ASSUME NEW k \in 1..n, k - 1 \in T PROVE k \in T
    <3>1. k \in 0..n /\ f[k - 1] = c[k - 1]
      BY <1>2, <2>2
    <3>2. f[k] = InLong[10 * c[k - 1] + d[k]]
      BY <1>4, <3>1 DEF Sums
    <3>3. f[k] = InLong[c[k]]
      BY <1>7, <3>2
    <3>4. Wrap(c[k]) = c[k] /\ c[k] \in Int
      BY <1>6, <1>10, <3>1, WrapKeeps
    <3>5. f[k] = c[k]
      BY <3>3, <3>4 DEF InLong
    <3> QED
      BY <3>1, <3>5
  <2> HIDE DEF T
  <2>3. \A k \in 0..n : k \in T
    BY <1>2, <2>1, <2>2, UpTo
  <2> QED
    BY <2>3 DEF T
<1>12. n \in 0..n
  BY <1>2
<1> QED
  BY <1>4, <1>5, <1>11, <1>12

-----------------------------------------------------------------------------
(* What the file says takes effect.                                        *)

\* No file is longer than what one Read() takes in.
FilesFit ==
    \A n \in 0..MaxLines : \A f \in [1..n -> Lines] : Len(FlattenSeq(FileLines(f))) <= MaxRead

\* The file is whole in the buffer, the snapshot is what nw_read_prefs makes of
\* it, and the last request has the voice this snapshot gives its sex.
FileInv ==
    /\ file \in Seq(Symbols) /\ LinesClean(file)
    /\ Len(FlattenSeq(FileLines(file))) <= MaxRead

SnapshotInv ==
    /\ stage = "open" => prefs = nw_read_prefs(Buffer(file))
    /\ stage = "closed" => request = NoRequest
    /\ request # NoRequest => request.voice = VoiceFor(request.sex)

PrefsInv == FileInv /\ SnapshotInv

LEMMA FileStart == FilesFit /\ Init => FileInv
<1> SUFFICES ASSUME FilesFit, Init PROVE FileInv
  OBVIOUS
<1>1. \A line \in Lines : line \in Symbols /\ \A j \in 1..Len(line) : line[j] # NewLine
  <2>1. STRING \subseteq Symbol
    BY DEF Symbol
  <2>2. \A line \in Seq(STRING) : line \in Symbols
    <3> DEFINE S == STRING
               T == Symbol
    <3>1. S \subseteq T
      BY <2>1
    <3> HIDE DEF S, T
    <3>2. \A line \in Seq(S) : line \in Seq(T)
      BY <3>1
    <3> QED
      BY <3>2 DEF S, T, Symbols
  <2>3. \A line \in Seq(STRING) : NewLine \notin Range(line) => \A j \in 1..Len(line) : line[j] # NewLine
    BY DEF Range
  <2> QED
    BY <2>2, <2>3, PrefsAssumption
<1>2. PICK n \in 0..MaxLines : file \in [1..n -> Lines]
  BY DEF Init
<1>3. n \in Nat
  BY PrefsAssumption
<1>4. file \in [1..n -> Symbols]
  BY <1>1, <1>2
<1>5. file \in Seq(Symbols) /\ Len(file) = n
  BY <1>3, <1>4
<1>6. LinesClean(file)
  BY <1>1, <1>2, <1>5 DEF LinesClean
<1>7. Len(FlattenSeq(FileLines(file))) <= MaxRead
  BY <1>2 DEF FilesFit
<1> QED
  BY <1>5, <1>6, <1>7 DEF FileInv

LEMMA PrefsStep == PrefsInv /\ [Next]_vars => PrefsInv'
<1> SUFFICES ASSUME PrefsInv, [Next]_vars PROVE PrefsInv'
  OBVIOUS
<1>1. file' = file
  BY DEF Next, Open, Close, Write, vars
<1>2. FileInv'
  BY <1>1 DEF PrefsInv, FileInv
<1> USE DEF PrefsInv, SnapshotInv
<1>3. CASE Open
  <2>1. stage = "closed" /\ request = NoRequest /\ request' = request
    BY <1>3 DEF Open
  <2>2. stage' # "closed" /\ (stage' = "open" => prefs' = nw_read_prefs(Buffer(file)))
    BY <1>3 DEF Open
  <2> QED
    BY <1>1, <1>2, <2>1, <2>2
<1>4. CASE Close
  BY <1>2, <1>4 DEF Close
<1>5. ASSUME NEW sex \in Sexes, NEW vol \in Volumes, NEW text \in Texts, Write(sex, vol, text)
      PROVE  PrefsInv'
  <2>1. stage' = stage /\ prefs' = prefs /\ stage # "closed"
    BY <1>5 DEF Write
  <2>2. \/ request' = NoRequest
        \/ request'.sex = sex /\ request'.voice = VoiceFor(sex)
    BY <1>5 DEF Write
  <2>3. VoiceFor(sex)' = VoiceFor(sex)
    BY <2>1 DEF VoiceFor
  <2>4. (request # NoRequest => request.voice = VoiceFor(request.sex))'
    <3>1. CASE request' = NoRequest
      BY <3>1
    <3>2. CASE request'.sex = sex /\ request'.voice = VoiceFor(sex)
      BY <2>1, <3>2 DEF VoiceFor
    <3> QED
      BY <2>2, <3>1, <3>2
  <2> QED
    BY <1>1, <1>2, <2>1, <2>4
<1>6. CASE UNCHANGED vars
  <2>1. stage' = stage /\ prefs' = prefs /\ request' = request
    BY <1>6 DEF vars
  <2> QED
    BY <1>1, <1>2, <2>1 DEF VoiceFor
<1> QED
  BY <1>3, <1>4, <1>5, <1>6 DEF Next

\* What the snapshot holds of the file.
LEMMA SnapshotIs ==
    ASSUME PrefsInv, stage = "open"
    PROVE  /\ Fits(voice) => prefs.voice = Setting(voice)
           /\ Fits(voice_male) => prefs.voice_male = Setting(voice_male)
           /\ Fits(voice_female) => prefs.voice_female = Setting(voice_female)
           /\ Fits(gain) => prefs.gain = GainOf(Setting(gain))
           /\ Fits(port) => prefs.port = PortOf(Setting(port))
           /\ ~IsSet(voice) => prefs.voice = Defaults.voice
           /\ ~IsSet(voice_male) => prefs.voice_male = Defaults.voice_male
           /\ ~IsSet(gain) => prefs.gain = GainOf(<<>>)
           /\ ~IsSet(port) => prefs.port = PortOf(<<>>)
<1> DEFINE got(key, default) == pref_get(Buffer(file), key, default)
<1>1. ASSUME NEW key \in Keys, NEW default
      PROVE  /\ ~IsSet(key) => got(key, default) = default
             /\ Fits(key) => got(key, default) = Setting(key)
  BY <1>1, SettingFound DEF PrefsInv, FileInv
<1>2. /\ prefs.voice = got(voice, Defaults.voice)
      /\ prefs.voice_male = got(voice_male, Defaults.voice_male)
      /\ prefs.voice_female = got(voice_female, Defaults.voice_female)
      /\ prefs.port = PortOf(got(port, <<>>))
      /\ prefs.gain = GainOf(got(gain, <<>>))
  BY DEF PrefsInv, SnapshotInv, nw_read_prefs
<1> HIDE DEF got
<1>3. {voice, voice_male, voice_female, port, gain} \subseteq Keys
  BY DEF Keys
<1>4. /\ ~IsSet(voice) => got(voice, Defaults.voice) = Defaults.voice
      /\ Fits(voice) => got(voice, Defaults.voice) = Setting(voice)
  BY <1>1, <1>3
<1>5. /\ ~IsSet(voice_male) => got(voice_male, Defaults.voice_male) = Defaults.voice_male
      /\ Fits(voice_male) => got(voice_male, Defaults.voice_male) = Setting(voice_male)
  BY <1>1, <1>3
<1>6. Fits(voice_female) => got(voice_female, Defaults.voice_female) = Setting(voice_female)
  BY <1>1, <1>3
<1>7. /\ ~IsSet(port) => got(port, <<>>) = <<>>
      /\ Fits(port) => got(port, <<>>) = Setting(port)
  BY <1>1, <1>3
<1>8. /\ ~IsSet(gain) => got(gain, <<>>) = <<>>
      /\ Fits(gain) => got(gain, <<>>) = Setting(gain)
  BY <1>1, <1>3
<1> QED
  BY <1>2, <1>4, <1>5, <1>6, <1>7, <1>8

\* The numbers that count.
LEMMA NumbersAre ==
    ASSUME NEW value \in Symbols
    PROVE  /\ Plain(value) \in 1..100 => GainOf(value) = Plain(value)
           /\ Plain(value) \in 1..PortSize - 1 => PortOf(value) = Plain(value)
<1>1. LongHalf \in Int /\ PortSize \in Int /\ PortSize <= LongHalf /\ 100 < LongHalf
  BY PrefsAssumption
<1>2. Plain(value) # 0 => value # <<>>
  BY Zenon DEF Plain
<1>3. ASSUME Plain(value) \in 1..100 PROVE GainOf(value) = Plain(value)
  <2>1. Plain(value) \in 1..LongHalf - 1 /\ Plain(value) # 0
    BY <1>1, <1>3
  <2>2. Number(value) = Plain(value) /\ value # <<>>
    BY <1>2, <2>1, PlainNumber
  <2> DEFINE p == Plain(value)
  <2>3. GainOf(value) = Max({1, Min({100, p})})
    BY <2>2 DEF GainOf
  <2>4. p \in 1..100
    BY <1>3
  <2> HIDE DEF p
  <2>5. Min({100, p}) = p
    <3>1. Min({100, p}) = IF 100 <= p THEN 100 ELSE p
      BY <2>4, MinOfTwo
    <3> QED
      BY <2>4, <3>1
  <2>6. Max({1, p}) = p
    BY <2>4, MaxOfTwo
  <2> QED
    BY <2>3, <2>5, <2>6 DEF p
<1>4. ASSUME Plain(value) \in 1..PortSize - 1 PROVE PortOf(value) = Plain(value)
  <2>1. Plain(value) \in 1..LongHalf - 1 /\ Plain(value) # 0
    BY <1>1, <1>4
  <2>2. Number(value) = Plain(value) /\ value # <<>>
    BY <1>2, <2>1, PlainNumber
  <2>3. Number(value) > 0
    BY <2>1, <2>2
  <2> QED
    BY <2>2, <2>3 DEF PortOf
<1> QED
  BY <1>3, <1>4

LEMMA SettingType ==
    ASSUME PrefsInv, NEW key \in Keys, Fits(key)
    PROVE  Setting(key) \in Symbols
<1>1. IsSet(key)
  BY DEF Fits
<1> QED
  BY <1>1, SettingFound DEF PrefsInv, FileInv

LEMMA HonouredHolds == PrefsInv => SettingsHonoured
<1> SUFFICES ASSUME PrefsInv, stage = "open" PROVE SettingsHonoured
  BY DEF SettingsHonoured
<1>1. gain \in Keys /\ port \in Keys
  BY DEF Keys
<1>2. Fits(gain) /\ Plain(Setting(gain)) \in 1..100 => prefs.gain = Plain(Setting(gain))
  BY <1>1, SnapshotIs, NumbersAre, SettingType
<1>3. Fits(port) /\ Plain(Setting(port)) \in 1..PortSize - 1 => prefs.port = Plain(Setting(port))
  BY <1>1, SnapshotIs, NumbersAre, SettingType
<1>4. GainOf(<<>>) = Defaults.gain /\ PortOf(<<>>) = Defaults.port
  BY DEF GainOf, PortOf
<1> QED
  BY <1>2, <1>3, <1>4, SnapshotIs DEF SettingsHonoured

LEMMA VoiceHolds == PrefsInv => SexSelectsVoice
<1> SUFFICES ASSUME PrefsInv, stage = "open", request # NoRequest PROVE SexSelectsVoice
  BY DEF SexSelectsVoice
<1> DEFINE own == IF request.sex = "MALE" THEN voice_male
                  ELSE IF request.sex = "FEMALE" THEN voice_female ELSE voice
<1>1. request.voice = VoiceFor(request.sex)
  BY DEF PrefsInv, SnapshotInv
<1>2. CASE request.sex = "MALE"
  <2>1. own = voice_male
    BY <1>2
  <2>2. VoiceFor("MALE") = IF prefs.voice_male # <<>> THEN prefs.voice_male ELSE prefs.voice
    BY DEF VoiceFor
  <2> QED
    BY <1>1, <1>2, <2>1, <2>2, SnapshotIs DEF SexSelectsVoice
<1>3. CASE request.sex = "FEMALE"
  <2>1. own = voice_female
    BY <1>3
  <2>2. VoiceFor("FEMALE") = IF prefs.voice_female # <<>> THEN prefs.voice_female ELSE prefs.voice
    BY DEF VoiceFor
  <2> QED
    BY <1>1, <1>3, <2>1, <2>2, SnapshotIs DEF SexSelectsVoice
<1>4. CASE request.sex # "MALE" /\ request.sex # "FEMALE"
  <2>1. own = voice
    BY <1>4
  <2>2. VoiceFor(request.sex) = prefs.voice
    BY <1>4 DEF VoiceFor
  <2> QED
    BY <1>1, <1>4, <2>1, <2>2, SnapshotIs DEF SexSelectsVoice
<1> QED
  BY <1>2, <1>3, <1>4

LEMMA PrefsHold == FilesFit => (Spec => []PrefsInv)
<1> SUFFICES ASSUME FilesFit PROVE Spec => []PrefsInv
  OBVIOUS
<1>1. Init => PrefsInv
  <2>1. Init => SnapshotInv
    BY DEF Init, SnapshotInv
  <2> QED
    BY <2>1, FileStart DEF PrefsInv
<1> QED
  BY <1>1, PrefsStep, PTL DEF Spec

\* The settings of every file that one Read() takes in take effect.
THEOREM Honoured == FilesFit => (Spec => []SettingsHonoured)
BY PrefsHold, HonouredHolds, PTL

\* Of such a file, the voice of a request is the one it gives the caller's sex,
\* or the common one.
THEOREM SexHonoured == FilesFit => (Spec => []SexSelectsVoice)
BY PrefsHold, VoiceHolds, PTL

-----------------------------------------------------------------------------
(* The other reader of the file.                                           *)

\* A text from its first symbol that is not blank to its last one.
LEMMA TrimOf ==
    ASSUME NEW s \in Symbols, NEW a \in 1..Len(s), NEW z \in a..Len(s),
           s[a] # Blank, s[z] # Blank,
           \A i \in 1..a - 1 : s[i] = Blank, \A i \in z + 1..Len(s) : s[i] = Blank
    PROVE  /\ Trim(s) \in Symbols /\ Len(Trim(s)) = z - a + 1
           /\ \A j \in 1..z - a + 1 : Trim(s)[j] = s[a + j - 1]
<1> DEFINE n == Len(s)
           text == {i \in 1..n : s[i] # Blank}
<1>1. n \in Nat /\ a \in Int /\ z \in Int /\ a >= 1 /\ a <= z /\ z <= n
  BY DEF Symbols
<1>2. a \in text /\ z \in text /\ text \subseteq 1..n /\ \A i \in text : a <= i /\ i <= z
  <2>1. a \in text /\ z \in text /\ text \subseteq 1..n
    <3>1. z \in 1..n
      BY <1>1
    <3> QED
      BY <3>1
  <2>2. ASSUME NEW i \in text PROVE a <= i /\ i <= z
    <3>1. i \in 1..n /\ s[i] # Blank
      OBVIOUS
    <3>2. i \notin 1..a - 1 /\ i \notin z + 1..n
      BY <3>1
    <3> HIDE DEF n, text
    <3> QED
      BY <1>1, <3>1, <3>2
  <2> QED
    BY <2>1, <2>2
<1>3. Trim(s) = IF text = {} THEN <<>> ELSE SubSeq(s, Min(text), Max(text))
  BY DEF Trim
<1> HIDE DEF text
<1>4. Min(text) = a /\ Max(text) = z
  <2>1. 1 \in Int /\ n \in Int /\ text # {}
    BY <1>1, <1>2
  <2> HIDE DEF n
  <2>2. Min(text) \in text /\ \A i \in text : Min(text) <= i
    BY <1>2, <2>1, MinIs
  <2>3. Max(text) \in text /\ \A i \in text : Max(text) >= i
    BY <1>2, <2>1, MaxIs
  <2>4. Min(text) \in Int /\ Max(text) \in Int
    <3>1. \A i \in text : i \in Int
      BY <1>2
    <3> QED
      BY <2>2, <2>3, <3>1
  <2>5. Min(text) <= a /\ a <= Min(text) /\ Max(text) >= z /\ Max(text) <= z
    BY <1>2, <2>2, <2>3
  <2> QED
    BY <1>1, <2>4, <2>5
<1>5. Trim(s) = SubSeq(s, a, z)
  BY <1>2, <1>3, <1>4
<1>6. /\ SubSeq(s, a, z) \in Symbols
      /\ Len(SubSeq(s, a, z)) = IF a <= z THEN z - a + 1 ELSE 0
      /\ \A i \in 1..z - a + 1 : SubSeq(s, a, z)[i] = s[a + i - 1]
  BY <1>1, PartType
<1> QED
  BY <1>1, <1>5, <1>6

\* A comment behind a word is cut off, and the blanks with it.
LEMMA CommentCut ==
    ASSUME NEW text \in Symbols, NEW val \in Symbols,
           UpToBlank(text) # <<>>,
           Len(UpToBlank(text)) <= Len(val), Len(val) <= Len(text),
           \A j \in 1..Len(val) : val[j] = text[j],
           \A j \in Len(val) + 1..Len(text) : text[j] = Blank,
           val[Len(val)] # Blank,
           \/ FromText(SubSeq(text, Len(UpToBlank(text)) + 1, Len(text))) = <<>>
           \/ Head(FromText(SubSeq(text, Len(UpToBlank(text)) + 1, Len(text)))) = "#"
    PROVE  Uncommented(val) = UpToBlank(text)
<1> DEFINE n == Len(text)
           y == Len(val)
           v == UpToBlank(text)
           l == Len(v)
           tail == SubSeq(text, l + 1, n)
           behind == FromText(tail)
           marks == {i \in 2..y : val[i] = "#" /\ val[i - 1] = Blank}
           x == Min(marks \cup {y + 1})
           w == SubSeq(val, 1, x - 1)
<1>1. /\ n \in Nat /\ y \in Nat /\ l <= y /\ y <= n
      /\ \A j \in 1..y : val[j] = text[j]
      /\ \A j \in y + 1..n : text[j] = Blank
      /\ val[y] # Blank
      /\ behind = <<>> \/ Head(behind) = "#"
  BY DEF Symbols
<1>2. /\ v \in Symbols /\ l \in 1..n
      /\ \A j \in 1..l : v[j] = text[j] /\ text[j] # Blank
      /\ l < n => text[l + 1] = Blank
  <2>1. /\ v \in Symbols /\ l \in 0..n
        /\ \A j \in 1..l : v[j] = text[j] /\ text[j] # Blank
        /\ l < n => text[l + 1] = Blank
    BY WordIs
  <2>2. l # 0
    BY <2>1, EmptySeq DEF Symbols
  <2> HIDE DEF l, n
  <2>3. l \in 1..n
    BY <2>1, <2>2
  <2> QED
    BY <2>1, <2>3
<1>3. tail \in Symbols /\ Len(tail) = n - l /\ \A i \in 1..n - l : tail[i] = text[l + i]
  <2>1. l \in 0..n
    BY <1>2
  <2> HIDE DEF l, v
  <2> QED
    BY <2>1, RestIs
<1>4. Uncommented(val) = Trim(w)
  BY DEF Uncommented
<1> HIDE DEF n, y, v, l, tail
<1>5. PICK d : Skips(tail, d)
  BY <1>3, TextIs
<1>6. /\ d \in 0..n - l /\ behind \in Symbols /\ Len(behind) = n - l - d
      /\ \A j \in 1..d : tail[j] = Blank
      /\ \A j \in 1..n - l - d : behind[j] = tail[d + j]
  BY <1>3, <1>5 DEF Skips
<1> HIDE DEF behind
\* The blanks behind the word, and where the comment begins if there is one.
<1>7. \A i \in l + 1..l + d : text[i] = Blank
  <2>1. ASSUME NEW i \in l + 1..l + d PROVE text[i] = Blank
    <3>1. i - l \in 1..d /\ i - l \in 1..n - l /\ l + (i - l) = i
      BY <1>1, <1>2, <1>6
    <3> QED
      BY <1>3, <1>6, <3>1
  <2> QED
    BY <2>1
<1>8. \/ l + d = n
      \/ l + d < n /\ text[l + d + 1] = "#"
  <2>1. CASE behind = <<>>
    <3>1. n - l - d = 0
      BY <1>6, <2>1
    <3> QED
      BY <1>1, <1>2, <1>6, <3>1
  <2>2. CASE behind # <<>> /\ Head(behind) = "#"
    <3>1. Len(behind) # 0
      BY <1>6, <2>2, EmptySeq DEF Symbols
    <3>2. 1 \in 1..n - l - d /\ d + 1 \in 1..n - l /\ l + (d + 1) = l + d + 1 /\ l + d < n
      BY <1>1, <1>2, <1>6, <3>1
    <3>3. behind[1] = "#"
      <4>1. \A u \in Seq(Symbol) : u # <<>> => Head(u) = u[1]
        OBVIOUS
      <4> QED
        BY <1>6, <2>2, <4>1 DEF Symbols
    <3>4. text[l + (d + 1)] = "#"
      BY <1>3, <1>6, <3>2, <3>3
    <3> QED
      BY <3>2, <3>4
  <2> QED
    BY <1>1, <2>1, <2>2
\* The word ends the text, or its comment begins behind a blank.
<1>9. \/ y = l
      \/ /\ d >= 1 /\ l + d + 1 <= y
         /\ val[l + d + 1] = "#" /\ val[l + d] = Blank
  <2>1. CASE l + d = n
    <3>1. ~(l < y)
      <4>1. l < y => y \in l + 1..l + d /\ y \in 1..y
        BY <1>1, <1>2, <2>1
      <4> QED
        BY <1>1, <1>7, <4>1
    <3> QED
      BY <1>1, <1>2, <3>1
  <2>2. CASE l + d < n /\ text[l + d + 1] = "#"
    <3> DEFINE q == l + d + 1
    <3>1. q \in 1..n /\ text[q] = "#" /\ text[q] # Blank /\ l \in Int /\ d \in Int /\ d >= 0
      <4>1. q \in 1..n /\ l \in Int /\ d \in Int /\ d >= 0
        BY <1>1, <1>2, <1>6, <2>2
      <4>2. text[q] = "#"
        BY <2>2
      <4> HIDE DEF q
      <4> QED
        BY <4>1, <4>2 DEF Blank
    <3>2. q <= y
      <4>1. ~(q <= y) => q \in y + 1..n
        BY <1>1, <3>1
      <4> HIDE DEF q
      <4> QED
        BY <1>1, <3>1, <4>1
    <3>3. d >= 1
      <4>1. d = 0 => q = l + 1 /\ l < n
        BY <1>1, <1>2, <3>1
      <4> HIDE DEF q
      <4>2. d # 0
        BY <1>2, <3>1, <4>1
      <4> QED
        BY <3>1, <4>2
    <3>4. val[q] = "#"
      <4>1. q \in 1..y
        BY <3>1, <3>2
      <4> HIDE DEF q
      <4> QED
        BY <1>1, <3>1, <4>1
    <3>5. val[l + d] = Blank
      <4>1. l + d \in 1..y /\ l + d \in l + 1..l + d
        BY <1>1, <1>2, <3>1, <3>2, <3>3
      <4> QED
        BY <1>1, <1>7, <4>1
    <3> QED
      BY <3>2, <3>3, <3>4, <3>5
  <2> QED
    BY <1>8, <2>1, <2>2
\* Before the comment nothing looks like one.
<1>10. \A i \in marks : ~(i <= l + d)
  <2>1. ASSUME NEW i \in marks, i <= l + d PROVE FALSE
    <3>1. i \in 2..y /\ val[i] = "#" /\ val[i - 1] = Blank
      OBVIOUS
    <3> HIDE DEF marks
    <3>2. i \in 1..y /\ i - 1 \in 1..y
      BY <1>1, <3>1
    <3>3. val[i] = text[i] /\ val[i - 1] = text[i - 1]
      BY <1>1, <3>2
    <3>4. CASE i <= l
      <4>1. i - 1 \in 1..l
        BY <1>2, <3>1, <3>4
      <4> QED
        BY <1>2, <3>1, <3>3, <4>1
    <3>5. CASE ~(i <= l)
      <4>1. i \in l + 1..l + d
        BY <1>2, <2>1, <3>1, <3>5
      <4> QED
        BY <1>7, <3>1, <3>3, <4>1 DEF Blank
    <3> QED
      BY <3>4, <3>5
  <2> QED
    BY <2>1
<1>11. x - 1 \in l..y /\ x - 1 <= l + d /\ x \in Int
  <2>1. marks \cup {y + 1} \subseteq 1..y + 1 /\ marks \cup {y + 1} # {}
    BY <1>1
  <2>2. x \in marks \cup {y + 1} /\ \A i \in marks \cup {y + 1} : x <= i
    <3>1. 1 \in Int /\ y + 1 \in Int
      BY <1>1
    <3> HIDE DEF marks
    <3> QED
      BY <2>1, <3>1, MinIs
  <2> HIDE DEF x
  <2>3. CASE y = l
    <3>1. x = y + 1
      <4>1. \A i \in marks : i <= l + d
        BY <1>1, <1>2, <1>6, <2>3
      <4> HIDE DEF marks
      <4> QED
        BY <1>10, <2>2, <4>1
    <3> QED
      BY <1>1, <1>2, <1>6, <2>3, <3>1
  <2>4. CASE y # l
    <3> DEFINE q == l + d + 1
    <3>1. d >= 1 /\ q <= y /\ val[q] = "#" /\ val[q - 1] = Blank /\ q \in Int
      <4>1. q - 1 = l + d /\ q \in Int
        BY <1>2, <1>6
      <4> QED
        BY <1>9, <2>4, <4>1
    <3>2. q \in marks
      <4>1. q \in 2..y
        BY <1>1, <1>2, <1>6, <3>1
      <4> HIDE DEF q
      <4> QED
        BY <3>1, <4>1
    <3>3. x <= q /\ x \in 1..y + 1
      BY <2>1, <2>2, <3>2
    <3>4. ~(x <= l + d)
      <4>1. x \in marks => ~(x <= l + d)
        BY <1>10
      <4>2. ~(y + 1 <= l + d)
        BY <1>1, <1>2, <1>6, <3>1
      <4> HIDE DEF marks, q
      <4> QED
        BY <2>2, <4>1, <4>2
    <3>5. x \in Int /\ x <= q /\ l + d < x /\ x <= y + 1
      BY <1>1, <1>2, <1>6, <3>3, <3>4
    <3> QED
      BY <1>1, <1>2, <1>6, <3>5
  <2> QED
    BY <2>3, <2>4
<1> HIDE DEF x, marks
<1>12. w \in Symbols /\ Len(w) = x - 1 /\ \A i \in 1..x - 1 : w[i] = text[i]
  <2> DEFINE z == x - 1
  <2>1. /\ z \in Int /\ 1 \in Int /\ 1 >= 1 /\ z <= Len(val) /\ 1 <= z /\ z - 1 + 1 = z
        /\ \A i \in 1..z : 1 + i - 1 = i /\ i \in 1..y
    BY <1>1, <1>2, <1>11 DEF y
  <2> HIDE DEF z
  <2>2. /\ SubSeq(val, 1, z) \in Symbols /\ Len(SubSeq(val, 1, z)) = z
        /\ \A i \in 1..z : SubSeq(val, 1, z)[i] = val[1 + i - 1]
    BY <2>1, PartType
  <2>3. \A i \in 1..z : SubSeq(val, 1, z)[i] = text[i]
    BY <1>1, <2>1, <2>2
  <2> QED
    BY <2>2, <2>3 DEF z
<1> HIDE DEF w
<1>13. Trim(w) \in Symbols /\ Len(Trim(w)) = l /\ \A j \in 1..l : Trim(w)[j] = v[j]
  <2>1. 1 \in 1..Len(w) /\ l \in 1..Len(w) /\ l - 1 + 1 = l /\ l \in 1..l /\ 1 \in 1..l
    BY <1>2, <1>11, <1>12
  <2>2. w[1] # Blank /\ w[l] # Blank
    BY <1>2, <1>12, <2>1
  <2>3. \A i \in l + 1..Len(w) : w[i] = Blank
    <3>1. \A i \in l + 1..Len(w) : i \in 1..x - 1 /\ i \in l + 1..l + d
      BY <1>2, <1>6, <1>11, <1>12
    <3> QED
      BY <1>7, <1>12, <3>1
  <2>4. \A i \in 1..1 - 1 : w[i] = Blank
    OBVIOUS
  <2> DEFINE a == 1
  <2>5. /\ w \in Symbols /\ a \in 1..Len(w) /\ l \in a..Len(w) /\ w[a] # Blank /\ w[l] # Blank
        /\ \A i \in 1..a - 1 : w[i] = Blank
    BY <1>12, <2>1, <2>2, <2>4
  <2> HIDE DEF a
  <2>6. /\ Trim(w) \in Symbols /\ Len(Trim(w)) = l - a + 1
        /\ \A j \in 1..l - a + 1 : Trim(w)[j] = w[a + j - 1]
    BY <2>3, <2>5, TrimOf
  <2>7. \A j \in 1..l : 1 + j - 1 = j /\ j \in 1..x - 1
    BY <1>2, <1>11
  <2> QED
    BY <1>2, <1>12, <2>1, <2>6, <2>7 DEF a
<1>14. Trim(w) = v
  BY <1>2, <1>13, SameSymbols DEF l
<1> QED
  BY <1>4, <1>14 DEF v

\* At most a comment stands behind the value of a line.
OneWord(line, key) ==
    LET text == FromText(SubSeq(line, Len(key) + 1, Len(line)))
        behind == FromText(SubSeq(text, Len(LineValue(line, key)) + 1, Len(text)))
    IN  LineValue(line, key) # <<>> /\ (behind = <<>> \/ Head(behind) = "#")

LEMMA ConfigValue ==
    ASSUME NEW line \in Symbols, NEW key \in Keys, Sets(line, key), KeyOf(line) = key,
           OneWord(line, key)
    PROVE  ValueOf(line) = LineValue(line, key)
<1> DEFINE n == Len(line)
           m == Len(key)
           rest == SubSeq(line, m + 1, n)
           text == FromText(rest)
           v == UpToBlank(text)
           l == Len(v)
           solid == {i \in 1..n : line[i] # Blank}
           z == Max(solid)
           t == Trim(line)
           r == SubSeq(t, m + 1, Len(t))
           val == Trim(r)
<1>1. n \in Nat /\ m \in Nat /\ m > 0 /\ m + 1 <= n /\ m \in 0..n
  <2>1. n \in Nat /\ m \in Nat /\ m > 0
    BY KeysType DEF Symbols
  <2>2. m + 1 <= n
    BY DEF Sets
  <2> HIDE DEF n, m
  <2> QED
    BY <2>1, <2>2
<1>2. line[1] # Blank /\ line[m + 1] = Blank
  <2>1. 1 \in 1..m
    BY <1>1
  <2> QED
    BY <2>1, KeysType DEF Sets
<1>3. /\ text = FromText(rest) /\ v = UpToBlank(text) /\ v # <<>> /\ v = LineValue(line, key)
      /\ \/ FromText(SubSeq(text, l + 1, Len(text))) = <<>>
         \/ Head(FromText(SubSeq(text, l + 1, Len(text)))) = "#"
  BY DEF OneWord, LineValue
<1>4. ValueOf(line) = Uncommented(val)
  <2>1. KeyOf(line) = key
    OBVIOUS
  <2>2. ValueOf(line) = Uncommented(Trim(SubSeq(Trim(line), Len(KeyOf(line)) + 1, Len(Trim(line)))))
    BY DEF ValueOf
  <2> QED
    BY <2>1, <2>2
<1>5. rest \in Symbols /\ Len(rest) = n - m /\ \A i \in 1..n - m : rest[i] = line[m + i]
  BY <1>1, RestIs
<1> HIDE DEF n, m, rest
<1>6. PICK d : Skips(rest, d)
  BY <1>5, TextIs
<1>7. /\ d \in 0..n - m /\ text \in Symbols /\ Len(text) = n - m - d
      /\ \A j \in 1..d : rest[j] = Blank
      /\ \A j \in 1..n - m - d : text[j] = rest[d + j]
      /\ d < n - m => rest[d + 1] # Blank
  BY <1>5, <1>6 DEF Skips
<1> HIDE DEF text
<1>8. /\ v \in Symbols /\ l \in 1..n - m - d
      /\ \A j \in 1..l : v[j] = text[j] /\ text[j] # Blank
  <2>1. /\ v \in Symbols /\ l \in 0..n - m - d
        /\ \A j \in 1..l : v[j] = text[j] /\ text[j] # Blank
    BY <1>7, WordIs
  <2>2. l # 0
    BY <1>3, <2>1, EmptySeq DEF Symbols
  <2> HIDE DEF l, v
  <2>3. l \in 1..n - m - d
    BY <2>1, <2>2
  <2> QED
    BY <2>1, <2>3
<1> HIDE DEF v, l
\* The line, symbol by symbol.
<1>9. /\ m \in Int /\ n \in Int /\ d \in Int /\ d >= 0 /\ l \in Int /\ l >= 1
      /\ m + d + l <= n
  BY <1>1, <1>7, <1>8
<1>10. \A j \in 1..n - m - d : text[j] = line[m + d + j]
  <2>1. \A j \in 1..n - m - d : d + j \in 1..n - m
    BY <1>9
  <2>2. \A j \in 1..n - m - d : m + (d + j) = m + d + j
    BY <1>9
  <2> QED
    BY <1>5, <1>7, <2>1, <2>2
<1>11. \A j \in 1..d : line[m + j] = Blank
  <2>1. \A j \in 1..d : j \in 1..n - m
    BY <1>9
  <2> QED
    BY <1>5, <1>7, <2>1
<1>12. line[m + d + 1] # Blank /\ line[m + d + l] # Blank
  <2>1. 1 \in 1..l /\ l \in 1..l /\ 1 \in 1..n - m - d /\ l \in 1..n - m - d
    BY <1>9
  <2> QED
    BY <1>8, <1>10, <2>1
<1>13. /\ z \in m + d + l..n /\ line[z] # Blank
       /\ \A i \in z + 1..n : line[i] = Blank
  <2>1. m + d + l \in solid
    <3>1. m + d + l \in 1..n
      BY <1>1, <1>9
    <3> QED
      BY <1>12, <3>1
  <2>2. solid \subseteq 1..n
    OBVIOUS
  <2>3. z \in solid /\ \A i \in solid : z >= i
    <3>1. 1 \in Int /\ n \in Int /\ solid # {}
      BY <1>9, <2>1
    <3> HIDE DEF solid
    <3> QED
      BY <2>2, <3>1, MaxIs
  <2> HIDE DEF z
  <2>4. z \in 1..n /\ line[z] # Blank
    BY <2>3
  <2>5. z >= m + d + l
    BY <2>1, <2>3
  <2>6. \A i \in z + 1..n : line[i] = Blank
    <3>1. ASSUME NEW i \in z + 1..n, line[i] # Blank PROVE FALSE
      <4>1. i \in 1..n /\ ~(z >= i)
        BY <1>9, <2>4, <3>1
      <4> QED
        BY <2>3, <3>1, <4>1
    <3> QED
      BY <3>1
  <2>7. z \in m + d + l..n
    BY <1>9, <2>4, <2>5
  <2> QED
    BY <2>4, <2>6, <2>7
<1> HIDE DEF z, solid
<1>14. t \in Symbols /\ Len(t) = z /\ \A j \in 1..z : t[j] = line[j]
  <2>1. 1 \in 1..Len(line) /\ z \in 1..Len(line) /\ z - 1 + 1 = z
    BY <1>1, <1>9, <1>13 DEF n
  <2>2. /\ t \in Symbols /\ Len(t) = z - 1 + 1
        /\ \A j \in 1..z - 1 + 1 : t[j] = line[1 + j - 1]
    <3>1. \A i \in 1..1 - 1 : line[i] = Blank
      OBVIOUS
    <3>2. \A i \in z + 1..Len(line) : line[i] = Blank
      BY <1>13 DEF n
    <3> HIDE DEF t
    <3> QED
      BY <1>2, <1>13, <2>1, <3>1, <3>2, TrimOf DEF t
  <2>3. \A j \in 1..z : 1 + j - 1 = j
    BY <1>9, <1>13
  <2> QED
    BY <2>1, <2>2, <2>3
<1> HIDE DEF t
<1>15. r \in Symbols /\ Len(r) = z - m /\ \A j \in 1..z - m : r[j] = line[m + j]
  <2>1. m \in 0..Len(t)
    BY <1>1, <1>9, <1>13, <1>14
  <2>2. r \in Symbols /\ Len(r) = Len(t) - m /\ \A j \in 1..Len(t) - m : r[j] = t[m + j]
    BY <1>14, <2>1, RestIs
  <2>3. \A j \in 1..z - m : m + j \in 1..z
    BY <1>1, <1>9, <1>13
  <2> QED
    BY <1>14, <2>2, <2>3
<1> HIDE DEF r
<1> DEFINE y == z - m - d
<1>16. /\ y \in Int /\ l <= y /\ y <= n - m - d /\ y >= 1
       /\ \A j \in 1..y : j \in 1..n - m - d
  BY <1>9, <1>13
<1>17. val \in Symbols /\ Len(val) = y /\ \A j \in 1..y : val[j] = text[j]
  <2> DEFINE a == d + 1
             b == z - m
  <2>1. a \in 1..Len(r) /\ b \in a..Len(r) /\ b - a + 1 = y /\ b \in Int /\ a \in Int
    BY <1>9, <1>13, <1>15
  <2>2. r[a] # Blank /\ r[b] # Blank
    <3>1. m + a = m + d + 1 /\ m + b = z /\ a \in 1..z - m /\ b \in 1..z - m
      BY <1>9, <1>13
    <3> HIDE DEF a, b
    <3> QED
      BY <1>12, <1>13, <1>15, <3>1
  <2>3. \A i \in 1..a - 1 : r[i] = Blank
    <3>1. \A i \in 1..a - 1 : i \in 1..d /\ i \in 1..z - m
      BY <1>9, <1>13
    <3> QED
      BY <1>11, <1>15, <3>1
  <2>4. \A i \in b + 1..Len(r) : r[i] = Blank
    BY <1>9, <1>13, <1>15
  <2>5. \A j \in 1..y : m + (a + j - 1) = m + d + j /\ a + j - 1 \in 1..z - m
    BY <1>9, <1>13
  <2> HIDE DEF a, b
  <2>6. /\ val \in Symbols /\ Len(val) = b - a + 1
        /\ \A j \in 1..b - a + 1 : val[j] = r[a + j - 1]
    BY <1>15, <2>1, <2>2, <2>3, <2>4, TrimOf
  <2> HIDE DEF val, y
  <2>7. ASSUME NEW j \in 1..y PROVE val[j] = text[j]
    <3>1. val[j] = r[a + j - 1]
      BY <2>1, <2>6
    <3>2. r[a + j - 1] = line[m + (a + j - 1)]
      BY <1>15, <2>5
    <3>3. line[m + (a + j - 1)] = line[m + d + j]
      BY <2>5
    <3> QED
      BY <1>10, <1>16, <3>1, <3>2, <3>3
  <2> QED
    BY <2>1, <2>6, <2>7
<1>18. val[y] # Blank
  <2>1. y \in 1..y /\ m + d + y = z
    BY <1>9, <1>13, <1>16
  <2> HIDE DEF y, val
  <2> QED
    BY <1>10, <1>13, <1>16, <1>17, <2>1
<1>19. \A j \in y + 1..n - m - d : text[j] = Blank
  <2>1. \A j \in y + 1..n - m - d : j \in 1..n - m - d /\ m + d + j \in z + 1..n
    BY <1>9, <1>13
  <2> QED
    BY <1>10, <1>13, <2>1
<1> HIDE DEF y, val
<1>20. Uncommented(val) = v
  <2>1. text \in Symbols /\ val \in Symbols /\ Len(val) <= Len(text)
    BY <1>7, <1>16, <1>17
  <2>2. v # <<>> /\ Len(v) <= Len(val)
    BY <1>3, <1>16, <1>17 DEF l
  <2>3. /\ \A j \in 1..Len(val) : val[j] = text[j]
        /\ \A j \in Len(val) + 1..Len(text) : text[j] = Blank
        /\ val[Len(val)] # Blank
    BY <1>7, <1>16, <1>17, <1>18, <1>19
  <2>4. \/ FromText(SubSeq(text, Len(v) + 1, Len(text))) = <<>>
        \/ Head(FromText(SubSeq(text, Len(v) + 1, Len(text)))) = "#"
    BY <1>3 DEF l
  <2> QED
    BY <2>1, <2>2, <2>3, <2>4, CommentCut DEF v
<1> QED
  BY <1>3, <1>4, <1>20

\* The client programs take the value of the only line, the one the device takes.
LEMMA ConfigIs ==
    ASSUME file \in Seq(Symbols), NEW key \in Keys, SetOnce(key)
    PROVE  read_config(file, key) = Setting(key)
<1> DEFINE i == Min(LinesOf(key))
           line == file[i]
<1>1. ConfigLines(file, key) = LinesOf(key) /\ Cardinality(ConfigLines(file, key)) = 1
  BY DEF SetOnce
<1>2. LinesOf(key) \subseteq 1..Len(file) /\ Len(file) \in Nat
  BY DEF LinesOf
<1>3. PICK o : LinesOf(key) = {o}
  <2>1. IsFiniteSet(LinesOf(key))
    <3>1. IsFiniteSet(1..Len(file))
      BY <1>2, FS_Interval
    <3> QED
      BY <1>2, <3>1, FS_Subset
  <2> QED
    BY <1>1, <2>1, FS_Singleton
<1>4. o \in 1..Len(file) /\ o \in Int
  BY <1>2, <1>3
<1>5. i = o /\ Max(LinesOf(key)) = o
  <2>1. {o} \subseteq o..o /\ {o} # {}
    BY <1>4
  <2>2. Min({o}) \in {o} /\ Max({o}) \in {o}
    BY <1>4, <2>1, MinIs, MaxIs
  <2> QED
    BY <1>3, <2>2
<1> HIDE DEF i
<1>6. line \in Symbols /\ o \in LinesOf(key) /\ o \in ConfigLines(file, key)
  BY <1>1, <1>3, <1>4, <1>5
<1>7. Blank \in Range(line) /\ UpToBlank(line) = key /\ KeyOf(line) = key
  BY <1>5, <1>6 DEF LinesOf, ConfigLines
<1>8. Sets(line, key)
  BY <1>6, <1>7, SetsIs
<1>9. Setting(key) = LineValue(line, key)
  BY DEF Setting, LineValue, i
<1>10. OneWord(line, key)
  <2>1. LET text == FromText(SubSeq(line, Len(key) + 1, Len(line)))
            behind == FromText(SubSeq(text, Len(Setting(key)) + 1, Len(text)))
        IN  Setting(key) # <<>> /\ (behind = <<>> \/ Head(behind) = "#")
    BY DEF SetOnce, i
  <2> HIDE DEF line
  <2> QED
    BY <1>9, <2>1 DEF OneWord
<1>11. read_config(file, key) = ValueOf(line)
  <2>1. ConfigLines(file, key) # {} /\ Max(ConfigLines(file, key)) = i
    BY <1>1, <1>3, <1>5
  <2> QED
    BY <2>1 DEF read_config
<1> HIDE DEF line
<1> QED
  BY <1>6, <1>7, <1>8, <1>9, <1>10, <1>11, ConfigValue

LEMMA AgreeHolds == PrefsInv => ReadersAgree
<1> SUFFICES ASSUME PrefsInv, stage = "open" PROVE ReadersAgree
  BY DEF ReadersAgree
<1>1. voice \in Keys /\ port \in Keys /\ file \in Seq(Symbols)
  BY DEF Keys, PrefsInv, FileInv
<1>2. SetOnce(voice) /\ Fits(voice) => read_config(file, voice) = prefs.voice
  BY <1>1, ConfigIs, SnapshotIs
<1>3. SetOnce(port) /\ Fits(port) /\ Plain(Setting(port)) \in 1..PortSize - 1
        => Plain(read_config(file, port)) = prefs.port
  <2>1. SetOnce(port) => read_config(file, port) = Setting(port)
    BY <1>1, ConfigIs
  <2>2. Fits(port) /\ Plain(Setting(port)) \in 1..PortSize - 1 => prefs.port = Plain(Setting(port))
    BY <1>1, SnapshotIs, NumbersAre, SettingType
  <2> QED
    BY <2>1, <2>2
<1> QED
  BY <1>2, <1>3 DEF ReadersAgree

\* Of such a file, the device and the client programs take the same voice and
\* the same port, each set once by one word.
THEOREM ReadersDoAgree == FilesFit => (Spec => []ReadersAgree)
BY PrefsHold, AgreeHolds, PTL
=============================================================================
