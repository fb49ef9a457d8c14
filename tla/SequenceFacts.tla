--------------------------- MODULE SequenceFacts ---------------------------
(***************************************************************************)
(* What the operators on sequences do to their elements, for sequences of  *)
(* any length: concatenation, sums, a table that is sorted and searched.   *)
(* And induction, which the proofs about recursive functions need.         *)
(***************************************************************************)
EXTENDS Integers, Sequences, Functions, Sums, SortedTable, SequenceTheorems,
        WellFoundedInduction, TLAPS

LEMMA RangeFacts ==
  ASSUME NEW S, NEW s \in Seq(S), NEW t \in Seq(S)
  PROVE  /\ Range(s) \subseteq S
         /\ Range(s \o t) = Range(s) \cup Range(t)
         /\ \A x \in S : Range(Append(s, x)) = Range(s) \cup {x}
         /\ s # << >> => /\ Head(s) \in S /\ Tail(s) \in Seq(S)
                         /\ Range(s) = {Head(s)} \cup Range(Tail(s))
<1>1. Range(s) \subseteq S
  BY DEF Range
<1>2. Range(s \o t) = Range(s) \cup Range(t)
  <2>1. ASSUME NEW x \in Range(s \o t)  PROVE  x \in Range(s) \cup Range(t)
    <3>1. PICK i \in 1 .. Len(s) + Len(t) : x = (s \o t)[i]
      BY DEF Range
    <3>2. CASE i <= Len(s)
      BY <3>1, <3>2 DEF Range
    <3>3. CASE i > Len(s)
      <4>1. x = t[i - Len(s)] /\ i - Len(s) \in 1 .. Len(t)
        BY <3>1, <3>3
      <4> QED
        BY <4>1 DEF Range
    <3> QED
      BY <3>2, <3>3
  <2>2. ASSUME NEW x \in Range(s)  PROVE  x \in Range(s \o t)
    <3>1. PICK i \in 1 .. Len(s) : x = s[i]
      BY DEF Range
    <3>2. i \in 1 .. Len(s \o t) /\ (s \o t)[i] = x
      BY <3>1
    <3> QED
      BY <3>2 DEF Range
  <2>3. ASSUME NEW x \in Range(t)  PROVE  x \in Range(s \o t)
    <3>1. PICK i \in 1 .. Len(t) : x = t[i]
      BY DEF Range
    <3>2. i + Len(s) \in 1 .. Len(s \o t) /\ (s \o t)[i + Len(s)] = x
      BY <3>1
    <3> QED
      BY <3>2 DEF Range
  <2> QED
    BY <2>1, <2>2, <2>3
<1>3. ASSUME NEW x \in S  PROVE  Range(Append(s, x)) = Range(s) \cup {x}
  <2>1. Len(Append(s, x)) = Len(s) + 1 /\ Append(s, x)[Len(s) + 1] = x
    OBVIOUS
  <2>2. \A i \in 1 .. Len(s) : Append(s, x)[i] = s[i]
    OBVIOUS
  <2>3. DOMAIN Append(s, x) = 1 .. Len(s) + 1 /\ DOMAIN s = 1 .. Len(s)
    OBVIOUS
  <2>4. Len(s) \in Nat
    OBVIOUS
  <2> QED
    BY <2>1, <2>2, <2>3, <2>4 DEF Range
<1>4. ASSUME s # << >>
      PROVE  /\ Head(s) \in S /\ Tail(s) \in Seq(S)
             /\ Range(s) = {Head(s)} \cup Range(Tail(s))
  <2>1. Len(s) \in Nat \ {0} /\ Head(s) = s[1] /\ Head(s) \in S /\ Tail(s) \in Seq(S)
    BY <1>4
  <2>2. Len(Tail(s)) = Len(s) - 1 /\ \A i \in 1 .. Len(s) - 1 : Tail(s)[i] = s[i + 1]
    BY <1>4
  <2>3. ASSUME NEW i \in 1 .. Len(s)  PROVE  s[i] \in {Head(s)} \cup Range(Tail(s))
    <3>1. CASE i = 1
      BY <3>1, <2>1
    <3>2. CASE i # 1
      <4>1. i - 1 \in 1 .. Len(Tail(s)) /\ Tail(s)[i - 1] = s[i]
        BY <3>2, <2>1, <2>2
      <4>2. DOMAIN Tail(s) = 1 .. Len(Tail(s))
        BY <2>1
      <4>3. Tail(s)[i - 1] \in Range(Tail(s))
        BY <4>1, <4>2 DEF Range
      <4> QED
        BY <4>1, <4>3
    <3> QED
      BY <3>1, <3>2
  <2>4. ASSUME NEW i \in 1 .. Len(Tail(s))  PROVE  Tail(s)[i] \in Range(s)
    <3>1. i + 1 \in 1 .. Len(s) /\ Tail(s)[i] = s[i + 1]
      BY <2>1, <2>2
    <3> QED
      BY <3>1 DEF Range
  <2>5. Head(s) \in Range(s)
    BY <2>1 DEF Range
  <2>6. Range(s) \subseteq {Head(s)} \cup Range(Tail(s))
    BY <2>3 DEF Range
  <2>7. Range(Tail(s)) \subseteq Range(s)
    BY <2>1, <2>4 DEF Range
  <2> QED
    BY <2>1, <2>5, <2>6, <2>7
<1> QED
  BY <1>1, <1>2, <1>3, <1>4

LEMMA AppendIs ==
  ASSUME NEW S, NEW s \in Seq(S), NEW x \in S
  PROVE  Append(s, x) = [i \in 1 .. Len(s) + 1 |-> IF i = Len(s) + 1 THEN x ELSE s[i]]
<1> DEFINE n == Len(s)
           t == [i \in 1 .. n + 1 |-> IF i = n + 1 THEN x ELSE s[i]]
<1>1. n \in Nat /\ \A i \in 1 .. n : s[i] \in S
  OBVIOUS
<1>2. t \in [1 .. n + 1 -> S]
  BY <1>1
<1>3. t \in Seq(S) /\ Len(t) = n + 1
  BY <1>1, <1>2
<1>4. /\ Append(s, x) \in Seq(S) /\ Len(Append(s, x)) = n + 1
      /\ \A i \in 1 .. n : Append(s, x)[i] = s[i]
      /\ Append(s, x)[n + 1] = x
  BY AppendProperties
<1>5. ASSUME NEW i \in 1 .. n + 1  PROVE  Append(s, x)[i] = t[i]
  BY <1>1, <1>4
<1> HIDE DEF t
<1>6. Append(s, x) = t
  BY <1>3, <1>4, <1>5, SeqEqual
<1> QED
  BY <1>6 DEF t

LEMMA RangeOfFew ==
  /\ Range(<< >>) = {}
  /\ \A x : Range(<< x >>) = {x}
BY DEF Range

(* A rearrangement has the length and the elements of the sequence.        *)
LEMMA RearrangedFacts ==
  ASSUME NEW S, NEW s \in Seq(S), NEW f \in Bijection(1 .. Len(s), 1 .. Len(s))
  PROVE  LET r == [i \in 1 .. Len(s) |-> s[f[i]]] IN
         r \in Seq(S) /\ Len(r) = Len(s) /\ Range(r) = Range(s)
<1> DEFINE N == Len(s)
           r == [i \in 1 .. N |-> s[f[i]]]
<1>1. f \in [1 .. N -> 1 .. N] /\ \A j \in 1 .. N : \E i \in 1 .. N : f[i] = j
  BY DEF Bijection, Injection, Surjection
<1>2. r \in Seq(S) /\ Len(r) = N
  BY <1>1
<1>3. DOMAIN r = 1 .. N /\ DOMAIN s = 1 .. N
  OBVIOUS
<1>4. \A i \in 1 .. N : r[i] = s[f[i]] /\ f[i] \in 1 .. N
  BY <1>1
<1>5. ASSUME NEW x \in Range(r)  PROVE  x \in Range(s)
  BY <1>3, <1>4 DEF Range
<1>6. ASSUME NEW x \in Range(s)  PROVE  x \in Range(r)
  <2>1. PICK j \in 1 .. N : x = s[j]
    BY <1>3 DEF Range
  <2>2. PICK i \in 1 .. N : f[i] = j
    BY <1>1
  <2> QED
    BY <1>3, <1>4, <2>1, <2>2 DEF Range
<1> QED
  BY <1>2, <1>5, <1>6

-----------------------------------------------------------------------------
(* Induction.  The library states it for an operator, which no prover here *)
(* can put an expression in for; this one is about a set of numbers.       *)

LEMMA LeastNumber ==
  ASSUME NEW T \in SUBSET Nat, T # {}
  PROVE  \E n \in T : \A m \in T : n <= m
<1> DEFINE R == OpToRel(<, Nat)
<1>1. IsWellFoundedOn(R, Nat)
  BY NatLessThanWellFounded
<1>2. PICK n \in T : \A m \in T : ~ (<<m, n>> \in R)
  BY <1>1, WFMin
<1>3. \A m \in T : ~ m < n
  BY <1>2 DEF OpToRel
<1> QED
  BY <1>3

LEMMA NatSetInduction ==
  ASSUME NEW S, 0 \in S, \A n \in Nat : n \in S => n + 1 \in S
  PROVE  Nat \subseteq S
<1>1. SUFFICES ASSUME NEW k \in Nat, k \notin S
               PROVE  FALSE
  OBVIOUS
<1> DEFINE T == Nat \ S
<1>2. T \in SUBSET Nat /\ T # {}
  BY <1>1
<1> HIDE DEF T
<1>3. PICK n \in T : \A m \in T : n <= m
  BY <1>2, LeastNumber
<1>4. n # 0 /\ n \in Nat /\ n \notin S
  BY <1>3 DEF T
<1>5. n - 1 \in Nat /\ n - 1 \notin T
  BY <1>3, <1>4, <1>2
<1>6. n - 1 \in S
  BY <1>5 DEF T
<1>7. (n - 1) + 1 \in S
  BY <1>5, <1>6
<1> QED
  BY <1>4, <1>7

-----------------------------------------------------------------------------
(* The beginning of a sequence.                                            *)

LEMMA TakeNext ==
  ASSUME NEW S, NEW s \in Seq(S), NEW k \in Nat, k < Len(s)
  PROVE  /\ SubSeq(s, 1, k) \in Seq(S) /\ s[k + 1] \in S
         /\ SubSeq(s, 1, k + 1) = Append(SubSeq(s, 1, k), s[k + 1])
<1>1. Len(s) \in Nat /\ k + 1 \in 1 .. Len(s) /\ 1 \in 1 .. Len(s)
  OBVIOUS
<1>2. s[k + 1] \in S
  BY <1>1, ElementOfSeq
<1>3. SubSeq(s, 1, k) \in Seq(S)
  <2>1. \A i \in 1 .. k : s[i] \in S
    BY <1>1, ElementOfSeq
  <2> QED
    BY <2>1, SubSeqProperties
<1>4. SubSeq(s, 1, k + 1) = SubSeq(s, 1, (k + 1) - 1) \o << s[k + 1] >>
  BY <1>1, SubSeqRecursiveSecond
<1>5. (k + 1) - 1 = k
  OBVIOUS
<1>6. Append(SubSeq(s, 1, k), s[k + 1]) = SubSeq(s, 1, k) \o << s[k + 1] >>
  BY <1>2, <1>3, AppendIsConcat
<1> QED
  BY <1>2, <1>3, <1>4, <1>5, <1>6

LEMMA PrefixOfConcat ==
  ASSUME NEW S, NEW s \in Seq(S), NEW t \in Seq(S)
  PROVE  /\ s \o t \in Seq(S)
         /\ Len(s) <= Len(s \o t)
         /\ SubSeq(s, 1, Len(s)) = SubSeq(s \o t, 1, Len(s))
<1>1. /\ s \o t \in Seq(S) /\ Len(s \o t) = Len(s) + Len(t)
      /\ Len(s) \in Nat /\ Len(t) \in Nat
  BY ConcatProperties, LenProperties
<1>2. CASE Len(s) = 0
  BY <1>1, <1>2, SubSeqEmpty
<1>3. CASE Len(s) # 0
  BY <1>1, <1>3, SubSeqOfConcat1
<1> QED
  BY <1>1, <1>2, <1>3

-----------------------------------------------------------------------------
(* Sums.                                                                   *)

LEMMA TotalsFacts ==
  ASSUME NEW s \in Seq(Nat)
  PROVE  /\ Totals(s) \in [0 .. Len(s) -> Nat]
         /\ Totals(s)[0] = 0
         /\ \A i \in 1 .. Len(s) : Totals(s)[i] = Totals(s)[i - 1] + s[i]
<1> DEFINE Def(total) == [i \in 0 .. Len(s) |-> IF i = 0 THEN 0 ELSE total[i - 1] + s[i]]
<1>2. PICK f \in [0 .. Len(s) -> Nat] :
        f[0] = 0 /\ \A i \in 1 .. Len(s) : f[i] = f[i - 1] + s[i]
  <2> DEFINE Good(n, f) == /\ f \in [0 .. n -> Nat]
                           /\ f[0] = 0
                           /\ \A i \in 1 .. n : f[i] = f[i - 1] + s[i]
             S == { n \in Nat : n <= Len(s) => \E f : Good(n, f) }
  <2>1. 0 \in S
    <3>1. Good(0, [i \in 0 .. 0 |-> 0])
      OBVIOUS
    <3> QED
      BY <3>1
  <2>2. ASSUME NEW n \in Nat, n \in S, n + 1 <= Len(s)
        PROVE  \E f : Good(n + 1, f)
    <3>1. PICK f : Good(n, f)
      <4> HIDE DEF Good
      <4> QED
        BY <2>2
    <3> DEFINE g == [i \in 0 .. n + 1 |-> IF i <= n THEN f[i] ELSE f[n] + s[n + 1]]
    <3>2. s[n + 1] \in Nat /\ f[n] \in Nat
      BY <2>2, <3>1
    <3>3. g \in [0 .. n + 1 -> Nat] /\ g[0] = 0
      BY <3>1, <3>2
    <3>4. ASSUME NEW i \in 1 .. n + 1  PROVE  g[i] = g[i - 1] + s[i]
      <4>1. g[i - 1] = f[i - 1]
        OBVIOUS
      <4> QED
        BY <3>1, <4>1
    <3>5. Good(n + 1, g)
      BY <3>3, <3>4
    <3> HIDE DEF Good
    <3> QED
      BY <3>5
  <2>3. Nat \subseteq S
    <3>1. ASSUME NEW n \in Nat, n \in S  PROVE  n + 1 \in S
      <4> HIDE DEF Good
      <4> QED
        BY <2>2, <3>1
    <3> HIDE DEF S
    <3> QED
      BY <2>1, <3>1, NatSetInduction
  <2>4. \E f : Good(Len(s), f)
    <3> HIDE DEF Good
    <3> QED
      BY <2>3
  <2> QED
    BY <2>4
<1>3. f = Def(f)
  BY <1>2
<1> DEFINE T == CHOOSE total : total = Def(total)
<1>4. T = Def(T)
  BY <1>3
<1>5. Totals(s) = T
  BY DEF Totals
<1>6. Totals(s) = Def(Totals(s))
  BY <1>4, <1>5
<1>7. /\ DOMAIN Totals(s) = 0 .. Len(s) /\ Totals(s)[0] = 0
      /\ \A i \in 1 .. Len(s) : Totals(s)[i] = Totals(s)[i - 1] + s[i]
  <2> HIDE DEF T
  <2>1. Totals(s)[0] = Def(Totals(s))[0] /\ \A i \in 1 .. Len(s) : Totals(s)[i] = Def(Totals(s))[i]
    BY <1>6
  <2>2. DOMAIN Totals(s) = DOMAIN Def(Totals(s))
    BY <1>6
  <2>3. Def(Totals(s))[0] = 0 /\ DOMAIN Def(Totals(s)) = 0 .. Len(s)
    OBVIOUS
  <2>4. \A i \in 1 .. Len(s) : Def(Totals(s))[i] = Totals(s)[i - 1] + s[i]
    OBVIOUS
  <2> QED
    BY <2>1, <2>2, <2>3, <2>4
<1>8. \A i \in 0 .. Len(s) : Totals(s)[i] \in Nat
  <2> DEFINE S == { n \in Nat : n \in 0 .. Len(s) => Totals(s)[n] \in Nat }
  <2>1. 0 \in S
    BY <1>7
  <2>2. ASSUME NEW n \in Nat, n \in S  PROVE  n + 1 \in S
    <3>1. CASE n + 1 \in 0 .. Len(s)
      <4>1. Totals(s)[n] \in Nat /\ n + 1 \in 1 .. Len(s) /\ (n + 1) - 1 = n
        BY <2>2, <3>1
      <4>2. Totals(s)[n + 1] = Totals(s)[n] + s[n + 1]
        BY <4>1, <1>7
      <4> QED
        BY <4>1, <4>2
    <3> QED
      BY <3>1
  <2>3. Nat \subseteq S
    <3> HIDE DEF S
    <3> QED
      BY <2>1, <2>2, NatSetInduction
  <2> QED
    BY <2>3
<1>9. Totals(s) = [i \in 0 .. Len(s) |-> Totals(s)[i]]
  <2>1. Totals(s) = [i \in 0 .. Len(s) |-> IF i = 0 THEN 0 ELSE Totals(s)[i - 1] + s[i]]
    BY <1>6
  <2> QED
    BY <2>1
<1> QED
  BY <1>7, <1>8, <1>9

(* Sums of the same numbers are the same, whatever follows them.           *)
LEMMA TotalsOfPrefix ==
  ASSUME NEW s \in Seq(Nat), NEW t \in Seq(Nat), NEW n \in Nat, n <= Len(s), n <= Len(t),
         \A i \in 1 .. n : s[i] = t[i]
  PROVE  Totals(s)[n] = Totals(t)[n]
<1> DEFINE S == { i \in Nat : i <= n => Totals(s)[i] = Totals(t)[i] }
<1>1. 0 \in S
  BY TotalsFacts
<1>2. ASSUME NEW i \in Nat, i \in S  PROVE  i + 1 \in S
  <2>1. CASE i + 1 <= n
    <3>1. i + 1 \in 1 .. Len(s) /\ i + 1 \in 1 .. Len(t) /\ (i + 1) - 1 = i /\ i + 1 \in 1 .. n
      BY <2>1
    <3>2. /\ Totals(s)[i + 1] = Totals(s)[i] + s[i + 1]
          /\ Totals(t)[i + 1] = Totals(t)[i] + t[i + 1]
      BY <3>1, TotalsFacts
    <3>3. Totals(s)[i] = Totals(t)[i] /\ s[i + 1] = t[i + 1]
      BY <1>2, <2>1, <3>1
    <3> QED
      BY <3>2, <3>3
  <2> QED
    BY <2>1
<1>3. Nat \subseteq S
  <2> HIDE DEF S
  <2> QED
    BY <1>1, <1>2, NatSetInduction
<1> QED
  BY <1>3

LEMMA TotalIsNat ==
  ASSUME NEW s \in Seq(Nat)
  PROVE  Total(s) \in Nat /\ (s = << >> => Total(s) = 0)
<1>1. Len(s) \in 0 .. Len(s) /\ (s = << >> => Len(s) = 0)
  OBVIOUS
<1> QED
  BY <1>1, TotalsFacts DEF Total

LEMMA TotalOfAppend ==
  ASSUME NEW s \in Seq(Nat), NEW x \in Nat
  PROVE  Total(Append(s, x)) = Total(s) + x
<1> DEFINE t == Append(s, x)
           n == Len(s)
<1>1. /\ t \in Seq(Nat) /\ n \in Nat /\ Len(t) = n + 1 /\ t[n + 1] = x
      /\ n <= Len(s) /\ n <= Len(t) /\ \A i \in 1 .. n : t[i] = s[i]
  OBVIOUS
<1> HIDE DEF t, n
<1>2. Totals(t)[n] = Totals(s)[n]
  BY <1>1, TotalsOfPrefix
<1>3. n + 1 \in 1 .. Len(t) /\ (n + 1) - 1 = n
  BY <1>1
<1>4. Totals(t)[n + 1] = Totals(t)[n] + t[n + 1]
  BY <1>1, <1>3, TotalsFacts
<1>5. Total(t) = Totals(s)[n] + x
  BY <1>1, <1>2, <1>4 DEF Total
<1> QED
  BY <1>5 DEF Total, t, n

(* A number in front, and all of them multiplied.                          *)
LEMMA TotalOfMultiples ==
  ASSUME NEW s \in Seq(Nat), NEW t \in Seq(Nat), NEW k \in Nat, NEW h \in Nat,
         Len(t) = Len(s) + 1, t[1] = k * h, \A i \in 1 .. Len(s) : t[i + 1] = k * s[i]
  PROVE  Total(t) = k * (h + Total(s))
<1> DEFINE S == { i \in Nat : i <= Len(s) => Totals(t)[i + 1] = k * (h + Totals(s)[i]) }
<1>1. 0 \in S
  <2>1. 1 \in 1 .. Len(t) /\ 1 - 1 = 0 /\ 0 + 1 = 1
    OBVIOUS
  <2>2. Totals(t)[0] = 0 /\ Totals(s)[0] = 0 /\ Totals(t)[1] = Totals(t)[0] + t[1]
    BY <2>1, TotalsFacts
  <2>3. Totals(t)[1] = k * (h + Totals(s)[0])
    BY <2>2
  <2> QED
    BY <2>3
<1>2. ASSUME NEW i \in Nat, i \in S  PROVE  i + 1 \in S
  <2>1. CASE i + 1 <= Len(s)
    <3>1. /\ i + 1 \in 1 .. Len(s) /\ (i + 1) - 1 = i /\ i \in 0 .. Len(s)
          /\ (i + 1) + 1 \in 1 .. Len(t) /\ ((i + 1) + 1) - 1 = i + 1
      BY <2>1
    <3>2. /\ Totals(s)[i + 1] = Totals(s)[i] + s[i + 1]
          /\ Totals(t)[(i + 1) + 1] = Totals(t)[i + 1] + t[(i + 1) + 1]
          /\ Totals(s)[i] \in Nat
      BY <3>1, TotalsFacts
    <3>3. Totals(t)[i + 1] = k * (h + Totals(s)[i]) /\ t[(i + 1) + 1] = k * s[i + 1]
          /\ s[i + 1] \in Nat
      <4>1. i <= Len(s)
        BY <2>1
      <4>2. Totals(t)[i + 1] = k * (h + Totals(s)[i])
        BY <1>2, <4>1
      <4>3. t[(i + 1) + 1] = k * s[i + 1]
        BY <3>1, Zenon
      <4>4. s[i + 1] \in Nat
        BY <3>1, ElementOfSeq, Zenon
      <4> QED
        BY <4>2, <4>3, <4>4
    <3>4. ASSUME NEW a \in Nat, NEW b \in Nat
          PROVE  k * (h + a) + k * b = k * (h + (a + b))
      OBVIOUS
    <3>5. Totals(t)[(i + 1) + 1] = k * (h + Totals(s)[i + 1])
      BY <3>2, <3>3, <3>4
    <3> QED
      BY <3>5
  <2> QED
    BY <2>1
<1>3. Nat \subseteq S
  <2> HIDE DEF S
  <2> QED
    BY <1>1, <1>2, NatSetInduction
<1>4. Totals(t)[Len(s) + 1] = k * (h + Totals(s)[Len(s)])
  BY <1>3
<1> QED
  BY <1>4 DEF Total

(* Pieces with the same number of digits each.                             *)
LEMMA UniformDigits ==
  ASSUME NEW n \in Nat, NEW d \in Nat, NEW pieces, Len(pieces) = n,
         \A j \in 1 .. n : pieces[j].digits = d
  PROVE  Digits(pieces) = n * d
<1> DEFINE s == [j \in 1 .. n |-> pieces[j].digits]
           S == { i \in Nat : i <= n => Totals(s)[i] = i * d }
<1>1. s \in Seq(Nat) /\ Len(s) = n /\ \A j \in 1 .. n : s[j] = d
  OBVIOUS
<1> HIDE DEF s
<1>2. 0 \in S
  BY <1>1, TotalsFacts
<1>3. ASSUME NEW i \in Nat, i \in S  PROVE  i + 1 \in S
  <2>1. CASE i + 1 <= n
    <3>1. i + 1 \in 1 .. Len(s) /\ (i + 1) - 1 = i /\ s[i + 1] = d
      BY <1>1, <2>1
    <3>2. Totals(s)[i + 1] = Totals(s)[i] + s[i + 1]
      BY <1>1, <3>1, TotalsFacts
    <3>3. i <= n
      BY <2>1
    <3>4. Totals(s)[i] = i * d
      BY <1>3, <3>3, Zenon
    <3>5. (i + 1) * d = i * d + d
      OBVIOUS
    <3> QED
      BY <3>1, <3>2, <3>4, <3>5
  <2> QED
    BY <2>1
<1>4. Nat \subseteq S
  <2> HIDE DEF S
  <2> QED
    BY <1>2, <1>3, NatSetInduction
<1>5. Totals(s)[Len(s)] = n * d
  BY <1>1, <1>4
<1> QED
  BY <1>5 DEF Digits, Total, s

LEMMA DigitsOfTwo ==
  ASSUME NEW x, NEW y, x.digits \in Nat, y.digits \in Nat
  PROVE  Digits(<< x, y >>) = x.digits + y.digits
<1> DEFINE s == [j \in 1 .. Len(<< x, y >>) |-> << x, y >>[j].digits]
<1>1. s \in Seq(Nat) /\ Len(s) = 2 /\ s[1] = x.digits /\ s[2] = y.digits
  <2>1. Len(<< x, y >>) = 2 /\ << x, y >>[1] = x /\ << x, y >>[2] = y
    OBVIOUS
  <2>2. 1 .. 2 = {1, 2}
    OBVIOUS
  <2>3. s = [j \in 1 .. 2 |-> << x, y >>[j].digits]
    BY <2>1
  <2> HIDE DEF s
  <2> QED
    BY <2>1, <2>2, <2>3
<1> HIDE DEF s
<1>2. /\ 1 \in 1 .. Len(s) /\ 2 \in 1 .. Len(s) /\ 1 - 1 = 0 /\ 2 - 1 = 1
  BY <1>1
<1>3. Totals(s)[0] = 0 /\ Totals(s)[1] = Totals(s)[0] + s[1] /\ Totals(s)[2] = Totals(s)[1] + s[2]
  BY <1>1, <1>2, TotalsFacts
<1>4. Total(s) = x.digits + y.digits
  BY <1>1, <1>3 DEF Total
<1> QED
  BY <1>4 DEF Digits, s

-----------------------------------------------------------------------------
(* Sorting a table of opcodes, and searching it.                           *)

(* A table in the order of its mnemonics, every one once.                  *)
Ascending(table) ==
  /\ \A i \in 1 .. Len(table) : table[i].assem \in Int
  /\ \A i, j \in 1 .. Len(table) : i < j => table[i].assem < table[j].assem

(* The key is not in the table.                                            *)
Lacks(table, key) == \A i \in 1 .. Len(table) : table[i].assem # key

(* The elements of r are those of the table and op.                        *)
Joins(r, table, op) ==
  /\ \A i \in 1 .. Len(table) + 1 : r[i] = op \/ \E j \in 1 .. Len(table) : r[i] = table[j]
  /\ \E i \in 1 .. Len(table) + 1 : r[i] = op
  /\ \A j \in 1 .. Len(table) : \E i \in 1 .. Len(table) + 1 : r[i] = table[j]

LEMMA InsertPlace ==
  ASSUME NEW S, NEW t \in Seq(S), Ascending(t), NEW key \in Int, Lacks(t, key)
  PROVE  \E p \in 1 .. Len(t) + 1 :
           \A i \in 1 .. Len(t) : IF i < p THEN t[i].assem < key ELSE key < t[i].assem
<1> DEFINE N == Len(t)
           T == { i \in 1 .. N + 1 : i = N + 1 \/ key < t[i].assem }
<1>1. N \in Nat
  OBVIOUS
<1>2. T \in SUBSET Nat /\ N + 1 \in T
  BY <1>1
<1>3. PICK p \in T : \A m \in T : p <= m
  <2> HIDE DEF T
  <2> QED
    BY <1>2, LeastNumber
<1>4. p \in 1 .. N + 1
  BY <1>3
<1>5. ASSUME NEW i \in 1 .. N, i < p  PROVE  t[i].assem < key
  <2>1. i \notin T
    BY <1>2, <1>3, <1>5
  <2>2. ~ (key < t[i].assem) /\ t[i].assem \in Int /\ t[i].assem # key
    BY <2>1 DEF Ascending, Lacks
  <2>3. PICK x \in Int : x = t[i].assem
    BY <2>2, Zenon
  <2> QED
    BY <2>2, <2>3
<1>6. ASSUME NEW i \in 1 .. N, ~ i < p  PROVE  key < t[i].assem
  <2>1. p \in 1 .. N /\ p <= i /\ key < t[p].assem
    BY <1>1, <1>3, <1>4, <1>6
  <2>2. CASE i = p
    BY <2>1, <2>2
  <2>3. CASE p < i
    <3>1. t[p].assem < t[i].assem /\ t[p].assem \in Int /\ t[i].assem \in Int
      BY <2>1, <2>3 DEF Ascending
    <3>2. PICK x \in Int, y \in Int : x = t[p].assem /\ y = t[i].assem
      BY <3>1, Zenon
    <3>3. key < x /\ x < y
      BY <2>1, <3>1, <3>2, Zenon
    <3>4. key < y
      BY <3>3
    <3> QED
      BY <3>2, <3>4, Zenon
  <2> QED
    BY <1>1, <1>4, <1>6, <2>1, <2>2, <2>3
<1> QED
  BY <1>4, <1>5, <1>6

LEMMA InsertFacts ==
  ASSUME NEW S, NEW t \in Seq(S), NEW op \in S, Ascending(t), op.assem \in Int,
         Lacks(t, op.assem)
  PROVE  /\ Insert(t, op) \in Seq(S)
         /\ Len(Insert(t, op)) = Len(t) + 1
         /\ Ascending(Insert(t, op))
         /\ Joins(Insert(t, op), t, op)
<1> DEFINE N == Len(t)
           key == op.assem
<1>1. N \in Nat
  OBVIOUS
<1>2. PICK p \in 1 .. N + 1 :
        \A i \in 1 .. N : IF i < p THEN t[i].assem < key ELSE key < t[i].assem
  <2> HIDE DEF key
  <2> QED
    BY InsertPlace DEF key
<1> DEFINE R == [i \in 1 .. N + 1 |-> IF i < p THEN t[i] ELSE IF i = p THEN op ELSE t[i - 1]]
<1>3. Insert(t, op) = R
  <2>0. \A x, y \in Int : x < y => ~ (y < x)
    OBVIOUS
  <2>1. \A i \in 1 .. N : (t[i].assem < key) <=> i < p
    <3>1. ASSUME NEW i \in 1 .. N  PROVE (t[i].assem < key) <=> i < p
      <4>1. t[i].assem \in Int /\ key \in Int
        BY DEF Ascending
      <4>2. i < p => t[i].assem < key
        BY <1>2
      <4>3. ~ i < p => key < t[i].assem
        BY <1>2
      <4> HIDE DEF key
      <4> QED
        BY <2>0, <4>1, <4>2, <4>3, Zenon
    <3> QED
      BY <3>1
  <2> DEFINE L(i) == IF i <= N /\ t[i].assem < key THEN t[i]
                     ELSE IF i = 1 \/ t[i - 1].assem < key THEN op ELSE t[i - 1]
  <2>2. ASSUME NEW i \in 1 .. N + 1  PROVE L(i) = R[i]
    <3> HIDE DEF key
    <3>1. CASE i < p
      BY <1>1, <1>2, <2>1, <3>1
    <3>2. CASE i = p
      <4>1. i <= N => ~ t[i].assem < key
        BY <1>1, <1>2, <2>1, <3>2
      <4>2. i # 1 => t[i - 1].assem < key
        <5>1. i # 1 => i - 1 \in 1 .. N /\ i - 1 < p
          BY <1>1, <1>2, <3>2
        <5> QED
          BY <2>1, <5>1
      <4> QED
        BY <3>2, <4>1, <4>2
    <3>3. CASE i > p
      <4>1. i - 1 \in 1 .. N /\ ~ i - 1 < p /\ i # 1 /\ ~ i < p /\ i # p
        BY <1>1, <1>2, <3>3
      <4>2. ~ t[i - 1].assem < key
        BY <2>1, <4>1
      <4>3. i <= N => ~ t[i].assem < key
        BY <1>1, <2>1, <4>1
      <4> QED
        BY <4>1, <4>2, <4>3
    <3> QED
      BY <1>1, <1>2, <3>1, <3>2, <3>3
  <2>3. Insert(t, op) = [i \in 1 .. N + 1 |-> L(i)]
    BY DEF Insert, opcode_compare
  <2>4. [i \in 1 .. N + 1 |-> L(i)] = [i \in 1 .. N + 1 |-> R[i]]
    <3> HIDE DEF L, R
    <3> QED
      BY <2>2
  <2>5. R = [i \in 1 .. N + 1 |-> R[i]]
    OBVIOUS
  <2> HIDE DEF R, L
  <2> QED
    BY <2>3, <2>4, <2>5
<1>4. /\ \A i \in 1 .. N + 1 : i < p => i \in 1 .. N /\ R[i] = t[i]
      /\ R[p] = op
      /\ \A i \in 1 .. N + 1 : i > p => i - 1 \in 1 .. N /\ R[i] = t[i - 1]
  BY <1>1, <1>2
<1>5. \A i \in 1 .. N : t[i] \in S
  OBVIOUS
<1>6. R \in Seq(S) /\ Len(R) = N + 1
  <2>1. ASSUME NEW i \in 1 .. N + 1  PROVE R[i] \in S
    <3> HIDE DEF R
    <3> QED
      BY <1>1, <1>2, <1>4, <1>5
  <2>2. R \in [1 .. N + 1 -> S]
    BY <2>1
  <2> QED
    BY <1>1, <2>2
<1> HIDE DEF R
<1>7. \A i \in 1 .. N + 1 : R[i].assem \in Int
  <2>1. \A i \in 1 .. N : t[i].assem \in Int
    BY DEF Ascending
  <2>2. ASSUME NEW i \in 1 .. N + 1  PROVE R[i].assem \in Int
    <3>1. i < p \/ i = p \/ i > p
      BY <1>2
    <3> QED
      BY <1>4, <2>1, <3>1
  <2> QED
    BY <2>2
<1>8. ASSUME NEW i \in 1 .. N + 1, NEW j \in 1 .. N + 1, i < j
      PROVE  R[i].assem < R[j].assem
  <2>0. \A a \in 1 .. N, b \in 1 .. N : a < b => t[a].assem < t[b].assem
    BY DEF Ascending
  <2>1. CASE j < p
    <3>1. i < p
      BY <1>1, <1>2, <1>8, <2>1
    <3> QED
      BY <1>4, <1>8, <2>0, <2>1, <3>1
  <2>2. CASE j = p
    <3>1. i < p /\ i \in 1 .. N /\ R[i] = t[i]
      BY <1>4, <1>8, <2>2
    <3>2. t[i].assem < key
      BY <1>2, <3>1
    <3> QED
      BY <1>4, <2>2, <3>1, <3>2
  <2>3. CASE j > p
    <3>1. j - 1 \in 1 .. N /\ R[j] = t[j - 1] /\ ~ j - 1 < p
      BY <1>1, <1>2, <1>4, <2>3
    <3>2. CASE i < p
      <4>1. i < j - 1 /\ i \in 1 .. N /\ R[i] = t[i]
        BY <1>1, <1>2, <1>4, <2>3, <3>2
      <4> QED
        BY <2>0, <3>1, <4>1
    <3>3. CASE i = p
      <4>1. key < t[j - 1].assem
        BY <1>2, <3>1
      <4> QED
        BY <1>4, <3>1, <3>3, <4>1
    <3>4. CASE i > p
      <4>1. i - 1 \in 1 .. N /\ R[i] = t[i - 1] /\ i - 1 < j - 1
        BY <1>1, <1>4, <1>8, <3>4
      <4> QED
        BY <2>0, <3>1, <4>1
    <3> QED
      BY <1>2, <3>2, <3>3, <3>4
  <2> QED
    BY <1>2, <2>1, <2>2, <2>3
<1>9. Ascending(R)
  BY <1>6, <1>7, <1>8 DEF Ascending
<1>10. \A i \in 1 .. N + 1 : R[i] = op \/ \E j \in 1 .. N : R[i] = t[j]
  <2>1. ASSUME NEW i \in 1 .. N + 1  PROVE R[i] = op \/ \E j \in 1 .. N : R[i] = t[j]
    <3>1. i < p \/ i = p \/ i > p
      BY <1>2
    <3> QED
      BY <1>4, <3>1
  <2> QED
    BY <2>1
<1>11. \E i \in 1 .. N + 1 : R[i] = op
  BY <1>4
<1>12. \A j \in 1 .. N : \E i \in 1 .. N + 1 : R[i] = t[j]
  <2>1. ASSUME NEW j \in 1 .. N  PROVE \E i \in 1 .. N + 1 : R[i] = t[j]
    <3>1. CASE j < p
      <4>1. j \in 1 .. N + 1
        BY <1>1
      <4> QED
        BY <1>4, <3>1, <4>1
    <3>2. CASE ~ j < p
      <4>1. j + 1 \in 1 .. N + 1 /\ j + 1 > p /\ (j + 1) - 1 = j
        BY <1>1, <1>2, <3>2
      <4> QED
        BY <1>4, <4>1
    <3> QED
      BY <3>1, <3>2
  <2> QED
    BY <2>1
<1> QED
  BY <1>3, <1>6, <1>9, <1>10, <1>11, <1>12 DEF Joins

LEMMA SortedUpToIs ==
  ASSUME NEW ops, Len(ops) \in Nat
  PROVE  /\ SortedUpTo(ops)[0] = << >>
         /\ \A n \in 1 .. Len(ops) : SortedUpTo(ops)[n] = Insert(SortedUpTo(ops)[n - 1], ops[n])
<1> DEFINE N == Len(ops)
           Def(sorted) ==
             [n \in 0 .. N |-> IF n = 0 THEN << >> ELSE Insert(sorted[n - 1], ops[n])]
           Good(n, f) == /\ f[0] = << >>
                         /\ \A i \in 1 .. n : f[i] = Insert(f[i - 1], ops[i])
           S == { n \in Nat : \E f : Good(n, f) }
<1>1. 0 \in S
  <2>1. Good(0, [i \in 0 .. 0 |-> << >>])
    OBVIOUS
  <2> QED
    BY <2>1
<1>2. ASSUME NEW n \in Nat, n \in S  PROVE  n + 1 \in S
  <2>1. PICK f : Good(n, f)
    <3> HIDE DEF Good
    <3> QED
      BY <1>2
  <2> DEFINE g == [i \in 0 .. n + 1 |-> IF i <= n THEN f[i] ELSE Insert(f[n], ops[n + 1])]
  <2>2. g[0] = << >>
    BY <2>1
  <2>3. ASSUME NEW i \in 1 .. n + 1  PROVE  g[i] = Insert(g[i - 1], ops[i])
    <3>1. g[i - 1] = f[i - 1]
      OBVIOUS
    <3>2. CASE i <= n
      BY <2>1, <3>1, <3>2
    <3>3. CASE i = n + 1
      <4>1. g[n + 1] = Insert(f[n], ops[n + 1]) /\ i - 1 = n
        BY <3>3
      <4> QED
        BY <3>1, <3>3, <4>1
    <3> QED
      BY <3>2, <3>3
  <2>4. Good(n + 1, g)
    BY <2>2, <2>3
  <2> HIDE DEF Good
  <2> QED
    BY <2>4
<1>3. PICK f : Good(N, f)
  <2> HIDE DEF Good
  <2>1. Nat \subseteq S
    <3> HIDE DEF S
    <3> QED
      BY <1>1, <1>2, NatSetInduction
  <2> QED
    BY <2>1
<1> DEFINE g == [n \in 0 .. N |-> f[n]]
<1>4. g = Def(g)
  <2>1. ASSUME NEW n \in 0 .. N  PROVE g[n] = Def(g)[n]
    <3>1. CASE n = 0
      BY <1>3, <3>1
    <3>2. CASE n # 0
      <4>1. n \in 1 .. N /\ n - 1 \in 0 .. N
        BY <3>2
      <4>2. f[n] = Insert(f[n - 1], ops[n])
        BY <1>3, <4>1
      <4>3. g[n] = f[n] /\ g[n - 1] = f[n - 1] /\ Def(g)[n] = Insert(g[n - 1], ops[n])
        BY <4>1
      <4> QED
        BY <4>2, <4>3
    <3> QED
      BY <3>1, <3>2
  <2>2. DOMAIN g = 0 .. N /\ DOMAIN Def(g) = 0 .. N
    OBVIOUS
  <2>3. g = [n \in 0 .. N |-> g[n]] /\ Def(g) = [n \in 0 .. N |-> Def(g)[n]]
    OBVIOUS
  <2>4. [n \in 0 .. N |-> g[n]] = [n \in 0 .. N |-> Def(g)[n]]
    <3> HIDE DEF g, Def
    <3> QED
      BY <2>1
  <2> QED
    BY <2>3, <2>4, Zenon
<1> DEFINE T == CHOOSE sorted : sorted = Def(sorted)
<1>5. T = Def(T)
  <2> HIDE DEF g, Def
  <2> QED
    BY <1>4
<1>6. SortedUpTo(ops) = T
  BY DEF SortedUpTo
<1>7. SortedUpTo(ops) = Def(SortedUpTo(ops))
  BY <1>5, <1>6
<1> HIDE DEF T
<1>8. \A n \in 0 .. N : SortedUpTo(ops)[n] = Def(SortedUpTo(ops))[n]
  BY <1>7
<1>9. /\ Def(SortedUpTo(ops))[0] = << >>
      /\ \A n \in 1 .. N : Def(SortedUpTo(ops))[n] = Insert(SortedUpTo(ops)[n - 1], ops[n])
  OBVIOUS
<1> QED
  BY <1>8, <1>9

(* Sorting keeps the opcodes of a table without repetitions.               *)
LEMMA SortsToFacts ==
  ASSUME NEW S, NEW ops \in Seq(S), \A i \in 1 .. Len(ops) : ops[i].assem \in Int,
         \A i, j \in 1 .. Len(ops) : i # j => ops[i].assem # ops[j].assem
  PROVE  /\ Len(SortsTo(ops)) = Len(ops)
         /\ Ascending(SortsTo(ops))
         /\ \A i \in 1 .. Len(ops) : \E j \in 1 .. Len(ops) : SortsTo(ops)[i] = ops[j]
         /\ \A j \in 1 .. Len(ops) : \E i \in 1 .. Len(ops) : SortsTo(ops)[i] = ops[j]
<1> DEFINE N == Len(ops)
           Good(n, t) == /\ t \in Seq(S) /\ Len(t) = n /\ Ascending(t)
                         /\ \A i \in 1 .. n : \E j \in 1 .. n : t[i] = ops[j]
                         /\ \A j \in 1 .. n : \E i \in 1 .. n : t[i] = ops[j]
           K == { n \in Nat : n <= N => Good(n, SortedUpTo(ops)[n]) }
<1>1. N \in Nat /\ \A i \in 1 .. N : ops[i] \in S
  OBVIOUS
<1>2. 0 \in K
  <2>1. << >> \in Seq(S) /\ Len(<< >>) = 0 /\ Ascending(<< >>)
    BY DEF Ascending
  <2>2. Good(0, << >>)
    BY <2>1
  <2> HIDE DEF Good
  <2> QED
    BY <1>1, <2>2, SortedUpToIs
<1>3. ASSUME NEW n \in Nat, n \in K  PROVE  n + 1 \in K
  <2> SUFFICES ASSUME n + 1 <= N  PROVE Good(n + 1, SortedUpTo(ops)[n + 1])
    <3> HIDE DEF Good
    <3> QED
      OBVIOUS
  <2>1. PICK t : t = SortedUpTo(ops)[n]
    OBVIOUS
  <2>2. Good(n, t)
    <3> HIDE DEF Good
    <3> QED
      BY <1>1, <1>3, <2>1
  <2>3. SortedUpTo(ops)[n + 1] = Insert(t, ops[n + 1])
    <3>1. n + 1 \in 1 .. N /\ (n + 1) - 1 = n
      BY <1>1
    <3> QED
      BY <1>1, <2>1, <3>1, SortedUpToIs
  <2>4. PICK op, r : op = ops[n + 1] /\ r = Insert(t, op)
    OBVIOUS
  <2>5. op \in S /\ op.assem \in Int
    BY <1>1, <2>4
  <2>6. \A i \in 1 .. Len(t) : t[i].assem # op.assem
    <3>1. ASSUME NEW i \in 1 .. Len(t)  PROVE t[i].assem # op.assem
      <4>1. i \in 1 .. n
        BY <2>2
      <4>2. PICK j \in 1 .. n : t[i] = ops[j]
        BY <2>2, <4>1
      <4>3. j \in 1 .. N /\ n + 1 \in 1 .. N /\ j # n + 1
        BY <1>1
      <4> QED
        BY <2>4, <4>2, <4>3
    <3> QED
      BY <3>1
  <2>7. /\ r \in Seq(S) /\ Len(r) = n + 1 /\ Ascending(r)
        /\ \A i \in 1 .. n + 1 : r[i] = op \/ \E j \in 1 .. n : r[i] = t[j]
        /\ \E i \in 1 .. n + 1 : r[i] = op
        /\ \A j \in 1 .. n : \E i \in 1 .. n + 1 : r[i] = t[j]
    <3>1. t \in Seq(S) /\ Len(t) = n /\ Ascending(t)
      BY <2>2
    <3>2. Insert(t, op) \in Seq(S) /\ Len(Insert(t, op)) = Len(t) + 1
          /\ Ascending(Insert(t, op)) /\ Joins(Insert(t, op), t, op)
      BY <2>5, <2>6, <3>1, InsertFacts DEF Lacks
    <3> QED
      BY <2>4, <3>1, <3>2, Zenon DEF Joins
  <2>8. n + 1 \in 1 .. n + 1 /\ \A j \in 1 .. n : j \in 1 .. n + 1
    OBVIOUS
  <2>9. ASSUME NEW i \in 1 .. n + 1  PROVE \E j \in 1 .. n + 1 : r[i] = ops[j]
    <3>1. CASE r[i] = op
      BY <2>4, <2>8, <3>1, Zenon
    <3>2. CASE \E j \in 1 .. n : r[i] = t[j]
      <4>1. PICK k \in 1 .. n : r[i] = t[k]
        BY <3>2
      <4>2. PICK j \in 1 .. n : t[k] = ops[j]
        BY <2>2
      <4> QED
        BY <2>8, <4>1, <4>2, Zenon
    <3> QED
      BY <2>7, <3>1, <3>2
  <2>10. ASSUME NEW j \in 1 .. n + 1  PROVE \E i \in 1 .. n + 1 : r[i] = ops[j]
    <3>1. CASE j = n + 1
      BY <2>4, <2>7, <3>1, Zenon
    <3>2. CASE j \in 1 .. n
      <4>1. PICK k \in 1 .. n : t[k] = ops[j]
        BY <2>2, <3>2
      <4> QED
        BY <2>7, <4>1, Zenon
    <3> QED
      BY <3>1, <3>2
  <2>11. Good(n + 1, r)
    BY <2>7, <2>9, <2>10
  <2> HIDE DEF Good
  <2> QED
    BY <2>3, <2>4, <2>11, Zenon
<1>4. Nat \subseteq K
  <2> HIDE DEF K
  <2> QED
    BY <1>2, <1>3, NatSetInduction
<1>5. Good(N, SortsTo(ops))
  <2> HIDE DEF Good
  <2>1. N \in K
    BY <1>1, <1>4
  <2> QED
    BY <1>1, <2>1 DEF SortsTo
<1> QED
  BY <1>5

LEMMA HalvesAreShorter ==
  ASSUME NEW l \in Nat, l # 0
  PROVE  l \div 2 \in 0 .. l - 1 /\ l - l \div 2 - 1 \in 0 .. l - 1
OBVIOUS

LEMMA SearchesIs ==
  ASSUME NEW t, Len(t) \in Nat, NEW key
  PROVE  \A l \in 0 .. Len(t) : \A first \in 1 .. Len(t) + 1 - l :
           Searches(t, key)[l][first] =
             IF l = 0 THEN first
             ELSE IF t[first + l \div 2].assem < key
             THEN Searches(t, key)[l - l \div 2 - 1][first + l \div 2 + 1]
             ELSE Searches(t, key)[l \div 2][first]
<1> DEFINE N == Len(t)
           Cell(f, l, first) ==
             IF l = 0 THEN first
             ELSE IF t[first + l \div 2].assem < key THEN f[l - l \div 2 - 1][first + l \div 2 + 1]
             ELSE f[l \div 2][first]
           Body(f, l) == [first \in 1 .. N + 1 - l |-> Cell(f, l, first)]
           Def(f) == [l \in 0 .. N |-> Body(f, l)]
           Good(n, f) == \A l \in 0 .. n : f[l] = Body(f, l)
           S == { n \in Nat : \E f : Good(n, f) }
<1>1. ASSUME NEW l \in Nat, NEW f, NEW g, \A k \in 0 .. l - 1 : f[k] = g[k]
      PROVE  Body(f, l) = Body(g, l)
  <2>1. ASSUME NEW first \in 1 .. N + 1 - l  PROVE Cell(f, l, first) = Cell(g, l, first)
    BY <1>1, HalvesAreShorter
  <2> HIDE DEF Cell
  <2> QED
    BY <2>1
<1> HIDE DEF Body
<1>2. 0 \in S
  <2> DEFINE g == [l \in 0 .. 0 |-> Body([k \in {} |-> 0], 0)]
  <2>1. Body(g, 0) = Body([k \in {} |-> 0], 0)
    BY <1>1
  <2>2. Good(0, g)
    BY <2>1
  <2> QED
    BY <2>2
<1>3. ASSUME NEW n \in Nat, n \in S  PROVE  n + 1 \in S
  <2>1. PICK f : Good(n, f)
    <3> HIDE DEF Good
    <3> QED
      BY <1>3
  <2> DEFINE g == [l \in 0 .. n + 1 |-> IF l <= n THEN f[l] ELSE Body(f, n + 1)]
  <2>2. \A l \in 0 .. n : g[l] = f[l]
    OBVIOUS
  <2>3. g[n + 1] = Body(f, n + 1)
    OBVIOUS
  <2> HIDE DEF g
  <2>4. ASSUME NEW l \in 0 .. n + 1  PROVE  Body(f, l) = Body(g, l)
    <3>1. l \in Nat /\ \A k \in 0 .. l - 1 : f[k] = g[k]
      BY <2>2
    <3> QED
      BY <1>1, <3>1
  <2>5. ASSUME NEW l \in 0 .. n + 1  PROVE  g[l] = Body(g, l)
    <3>1. CASE l \in 0 .. n
      BY <2>1, <2>2, <2>4, <3>1
    <3>2. CASE l = n + 1
      BY <2>3, <2>4, <3>2
    <3> QED
      BY <3>1, <3>2
  <2>6. Good(n + 1, g)
    BY <2>5
  <2> HIDE DEF Good
  <2> QED
    BY <2>6
<1>4. PICK f : Good(N, f)
  <2> HIDE DEF Good
  <2>1. Nat \subseteq S
    <3> HIDE DEF S
    <3> QED
      BY <1>2, <1>3, NatSetInduction
  <2> QED
    BY <2>1
<1> DEFINE g == [l \in 0 .. N |-> f[l]]
<1>5. g = Def(g)
  <2>1. ASSUME NEW l \in 0 .. N  PROVE g[l] = Body(g, l)
    <3>1. l \in Nat /\ \A k \in 0 .. l - 1 : f[k] = g[k]
      OBVIOUS
    <3>2. Body(f, l) = Body(g, l)
      <4> HIDE DEF g
      <4> QED
        BY <1>1, <3>1
    <3> QED
      BY <1>4, <3>2
  <2>2. g = [l \in 0 .. N |-> g[l]]
    OBVIOUS
  <2> HIDE DEF g
  <2> QED
    BY <2>1, <2>2
<1> DEFINE T == CHOOSE search : search = Def(search)
<1>6. T = Def(T)
  <2> HIDE DEF g, Def
  <2> QED
    BY <1>5
<1>7. Searches(t, key) = T
  BY DEF Searches, Body
<1>8. Searches(t, key) = Def(Searches(t, key))
  BY <1>6, <1>7
<1> HIDE DEF T
<1>9. ASSUME NEW l \in 0 .. N  PROVE Searches(t, key)[l] = Body(Searches(t, key), l)
  <2>1. Searches(t, key)[l] = Def(Searches(t, key))[l]
    BY <1>8
  <2>2. Def(Searches(t, key))[l] = Body(Searches(t, key), l)
    OBVIOUS
  <2> QED
    BY <2>1, <2>2
<1>10. ASSUME NEW l \in 0 .. N, NEW first \in 1 .. N + 1 - l
       PROVE  Searches(t, key)[l][first] = Cell(Searches(t, key), l, first)
  <2>1. Body(Searches(t, key), l)[first] = Cell(Searches(t, key), l, first)
    BY DEF Body
  <2> QED
    BY <1>9, <2>1
<1> QED
  BY <1>10

(* The halving search finds the border between what is smaller than the    *)
(* key and what is not, for a table of any length.                         *)
LEMMA LowerBoundFacts ==
  ASSUME NEW t, Len(t) \in Nat, Ascending(t), NEW key \in Int
  PROVE  /\ LowerBound(t, key) \in 1 .. Len(t) + 1
         /\ \A i \in 1 .. Len(t) : t[i].assem < key <=> i < LowerBound(t, key)
<1> DEFINE N == Len(t)
           Below(i) == t[i].assem < key
           R(l, first) == Searches(t, key)[l][first]
           Right(l, first) ==
             /\ R(l, first) \in first .. first + l
             /\ \A i \in first .. first + l - 1 : Below(i) <=> i < R(l, first)
           P(l) == \A first \in 1 .. N + 1 - l : Right(l, first)
           S == { n \in Nat : \A l \in 0 .. n : l <= N => P(l) }
<1>1. N \in Nat
  OBVIOUS
<1>2. ASSUME NEW i \in 1 .. N, NEW j \in 1 .. N, i <= j, Below(j)  PROVE Below(i)
  <2>1. CASE i = j
    BY <1>2, <2>1
  <2>2. CASE i < j
    <3>1. PICK x \in Int, y \in Int : x = t[i].assem /\ y = t[j].assem
      BY DEF Ascending
    <3>2. x < y /\ y < key
      BY <1>2, <2>2, <3>1 DEF Ascending
    <3>3. x < key
      BY <3>2
    <3> QED
      BY <3>1, <3>3, Zenon
  <2> QED
    BY <1>2, <2>1, <2>2
<1> HIDE DEF Below
<1>b. \A i : Below(i) \in BOOLEAN
  BY DEF Below
<1>3. ASSUME NEW l \in 0 .. N, \A k \in 0 .. l - 1 : P(k)  PROVE P(l)
  <2> SUFFICES ASSUME NEW first \in 1 .. N + 1 - l  PROVE Right(l, first)
    OBVIOUS
  <2> DEFINE half == l \div 2
             middle == first + half
  <2>1. R(l, first) = IF l = 0 THEN first
                      ELSE IF Below(middle) THEN R(l - half - 1, middle + 1) ELSE R(half, first)
    BY <1>1, SearchesIs DEF Below
  <2> HIDE DEF R
  <2>2. CASE l = 0
    BY <2>1, <2>2
  <2>3. CASE l # 0
    <3>1. half \in 0 .. l - 1 /\ l - half - 1 \in 0 .. l - 1
      BY <2>3, HalvesAreShorter
    <3>2. PICK h \in 0 .. l - 1 : h = half /\ l - h - 1 \in 0 .. l - 1
      BY <3>1
    <3>3. middle = first + h
      BY <3>2
    <3>4. first + h \in 1 .. N /\ first + h + 1 \in 1 .. N + 1 - (l - h - 1)
          /\ first \in 1 .. N + 1 - h
      BY <1>1, <2>3, <3>2
    <3> HIDE DEF half, Right
    <3>5. Right(l - h - 1, first + h + 1) /\ Right(h, first)
      BY <1>3, <3>2, <3>4
    <3>6. CASE Below(first + h)
      <4>1. R(l, first) = R(l - h - 1, first + h + 1)
        BY <2>1, <2>3, <3>2, <3>3, <3>6
      <4>2. /\ R(l, first) \in first + h + 1 .. first + h + 1 + (l - h - 1)
            /\ \A i \in first + h + 1 .. first + h + 1 + (l - h - 1) - 1 :
                 Below(i) <=> i < R(l, first)
        BY <3>5, <4>1 DEF Right
      <4>3. PICK r : r = R(l, first)
        OBVIOUS
      <4>4. /\ r \in first + h + 1 .. first + l
            /\ \A i \in first + h + 1 .. first + l - 1 : Below(i) <=> i < r
        BY <1>1, <3>2, <4>2, <4>3
      <4>5. ASSUME NEW i \in first .. first + h  PROVE Below(i) /\ i < r
        <5>1. i \in 1 .. N /\ i <= first + h /\ i < r
          BY <1>1, <3>4, <4>4
        <5> QED
          BY <1>2, <3>4, <3>6, <5>1
      <4>6. ASSUME NEW i \in first .. first + l - 1  PROVE Below(i) <=> i < r
        <5>1. i \in first .. first + h \/ i \in first + h + 1 .. first + l - 1
          BY <3>2
        <5> QED
          BY <4>4, <4>5, <5>1
      <4>7. r \in first .. first + l
        BY <3>2, <4>4
      <4> QED
        BY <4>3, <4>6, <4>7 DEF Right
    <3>7. CASE ~ Below(first + h)
      <4>1. R(l, first) = R(h, first)
        BY <2>1, <2>3, <3>2, <3>3, <3>7
      <4>2. /\ R(l, first) \in first .. first + h
            /\ \A i \in first .. first + h - 1 : Below(i) <=> i < R(l, first)
        BY <3>5, <4>1 DEF Right
      <4>3. PICK r : r = R(l, first)
        OBVIOUS
      <4>4. r \in first .. first + h /\ \A i \in first .. first + h - 1 : Below(i) <=> i < r
        BY <4>2, <4>3
      <4>5. ASSUME NEW i \in first + h .. first + l - 1  PROVE ~ Below(i) /\ ~ i < r
        <5>1. i \in 1 .. N /\ first + h <= i /\ ~ i < r
          BY <1>1, <3>4, <4>4
        <5> QED
          BY <1>2, <3>4, <3>7, <5>1
      <4>6. ASSUME NEW i \in first .. first + l - 1  PROVE Below(i) <=> i < r
        <5>1. i \in first .. first + h - 1 \/ i \in first + h .. first + l - 1
          BY <3>2
        <5> QED
          BY <4>4, <4>5, <5>1
      <4>7. r \in first .. first + l
        BY <3>2, <4>4
      <4> QED
        BY <4>3, <4>6, <4>7 DEF Right
    <3> QED
      BY <3>6, <3>7
  <2> QED
    BY <2>2, <2>3
<1> HIDE DEF P
<1>4. Nat \subseteq S
  <2>1. 0 \in S
    <3>1. P(0)
      BY <1>1, <1>3
    <3> QED
      BY <3>1
  <2>2. ASSUME NEW n \in Nat, n \in S  PROVE n + 1 \in S
    <3>1. ASSUME n + 1 <= N  PROVE P(n + 1)
      <4>1. n + 1 \in 0 .. N /\ \A k \in 0 .. (n + 1) - 1 : k \in 0 .. n /\ k <= N
        BY <1>1, <3>1
      <4> QED
        BY <1>3, <2>2, <4>1
    <3> QED
      BY <2>2, <3>1
  <2> HIDE DEF S
  <2> QED
    BY <2>1, <2>2, NatSetInduction
<1>5. P(N)
  BY <1>1, <1>4
<1>6. Right(N, 1)
  BY <1>1, <1>5 DEF P
<1>7. R(N, 1) = LowerBound(t, key)
  BY DEF LowerBound
<1> HIDE DEF R
<1> QED
  BY <1>1, <1>6, <1>7 DEF Below

(* A vector of opcodes, each of them once.                                 *)
Unrepeated(ops) ==
  /\ ops \in Seq(Range(ops))
  /\ \A i \in 1 .. Len(ops) : ops[i].assem \in Int
  /\ \A i, j \in 1 .. Len(ops) : i # j => ops[i].assem # ops[j].assem

SearchedFor(ops, key, place, found) ==
  /\ place \in 1 .. Len(ops) + 1
  /\ \A i \in 1 .. Len(ops) : ops[i].assem = key => place <= Len(ops) /\ found = ops[i]
  /\ place # Len(ops) + 1 => \E i \in 1 .. Len(ops) : found = ops[i]
  /\ place = Len(ops) + 1 => \A i \in 1 .. Len(ops) : ops[i].assem < key

(* Search and sort together, for a vector of opcodes without repetitions:  *)
(* what is in the vector is found, and its entry is the one in the vector; *)
(* what is not in it is not found; and the end is reached only behind all. *)
LEMMA SearchFacts ==
  ASSUME NEW ops, Unrepeated(ops), NEW key \in Int
  PROVE  SearchedFor(ops, key, LowerBound(SortsTo(ops), key),
                     SortsTo(ops)[LowerBound(SortsTo(ops), key)])
<1>1. PICK t, r, N : t = SortsTo(ops) /\ r = LowerBound(t, key) /\ N = Len(ops)
  OBVIOUS
<1>2. /\ N \in Nat /\ Len(t) = N /\ Ascending(t)
      /\ \A i \in 1 .. N : \E j \in 1 .. N : t[i] = ops[j]
      /\ \A j \in 1 .. N : \E i \in 1 .. N : t[i] = ops[j]
  <2>1. /\ Len(SortsTo(ops)) = Len(ops) /\ Ascending(SortsTo(ops))
        /\ \A i \in 1 .. Len(ops) : \E j \in 1 .. Len(ops) : SortsTo(ops)[i] = ops[j]
        /\ \A j \in 1 .. Len(ops) : \E i \in 1 .. Len(ops) : SortsTo(ops)[i] = ops[j]
    BY SortsToFacts DEF Unrepeated
  <2>2. Len(ops) \in Nat
    BY DEF Unrepeated
  <2> QED
    BY <1>1, <2>1, <2>2, Zenon
<1>3. r \in 1 .. N + 1 /\ \A i \in 1 .. N : t[i].assem < key <=> i < r
  <2>1. /\ LowerBound(t, key) \in 1 .. Len(t) + 1
        /\ \A i \in 1 .. Len(t) : t[i].assem < key <=> i < LowerBound(t, key)
    BY <1>2, LowerBoundFacts
  <2> QED
    BY <1>1, <1>2, <2>1
<1>4. ASSUME NEW i \in 1 .. N, ops[i].assem = key  PROVE r <= N /\ t[r] = ops[i]
  <2>1. PICK m \in 1 .. N : t[m] = ops[i]
    BY <1>2
  <2>2. t[m].assem = key /\ ~ m < r
    BY <1>3, <1>4, <2>1
  <2>3. r \in 1 .. N /\ ~ r < r /\ r <= m
    BY <1>2, <1>3, <2>2
  <2>4. ~ t[r].assem < key
    BY <1>3, <2>3
  <2>5. r < m => t[r].assem < t[m].assem
    BY <1>2, <2>3 DEF Ascending
  <2>6. r = m
    BY <2>2, <2>3, <2>4, <2>5
  <2> QED
    BY <2>1, <2>3, <2>6
<1>5. ASSUME r # N + 1  PROVE \E i \in 1 .. N : t[r] = ops[i]
  <2>1. r \in 1 .. N
    BY <1>2, <1>3, <1>5
  <2> QED
    BY <1>2, <2>1
<1>6. ASSUME r = N + 1, NEW i \in 1 .. N  PROVE ops[i].assem < key
  <2>1. PICK m \in 1 .. N : t[m] = ops[i]
    BY <1>2
  <2>2. m < r
    BY <1>2, <1>6
  <2> QED
    BY <1>3, <2>1, <2>2
<1> QED
  <2>1. SearchedFor(ops, key, r, t[r])
    BY <1>1, <1>3, <1>4, <1>5, <1>6 DEF SearchedFor
  <2> QED
    BY <1>1, <2>1, Zenon

=============================================================================
