--------------------------- MODULE SequenceLemmas ---------------------------
(***************************************************************************)
(* What the proofs use of numbers and sequences: least elements, induction *)
(* over the naturals and over sequences with the set of good values as a   *)
(* parameter, and what the operators of Lists compute.                     *)
(***************************************************************************)
EXTENDS Lists, SequenceTheorems, WellFoundedInduction, NaturalsInduction, TLAPS

(* A leaf gets a minute, and a second try, so that a slow machine checks it too. *)
USE SMTT(60), Z3T(60), ZenonT(60), SMTT(90), Z3T(90)

(* A set of natural numbers that is not empty has a least element. *)
LEMMA LeastNumber ==
  ASSUME NEW T \in SUBSET Nat, T # {}
  PROVE  \E i \in T : \A j \in T : i <= j
<1>1. IsWellFoundedOn(OpToRel(<, Nat), Nat)
  BY NatLessThanWellFounded, ZenonT(60)
<1>3. PICK i \in T : \A j \in T : ~(<<j, i>> \in OpToRel(<, Nat))
  BY <1>1, WFMin, ZenonT(60)
<1>4. \A j \in T : ~(j < i)
  BY <1>3, ZenonT(60) DEF OpToRel
<1> QED
  BY <1>4

(* Induction: a set that holds 0 and, with a number, the next one, holds   *)
(* all.                                                                    *)
LEMMA SetInduction ==
  ASSUME NEW T, 0 \in T, \A n \in Nat : n \in T => n + 1 \in T
  PROVE  Nat \subseteq T
<1> DEFINE U == {n \in Nat : n \notin T}
<1> SUFFICES ASSUME U # {} PROVE FALSE
  OBVIOUS
<1>1. PICK i \in U : \A j \in U : i <= j
  BY LeastNumber, ZenonT(60)
<1>2. i # 0 /\ i \in Nat
  BY <1>1
<1>3. i - 1 \in Nat /\ i - 1 \notin U
  BY <1>1, <1>2
<1>4. (i - 1) + 1 \in T
  BY <1>3
<1> QED
  BY <1>1, <1>4

(* The elements of a sequence with one appended. *)
LEMMA AppendParts ==
  ASSUME NEW S, NEW s \in Seq(S), NEW e \in S, NEW t, t = Append(s, e)
  PROVE  /\ Len(s) \in Nat /\ DOMAIN s = 1 .. Len(s)
         /\ t \in Seq(S) /\ Len(t) = Len(s) + 1 /\ DOMAIN t = 1 .. Len(s) + 1
         /\ t[Len(s) + 1] = e
         /\ \A i \in 1 .. Len(s) : t[i] = s[i]
BY AppendProperties, LenProperties

(* The recursion of Flatten, over the first m sequences. *)
Flattening(seqs, m, f) ==
  f = [i \in 0 .. m |-> IF i = 0 THEN << >> ELSE f[i - 1] \o seqs[i]]

(* The recursion of Flatten has a solution for lists of every length. *)
LEMMA FlattenExists ==
  ASSUME NEW seqs, NEW m \in Nat
  PROVE  \E f : Flattening(seqs, m, f)
<1> DEFINE T == {n \in Nat : \E f : Flattening(seqs, n, f)}
<1>1. 0 \in T
  <2>1. PICK g : g = [i \in 0 .. 0 |-> << >>]
    BY ZenonT(60)
  <2>2. Flattening(seqs, 0, g)
    BY <2>1 DEF Flattening
  <2> QED BY <2>2
<1>2. ASSUME NEW n \in Nat, n \in T PROVE n + 1 \in T
  <2>1. PICK f : Flattening(seqs, n, f)
    BY <1>2, ZenonT(60)
  <2>2. \A i \in 0 .. n : f[i] = IF i = 0 THEN << >> ELSE f[i - 1] \o seqs[i]
    BY <2>1 DEF Flattening
  <2>3. PICK g : g = [i \in 0 .. n + 1 |->
                        IF i \in 0 .. n THEN f[i] ELSE f[i - 1] \o seqs[i]]
    BY ZenonT(60)
  <2>4. ASSUME NEW i \in 0 .. n + 1
        PROVE  g[i] = IF i = 0 THEN << >> ELSE g[i - 1] \o seqs[i]
    <3>1. i # 0 => i - 1 \in 0 .. n
      OBVIOUS
    <3>2. i # 0 => g[i - 1] = f[i - 1]
      BY <2>3, <3>1
    <3> QED BY <2>2, <2>3, <3>2
  <2>5. Flattening(seqs, n + 1, g)
    BY <2>3, <2>4, ZenonT(60) DEF Flattening
  <2> QED BY <2>5
<1>3. m \in T
  <2> HIDE DEF T
  <2> QED BY <1>1, <1>2, SetInduction
<1> QED BY <1>3, ZenonT(60)

(* Flatten is such a solution. *)
LEMMA FlattenIs ==
  ASSUME NEW seqs, Len(seqs) \in Nat
  PROVE  \E f : Flattening(seqs, Len(seqs), f) /\ Flatten(seqs) = f[Len(seqs)]
<1> DEFINE c == CHOOSE f : Flattening(seqs, Len(seqs), f)
<1>1. Flattening(seqs, Len(seqs), c)
  BY FlattenExists, ZenonT(60)
<1>2. Flatten(seqs) = c[Len(seqs)]
  BY DEF Flatten, Flattening
<1> QED BY <1>1, <1>2, ZenonT(60)

(* There is one such function: what it says of the first k sequences does  *)
(* not depend on those that follow.                                        *)
LEMMA FlattenUnique ==
  ASSUME NEW s, NEW t, NEW m \in Nat, NEW n \in Nat, NEW f, NEW g,
         Flattening(s, m, f), Flattening(t, n, g),
         NEW k \in Nat, k <= m, k <= n, \A i \in 1 .. k : s[i] = t[i]
  PROVE  f[k] = g[k]
<1> DEFINE T == {j \in Nat : j <= k => f[j] = g[j]}
<1>1. 0 \in T
  <2>1. 0 \in 0 .. m /\ 0 \in 0 .. n
    OBVIOUS
  <2> QED BY <2>1 DEF Flattening
<1>2. ASSUME NEW j \in Nat, j \in T PROVE j + 1 \in T
  <2> SUFFICES ASSUME j + 1 <= k PROVE f[j + 1] = g[j + 1]
    OBVIOUS
  <2>1. PICK i : i = j + 1
    BY ZenonT(60)
  <2>2. i \in 0 .. m /\ i \in 0 .. n /\ i \in 1 .. k /\ i - 1 = j /\ i # 0 /\ j <= k
    BY <2>1
  <2>3. f[i] = f[j] \o s[i]
    BY <2>2, ZenonT(60) DEF Flattening
  <2>4. g[i] = g[j] \o t[i]
    BY <2>2, ZenonT(60) DEF Flattening
  <2>5. s[i] = t[i] /\ f[j] = g[j]
    BY <1>2, <2>2
  <2> QED BY <2>1, <2>3, <2>4, <2>5
<1>3. Nat \subseteq T
  <2> HIDE DEF T
  <2> QED BY <1>1, <1>2, SetInduction
<1> QED BY <1>3

LEMMA FlattenEmpty == Flatten(<< >>) = << >>
<1>1. Len(<< >>) = 0
  OBVIOUS
<1>2. PICK f : Flattening(<< >>, 0, f) /\ Flatten(<< >>) = f[0]
  BY <1>1, FlattenIs
<1>3. 0 \in 0 .. 0
  OBVIOUS
<1> QED BY <1>2, <1>3 DEF Flattening

(* One sequence more in the list. *)
LEMMA FlattenAppend ==
  ASSUME NEW S, NEW seqs \in Seq(Seq(S)), NEW e \in Seq(S)
  PROVE  Flatten(Append(seqs, e)) = Flatten(seqs) \o e
<1>1. PICK n \in Nat : n = Len(seqs)
  BY LenProperties
<1>2. PICK t : t = Append(seqs, e)
  BY ZenonT(60)
<1>3. /\ Len(t) = n + 1 /\ t[n + 1] = e
      /\ \A i \in 1 .. n : t[i] = seqs[i]
  BY <1>1, <1>2, AppendParts
<1>4. PICK f : Flattening(t, n + 1, f) /\ Flatten(t) = f[n + 1]
  BY <1>3, FlattenIs
<1>5. PICK g : Flattening(seqs, n, g) /\ Flatten(seqs) = g[n]
  BY <1>1, FlattenIs
<1>6. f[n] = g[n]
  <2>1. n + 1 \in Nat /\ n <= n + 1 /\ n <= n
    OBVIOUS
  <2> QED BY ONLY n \in Nat, <1>3, <1>4, <1>5, <2>1, FlattenUnique, SMTT(60), Z3T(60)
<1>7. f[n + 1] = f[n] \o e
  <2>1. n + 1 \in 0 .. n + 1 /\ n + 1 # 0 /\ (n + 1) - 1 = n
    OBVIOUS
  <2> QED BY <1>3, <1>4, <2>1, ZenonT(60) DEF Flattening
<1> QED BY <1>2, <1>4, <1>5, <1>6, <1>7

(* Induction over a sequence, as one over the lengths: every sequence is   *)
(* empty or another one with an element appended.                          *)
LEMMA SeqInduction ==
  ASSUME NEW S, NEW T, << >> \in T,
         \A s \in Seq(S), e \in S : s \in T => Append(s, e) \in T
  PROVE  Seq(S) \subseteq T
<1> DEFINE U == {n \in Nat : \A s \in Seq(S) : Len(s) = n => s \in T}
<1>1. 0 \in U
  BY EmptySeq
<1>2. ASSUME NEW n \in Nat, n \in U PROVE n + 1 \in U
  <2> SUFFICES ASSUME NEW s \in Seq(S), Len(s) = n + 1 PROVE s \in T
    OBVIOUS
  <2>1. s # << >>
    BY EmptySeq
  <2>2. PICK r \in Seq(S), e \in S : s = Append(r, e)
    BY <2>1, SequenceEmptyOrAppend
  <2>3. Len(r) = n
    BY <2>2, AppendProperties, LenProperties
  <2> QED BY <1>2, <2>2, <2>3
<1>3. Nat \subseteq U
  <2> HIDE DEF U
  <2> QED BY <1>1, <1>2, SetInduction
<1> QED BY <1>3, LenProperties

LEMMA FlattenType ==
  ASSUME NEW S
  PROVE  \A seqs \in Seq(Seq(S)) : Flatten(seqs) \in Seq(S)
<1> DEFINE T == {s \in Seq(Seq(S)) : Flatten(s) \in Seq(S)}
<1>1. << >> \in T
  BY FlattenEmpty, EmptySeq, ZenonT(60)
<1>2. ASSUME NEW s \in Seq(Seq(S)), NEW e \in Seq(S), s \in T PROVE Append(s, e) \in T
  BY <1>2, FlattenAppend, ConcatProperties, AppendProperties, ZenonT(60)
<1>3. Seq(Seq(S)) \subseteq T
  <2> HIDE DEF T
  <2> QED BY <1>1, <1>2, SeqInduction
<1> QED BY <1>3

(* The first k elements of t. *)
Upto(t, k) == [j \in 1 .. k |-> t[j]]

(* The first elements of a sequence, one by one. *)
LEMMA UptoStep ==
  ASSUME NEW Q, NEW t \in Seq(Q), NEW k \in Nat, k <= Len(t)
  PROVE  /\ Upto(t, k) \in Seq(Q) /\ Len(Upto(t, k)) = k
         /\ k = 0 => Upto(t, k) = << >>
         /\ k = Len(t) => Upto(t, k) = t
         /\ k < Len(t) => Upto(t, k + 1) = Append(Upto(t, k), t[k + 1])
<1>1. Len(t) \in Nat /\ DOMAIN t = 1 .. Len(t) /\ \A j \in 1 .. Len(t) : t[j] \in Q
  BY LenProperties, ElementOfSeq
<1>2. Upto(t, k) \in Seq(Q) /\ Len(Upto(t, k)) = k
  BY <1>1 DEF Upto
<1>3. k = 0 => Upto(t, k) = << >>
  BY <1>2, EmptySeq
<1>4. k = Len(t) => Upto(t, k) = t
  BY <1>1, <1>2, SeqEqual DEF Upto
<1>5. ASSUME k < Len(t) PROVE Upto(t, k + 1) = Append(Upto(t, k), t[k + 1])
  <2>1. PICK e \in Q : e = t[k + 1]
    BY <1>1, <1>5
  <2>2. Upto(t, k + 1) \in Seq(Q) /\ Len(Upto(t, k + 1)) = k + 1
    BY <1>1, <1>5 DEF Upto
  <2>3. Append(Upto(t, k), e) \in Seq(Q) /\ Len(Append(Upto(t, k), e)) = k + 1
    BY <1>2, AppendProperties
  <2>4. ASSUME NEW j \in 1 .. k + 1 PROVE Upto(t, k + 1)[j] = Append(Upto(t, k), e)[j]
    <3>1. Upto(t, k + 1)[j] = t[j]
      BY DEF Upto
    <3>2. CASE j = k + 1
      BY <1>2, <2>1, <3>1, <3>2, AppendProperties
    <3>3. CASE j # k + 1
      <4>1. j \in 1 .. k
        BY <3>3
      <4>2. Append(Upto(t, k), e)[j] = Upto(t, k)[j]
        BY <1>2, <4>1, AppendProperties
      <4>3. Upto(t, k)[j] = t[j]
        BY <4>1 DEF Upto
      <4> QED BY <3>1, <4>2, <4>3
    <3> QED BY <3>2, <3>3, ZenonT(60)
  <2> QED BY <2>1, <2>2, <2>3, <2>4, SeqEqual
<1> QED BY <1>2, <1>3, <1>4, <1>5

(* The elements of a concatenation. *)
LEMMA ConcatParts ==
  ASSUME NEW S, NEW a \in Seq(S), NEW b \in Seq(S), NEW c, c = a \o b
  PROVE  /\ c \in Seq(S) /\ Len(a) \in Nat /\ Len(b) \in Nat /\ Len(c) = Len(a) + Len(b)
         /\ \A i \in 1 .. Len(a) : c[i] = a[i]
         /\ \A i \in 1 .. Len(b) : c[Len(a) + i] = b[i]
<1>1. c \in Seq(S) /\ Len(a) \in Nat /\ Len(b) \in Nat /\ Len(c) = Len(a) + Len(b)
  BY ConcatProperties, LenProperties
<1>2. \A i \in 1 .. Len(c) : c[i] = IF i <= Len(a) THEN a[i] ELSE b[i - Len(a)]
  BY <1>1, ConcatProperties
<1>3. \A i \in 1 .. Len(a) : c[i] = a[i]
  BY <1>1, <1>2
<1>4. ASSUME NEW i \in 1 .. Len(b) PROVE c[Len(a) + i] = b[i]
  <2>1. PICK j : j = Len(a) + i
    OBVIOUS
  <2>2. j \in 1 .. Len(c) /\ ~(j <= Len(a)) /\ j - Len(a) = i
    BY <1>1, <2>1
  <2> QED BY <1>2, <2>1, <2>2
<1> QED BY <1>1, <1>3, <1>4

(* What the first k sequences flatten to is a prefix of what any more of   *)
(* them do.                                                                *)
LEMMA FlattenStep ==
  ASSUME NEW S, NEW t \in Seq(Seq(S)), NEW k \in Nat, k < Len(t)
  PROVE  /\ Flatten(Upto(t, k)) \in Seq(S) /\ t[k + 1] \in Seq(S)
         /\ Flatten(Upto(t, k + 1)) = Flatten(Upto(t, k)) \o t[k + 1]
<1>1. Len(t) \in Nat /\ t[k + 1] \in Seq(S)
  BY LenProperties, ElementOfSeq
<1>2. Upto(t, k) \in Seq(Seq(S)) /\ Upto(t, k + 1) = Append(Upto(t, k), t[k + 1])
  BY <1>1, UptoStep
<1> QED BY <1>1, <1>2, FlattenAppend, FlattenType, ZenonT(60)

(* The first sequences of a list make up the beginning of all of them. *)
LEMMA FlattenPrefix ==
  ASSUME NEW S, NEW t \in Seq(Seq(S)), NEW k \in Nat, NEW n \in Nat, k <= n, n <= Len(t)
  PROVE  /\ Flatten(Upto(t, k)) \in Seq(S) /\ Flatten(Upto(t, n)) \in Seq(S)
         /\ Len(Flatten(Upto(t, k))) <= Len(Flatten(Upto(t, n)))
         /\ \A i \in 1 .. Len(Flatten(Upto(t, k))) :
              Flatten(Upto(t, n))[i] = Flatten(Upto(t, k))[i]
<1>1. PICK F : F = [m \in 0 .. Len(t) |-> Flatten(Upto(t, m))]
  BY ZenonT(60)
<1>2. Len(t) \in Nat /\ \A m \in 0 .. Len(t) : F[m] = Flatten(Upto(t, m)) /\ F[m] \in Seq(S)
  <2> SUFFICES ASSUME NEW m \in 0 .. Len(t) PROVE Flatten(Upto(t, m)) \in Seq(S)
    BY <1>1, LenProperties
  <2>1. m \in Nat /\ m <= Len(t)
    BY LenProperties
  <2> QED BY <2>1, UptoStep, FlattenType
<1> DEFINE T == {m \in Nat : k <= m /\ m <= Len(t) =>
                   /\ Len(F[k]) <= Len(F[m])
                   /\ \A i \in 1 .. Len(F[k]) : F[m][i] = F[k][i]}
<1>3. 0 \in T
  <2> SUFFICES ASSUME k <= 0 PROVE Len(F[k]) <= Len(F[0]) /\ \A i \in 1 .. Len(F[k]) : F[0][i] = F[k][i]
    OBVIOUS
  <2>1. k = 0 /\ Len(F[k]) \in Nat
    BY <1>2, LenProperties
  <2> QED BY <2>1
<1>4. ASSUME NEW m \in Nat, m \in T PROVE m + 1 \in T
  <2> SUFFICES ASSUME k <= m + 1, m + 1 <= Len(t)
               PROVE  /\ Len(F[k]) <= Len(F[m + 1])
                      /\ \A i \in 1 .. Len(F[k]) : F[m + 1][i] = F[k][i]
    OBVIOUS
  <2>1. F[k] \in Seq(S) /\ F[m + 1] \in Seq(S) /\ Len(F[k]) \in Nat
    BY <1>2, LenProperties
  <2>2. CASE k = m + 1
    BY <2>1, <2>2
  <2>3. CASE k # m + 1
    <3>1. k <= m /\ m < Len(t) /\ m \in 0 .. Len(t) /\ m + 1 \in 0 .. Len(t)
      BY <1>2, <2>3
    <3>2. Len(F[k]) <= Len(F[m]) /\ \A i \in 1 .. Len(F[k]) : F[m][i] = F[k][i]
      BY <1>2, <1>4, <3>1
    <3>3. t[m + 1] \in Seq(S) /\ F[m + 1] = F[m] \o t[m + 1] /\ F[m] \in Seq(S)
      BY <1>2, <3>1, FlattenStep, ZenonT(60)
    <3>4. PICK a, b, c : a = F[m] /\ b = t[m + 1] /\ c = F[m + 1]
      BY ZenonT(60)
    <3>5. /\ Len(a) \in Nat /\ Len(b) \in Nat /\ Len(c) = Len(a) + Len(b)
          /\ \A i \in 1 .. Len(a) : c[i] = a[i]
      <4>1. a \in Seq(S) /\ b \in Seq(S) /\ c = a \o b
        BY <3>3, <3>4
      <4> QED BY ONLY <4>1, ConcatParts, SMTT(60), Z3T(60)
    <3>6. Len(F[k]) <= Len(a) /\ \A i \in 1 .. Len(F[k]) : a[i] = F[k][i]
      BY <3>2, <3>4
    <3>7. Len(F[k]) <= Len(c) /\ \A i \in 1 .. Len(F[k]) : c[i] = F[k][i]
      BY <2>1, <3>5, <3>6
    <3> QED BY <3>4, <3>7
  <2> QED BY <2>2, <2>3
<1>5. Nat \subseteq T
  <2> HIDE DEF T
  <2> QED BY <1>3, <1>4, SetInduction, ZenonT(60)
<1>6. n \in T /\ k \in 0 .. Len(t) /\ n \in 0 .. Len(t)
  BY <1>2, <1>5
<1> QED BY <1>2, <1>6

(* How long what the first k sequences flatten to is. *)
FlatLen(t, k) == Len(Flatten(Upto(t, k)))

(* Where the sequence after the first k is in what they flatten to. *)
LEMMA FlattenPart ==
  ASSUME NEW S, NEW t \in Seq(Seq(S)), NEW k \in Nat, k < Len(t), NEW m, m = k + 1
  PROVE  /\ FlatLen(t, k) \in Nat /\ t[m] \in Seq(S) /\ Flatten(t) \in Seq(S)
         /\ FlatLen(t, m) = FlatLen(t, k) + Len(t[m])
         /\ FlatLen(t, m) <= Len(Flatten(t))
         /\ \A i \in 1 .. Len(t[m]) : Flatten(t)[FlatLen(t, k) + i] = t[m][i]
<1>1. PICK n \in Nat : n = Len(t)
  BY LenProperties
<1>2. m \in Nat
  OBVIOUS
<1>3. PICK a, b, c : a = Flatten(Upto(t, k)) /\ b = t[m] /\ c = Flatten(Upto(t, m))
  BY ZenonT(60)
<1>4. a \in Seq(S) /\ b \in Seq(S) /\ c = a \o b
  BY <1>3, FlattenStep, ZenonT(60)
<1>5. /\ Len(a) \in Nat /\ Len(b) \in Nat /\ Len(c) = Len(a) + Len(b)
      /\ \A i \in 1 .. Len(b) : c[Len(a) + i] = b[i]
  BY ONLY <1>4, ConcatParts, SMTT(60), Z3T(60)
<1>6. Upto(t, n) = t
  BY <1>1, UptoStep
<1>7. m <= n /\ n <= Len(t)
  BY <1>1
<1>8. /\ Flatten(t) \in Seq(S) /\ Len(c) <= Len(Flatten(t))
      /\ \A i \in 1 .. Len(c) : Flatten(t)[i] = c[i]
  BY <1>2, <1>3, <1>6, <1>7, FlattenPrefix
<1>9. ASSUME NEW i \in 1 .. Len(b) PROVE Flatten(t)[Len(a) + i] = b[i]
  <2>1. Len(a) + i \in 1 .. Len(c)
    BY <1>5
  <2> QED BY <1>5, <1>8, <2>1
<1> QED BY <1>3, <1>4, <1>5, <1>8, <1>9 DEF FlatLen

(* Where the sequences after the first k and the first n begin. *)
LEMMA FlattenEnds ==
  ASSUME NEW S, NEW t \in Seq(Seq(S)), NEW k \in Nat, NEW n \in Nat, k <= n, n <= Len(t)
  PROVE  /\ FlatLen(t, k) \in Nat /\ FlatLen(t, n) \in Nat /\ Len(Flatten(t)) \in Nat
         /\ FlatLen(t, k) <= FlatLen(t, n) /\ FlatLen(t, n) <= Len(Flatten(t))
         /\ k = 0 => FlatLen(t, k) = 0
         /\ n = Len(t) => FlatLen(t, n) = Len(Flatten(t))
<1>1. PICK l \in Nat : l = Len(t)
  BY LenProperties
<1>2. PICK a, b, c : a = Flatten(Upto(t, k)) /\ b = Flatten(Upto(t, n)) /\ c = Flatten(Upto(t, l))
  BY ZenonT(60)
<1>3. /\ a \in Seq(S) /\ b \in Seq(S) /\ c \in Seq(S) /\ Len(a) <= Len(b) /\ Len(b) <= Len(c)
  BY <1>1, <1>2, FlattenPrefix
<1>4. Len(a) \in Nat /\ Len(b) \in Nat /\ Len(c) \in Nat
  BY <1>3, LenProperties
<1>5. Upto(t, l) = t /\ (k = 0 => Upto(t, k) = << >>)
  BY <1>1, UptoStep
<1>6. k = 0 => Len(a) = 0
  BY <1>2, <1>5, FlattenEmpty, EmptySeq
<1> QED BY <1>1, <1>2, <1>3, <1>4, <1>5, <1>6 DEF FlatLen

LEMMA SelectEmpty ==
  ASSUME NEW K PROVE SelectAt(<< >>, K) = << >>
<1>1. [i \in DOMAIN << >> |-> IF i \in K THEN << <<  >>[i] >> ELSE << >>] = << >>
  OBVIOUS
<1> QED BY <1>1, FlattenEmpty DEF SelectAt

(* One element more, which is selected or not. *)
LEMMA SelectAppend ==
  ASSUME NEW S, NEW s \in Seq(S), NEW e \in S, NEW K
  PROVE  SelectAt(Append(s, e), K) =
           SelectAt(s, K) \o (IF Len(s) + 1 \in K THEN <<e>> ELSE << >>)
<1>1. PICK n \in Nat : n = Len(s)
  BY LenProperties
<1>2. PICK t : t = Append(s, e)
  BY ZenonT(60)
<1>3. /\ t \in Seq(S) /\ DOMAIN t = 1 .. n + 1 /\ t[n + 1] = e /\ DOMAIN s = 1 .. n
      /\ \A i \in 1 .. n : t[i] = s[i] /\ s[i] \in S
  BY <1>1, <1>2, AppendProperties, LenProperties, ElementOfSeq
<1>4. PICK a : a = [i \in DOMAIN s |-> IF i \in K THEN <<s[i]>> ELSE << >>]
  BY ZenonT(60)
<1>5. PICK b : b = [i \in DOMAIN t |-> IF i \in K THEN <<t[i]>> ELSE << >>]
  BY ZenonT(60)
<1>6. PICK x : x = IF n + 1 \in K THEN <<e>> ELSE << >>
  BY ZenonT(60)
<1>7. x \in Seq(S)
  BY <1>6
<1>8. a \in Seq(Seq(S)) /\ Len(a) = n
  BY <1>3, <1>4
<1>9. b \in Seq(Seq(S)) /\ Len(b) = n + 1
  <2>1. \A i \in 1 .. n + 1 : t[i] \in S
    BY <1>1, <1>3, ElementOfSeq
  <2> QED BY <1>3, <1>5, <2>1
<1>10. b = Append(a, x)
  <2>1. Append(a, x) \in Seq(Seq(S)) /\ Len(Append(a, x)) = n + 1
    BY <1>7, <1>8, AppendProperties
  <2>2. ASSUME NEW i \in 1 .. n + 1 PROVE b[i] = Append(a, x)[i]
    <3>1. b[i] = IF i \in K THEN <<t[i]>> ELSE << >>
      BY <1>3, <1>5
    <3>2. CASE i = n + 1
      <4>1. Append(a, x)[i] = x
        BY <1>7, <1>8, <3>2, AppendProperties
      <4> QED BY <1>3, <1>6, <3>1, <3>2, <4>1, ZenonT(60)
    <3>3. CASE i # n + 1
      <4>1. i \in 1 .. n
        BY <3>3
      <4>2. Append(a, x)[i] = a[i]
        BY <1>7, <1>8, <4>1, AppendProperties
      <4> QED BY <1>3, <1>4, <3>1, <4>1, <4>2
    <3> QED BY <3>2, <3>3, ZenonT(60)
  <2> QED BY <1>9, <2>1, <2>2, SeqEqual
<1>11. Flatten(b) = Flatten(a) \o x
  BY <1>7, <1>8, <1>10, FlattenAppend
<1> QED BY <1>1, <1>2, <1>4, <1>5, <1>6, <1>11, ZenonT(60) DEF SelectAt

LEMMA SelectType ==
  ASSUME NEW S, NEW s \in Seq(S), NEW K
  PROVE  SelectAt(s, K) \in Seq(S)
<1>1. PICK a : a = [i \in DOMAIN s |-> IF i \in K THEN <<s[i]>> ELSE << >>]
  BY ZenonT(60)
<1>2. DOMAIN s = 1 .. Len(s) /\ Len(s) \in Nat /\ \A i \in 1 .. Len(s) : s[i] \in S
  BY LenProperties, ElementOfSeq
<1>3. a \in Seq(Seq(S))
  BY <1>1, <1>2
<1> QED BY <1>1, <1>3, FlattenType DEF SelectAt

(* m says from which place each selected element comes. *)
SelectedFrom(s, K, r, m) ==
  /\ m \in [1 .. Len(r) -> K \cap DOMAIN s]
  /\ \A j \in 1 .. Len(r) : r[j] = s[m[j]]
  /\ \A i, j \in 1 .. Len(r) : i < j => m[i] < m[j]
  /\ \A k \in K \cap DOMAIN s : \E j \in 1 .. Len(r) : m[j] = k

(* SelectAt keeps the elements of the places in K, each once and in order. *)
LEMMA SelectOrder ==
  ASSUME NEW S, NEW K
  PROVE  \A s \in Seq(S) : \E m : SelectedFrom(s, K, SelectAt(s, K), m)
<1> DEFINE T == {s \in Seq(S) : \E m : SelectedFrom(s, K, SelectAt(s, K), m)}
<1>1. << >> \in T
  <2>1. << >> \in Seq(S) /\ DOMAIN << >> = {} /\ Len(<< >>) = 0
    BY EmptySeq
  <2>2. PICK m : m = [j \in 1 .. 0 |-> 0]
    BY ZenonT(60)
  <2>3. SelectedFrom(<< >>, K, << >>, m)
    BY <2>1, <2>2 DEF SelectedFrom
  <2> QED BY <2>1, <2>3, SelectEmpty
<1>2. ASSUME NEW s \in Seq(S), NEW e \in S, s \in T PROVE Append(s, e) \in T
  <2>1. PICK n, t : n \in Nat /\ n = Len(s) /\ t = Append(s, e)
    BY LenProperties, ZenonT(60)
  <2> n \in Nat
    BY <2>1
  <2>2. /\ t \in Seq(S) /\ DOMAIN t = 1 .. n + 1 /\ t[n + 1] = e /\ DOMAIN s = 1 .. n
        /\ \A i \in 1 .. n : t[i] = s[i]
    BY <2>1, AppendProperties, LenProperties
  <2>3. PICK r \in Seq(S), l \in Nat : r = SelectAt(s, K) /\ l = Len(r)
    BY SelectType, LenProperties
  <2>4. PICK m : SelectedFrom(s, K, r, m)
    BY <1>2, <2>3
  <2>m. /\ m \in [1 .. l -> K \cap (1 .. n)]
        /\ \A j \in 1 .. l : r[j] = s[m[j]]
        /\ \A i, j \in 1 .. l : i < j => m[i] < m[j]
        /\ \A k \in K \cap (1 .. n) : \E j \in 1 .. l : m[j] = k
    BY <2>2, <2>3, <2>4 DEF SelectedFrom
  <2>5. CASE n + 1 \in K
    <3>1. SelectAt(t, K) = r \o <<e>>
      BY <2>1, <2>3, <2>5, SelectAppend
    <3>2. PICK q : q = r \o <<e>>
      BY ZenonT(60)
    <3>3. <<e>> \in Seq(S) /\ Len(<<e>>) = 1 /\ <<e>>[1] = e
      OBVIOUS
    <3>4. /\ q \in Seq(S) /\ Len(q) = l + 1 /\ q[l + 1] = e
          /\ \A i \in 1 .. l : q[i] = r[i]
      BY <2>3, <3>2, <3>3, ConcatParts
    <3>5. PICK h : h = [j \in 1 .. l + 1 |-> IF j = l + 1 THEN n + 1 ELSE m[j]]
      BY ZenonT(60)
    <3>6. /\ h[l + 1] = n + 1 /\ \A j \in 1 .. l : h[j] = m[j] /\ m[j] \in K \cap (1 .. n)
      BY <2>m, <3>5
    <3>7. h \in [1 .. l + 1 -> K \cap (1 .. n + 1)]
      BY <2>m, <2>5, <3>5
    <3>8. ASSUME NEW j \in 1 .. l + 1 PROVE q[j] = t[h[j]]
      <4>1. CASE j = l + 1
        BY <2>2, <3>4, <3>6, <4>1
      <4>2. CASE j # l + 1
        <5>1. j \in 1 .. l
          BY <4>2
        <5> QED BY <2>2, <2>m, <3>4, <3>6, <5>1
      <4> QED BY <4>1, <4>2
    <3>9. ASSUME NEW i \in 1 .. l + 1, NEW j \in 1 .. l + 1, i < j PROVE h[i] < h[j]
      <4>1. i \in 1 .. l /\ (j = l + 1 \/ j \in 1 .. l)
        BY <3>9
      <4> QED BY <2>m, <3>6, <3>9, <4>1
    <3>10. ASSUME NEW k \in K \cap (1 .. n + 1) PROVE \E j \in 1 .. l + 1 : h[j] = k
      <4>1. CASE k = n + 1
        BY <3>6, <4>1
      <4>2. CASE k # n + 1
        <5>1. k \in K \cap (1 .. n)
          BY <4>2
        <5>2. PICK j \in 1 .. l : m[j] = k
          BY <2>m, <5>1
        <5> QED BY <3>6, <5>2
      <4> QED BY <4>1, <4>2
    <3>11. SelectedFrom(t, K, q, h)
      BY <2>2, <3>4, <3>7, <3>8, <3>9, <3>10 DEF SelectedFrom
    <3> QED BY <2>1, <2>2, <3>1, <3>2, <3>11, ZenonT(60)
  <2>6. CASE n + 1 \notin K
    <3>1. SelectAt(t, K) = r
      <4>1. SelectAt(Append(s, e), K) = SelectAt(s, K) \o (IF Len(s) + 1 \in K THEN <<e>> ELSE << >>)
        BY SelectAppend
      <4>2. SelectAt(t, K) = r \o << >>
        BY ONLY <2>1, <2>3, <2>6, <4>1, SMTT(60), Z3T(60)
      <4> QED BY <4>2, ConcatEmptySeq
    <3>2. K \cap (1 .. n + 1) = K \cap (1 .. n)
      BY <2>6
    <3>3. \A j \in 1 .. l : r[j] = t[m[j]]
      BY <2>2, <2>m, ZenonT(60)
    <3>4. SelectedFrom(t, K, r, m)
      BY <2>2, <2>3, <2>m, <3>2, <3>3 DEF SelectedFrom
    <3> QED BY <2>1, <2>2, <3>1, <3>4
  <2> QED BY <2>5, <2>6
<1>3. Seq(S) \subseteq T
  <2> HIDE DEF T
  <2> QED BY <1>1, <1>2, SeqInduction
<1> QED BY <1>3
=============================================================================
