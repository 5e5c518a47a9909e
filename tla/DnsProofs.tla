------------------------------- MODULE DnsProofs -------------------------------
(***************************************************************************)
(* Proofs about parse_dns_response, on any packet at all, and on what a    *)
(* name server sends, for any domain, records, counts and cuts.            *)
(***************************************************************************)
EXTENDS DnsAnswers, SequenceLemmas

(* A leaf gets a minute, and a second try, so that a slow machine checks it too. *)
USE SMTT(60), Z3T(60), ZenonT(60), SMTT(90), Z3T(90)

(* The parser of an answer, for every packet. *)

(* The inductive invariant: inside of the for loop there is a record left. *)
ParseInv ==
  /\ ParseTypeOK
  /\ NeverPanics
  /\ pc \in {"name", "fixed"} => left >= 1

(* A byte of the packet that is there is a byte. *)
LEMMA AtType ==
  ASSUME data \in Seq(Byte), NEW i \in Nat, Reading(i)
  PROVE  At(i) \in Byte
BY DEF At, Reading, Byte

(* A number read from the packet is a number.              *)
LEMMA U16Type ==
  ASSUME data \in Seq(Byte), NEW i \in Nat, Reading(i + 1)
  PROVE  u16_from_be_bytes(i) \in Nat
<1>1. At(i) \in Byte
  BY AtType DEF Reading
<1>2. At(i + 1) \in Byte
  BY AtType
<1> QED
  BY <1>1, <1>2 DEF u16_from_be_bytes, Byte

LEMMA InitParse == ParseInit => ParseInv
BY DEF ParseInit, ParseInv, ParseTypeOK, NeverPanics

(* A step that ends the call or moves the position keeps the invariant. *)
LEMMA GoKeeps ==
  ASSUME ParseInv, NEW to \in {"question", "record", "name", "fixed"}, NEW position \in Nat,
         Go(to, position), left' \in Nat,
         to \in {"name", "fixed"} => left' >= 1
  PROVE  ParseInv'
BY DEF ParseInv, ParseTypeOK, NeverPanics, Go

LEMMA ReturnKeeps ==
  ASSUME ParseInv, NEW value \in {NoAddress} \cup [1 .. 4 -> Byte], Return(value)
  PROVE  ParseInv'
BY DEF ParseInv, ParseTypeOK, NeverPanics, Return

(* A label is there when the loop over labels looks at it. *)
LEMMA LabelType ==
  ASSUME ParseInv, MoreLabels
  PROVE  offset + 1 + At(offset) \in Nat
<1>1. At(offset) \in Byte
  BY AtType DEF ParseInv, ParseTypeOK, MoreLabels, Reading
<1> QED
  BY <1>1 DEF ParseInv, ParseTypeOK, Byte

(* Every step of the parser keeps the invariant. *)
LEMMA NextParse == ParseInv /\ [ParseNext]_parseVars => ParseInv'
<1> SUFFICES ASSUME ParseInv, [ParseNext]_parseVars
             PROVE  ParseInv'
  OBVIOUS
<1> USE DEF ParseInv, ParseTypeOK
<1>1. CASE Header
  <2>1. CASE Len(data) < 12
    BY <1>1, <2>1, ReturnKeeps DEF Header
  <2>2. CASE ~(Len(data) < 12)
    <3>1. Reading(6 + 1) /\ Reading(7) /\ Len(data) \in Nat
      BY <2>2, LenProperties DEF Reading
    <3>2. u16_from_be_bytes(6) \in Nat
      BY <3>1, U16Type
    <3> QED
      BY <1>1, <2>2, <3>1, <3>2, ReturnKeeps, GoKeeps DEF Header
  <2> QED
    BY <2>1, <2>2
<1>2. CASE QuestionLabel
  BY <1>2, LabelType, GoKeeps DEF QuestionLabel
<1>3. CASE QuestionEnd
  BY <1>3, GoKeeps DEF QuestionEnd
<1>4. CASE Record
  <2>1. CASE LoopOver \/ offset + 12 > Len(data)
    BY <1>4, <2>1, ReturnKeeps DEF Record
  <2>2. CASE ~(LoopOver \/ offset + 12 > Len(data))
    <3>1. Reading(offset)
      BY <2>2, LenProperties DEF Reading
    <3>2. left >= 1
      BY <2>2 DEF LoopOver
    <3>3. \/ Go("fixed", offset + 2) /\ UNCHANGED left
          \/ Go("name", offset) /\ UNCHANGED left
      BY <1>4, <2>2, <3>1 DEF Record
    <3> QED
      BY <3>2, <3>3, GoKeeps
  <2> QED
    BY <2>1, <2>2
<1>5. CASE NameLabel
  BY <1>5, LabelType, GoKeeps DEF NameLabel
<1>6. CASE NameEnd
  BY <1>6, GoKeeps DEF NameEnd
<1>7. CASE Fixed
  <2>1. CASE TooShort
    BY <1>7, <2>1, ReturnKeeps DEF Fixed
  <2>2. CASE ~TooShort
    <3>1. Reading(offset + 9)
      BY <2>2, LenProperties DEF Reading, TooShort
    <3>2. CASE IsAddress(offset + 10)
      <4>1. offset + 14 <= Len(data) /\ Reading(offset + 13)
        BY <3>2, LenProperties DEF Reading, IsAddress
      <4>2. SubSeq(data, offset + 11, offset + 14) \in [1 .. 4 -> Byte]
        <5> DEFINE s == SubSeq(data, offset + 11, offset + 14)
        <5>1. /\ Len(s) = (offset + 14) - (offset + 11) + 1
              /\ s \in Seq(Byte)
          BY <4>1, SubSeqProperties
        <5>2. s \in [1 .. Len(s) -> Byte]
          BY <5>1, LenProperties, ZenonT(60)
        <5> QED
          BY <5>1, <5>2
      <4>3. Return(SubSeq(data, offset + 11, offset + 14))
        BY <1>7, <2>2, <3>1, <3>2, <4>1 DEF Fixed
      <4> QED
        BY <4>2, <4>3, ReturnKeeps, ZenonT(60)
    <3>3. CASE ~IsAddress(offset + 10)
      <4>1. Reading((offset + 8) + 1)
        BY <3>1 DEF Reading
      <4>2. u16_from_be_bytes(offset + 8) \in Nat
        BY <4>1, U16Type
      <4>3. /\ Go("record", offset + 10 + u16_from_be_bytes(offset + 8))
            /\ left' = left - 1
            /\ left >= 1
        BY <1>7, <2>2, <3>1, <3>3 DEF Fixed
      <4> QED
        BY <4>2, <4>3, GoKeeps
    <3> QED
      BY <3>2, <3>3
  <2> QED
    BY <2>1, <2>2
<1>8. CASE UNCHANGED parseVars
  BY <1>8 DEF parseVars, NeverPanics
<1> QED
  BY <1>1, <1>2, <1>3, <1>4, <1>5, <1>6, <1>7, <1>8 DEF ParseNext

(* parse_dns_response reads only bytes that are in the packet, whatever    *)
(* lengths, counts and pointers the packet holds: the slice indexing of    *)
(* dns.rs never panics.                                                    *)
THEOREM ParserSafe == ParseSpec => []NeverPanics
<1>1. ParseInv => NeverPanics
  BY DEF ParseInv
<1> QED
  BY <1>1, InitParse, NextParse, PTL DEF ParseSpec

(* Its state keeps the types, the record counter of the loop never wraps.  *)
THEOREM ParserTyped == ParseSpec => []ParseTypeOK
<1>1. ParseInv => ParseTypeOK
  BY DEF ParseInv
<1> QED
  BY <1>1, InitParse, NextParse, PTL DEF ParseSpec

-----------------------------------------------------------------------------
(* What an answer message looks like in bytes. *)

(* A number of two bytes is read back as it was written. *)
LEMMA U16Parts ==
  ASSUME NEW n \in u16
  PROVE  /\ U16(n) \in Seq(Byte) /\ Len(U16(n)) = 2
         /\ 256 * U16(n)[1] + U16(n)[2] = n
<1>1. PICK a \in Byte, b \in Byte : a = n \div 256 /\ b = n % 256 /\ 256 * a + b = n
  BY DEF Byte, u16
<1>2. U16(n) = <<a, b>>
  BY <1>1 DEF U16
<1>3. <<a, b>> \in Seq(Byte) /\ Len(<<a, b>>) = 2 /\ <<a, b>>[1] = a /\ <<a, b>>[2] = b
  BY <1>1
<1> QED BY <1>1, <1>2, <1>3

(* Where label j + 1 begins among the encoded labels. *)
LabelsOf(labels) == [i \in DOMAIN labels |-> EncodeLabel(labels[i])]

LabelAt(labels, j) == FlatLen(LabelsOf(labels), j)

(* A label is encoded as its length and its bytes. *)
LEMMA EncodedLabel ==
  ASSUME NEW l \in Label
  PROVE  /\ EncodeLabel(l) \in Seq(Byte) /\ Len(l) \in Nat /\ 1 <= Len(l) /\ Len(l) < 192
         /\ Len(EncodeLabel(l)) = 1 + Len(l) /\ EncodeLabel(l)[1] = Len(l)
<1>1. l \in Seq(Byte) /\ Len(l) \in Nat /\ 1 <= Len(l) /\ Len(l) < 192
  BY LenProperties DEF Label
<1>2. PICK n \in Byte : n = Len(l) /\ n = Len(l) % 256
  BY <1>1 DEF Byte
<1>3. <<n>> \in Seq(Byte) /\ Len(<<n>>) = 1 /\ <<n>>[1] = n
  BY <1>2
<1>4. EncodeLabel(l) = <<n>> \o l
  BY <1>2 DEF EncodeLabel
<1>5. PICK a, c : a \in Seq(Byte) /\ a = <<n>> /\ c = EncodeLabel(l) /\ c = a \o l
  BY <1>3, <1>4, ZenonT(60)
<1>6. /\ c \in Seq(Byte) /\ Len(c) = Len(a) + Len(l) /\ \A i \in 1 .. Len(a) : c[i] = a[i]
  BY ONLY <1>1, <1>5, ConcatParts, SMTT(60), Z3T(60)
<1>7. Len(a) = 1 /\ a[1] = n
  BY <1>3, <1>5
<1>8. c[1] = n
  BY <1>6, <1>7
<1> QED BY <1>1, <1>2, <1>5, <1>6, <1>7, <1>8

(* Labels are encoded as bytes, one label after the other. *)
LEMMA LabelsType ==
  ASSUME NEW labels \in Seq(Label)
  PROVE  /\ LabelsOf(labels) \in Seq(Seq(Byte)) /\ Len(LabelsOf(labels)) = Len(labels)
         /\ Len(labels) \in Nat /\ DOMAIN labels = 1 .. Len(labels)
         /\ EncodeLabels(labels) = Flatten(LabelsOf(labels))
         /\ EncodeLabels(labels) \in Seq(Byte)
<1>1. PICK n \in Nat : n = Len(labels) /\ DOMAIN labels = 1 .. n
  BY LenProperties
<1>2. \A i \in 1 .. n : EncodeLabel(labels[i]) \in Seq(Byte)
  BY <1>1, EncodedLabel, ElementOfSeq
<1>3. PICK t : t = LabelsOf(labels)
  BY ZenonT(60)
<1>4. t = [i \in 1 .. n |-> EncodeLabel(labels[i])]
  BY <1>1, <1>3 DEF LabelsOf
<1>5. t \in Seq(Seq(Byte)) /\ Len(t) = n
  BY <1>2, <1>4
<1> QED BY <1>1, <1>3, <1>5, FlattenType, ZenonT(60) DEF EncodeLabels, LabelsOf

(* The labels lie one behind the other, each behind its length. *)
LEMMA LabelSteps ==
  ASSUME NEW labels \in Seq(Label), NEW j \in 0 .. Len(labels), NEW e, e = EncodeLabels(labels)
  PROVE  /\ LabelAt(labels, j) \in Nat /\ LabelAt(labels, j) <= Len(e) /\ Len(e) \in Nat
         /\ j = 0 => LabelAt(labels, j) = 0
         /\ j = Len(labels) => LabelAt(labels, j) = Len(e)
         /\ j < Len(labels) =>
              /\ LabelAt(labels, j) < Len(e)
              /\ e[LabelAt(labels, j) + 1] \in Byte
              /\ 1 <= e[LabelAt(labels, j) + 1] /\ e[LabelAt(labels, j) + 1] < 192
              /\ LabelAt(labels, j + 1) = LabelAt(labels, j) + 1 + e[LabelAt(labels, j) + 1]
<1>1. PICK n \in Nat, t \in Seq(Seq(Byte)) :
        /\ n = Len(labels) /\ t = LabelsOf(labels) /\ Len(t) = n /\ e = Flatten(t)
        /\ DOMAIN labels = 1 .. n
  BY LabelsType
<1>2. PICK p : p = FlatLen(t, j) /\ p = LabelAt(labels, j)
  BY <1>1, ZenonT(60) DEF LabelAt
<1>3. /\ p \in Nat /\ p <= Len(e) /\ Len(e) \in Nat
      /\ j = 0 => p = 0
      /\ j = n => p = Len(e)
  <2>1. j \in Nat /\ j <= n /\ n <= Len(t)
    BY <1>1
  <2> QED BY <1>1, <1>2, <2>1, FlattenEnds, ZenonT(60)
<1>4. ASSUME j < n
      PROVE  /\ p < Len(e) /\ e[p + 1] \in Byte /\ 1 <= e[p + 1] /\ e[p + 1] < 192
             /\ LabelAt(labels, j + 1) = p + 1 + e[p + 1]
  <2>1. PICK m \in Nat : m = j + 1 /\ m \in 1 .. n
    BY <1>1, <1>4
  <2>2. PICK l \in Label : l = labels[m] /\ t[m] = EncodeLabel(l)
    BY <1>1, <2>1, ElementOfSeq DEF LabelsOf
  <2>3. t \in Seq(Seq(Byte)) /\ j \in Nat /\ j < Len(t) /\ m = j + 1
    BY <1>1, <1>4, <2>1
  <2>4. /\ FlatLen(t, m) = FlatLen(t, j) + Len(t[m])
        /\ FlatLen(t, m) <= Len(Flatten(t))
        /\ \A i \in 1 .. Len(t[m]) : Flatten(t)[FlatLen(t, j) + i] = t[m][i]
    BY ONLY <2>3, FlattenPart, SMTT(60), Z3T(60)
  <2>5. /\ Len(l) \in Nat /\ 1 <= Len(l) /\ Len(l) < 192
        /\ Len(t[m]) = 1 + Len(l) /\ t[m][1] = Len(l)
    BY <2>2, EncodedLabel, ZenonT(60)
  <2>6. 1 \in 1 .. Len(t[m])
    BY <2>5
  <2>7. e[p + 1] = Len(l)
    BY <1>1, <1>2, <2>4, <2>5, <2>6
  <2>8. FlatLen(t, m) = p + (1 + Len(l)) /\ FlatLen(t, m) <= Len(e)
    BY <1>1, <1>2, <2>4, <2>5, ZenonT(60)
  <2>9. LabelAt(labels, j + 1) = FlatLen(t, m)
    BY <1>1, <2>1 DEF LabelAt
  <2>10. PICK x \in Byte : x = Len(l)
    BY <2>5 DEF Byte
  <2>11. x \in Nat /\ 1 <= x /\ x < 192 /\ e[p + 1] = x /\ LabelAt(labels, j + 1) = p + (1 + x)
         /\ p + (1 + x) <= Len(e)
    BY <2>5, <2>7, <2>8, <2>9, <2>10
  <2> QED BY <1>3, <2>11
<1> QED BY <1>1, <1>2, <1>3, <1>4

(* What the encoded name of a record holds. *)
LEMMA NameParts ==
  ASSUME NEW name \in [labels : Seq(Label), end : Pointers \cup {Root}], NEW e, e = EncodeLabels(name.labels),
         NEW c, c = EncodeName(name)
  PROVE  /\ c \in Seq(Byte) /\ e \in Seq(Byte) /\ Len(e) \in Nat /\ Len(c) \in Nat
         /\ name.end = Root => Len(c) = Len(e) + 1 /\ c[Len(e) + 1] = 0
         /\ name.end # Root => Len(c) = Len(e) + 2 /\ c[Len(e) + 1] >= 192
         /\ \A i \in 1 .. Len(e) : c[i] = e[i]
<1>1. e \in Seq(Byte) /\ Len(e) \in Nat
  BY LabelsType, LenProperties
<1>2. PICK b : b = name.end
  BY ZenonT(60)
<1>3. b \in Seq(Byte) /\ (b = Root => Len(b) = 1 /\ b[1] = 0) /\ (b # Root => Len(b) = 2 /\ b[1] >= 192)
  <2>1. CASE b = Root
    BY <2>1 DEF Root, Byte
  <2>2. CASE b # Root
    BY <1>2, <2>2 DEF Pointers
  <2> QED BY <2>1, <2>2
<1>4. c = e \o b
  BY <1>2 DEF EncodeName
<1>5. /\ c \in Seq(Byte) /\ Len(b) \in Nat /\ Len(c) = Len(e) + Len(b)
      /\ \A i \in 1 .. Len(e) : c[i] = e[i]
      /\ \A i \in 1 .. Len(b) : c[Len(e) + i] = b[i]
  BY ONLY <1>1, <1>3, <1>4, ConcatParts, SMTT(60), Z3T(60)
<1>6. 1 \in 1 .. Len(b)
  BY <1>3
<1>7. c[Len(e) + 1] = b[1]
  BY <1>5, <1>6
<1>8. ASSUME b = Root PROVE Len(c) = Len(e) + 1 /\ c[Len(e) + 1] = 0
  BY <1>3, <1>5, <1>7, <1>8, ZenonT(60)
<1>9. ASSUME b # Root PROVE Len(c) = Len(e) + 2 /\ c[Len(e) + 1] >= 192
  <2>1. Len(b) = 2 /\ b[1] >= 192
    BY <1>3, <1>9, ZenonT(60)
  <2> QED BY <1>5, <1>7, <2>1
<1>10. Len(c) \in Nat
  BY <1>1, <1>5
<1> QED BY <1>1, <1>2, <1>5, <1>8, <1>9, <1>10, ZenonT(60)

(* The first byte of a name that is not mixed tells how it ends. *)
LEMMA PlainName ==
  ASSUME NEW name \in [labels : Seq(Label), end : Pointers \cup {Root}], ~Mixed(name),
         NEW c, c = EncodeName(name)
  PROVE  /\ c[1] >= 192 => Len(c) = 2
         /\ ~(c[1] >= 192) => name.end = Root
<1>1. PICK e : e = EncodeLabels(name.labels)
  BY ZenonT(60)
<1>2. /\ Len(e) \in Nat
      /\ name.end = Root => Len(c) = Len(e) + 1 /\ c[Len(e) + 1] = 0
      /\ name.end # Root => Len(c) = Len(e) + 2 /\ c[Len(e) + 1] >= 192
      /\ \A i \in 1 .. Len(e) : c[i] = e[i]
  BY <1>1, NameParts
<1>3. name.labels \in Seq(Label) /\ Len(name.labels) \in Nat
  BY LenProperties
<1>4. CASE name.labels = << >>
  <2>1. Len(name.labels) = 0 /\ 0 \in 0 .. Len(name.labels)
    BY <1>4
  <2>2. Len(e) = 0
    BY <1>1, <1>3, <2>1, LabelSteps
  <2> QED BY <1>2, <2>2
<1>5. CASE name.labels # << >>
  <2>1. name.end = Root
    BY <1>5 DEF Mixed
  <2>2. 0 < Len(name.labels) /\ 0 \in 0 .. Len(name.labels)
    BY <1>3, <1>5, EmptySeq
  <2>3. /\ LabelAt(name.labels, 0) = 0 /\ LabelAt(name.labels, 0) < Len(e)
        /\ e[LabelAt(name.labels, 0) + 1] \in Byte /\ e[LabelAt(name.labels, 0) + 1] < 192
    BY <1>1, <1>3, <2>2, LabelSteps
  <2>4. c[1] = e[1] /\ e[1] \in Nat /\ e[1] < 192
    BY <1>2, <2>3 DEF Byte
  <2> QED BY <2>1, <2>4
<1> QED BY <1>4, <1>5

Records == [name : OwnerNames, body : RecordData]

(* Six sequences in a row, of which four have lengths that are known. *)
Six(S, c, y, n, t, k, f, l, d) ==
  /\ n \in Seq(S) /\ t \in Seq(S) /\ k \in Seq(S) /\ f \in Seq(S) /\ l \in Seq(S) /\ d \in Seq(S)
  /\ y = Len(n)
  /\ c = n \o t \o k \o f \o l \o d
  /\ Len(t) = 2 /\ Len(k) = 2 /\ Len(f) = 4 /\ Len(l) = 2

SixAre(S, c, y, n, t, l, d) ==
  /\ c \in Seq(S) /\ y \in Nat /\ Len(d) \in Nat
  /\ Len(c) = y + 10 + Len(d)
  /\ \A i \in 1 .. y : c[i] = n[i]
  /\ c[y + 1] = t[1] /\ c[y + 2] = t[2]
  /\ c[y + 9] = l[1] /\ c[y + 10] = l[2]
  /\ \A i \in 1 .. Len(d) : c[y + 10 + i] = d[i]

(* Where each of the six is in their concatenation. *)
LEMMA SixParts ==
  ASSUME NEW S, NEW c, NEW y, NEW n, NEW t, NEW k, NEW f, NEW l, NEW d,
         Six(S, c, y, n, t, k, f, l, d)
  PROVE  SixAre(S, c, y, n, t, l, d)
<1>0. y = Len(n) /\ Len(t) = 2 /\ Len(k) = 2 /\ Len(f) = 4 /\ Len(l) = 2
  BY DEF Six
<1> n \in Seq(S) /\ t \in Seq(S) /\ k \in Seq(S) /\ f \in Seq(S) /\ l \in Seq(S) /\ d \in Seq(S)
  BY DEF Six
<1>1. PICK p, q, r, s : p = n \o t /\ q = p \o k /\ r = q \o f /\ s = r \o l /\ c = s \o d
  BY ZenonT(60) DEF Six
<1>2. /\ p \in Seq(S) /\ Len(n) \in Nat /\ Len(t) \in Nat /\ Len(p) = Len(n) + Len(t)
      /\ \A i \in 1 .. Len(n) : p[i] = n[i]
      /\ \A i \in 1 .. Len(t) : p[Len(n) + i] = t[i]
  <2>1. p = n \o t
    BY <1>1
  <2> QED BY ONLY n \in Seq(S), t \in Seq(S), <2>1, ConcatParts, SMTT(60), Z3T(60)
<1>3. /\ q \in Seq(S) /\ Len(p) \in Nat /\ Len(k) \in Nat /\ Len(q) = Len(p) + Len(k)
      /\ \A i \in 1 .. Len(p) : q[i] = p[i]
  <2>1. q = p \o k /\ p \in Seq(S)
    BY <1>1, <1>2
  <2> QED BY ONLY k \in Seq(S), <2>1, ConcatParts, SMTT(60), Z3T(60)
<1>4. /\ r \in Seq(S) /\ Len(q) \in Nat /\ Len(f) \in Nat /\ Len(r) = Len(q) + Len(f)
      /\ \A i \in 1 .. Len(q) : r[i] = q[i]
  <2>1. r = q \o f /\ q \in Seq(S)
    BY <1>1, <1>3
  <2> QED BY ONLY f \in Seq(S), <2>1, ConcatParts, SMTT(60), Z3T(60)
<1>5. /\ s \in Seq(S) /\ Len(r) \in Nat /\ Len(l) \in Nat /\ Len(s) = Len(r) + Len(l)
      /\ \A i \in 1 .. Len(r) : s[i] = r[i]
      /\ \A i \in 1 .. Len(l) : s[Len(r) + i] = l[i]
  <2>1. s = r \o l /\ r \in Seq(S)
    BY <1>1, <1>4
  <2> QED BY ONLY l \in Seq(S), <2>1, ConcatParts, SMTT(60), Z3T(60)
<1>6. /\ c \in Seq(S) /\ Len(s) \in Nat /\ Len(d) \in Nat /\ Len(c) = Len(s) + Len(d)
      /\ \A i \in 1 .. Len(s) : c[i] = s[i]
      /\ \A i \in 1 .. Len(d) : c[Len(s) + i] = d[i]
  <2>1. c = s \o d /\ s \in Seq(S)
    BY <1>1, <1>5
  <2> QED BY ONLY d \in Seq(S), <2>1, ConcatParts, SMTT(60), Z3T(60)
<1>7. y \in Nat /\ Len(p) = y + 2 /\ Len(q) = y + 4 /\ Len(r) = y + 8 /\ Len(s) = y + 10
  BY <1>0, <1>2, <1>3, <1>4, <1>5
<1>8. ASSUME NEW i \in 1 .. y + 2 PROVE c[i] = p[i]
  <2>1. i \in 1 .. Len(p) /\ i \in 1 .. Len(q) /\ i \in 1 .. Len(r) /\ i \in 1 .. Len(s)
    BY <1>7
  <2>2. q[i] = p[i]
    BY <1>3, <2>1
  <2>3. r[i] = q[i]
    BY <1>4, <2>1
  <2>4. s[i] = r[i]
    BY <1>5, <2>1
  <2>5. c[i] = s[i]
    BY <1>6, <2>1
  <2> QED BY <2>2, <2>3, <2>4, <2>5
<1>9. ASSUME NEW i \in 1 .. y PROVE c[i] = n[i]
  <2>1. i \in 1 .. y + 2
    BY <1>7
  <2> QED BY <1>0, <1>2, <1>8, <2>1
<1>10. c[y + 1] = t[1] /\ c[y + 2] = t[2]
  <2>1. y + 1 \in 1 .. y + 2 /\ y + 2 \in 1 .. y + 2 /\ 1 \in 1 .. Len(t) /\ 2 \in 1 .. Len(t)
    BY <1>0, <1>7
  <2>2. p[y + 1] = t[1] /\ p[y + 2] = t[2]
    BY <1>0, <1>2, <2>1, ZenonT(60)
  <2> QED BY <1>8, <2>1, <2>2, ZenonT(60)
<1>11. c[y + 9] = l[1] /\ c[y + 10] = l[2]
  <2>1. /\ y + 9 \in 1 .. Len(s) /\ y + 10 \in 1 .. Len(s) /\ 1 \in 1 .. Len(l) /\ 2 \in 1 .. Len(l)
        /\ Len(r) + 1 = y + 9 /\ Len(r) + 2 = y + 10
    BY <1>0, <1>7
  <2>2. s[Len(r) + 1] = l[1] /\ s[Len(r) + 2] = l[2]
    BY <1>5, <2>1, ZenonT(60)
  <2>3. c[y + 9] = s[y + 9] /\ c[y + 10] = s[y + 10]
    BY <1>6, <2>1, ZenonT(60)
  <2> QED BY <2>1, <2>2, <2>3, ZenonT(60)
<1>12. ASSUME NEW i \in 1 .. Len(d) PROVE c[y + 10 + i] = d[i]
  BY <1>6, <1>7, ZenonT(60)
<1>13. Len(c) = y + 10 + Len(d)
  BY <1>6, <1>7
<1> QED BY <1>6, <1>7, <1>9, <1>10, <1>11, <1>12, <1>13, ZenonT(60) DEF SixAre

(* What a record encodes to: its name, ten bytes with its type and the     *)
(* length of its data, its data.                                           *)
RecordIs(r, c, n, d) ==
  /\ c \in Seq(Byte) /\ Len(n) \in Nat /\ Len(n) >= 1 /\ Len(d) \in Nat
  /\ Len(c) = Len(n) + 10 + Len(d)
  /\ \A i \in 1 .. Len(n) : c[i] = n[i]
  /\ 256 * c[Len(n) + 1] + c[Len(n) + 2] = r.body.rtype
  /\ 256 * c[Len(n) + 9] + c[Len(n) + 10] = Len(d)
  /\ \A i \in 1 .. Len(d) : c[Len(n) + 10 + i] = d[i]

(* A record is encoded as its name, type, class, time to live, length and  *)
(* data.                                                                   *)
LEMMA RecordParts ==
  ASSUME NEW r \in Records
  PROVE  RecordIs(r, EncodeRecord(r), EncodeName(r.name), r.body.rdata)
<1>0. PICK c, n, d, y : c = EncodeRecord(r) /\ n = EncodeName(r.name) /\ d = r.body.rdata /\ y = Len(n)
  BY ZenonT(60)
<1>1. /\ r.name \in [labels : Seq(Label), end : Pointers \cup {Root}]
      /\ r.body.rtype \in u16 /\ d \in Seq(Byte) /\ Len(d) \in Nat /\ Len(d) \in u16
  BY <1>0, AnswersAssumption, LenProperties DEF Records
<1>2. n \in Seq(Byte) /\ y \in Nat /\ y >= 1
  <2>1. PICK name \in [labels : Seq(Label), end : Pointers \cup {Root}] : name = r.name
    BY <1>1
  <2>0. PICK e : e = EncodeLabels(name.labels)
    BY ZenonT(60)
  <2>2. /\ n \in Seq(Byte) /\ Len(e) \in Nat
        /\ name.end = Root => Len(n) = Len(e) + 1
        /\ name.end # Root => Len(n) = Len(e) + 2
    BY <1>0, <2>0, <2>1, NameParts
  <2> QED BY <1>0, <2>2
<1>3. PICK t \in Seq(Byte) : t = U16(r.body.rtype) /\ Len(t) = 2 /\ 256 * t[1] + t[2] = r.body.rtype
  BY <1>1, U16Parts
<1>4. PICK k \in Seq(Byte) : k = U16(1) /\ Len(k) = 2
  <2>1. 1 \in u16
    BY DEF u16
  <2> QED BY <2>1, U16Parts
<1>5. PICK l \in Seq(Byte) : l = U16(Len(d)) /\ Len(l) = 2 /\ 256 * l[1] + l[2] = Len(d)
  BY <1>1, U16Parts
<1>6. PICK f \in Seq(Byte) : f = <<0, 0, 1, 0>> /\ Len(f) = 4
  <2>1. PICK z \in Byte, o \in Byte : z = 0 /\ o = 1
    BY DEF Byte
  <2>2. <<z, z, o, z>> \in Seq(Byte) /\ Len(<<z, z, o, z>>) = 4
    OBVIOUS
  <2> QED BY <2>1, <2>2, ZenonT(60)
<1>7. Six(Byte, c, y, n, t, k, f, l, d)
  BY <1>0, <1>1, <1>2, <1>3, <1>4, <1>5, <1>6 DEF EncodeRecord, Six
<1>8. SixAre(Byte, c, y, n, t, l, d)
  BY ONLY <1>7, SixParts, ZenonT(60)
<1>9. 256 * c[y + 1] + c[y + 2] = r.body.rtype /\ 256 * c[y + 9] + c[y + 10] = Len(d)
  BY <1>3, <1>5, <1>8 DEF SixAre
<1>10. Len(d) \in Nat
  BY <1>1
<1>11. RecordIs(r, c, n, d)
  <2>1. /\ c \in Seq(Byte) /\ Len(c) = y + 10 + Len(d)
        /\ \A i \in 1 .. y : c[i] = n[i]
        /\ \A i \in 1 .. Len(d) : c[y + 10 + i] = d[i]
    BY <1>8, ZenonT(60) DEF SixAre
  <2> QED BY <1>0, <1>2, <1>9, <1>10, <2>1, ZenonT(60) DEF RecordIs
<1> QED BY <1>0, <1>11, ZenonT(60)

(* The header of a query has twelve bytes. *)
LEMMA HeaderLength ==
  \E h \in Seq(Byte) : /\ Len(h) = 12
                      /\ h = <<171, 205, 1, 0>> \o U16(1) \o U16(0) \o U16(0) \o U16(0)
<1>1. PICK i \in Seq(Byte) : i = <<171, 205, 1, 0>> /\ Len(i) = 4
  <2>1. PICK v \in Byte, w \in Byte, x \in Byte, y \in Byte : v = 171 /\ w = 205 /\ x = 1 /\ y = 0
    BY DEF Byte
  <2>2. <<v, w, x, y>> \in Seq(Byte) /\ Len(<<v, w, x, y>>) = 4
    OBVIOUS
  <2> QED BY <2>1, <2>2, ZenonT(60)
<1>2. PICK u \in Seq(Byte) : u = U16(1) /\ Len(u) = 2
  <2>1. 1 \in u16
    BY DEF u16
  <2> QED BY <2>1, U16Parts
<1>3. PICK z \in Seq(Byte) : z = U16(0) /\ Len(z) = 2
  <2>1. 0 \in u16
    BY DEF u16
  <2> QED BY <2>1, U16Parts
<1>4. PICK a \in Seq(Byte) : a = i \o u /\ Len(a) = 6
  <2>1. i \o u \in Seq(Byte) /\ Len(i \o u) = Len(i) + Len(u)
    BY ConcatProperties
  <2>2. Len(i) = 4 /\ Len(u) = 2
    BY <1>1, <1>2, ZenonT(60)
  <2>3. Len(i \o u) = 6
    BY ONLY <2>1, <2>2, SMTT(60), Z3T(60)
  <2> QED BY <2>1, <2>3, ZenonT(60)
<1>5. PICK b \in Seq(Byte) : b = a \o z /\ Len(b) = 8
  <2>1. a \o z \in Seq(Byte) /\ Len(a \o z) = Len(a) + Len(z)
    BY ConcatProperties
  <2>2. Len(a) = 6 /\ Len(z) = 2
    BY <1>3, <1>4, ZenonT(60)
  <2>3. Len(a \o z) = 8
    BY ONLY <2>1, <2>2, SMTT(60), Z3T(60)
  <2> QED BY <2>1, <2>3, ZenonT(60)
<1>6. PICK c \in Seq(Byte) : c = b \o z /\ Len(c) = 10
  <2>1. b \o z \in Seq(Byte) /\ Len(b \o z) = Len(b) + Len(z)
    BY ConcatProperties
  <2>2. Len(b) = 8 /\ Len(z) = 2
    BY <1>3, <1>5, ZenonT(60)
  <2>3. Len(b \o z) = 10
    BY ONLY <2>1, <2>2, SMTT(60), Z3T(60)
  <2> QED BY <2>1, <2>3, ZenonT(60)
<1>7. PICK d \in Seq(Byte) : d = c \o z /\ Len(d) = 12
  <2>1. c \o z \in Seq(Byte) /\ Len(c \o z) = Len(c) + Len(z)
    BY ConcatProperties
  <2>2. Len(c) = 10 /\ Len(z) = 2
    BY <1>3, <1>6, ZenonT(60)
  <2>3. Len(c \o z) = 12
    BY ONLY <2>1, <2>2, SMTT(60), Z3T(60)
  <2> QED BY <2>1, <2>3, ZenonT(60)
<1>8. d = <<171, 205, 1, 0>> \o U16(1) \o U16(0) \o U16(0) \o U16(0)
  BY <1>1, <1>2, <1>3, <1>4, <1>5, <1>6, <1>7, ZenonT(60)
<1> QED BY <1>7, <1>8, ZenonT(60)

(* What build_dns_query makes of a domain of labels. *)
QueryIs(q, l) ==
  /\ q \in Seq(Byte) /\ Len(l) \in Nat /\ Len(q) = Len(l) + 17
  /\ \A i \in 1 .. Len(l) : q[12 + i] = l[i]
  /\ q[Len(l) + 13] = 0

(* build_dns_query puts the labels behind the header, then the root label. *)
LEMMA QueryParts ==
  ASSUME NEW labels \in Seq(Label), NEW l, l = EncodeLabels(labels)
  PROVE  QueryIs(build_dns_query(labels), l)
<1>1. l \in Seq(Byte)
  BY LabelsType
<1>2. PICK h \in Seq(Byte) :
        Len(h) = 12 /\ h = <<171, 205, 1, 0>> \o U16(1) \o U16(0) \o U16(0) \o U16(0)
  BY HeaderLength, ZenonT(60)
<1>3. PICK z \in Seq(Byte) : z = <<0>> /\ Len(z) = 1 /\ z[1] = 0
  <2>1. PICK o \in Byte : o = 0
    BY DEF Byte
  <2>2. <<o>> \in Seq(Byte) /\ Len(<<o>>) = 1 /\ <<o>>[1] = o
    OBVIOUS
  <2> QED BY <2>1, <2>2, ZenonT(60)
<1>4. PICK u \in Seq(Byte) : u = U16(1) /\ Len(u) = 2
  <2>1. 1 \in u16
    BY DEF u16
  <2> QED BY <2>1, U16Parts
<1>5. PICK a, b, c, q : /\ a = h \o l /\ b = a \o z /\ c = b \o u /\ q = c \o u
                         /\ q = build_dns_query(labels)
  BY <1>2, <1>3, <1>4, ZenonT(60) DEF build_dns_query
<1>6. /\ a \in Seq(Byte) /\ Len(l) \in Nat /\ Len(a) = Len(h) + Len(l)
      /\ \A i \in 1 .. Len(l) : a[Len(h) + i] = l[i]
  <2>1. a = h \o l
    BY <1>5
  <2> QED BY ONLY h \in Seq(Byte), <1>1, <2>1, ConcatParts, SMTT(60), Z3T(60)
<1>7. /\ b \in Seq(Byte) /\ Len(a) \in Nat /\ Len(b) = Len(a) + Len(z)
      /\ \A i \in 1 .. Len(a) : b[i] = a[i]
      /\ \A i \in 1 .. Len(z) : b[Len(a) + i] = z[i]
  <2>1. b = a \o z /\ a \in Seq(Byte)
    BY <1>5, <1>6
  <2> QED BY ONLY z \in Seq(Byte), <2>1, ConcatParts, SMTT(60), Z3T(60)
<1>8. /\ c \in Seq(Byte) /\ Len(b) \in Nat /\ Len(c) = Len(b) + Len(u)
      /\ \A i \in 1 .. Len(b) : c[i] = b[i]
  <2>1. c = b \o u /\ b \in Seq(Byte)
    BY <1>5, <1>7
  <2> QED BY ONLY u \in Seq(Byte), <2>1, ConcatParts, SMTT(60), Z3T(60)
<1>9. /\ q \in Seq(Byte) /\ Len(c) \in Nat /\ Len(q) = Len(c) + Len(u)
      /\ \A i \in 1 .. Len(c) : q[i] = c[i]
  <2>1. q = c \o u /\ c \in Seq(Byte)
    BY <1>5, <1>8
  <2> QED BY ONLY u \in Seq(Byte), <2>1, ConcatParts, SMTT(60), Z3T(60)
<1>10. PICK n \in Nat : /\ n = Len(l) /\ Len(a) = n + 12 /\ Len(b) = n + 13
                        /\ Len(c) = n + 15 /\ Len(q) = n + 17
  <2>1. Len(h) = 12 /\ Len(z) = 1 /\ Len(u) = 2
    BY <1>2, <1>3, <1>4, ZenonT(60)
  <2>2. /\ Len(l) \in Nat /\ Len(a) = Len(h) + Len(l) /\ Len(b) = Len(a) + Len(z)
        /\ Len(c) = Len(b) + Len(u) /\ Len(q) = Len(c) + Len(u)
    BY <1>6, <1>7, <1>8, <1>9, ZenonT(60)
  <2> QED BY ONLY <2>1, <2>2, SMTT(60), Z3T(60)
<1>11. ASSUME NEW i \in 1 .. n + 13 PROVE q[i] = b[i]
  <2>1. i \in 1 .. Len(b) /\ i \in 1 .. Len(c)
    BY <1>10
  <2> QED BY <1>8, <1>9, <2>1, ZenonT(60)
<1>12. ASSUME NEW i \in 1 .. n PROVE q[12 + i] = l[i]
  <2>1. 12 + i \in 1 .. n + 13 /\ 12 + i \in 1 .. Len(a) /\ i \in 1 .. Len(l)
    BY <1>10
  <2>2. b[12 + i] = a[12 + i]
    BY <1>7, <2>1, ZenonT(60)
  <2>3. a[Len(h) + i] = l[i]
    BY <1>6, <2>1, ZenonT(60)
  <2>4. Len(h) = 12
    BY <1>2, ZenonT(60)
  <2>5. q[12 + i] = b[12 + i]
    BY <1>11, <2>1, ZenonT(60)
  <2> QED BY ONLY <2>2, <2>3, <2>4, <2>5, SMTT(60), Z3T(60)
<1>13. q[n + 13] = 0
  <2>1. n + 13 \in 1 .. n + 13 /\ 1 \in 1 .. Len(z) /\ Len(a) + 1 = n + 13
    BY <1>3, <1>10
  <2>2. b[Len(a) + 1] = z[1]
    BY <1>7, <2>1
  <2> QED BY <1>3, <1>11, <2>1, <2>2
<1> QED BY <1>5, <1>9, <1>10, <1>12, <1>13 DEF QueryIs

(* What the bytes before the records hold. *)
QuestionIs(q, l, ancount) ==
  /\ q \in Seq(Byte) /\ Len(l) \in Nat /\ Len(q) = Len(l) + 17
  /\ 256 * q[7] + q[8] = ancount
  /\ \A i \in 1 .. Len(l) : q[12 + i] = l[i]
  /\ q[Len(l) + 13] = 0

(* An answer begins like the query, with the number of its records. *)
LEMMA QuestionParts ==
  ASSUME NEW m \in Messages, NEW l, l = EncodeLabels(m.domain)
  PROVE  QuestionIs(EncodeQuestion(m), l, m.ancount)
<1>1. m.domain \in Seq(Label) /\ m.ancount \in u16
  BY AnswersAssumption DEF Messages, u16
<1>2. PICK w : w = build_dns_query(m.domain) /\ QueryIs(w, l)
  BY <1>1, QueryParts
<1>3. PICK n \in Nat : /\ n = Len(l) /\ w \in Seq(Byte) /\ Len(w) = n + 17 /\ w[n + 13] = 0
                       /\ \A i \in 1 .. n : w[12 + i] = l[i]
  BY <1>2 DEF QueryIs
<1>4. \A i \in 1 .. n + 17 : w[i] \in Byte
  BY <1>3, ElementOfSeq
<1>5. PICK a \in Seq(Byte) : a = SubSeq(w, 1, 6) /\ Len(a) = 6
  <2>1. \A i \in 1 .. 6 : w[i] \in Byte
    BY <1>4
  <2>2. SubSeq(w, 1, 6) \in Seq(Byte) /\ Len(SubSeq(w, 1, 6)) = 6
    BY <2>1, SubSeqProperties
  <2> QED BY <2>2, ZenonT(60)
<1>6. PICK b \in Seq(Byte) : b = U16(m.ancount) /\ Len(b) = 2 /\ 256 * b[1] + b[2] = m.ancount
  BY <1>1, U16Parts
<1>7. PICK g \in Seq(Byte) : /\ g = SubSeq(w, 9, Len(w)) /\ Len(g) = n + 9
                             /\ \A i \in 1 .. n + 9 : g[i] = w[8 + i]
  <2>1. PICK e \in Int : e = Len(w) /\ e = n + 17
    BY <1>3
  <2>2. \A i \in 9 .. e : w[i] \in Byte
    BY <1>4, <2>1
  <2>3. /\ SubSeq(w, 9, e) \in Seq(Byte)
        /\ Len(SubSeq(w, 9, e)) = IF 9 <= e THEN e - 9 + 1 ELSE 0
        /\ \A i \in 1 .. e - 9 + 1 : SubSeq(w, 9, e)[i] = w[9 + i - 1]
    BY <2>2, SubSeqProperties
  <2>4. e - 9 + 1 = n + 9 /\ 9 <= e
    BY <2>1
  <2>5. Len(SubSeq(w, 9, e)) = n + 9 /\ \A i \in 1 .. n + 9 : SubSeq(w, 9, e)[i] = w[8 + i]
    BY <2>3, <2>4
  <2> QED BY <2>1, <2>3, <2>5, ZenonT(60)
<1>8. PICK c, q : c = a \o b /\ q = c \o g /\ q = EncodeQuestion(m)
  BY <1>2, <1>5, <1>6, <1>7, ZenonT(60) DEF EncodeQuestion
<1>9. /\ c \in Seq(Byte) /\ Len(c) = Len(a) + Len(b)
      /\ \A i \in 1 .. Len(b) : c[Len(a) + i] = b[i]
  <2>1. c = a \o b
    BY <1>8
  <2> QED BY ONLY a \in Seq(Byte), b \in Seq(Byte), <2>1, ConcatParts, SMTT(60), Z3T(60)
<1>10. /\ q \in Seq(Byte) /\ Len(q) = Len(c) + Len(g)
       /\ \A i \in 1 .. Len(c) : q[i] = c[i]
       /\ \A i \in 1 .. Len(g) : q[Len(c) + i] = g[i]
  <2>1. q = c \o g /\ c \in Seq(Byte)
    BY <1>8, <1>9
  <2> QED BY ONLY g \in Seq(Byte), <2>1, ConcatParts, SMTT(60), Z3T(60)
<1>11. Len(c) = 8 /\ Len(q) = n + 17
  BY <1>5, <1>6, <1>7, <1>9, <1>10
<1>12. q[7] = b[1] /\ q[8] = b[2]
  <2>1. 1 \in 1 .. Len(b) /\ 2 \in 1 .. Len(b) /\ 7 \in 1 .. Len(c) /\ 8 \in 1 .. Len(c)
    BY <1>6, <1>11
  <2>2. c[7] = b[1] /\ c[8] = b[2]
    <3>1. c[Len(a) + 1] = b[1] /\ c[Len(a) + 2] = b[2]
      BY <1>9, <2>1, ZenonT(60)
    <3> QED BY <1>5, <3>1
  <2> QED BY <1>10, <2>1, <2>2, ZenonT(60)
<1>13. ASSUME NEW i \in 1 .. n + 9 PROVE q[8 + i] = w[8 + i]
  BY <1>7, <1>10, <1>11
<1>14. ASSUME NEW i \in 1 .. n PROVE q[12 + i] = l[i]
  <2>1. PICK j : j \in 1 .. n + 9 /\ j = 4 + i /\ 8 + j = 12 + i
    OBVIOUS
  <2> QED BY <1>3, <1>13, <2>1
<1>15. q[n + 13] = 0
  <2>1. PICK j : j \in 1 .. n + 9 /\ j = n + 5 /\ 8 + j = n + 13
    OBVIOUS
  <2> QED BY <1>3, <1>13, <2>1
<1> QED BY <1>3, <1>6, <1>8, <1>10, <1>11, <1>12, <1>14, <1>15 DEF QuestionIs

RecordsOf(m) == [i \in 1 .. Len(m.records) |-> EncodeRecord(m.records[i])]

(* Where record k + 1 of message m begins, counted from 0. *)
Start(m, k) == Len(EncodeUpTo(m, k))

LEMMA RecordsType ==
  ASSUME NEW m \in Messages
  PROVE  /\ m.records \in Seq(Records) /\ Len(m.records) \in Nat /\ DOMAIN m.records = 1 .. Len(m.records)
         /\ RecordsOf(m) \in Seq(Seq(Byte)) /\ Len(RecordsOf(m)) = Len(m.records)
<1>1. m.records \in SequencesUpTo(Records, MaxRecords)
  BY DEF Messages, Records
<1>2. PICK n \in Nat : m.records \in [1 .. n -> Records]
  BY <1>1, AnswersAssumption DEF SequencesUpTo
<1>3. m.records \in Seq(Records) /\ Len(m.records) = n
  BY <1>2
<1>4. ASSUME NEW i \in 1 .. n PROVE EncodeRecord(m.records[i]) \in Seq(Byte)
  <2>1. PICK r \in Records : r = m.records[i]
    BY <1>2
  <2> QED BY <2>1, RecordParts, ZenonT(60) DEF RecordIs
<1>5. PICK t : t = RecordsOf(m) /\ t = [i \in 1 .. n |-> EncodeRecord(m.records[i])]
  BY <1>3, ZenonT(60) DEF RecordsOf
<1>6. t \in Seq(Seq(Byte)) /\ Len(t) = n
  BY <1>4, <1>5
<1> QED BY <1>2, <1>3, <1>5, <1>6

(* The bytes up to a record are the question and the records before it. *)
LEMMA UpToParts ==
  ASSUME NEW m \in Messages, NEW k \in Nat, k <= Len(m.records)
  PROVE  /\ EncodeUpTo(m, k) = EncodeQuestion(m) \o Flatten(Upto(RecordsOf(m), k))
         /\ EncodeUpTo(m, k) \in Seq(Byte) /\ Start(m, k) \in Nat
         /\ Len(EncodeQuestion(m)) \in Nat /\ FlatLen(RecordsOf(m), k) \in Nat
         /\ Start(m, k) = Len(EncodeQuestion(m)) + FlatLen(RecordsOf(m), k)
<1>1. PICK n \in Nat, t \in Seq(Seq(Byte)) : n = Len(m.records) /\ t = RecordsOf(m) /\ Len(t) = n
  BY RecordsType
<1>2. [i \in 1 .. k |-> EncodeRecord(m.records[i])] = Upto(t, k)
  BY <1>1 DEF RecordsOf, Upto
<1>3. PICK q, f : q = EncodeQuestion(m) /\ f = Flatten(Upto(t, k))
  BY ZenonT(60)
<1>4. f \in Seq(Byte)
  BY <1>1, <1>3, UptoStep, FlattenType
<1>5. q \in Seq(Byte)
  <2>1. PICK l : l = EncodeLabels(m.domain)
    BY ZenonT(60)
  <2> QED BY <1>3, <2>1, QuestionParts DEF QuestionIs
<1>6. PICK c : c = EncodeUpTo(m, k) /\ c = q \o f
  BY <1>2, <1>3, ZenonT(60) DEF EncodeUpTo
<1>7. c \in Seq(Byte) /\ Len(q) \in Nat /\ Len(f) \in Nat /\ Len(c) = Len(q) + Len(f)
  BY ONLY <1>4, <1>5, <1>6, ConcatParts, SMTT(60), Z3T(60)
<1> QED BY <1>1, <1>3, <1>6, <1>7 DEF Start, FlatLen

(* The records begin one behind the other, the first behind the question. *)
LEMMA StartSteps ==
  ASSUME NEW m \in Messages, NEW j \in Nat, NEW k \in Nat, j <= k, k <= Len(m.records)
  PROVE  /\ Start(m, j) \in Nat /\ Start(m, k) \in Nat /\ Start(m, j) <= Start(m, k)
         /\ Start(m, 0) = Len(EncodeQuestion(m))
         /\ k < Len(m.records) =>
              /\ Start(m, k + 1) \in Nat
              /\ Start(m, k + 1) = Start(m, k) + Len(EncodeRecord(m.records[k + 1]))
<1>1. PICK n \in Nat, t \in Seq(Seq(Byte)) : n = Len(m.records) /\ t = RecordsOf(m) /\ Len(t) = n
  BY RecordsType
<1>2. PICK z \in Nat : z = Len(EncodeQuestion(m))
  BY UpToParts
<1>3. ASSUME NEW i \in Nat, i <= n PROVE Start(m, i) \in Nat /\ Start(m, i) = z + FlatLen(t, i)
  BY <1>1, <1>2, <1>3, UpToParts
<1>4. FlatLen(t, j) \in Nat /\ FlatLen(t, k) \in Nat /\ FlatLen(t, j) <= FlatLen(t, k)
  BY <1>1, FlattenEnds
<1>5. FlatLen(t, 0) = 0
  BY <1>1, FlattenEnds
<1>6. Start(m, j) \in Nat /\ Start(m, k) \in Nat /\ Start(m, j) <= Start(m, k) /\ Start(m, 0) = z
  BY <1>1, <1>3, <1>4, <1>5
<1>7. ASSUME k < n
      PROVE  /\ Start(m, k + 1) \in Nat
             /\ Start(m, k + 1) = Start(m, k) + Len(EncodeRecord(m.records[k + 1]))
  <2>1. PICK p \in Nat : p = k + 1 /\ p \in 1 .. n
    BY <1>7
  <2>2. FlatLen(t, p) = FlatLen(t, k) + Len(t[p])
    <3>1. k < Len(t) /\ k \in Nat /\ p = k + 1 /\ t \in Seq(Seq(Byte))
      BY <1>1, <1>7, <2>1
    <3> QED BY ONLY <3>1, FlattenPart, SMTT(60), Z3T(60)
  <2>3. t[p] = EncodeRecord(m.records[p])
    BY <1>1, <2>1 DEF RecordsOf
  <2>4. t[p] \in Seq(Byte) /\ Len(t[p]) \in Nat
    BY <1>1, <2>1, ElementOfSeq, LenProperties
  <2>5. /\ Start(m, p) \in Nat /\ Start(m, p) = z + FlatLen(t, p) /\ Start(m, k) = z + FlatLen(t, k)
    BY <1>1, <1>3, <2>1
  <2>6. Start(m, p) = Start(m, k) + Len(t[p])
    BY <1>4, <2>2, <2>4, <2>5
  <2> QED BY <2>1, <2>3, <2>5, <2>6
<1> QED BY <1>1, <1>2, <1>6, <1>7

(* The packet is the message up to where it is cut. *)
LEMMA DataPrefix ==
  ASSUME NEW m \in Messages, NEW d, d = Encode(m), NEW w, w = EncodeUpTo(m, Len(m.records))
  PROVE  /\ d \in Seq(Byte) /\ Len(d) \in Nat /\ Len(d) <= Len(w)
         /\ \A i \in 1 .. Len(d) : d[i] = w[i]
<1>1. PICK n \in Nat : n = Len(m.records)
  BY RecordsType
<1>2. w \in Seq(Byte) /\ Len(w) \in Nat
  BY <1>1, UpToParts, LenProperties
<1>3. m.cut \in Nat
  <2>1. m.cut \in Cuts
    BY DEF Messages
  <2>2. Cuts \subseteq Nat
    BY AnswersAssumption, ZenonT(60)
  <2> QED BY <2>1, <2>2, ZenonT(60)
<1>4. PICK e \in Int : e = Len(w) - m.cut /\ e <= Len(w)
  BY <1>2, <1>3
<1>5. d = SubSeq(w, 1, e)
  BY <1>4 DEF Encode
<1>6. \A i \in 1 .. e : w[i] \in Byte
  BY <1>2, <1>4, ElementOfSeq
<1>7. /\ SubSeq(w, 1, e) \in Seq(Byte)
      /\ Len(SubSeq(w, 1, e)) = IF 1 <= e THEN e - 1 + 1 ELSE 0
      /\ \A i \in 1 .. e - 1 + 1 : SubSeq(w, 1, e)[i] = w[1 + i - 1]
  BY <1>6, SubSeqProperties
<1>8. \A i \in 1 .. Len(d) : d[i] = w[i]
  BY <1>4, <1>5, <1>7
<1>9. Len(d) \in Nat /\ Len(d) <= Len(w)
  BY <1>2, <1>4, <1>5, <1>7
<1> QED BY <1>5, <1>7, <1>8, <1>9

(* Where the packet holds the question, and where record k + 1. *)
LEMMA DataHoldsQuestion ==
  ASSUME NEW m \in Messages, NEW d, d = Encode(m), NEW q, q = EncodeQuestion(m),
         NEW i \in 1 .. Len(q), i <= Len(d)
  PROVE  d[i] = q[i]
<1>1. PICK n \in Nat, t \in Seq(Seq(Byte)) : n = Len(m.records) /\ t = RecordsOf(m) /\ Len(t) = n
  BY RecordsType
<1>2. PICK w, f : w = EncodeUpTo(m, n) /\ f = Flatten(Upto(t, n)) /\ w = q \o f
  <2>1. n \in Nat /\ n <= Len(m.records)
    BY <1>1
  <2>2. EncodeUpTo(m, n) = EncodeQuestion(m) \o Flatten(Upto(RecordsOf(m), n))
    BY <2>1, UpToParts, ZenonT(60)
  <2> QED BY <1>1, <2>2, ZenonT(60)
<1>3. q \in Seq(Byte) /\ f \in Seq(Byte)
  <2>1. PICK l : l = EncodeLabels(m.domain)
    BY ZenonT(60)
  <2>2. q \in Seq(Byte)
    BY <2>1, QuestionParts DEF QuestionIs
  <2>3. Upto(t, n) = t
    BY <1>1, UptoStep
  <2> QED BY <1>2, <2>2, <2>3, FlattenType, ZenonT(60)
<1>4. \A p \in 1 .. Len(q) : w[p] = q[p]
  BY ONLY <1>2, <1>3, ConcatParts, SMTT(60), Z3T(60)
<1>5. i \in 1 .. Len(d) /\ d[i] = w[i]
  <2>1. w = EncodeUpTo(m, Len(m.records))
    BY <1>1, <1>2
  <2>2. Len(d) \in Nat /\ \A x \in 1 .. Len(d) : d[x] = w[x]
    BY <2>1, DataPrefix
  <2> QED BY <2>2
<1> QED BY <1>4, <1>5

(* As far as the packet goes, it holds the bytes of every record at its    *)
(* place.                                                                  *)
LEMMA DataHoldsRecord ==
  ASSUME NEW m \in Messages, NEW d, d = Encode(m), NEW k \in Nat, k < Len(m.records),
         NEW c, c = EncodeRecord(m.records[k + 1]),
         NEW i \in 1 .. Len(c), Start(m, k) + i <= Len(d)
  PROVE  d[Start(m, k) + i] = c[i]
<1>1. PICK n \in Nat, t \in Seq(Seq(Byte)) : n = Len(m.records) /\ t = RecordsOf(m) /\ Len(t) = n
  BY RecordsType
<1>2. PICK w, q, f : w = EncodeUpTo(m, n) /\ q = EncodeQuestion(m) /\ f = Flatten(t)
  BY ZenonT(60)
<1>3. w = q \o f
  <2>1. Upto(t, n) = t
    BY <1>1, UptoStep
  <2>2. n \in Nat /\ n <= Len(m.records)
    BY <1>1
  <2>3. EncodeUpTo(m, n) = EncodeQuestion(m) \o Flatten(Upto(RecordsOf(m), n))
    BY <2>2, UpToParts, ZenonT(60)
  <2> QED BY <1>1, <1>2, <2>1, <2>3, ZenonT(60)
<1>4. q \in Seq(Byte) /\ f \in Seq(Byte)
  <2>1. PICK l : l = EncodeLabels(m.domain)
    BY ZenonT(60)
  <2>2. q \in Seq(Byte)
    BY <1>2, <2>1, QuestionParts DEF QuestionIs
  <2> QED BY <1>2, <2>2, FlattenType
<1>5. Len(q) \in Nat /\ \A p \in 1 .. Len(f) : w[Len(q) + p] = f[p]
  BY ONLY <1>3, <1>4, ConcatParts, SMTT(60), Z3T(60)
<1>6. PICK p \in Nat : p = k + 1 /\ p \in 1 .. n /\ t[p] = c
  BY <1>1 DEF RecordsOf
<1>7. /\ FlatLen(t, k) \in Nat /\ FlatLen(t, p) = FlatLen(t, k) + Len(t[p])
      /\ FlatLen(t, p) <= Len(Flatten(t))
      /\ \A x \in 1 .. Len(t[p]) : Flatten(t)[FlatLen(t, k) + x] = t[p][x]
  <2>1. k < Len(t) /\ k \in Nat /\ p = k + 1 /\ t \in Seq(Seq(Byte))
    BY <1>1, <1>6
  <2> QED BY ONLY <2>1, FlattenPart, SMTT(60), Z3T(60)
<1>8. PICK b \in Nat, z \in Nat : b = FlatLen(t, k) /\ z = Len(q) /\ Start(m, k) = z + b
  <2>1. k \in Nat /\ k <= Len(m.records)
    BY <1>1
  <2>2. /\ Len(EncodeQuestion(m)) \in Nat /\ FlatLen(RecordsOf(m), k) \in Nat
        /\ Start(m, k) = Len(EncodeQuestion(m)) + FlatLen(RecordsOf(m), k)
    BY <2>1, UpToParts, ZenonT(60)
  <2> QED BY <1>1, <1>2, <2>2, ZenonT(60)
<1>9. f[b + i] = c[i] /\ b + Len(c) <= Len(f)
  BY <1>2, <1>6, <1>7, <1>8
<1>10. b + i \in 1 .. Len(f)
  <2>1. Len(c) \in Nat /\ Len(f) \in Nat
    BY <1>1, <1>4, <1>6, ElementOfSeq, LenProperties
  <2> QED BY <1>9, <2>1
<1>11. w[z + (b + i)] = c[i]
  BY <1>5, <1>8, <1>9, <1>10, ZenonT(60)
<1>12. PICK x : x = Start(m, k) + i /\ x = z + (b + i)
  BY <1>8
<1>13. Len(d) \in Nat /\ \A u \in 1 .. Len(d) : d[u] = w[u]
  <2>1. w = EncodeUpTo(m, Len(m.records))
    BY <1>1, <1>2
  <2> QED BY <2>1, DataPrefix
<1>14. d[x] = w[x]
  BY <1>8, <1>12, <1>13
<1> QED BY <1>11, <1>12, <1>14

-----------------------------------------------------------------------------
(* The walk through an answer. *)


(* The packet encodes the message. *)
Encoded == message \in Messages /\ data = Encode(message)

RecordAt(k) == message.records[k + 1]

(* Record k + 1 as the parser finds it: its name from position s on, ten   *)
(* bytes, its data, as far as the packet goes.                             *)
Found(k, r, n, s) ==
  /\ s \in Nat /\ Len(n) \in Nat /\ Len(n) >= 1 /\ Len(r.body.rdata) \in Nat
  /\ Start(message, k + 1) = s + Len(n) + 10 + Len(r.body.rdata)
  /\ \A i \in 1 .. Len(n) : s + i <= Len(data) => data[s + i] = n[i]
  /\ s + Len(n) + 10 <= Len(data) =>
       /\ 256 * data[s + Len(n) + 1] + data[s + Len(n) + 2] = r.body.rtype
       /\ 256 * data[s + Len(n) + 9] + data[s + Len(n) + 10] = Len(r.body.rdata)
  /\ \A i \in 1 .. Len(r.body.rdata) :
       s + Len(n) + 10 + i <= Len(data) => data[s + Len(n) + 10 + i] = r.body.rdata[i]

(* Every record is in the packet the way the parser reads it. *)
LEMMA RecordFound ==
  ASSUME Encoded, NEW k \in Nat, k < Len(message.records)
  PROVE  /\ RecordAt(k) \in Records
         /\ Found(k, RecordAt(k), EncodeName(RecordAt(k).name), Start(message, k))
<1>1. PICK m \in Messages : m = message /\ data = Encode(m)
  BY ZenonT(60) DEF Encoded
<1>2. PICK d, r, c : d = data /\ r = RecordAt(k) /\ c = EncodeRecord(r)
  BY ZenonT(60)
<1>3. PICK n, b, s : n = EncodeName(r.name) /\ b = r.body.rdata /\ s = Start(m, k)
  BY ZenonT(60)
<1>4. r \in Records /\ c = EncodeRecord(m.records[k + 1])
  <2>1. k + 1 \in 1 .. Len(m.records) /\ m.records \in Seq(Records)
    BY <1>1, RecordsType
  <2>2. m.records[k + 1] \in Records
    BY <2>1, ElementOfSeq
  <2> QED BY <1>1, <1>2, <2>2 DEF RecordAt
<1>5. RecordIs(r, c, n, b)
  BY <1>2, <1>3, <1>4, RecordParts, ZenonT(60)
<1>6. PICK x \in Nat, y \in Nat :
        /\ x = Len(n) /\ y = Len(b) /\ x >= 1 /\ Len(c) = x + 10 + y
        /\ \A i \in 1 .. x : c[i] = n[i]
        /\ 256 * c[x + 1] + c[x + 2] = r.body.rtype
        /\ 256 * c[x + 9] + c[x + 10] = y
        /\ \A i \in 1 .. y : c[x + 10 + i] = b[i]
  BY <1>5, ZenonT(60) DEF RecordIs
<1>7. /\ s \in Nat /\ Start(m, k + 1) = s + Len(c)
  <2>1. k <= k /\ k <= Len(m.records) /\ k < Len(m.records)
    BY <1>1
  <2> QED BY <1>3, <1>4, <2>1, StartSteps
<1>8. ASSUME NEW i \in 1 .. Len(c), s + i <= Len(d) PROVE d[s + i] = c[i]
  <2>1. k < Len(m.records) /\ d = Encode(m) /\ Start(m, k) + i <= Len(d)
    BY <1>1, <1>2, <1>3, <1>8
  <2>2. d[Start(m, k) + i] = c[i]
    BY <1>4, <2>1, DataHoldsRecord
  <2> QED BY <1>3, <2>2
<1>9. Len(d) \in Nat
  BY <1>1, <1>2, DataPrefix
<1>10. ASSUME NEW i \in 1 .. x, s + i <= Len(d) PROVE d[s + i] = n[i]
  <2>1. i \in 1 .. Len(c)
    BY <1>6
  <2> QED BY <1>6, <1>8, <1>10, <2>1
<1>11. ASSUME s + x + 10 <= Len(d)
       PROVE  256 * d[s + x + 1] + d[s + x + 2] = r.body.rtype /\ 256 * d[s + x + 9] + d[s + x + 10] = y
  <2>1. ASSUME NEW i \in {1, 2, 9, 10} PROVE d[s + x + i] = c[x + i]
    <3>1. x + i \in 1 .. Len(c) /\ s + (x + i) <= Len(d) /\ s + (x + i) = s + x + i
      <4>1. s \in Nat /\ Len(d) \in Nat /\ Len(c) = x + 10 + y
        BY <1>6, <1>7, <1>9, ZenonT(60)
      <4> QED BY ONLY x \in Nat, y \in Nat, i \in {1, 2, 9, 10}, <1>11, <4>1, SMTT(60), Z3T(60)
    <3> QED BY <1>8, <3>1
  <2> QED BY <1>6, <2>1
<1>12. ASSUME NEW i \in 1 .. y, s + x + 10 + i <= Len(d) PROVE d[s + x + 10 + i] = b[i]
  <2>1. x + 10 + i \in 1 .. Len(c) /\ s + (x + 10 + i) <= Len(d) /\ s + (x + 10 + i) = s + x + 10 + i
    BY <1>6, <1>7, <1>9, <1>12
  <2> QED BY <1>6, <1>8, <2>1
<1>13. Start(m, k + 1) = s + x + 10 + y
  <2>1. Len(c) = x + 10 + y /\ x \in Nat /\ y \in Nat /\ s \in Nat
    BY <1>6, <1>7
  <2>2. s + (x + 10 + y) = s + x + 10 + y
    BY <2>1
  <2> QED BY <1>7, <2>1, <2>2, ZenonT(60)
<1>14. Found(k, r, n, s)
  <2>1. Len(n) = x /\ Len(r.body.rdata) = y /\ b = r.body.rdata /\ message = m /\ data = d
    BY <1>1, <1>2, <1>3, <1>6
  <2> QED BY <1>6, <1>7, <1>10, <1>11, <1>12, <1>13, <2>1, ZenonT(60) DEF Found
<1> QED BY <1>1, <1>2, <1>3, <1>4, <1>14

(* What the packet holds ends with its last record. *)
LEMMA DataEnds ==
  ASSUME Encoded, NEW n, n = Len(message.records)
  PROVE  /\ n \in Nat /\ Start(message, n) \in Nat /\ Len(data) \in Nat /\ Len(data) <= Start(message, n)
         /\ message.ancount \in Nat /\ Start(message, 0) \in Nat
<1>1. PICK m \in Messages : m = message /\ data = Encode(m)
  BY ZenonT(60) DEF Encoded
<1>2. n \in Nat /\ n = Len(m.records)
  BY <1>1, RecordsType
<1>3. PICK w : w = EncodeUpTo(m, Len(m.records)) /\ Start(m, n) = Len(w)
  BY <1>2 DEF Start
<1>4. Len(data) \in Nat /\ Len(data) <= Len(w)
  BY <1>1, <1>3, DataPrefix
<1>5. Start(m, n) \in Nat /\ Start(m, 0) \in Nat
  BY <1>2, UpToParts
<1>6. m.ancount \in Nat
  <2>1. m.ancount \in 0 .. MaxCount
    BY DEF Messages
  <2> QED BY <2>1
<1> QED BY <1>1, <1>2, <1>3, <1>4, <1>5, <1>6

(* An address lies behind the records before it, wholly in the packet. *)
LEMMA AddressFits ==
  ASSUME Encoded, NEW i \in Addresses(message), NEW k \in Nat, k < i
  PROVE  /\ i \in 1 .. Len(message.records) /\ i <= message.ancount
         /\ k < Len(message.records)
         /\ Start(message, k) \in Nat /\ Start(message, k + 1) \in Nat
         /\ Start(message, k + 1) <= Len(data)
         /\ Start(message, k) + 15 <= Len(data)
<1>1. PICK m \in Messages : m = message /\ data = Encode(m)
  BY ZenonT(60) DEF Encoded
<1>2. PICK n \in Nat : n = Len(m.records) /\ DOMAIN m.records = 1 .. n
  BY RecordsType
<1>3. /\ i \in 1 .. n /\ i <= m.ancount /\ Start(m, i) <= Len(data)
      /\ Len(m.records[i].body.rdata) = 4
  BY <1>1, <1>2 DEF Addresses, Start
<1>4. PICK j \in Nat : j = i - 1 /\ j + 1 = i /\ j < n /\ k <= j /\ k < n
  BY <1>3
<1>5. Start(m, k) \in Nat /\ Start(m, j) \in Nat /\ Start(m, k) <= Start(m, j)
  BY <1>2, <1>4, StartSteps
<1>6. PICK l \in Nat : l = k + 1 /\ l <= i /\ i <= n
  BY <1>3, <1>4
<1>7. Start(m, l) \in Nat /\ Start(m, i) \in Nat /\ Start(m, l) <= Start(m, i)
  BY <1>2, <1>3, <1>6, StartSteps
<1>8. Start(m, i) >= Start(m, j) + 15
  <2>1. PICK r, x : r = RecordAt(j) /\ x = Len(EncodeName(r.name)) /\ r = m.records[i]
    BY <1>1, <1>4, ZenonT(60) DEF RecordAt
  <2>2. x \in Nat /\ x >= 1 /\ Start(m, i) = Start(m, j) + x + 10 + 4
    <3>1. j < Len(message.records)
      BY <1>1, <1>2, <1>4
    <3>2. Found(j, RecordAt(j), EncodeName(RecordAt(j).name), Start(message, j))
      BY <3>1, RecordFound, ZenonT(60)
    <3>3. Found(j, r, EncodeName(r.name), Start(m, j)) /\ Len(r.body.rdata) = 4
      BY <1>1, <1>3, <2>1, <3>2, ZenonT(60)
    <3> QED BY <1>1, <1>4, <2>1, <3>3, ZenonT(60) DEF Found
  <2> QED BY <1>5, <2>2
<1>9. Len(data) \in Nat
  BY <1>1, DataPrefix
<1>10. Start(m, l) <= Len(data) /\ Start(m, k) + 15 <= Len(data)
  BY <1>3, <1>5, <1>7, <1>8, <1>9
<1> QED BY <1>1, <1>2, <1>3, <1>4, <1>5, <1>6, <1>7, <1>10

(* No name that hides where its record goes on comes before an address. *)
Plain ==
  \A i \in DOMAIN message.records :
    Mixed(message.records[i].name) => \E j \in Addresses(message) : j < i

(* The first k records are passed: none of them is an address. *)
Passed(k, l) ==
  /\ k \in Nat /\ k <= Len(message.records)
  /\ l = message.ancount - k
  /\ \A i \in Addresses(message) : i > k

(* The packet ends here, and there is no address in it. *)
Over(position) == Addresses(message) = {} /\ position + 10 > Len(data)

LabelsAt(k) == RecordAt(k).name.labels

NameLength(k) == Len(EncodeName(RecordAt(k).name))

(* Where the parser is in the message, and how many records it has left. *)
InQuestion(position, l) ==
  /\ l = message.ancount
  /\ \E j \in 0 .. Len(message.domain) : position = 12 + LabelAt(message.domain, j)

AtRecord(position, l) ==
  Over(position) \/ \E k \in Nat : Passed(k, l) /\ position = Start(message, k)

InName(position, l) ==
  \E k \in Nat :
    /\ Passed(k, l) /\ k < Len(message.records)
    /\ RecordAt(k).name.end = Root
    /\ \E j \in 0 .. Len(LabelsAt(k)) : position = Start(message, k) + LabelAt(LabelsAt(k), j)

AtFixed(position, l) ==
  \/ Over(position)
  \/ \E k \in Nat : /\ Passed(k, l) /\ k < Len(message.records)
                    /\ position = Start(message, k) + NameLength(k)

OnTrack ==
  /\ pc = "question" => InQuestion(offset, left)
  /\ pc = "record" => AtRecord(offset, left)
  /\ pc = "name" => InName(offset, left)
  /\ pc = "fixed" => AtFixed(offset, left)
  /\ pc = "done" => address = FirstAddress(message)

AnswersInv == /\ ParseInv
              /\ Encoded
              /\ Plain => OnTrack

(* Where record k + 1 does not end in the packet there is no address left. *)
LEMMA NothingLeft ==
  ASSUME Encoded, NEW k, NEW l, Passed(k, l),
         k < Len(message.records) => Start(message, k + 1) > Len(data) \/ Start(message, k) + 15 > Len(data)
  PROVE  Addresses(message) = {}
<1> SUFFICES ASSUME NEW i \in Addresses(message) PROVE FALSE
  OBVIOUS
<1>1. k \in Nat /\ k < i
  BY DEF Passed
<1>2. /\ k < Len(message.records)
      /\ Start(message, k) \in Nat /\ Start(message, k + 1) \in Nat
      /\ Start(message, k + 1) <= Len(data)
      /\ Start(message, k) + 15 <= Len(data)
  BY <1>1, AddressFits
<1> QED BY <1>2, DataEnds

(* When the header counts no more records, no later one is an address. *)
LEMMA CountedOut ==
  ASSUME Encoded, NEW k, Passed(k, 0)
  PROVE  Addresses(message) = {}
<1> SUFFICES ASSUME NEW i \in Addresses(message) PROVE FALSE
  OBVIOUS
<1>1. k \in Nat /\ k < i /\ 0 = message.ancount - k
  BY DEF Passed
<1>2. i <= message.ancount /\ i \in Nat
  BY <1>1, AddressFits
<1>3. message.ancount \in Nat
  BY DataEnds, ZenonT(60)
<1> QED BY <1>1, <1>2, <1>3

(* The next record has a plain name. *)
LEMMA NextIsPlain ==
  ASSUME Encoded, Plain, NEW k, NEW l, Passed(k, l), k < Len(message.records)
  PROVE  ~Mixed(RecordAt(k).name)
<1>1. PICK n \in Nat : n = Len(message.records) /\ DOMAIN message.records = 1 .. n
  BY RecordsType DEF Encoded
<1>2. k \in Nat /\ k + 1 \in DOMAIN message.records
  BY <1>1 DEF Passed
<1>3. ASSUME Mixed(RecordAt(k).name) PROVE FALSE
  <2>1. PICK j \in Addresses(message) : j < k + 1
    BY <1>2, <1>3, ZenonT(60) DEF Plain, RecordAt
  <2>2. k < j
    BY DEF Passed
  <2>3. j \in Nat
    BY <1>2, <2>2, AddressFits
  <2> QED BY <1>2, <2>1, <2>2, <2>3
<1> QED BY <1>3

(* The message and the packet stay what they are. *)
Same == /\ message' = message /\ data' = data
        /\ Addresses(message)' = Addresses(message)
        /\ FirstAddress(message)' = FirstAddress(message)
        /\ Plain' = Plain /\ Encoded' = Encoded

(* The parser does not change the packet. *)
LEMMA StaysSame == AnswersNext \/ UNCHANGED answerVars => Same
<1> SUFFICES ASSUME AnswersNext \/ UNCHANGED answerVars PROVE Same
  OBVIOUS
<1>1. message' = message /\ data' = data
  BY DEF AnswersNext, answerVars, parseVars, ParseNext, Header, QuestionLabel, QuestionEnd, Record,
         NameLabel, NameEnd, Fixed, Return, Go, Panic
<1>2. Addresses(message)' = Addresses(message)
  BY <1>1 DEF Addresses
<1>3. FirstAddress(message)' = FirstAddress(message)
  BY <1>1, <1>2 DEF FirstAddress
<1>4. Plain' = Plain /\ Encoded' = Encoded
  BY <1>1, <1>2 DEF Plain, Encoded
<1> QED BY <1>1, <1>2, <1>3, <1>4 DEF Same

(* Each place the parser can go on from is on its track. *)
LEMMA ToQuestion ==
  ASSUME Same, pc' = "question", InQuestion(offset', left') PROVE OnTrack'
BY DEF Same, OnTrack, InQuestion

LEMMA ToRecord ==
  ASSUME Same, pc' = "record", AtRecord(offset', left') PROVE OnTrack'
BY DEF Same, OnTrack, AtRecord, Passed, Over

LEMMA ToName ==
  ASSUME Same, pc' = "name", InName(offset', left') PROVE OnTrack'
BY ZenonT(60) DEF Same, OnTrack, InName, Passed, RecordAt, LabelsAt

LEMMA ToFixed ==
  ASSUME Same, pc' = "fixed", AtFixed(offset', left') PROVE OnTrack'
BY DEF Same, OnTrack, AtFixed, Passed, Over, RecordAt, NameLength

LEMMA ToDone ==
  ASSUME Same, pc' = "done", address' = FirstAddress(message) PROVE OnTrack'
BY DEF Same, OnTrack

(* It may return nothing if there is no address. *)
LEMMA ReturnsNothing ==
  ASSUME Same, Return(NoAddress), Addresses(message) = {} PROVE OnTrack'
<1>1. FirstAddress(message) = NoAddress
  BY DEF FirstAddress
<1> QED BY <1>1, ToDone DEF Return

(* The bytes from position base on are labels and the root label. *)
LabelsHere(labels, base, d) ==
  /\ labels \in Seq(Label) /\ base \in Nat /\ Len(d) \in Nat
  /\ \A i \in 1 .. Len(EncodeLabels(labels)) :
       base + i <= Len(d) => d[base + i] = EncodeLabels(labels)[i]
  /\ base + Len(EncodeLabels(labels)) + 1 <= Len(d) => d[base + Len(EncodeLabels(labels)) + 1] = 0

(* What the loop over labels reads at the beginning of a label. *)
LEMMA LabelRead ==
  ASSUME NEW labels, NEW base, NEW d, LabelsHere(labels, base, d),
         NEW j \in 0 .. Len(labels), NEW p, p = base + LabelAt(labels, j)
  PROVE  /\ p \in Nat /\ p <= base + Len(EncodeLabels(labels)) /\ Len(EncodeLabels(labels)) \in Nat
         /\ p < Len(d) /\ d[p + 1] # 0 =>
              j + 1 \in 0 .. Len(labels) /\ p + 1 + d[p + 1] = base + LabelAt(labels, j + 1)
         /\ p < Len(d) /\ d[p + 1] = 0 => p = base + Len(EncodeLabels(labels))
<1>1. /\ labels \in Seq(Label) /\ base \in Nat /\ Len(d) \in Nat
  BY DEF LabelsHere
<1>2. PICK e, a : e = EncodeLabels(labels) /\ a = LabelAt(labels, j)
  BY ZenonT(60)
<1>3. PICK n \in Nat : n = Len(labels)
  BY <1>1, LabelsType
<1>4. /\ a \in Nat /\ a <= Len(e) /\ Len(e) \in Nat
      /\ j = n => a = Len(e)
      /\ j < n =>
           /\ a < Len(e) /\ e[a + 1] \in Byte /\ 1 <= e[a + 1]
           /\ LabelAt(labels, j + 1) = a + 1 + e[a + 1]
  BY <1>1, <1>2, <1>3, LabelSteps
<1>5. /\ \A i \in 1 .. Len(e) : base + i <= Len(d) => d[base + i] = e[i]
      /\ base + Len(e) + 1 <= Len(d) => d[base + Len(e) + 1] = 0
  BY <1>2, ZenonT(60) DEF LabelsHere
<1>6. p = base + a /\ p \in Nat
  BY <1>1, <1>2, <1>4
<1>7. ASSUME p < Len(d), j < n
      PROVE  d[p + 1] # 0 /\ j + 1 \in 0 .. n /\ p + 1 + d[p + 1] = base + LabelAt(labels, j + 1)
  <2>1. a + 1 \in 1 .. Len(e) /\ base + (a + 1) <= Len(d) /\ base + (a + 1) = p + 1
    BY <1>1, <1>4, <1>6, <1>7
  <2>2. d[p + 1] = e[a + 1]
    BY <1>5, <2>1
  <2>3. PICK x \in Nat : x = e[a + 1] /\ 1 <= x /\ LabelAt(labels, j + 1) = a + 1 + x
    BY <1>4, <1>7 DEF Byte
  <2>4. x # 0 /\ p + 1 + x = base + (a + 1 + x) /\ j + 1 \in 0 .. n
    <3>1. base \in Nat /\ a \in Nat /\ p = base + a /\ j < n /\ j \in 0 .. n
      BY <1>1, <1>3, <1>4, <1>6, <1>7, ZenonT(60)
    <3> QED BY ONLY <2>3, <3>1, n \in Nat, x \in Nat, SMTT(60), Z3T(60)
  <2> QED BY <2>2, <2>3, <2>4
<1>8. ASSUME p < Len(d), ~(j < n) PROVE d[p + 1] = 0 /\ p = base + Len(e)
  <2>1. a = Len(e)
    BY <1>3, <1>4, <1>8
  <2> QED BY <1>1, <1>4, <1>5, <1>6, <1>8, <2>1
<1> QED BY <1>1, <1>2, <1>3, <1>4, <1>6, <1>7, <1>8

(* The question begins after the header, and the records after it. *)
LEMMA QuestionHere ==
  ASSUME Encoded
  PROVE  /\ LabelsHere(message.domain, 12, data)
         /\ Start(message, 0) = Len(EncodeLabels(message.domain)) + 17
         /\ Len(EncodeLabels(message.domain)) \in Nat
         /\ 8 <= Len(data) => 256 * data[7] + data[8] = message.ancount
         /\ Passed(0, message.ancount)
<1>1. PICK m \in Messages, n \in Nat : m = message /\ data = Encode(m) /\ n = Len(m.records)
  BY RecordsType DEF Encoded
<1>2. PICK q, l, d : q = EncodeQuestion(m) /\ l = EncodeLabels(m.domain) /\ d = data
  BY ZenonT(60)
<1>3. PICK x \in Nat : /\ x = Len(l) /\ Len(q) = x + 17 /\ 256 * q[7] + q[8] = m.ancount
                       /\ \A i \in 1 .. x : q[12 + i] = l[i]
                       /\ q[x + 13] = 0
  BY <1>2, QuestionParts, ZenonT(60) DEF QuestionIs
<1>4. Len(d) \in Nat
  BY <1>1, <1>2, DataPrefix
<1>5. ASSUME NEW i \in 1 .. x + 17, i <= Len(d) PROVE d[i] = q[i]
  <2>1. i \in 1 .. Len(q) /\ d = Encode(m)
    BY <1>1, <1>2, <1>3
  <2> QED BY <1>2, <1>5, <2>1, DataHoldsQuestion
<1>6. ASSUME NEW i \in 1 .. x, 12 + i <= Len(d) PROVE d[12 + i] = l[i]
  <2>1. 12 + i \in 1 .. x + 17
    OBVIOUS
  <2> QED BY <1>3, <1>5, <1>6, <2>1
<1>7. ASSUME 12 + x + 1 <= Len(d) PROVE d[12 + x + 1] = 0
  <2>1. PICK y : y = x + 13 /\ y = 12 + x + 1 /\ y \in 1 .. x + 17
    OBVIOUS
  <2> QED BY <1>3, <1>5, <1>7, <2>1
<1>8. m.domain \in Seq(Label)
  BY AnswersAssumption DEF Messages
<1>9. LabelsHere(m.domain, 12, d)
  BY <1>2, <1>3, <1>4, <1>6, <1>7, <1>8 DEF LabelsHere
<1>10. ASSUME 8 <= Len(d) PROVE 256 * d[7] + d[8] = m.ancount
  <2>1. 7 \in 1 .. x + 17 /\ 8 \in 1 .. x + 17 /\ 7 <= Len(d)
    BY <1>4, <1>10
  <2>2. d[7] = q[7] /\ d[8] = q[8]
    BY <1>5, <1>10, <2>1
  <2> QED BY <1>3, <2>2
<1>11. Start(m, 0) = x + 17
  BY <1>1, <1>2, <1>3, StartSteps
<1>12. Passed(0, m.ancount)
  <2>1. m.ancount \in Nat /\ m.ancount = m.ancount - 0
    BY <1>1, DataEnds
  <2>2. \A i \in Addresses(m) : i > 0
    BY RecordsType DEF Addresses
  <2> QED BY <1>1, <2>1, <2>2 DEF Passed
<1> QED BY <1>1, <1>2, <1>3, <1>9, <1>10, <1>11, <1>12

(* The actions of the parser keep it on its track. *)
LEMMA HeaderTracks ==
  ASSUME AnswersInv, Same, Header PROVE OnTrack'
<1>1. Encoded /\ ParseTypeOK /\ Len(data) \in Nat
  BY DataEnds DEF AnswersInv, ParseInv
<1>2. /\ Start(message, 0) \in Nat /\ Start(message, 0) >= 17 /\ Passed(0, message.ancount)
      /\ LabelsHere(message.domain, 12, data)
      /\ 8 <= Len(data) => 256 * data[7] + data[8] = message.ancount
  BY <1>1, QuestionHere
<1>3. CASE Len(data) < 12
  <2>1. Addresses(message) = {}
    <3>1. Start(message, 0) + 15 > Len(data)
      BY <1>1, <1>2, <1>3
    <3> QED BY <1>1, <1>2, <3>1, NothingLeft
  <2>2. Return(NoAddress)
    BY <1>3 DEF Header
  <2> QED BY <2>1, <2>2, ReturnsNothing
<1>4. CASE ~(Len(data) < 12)
  <2>1. u16_from_be_bytes(6) = message.ancount /\ Reading(7)
    BY <1>1, <1>2, <1>4 DEF u16_from_be_bytes, At, Reading
  <2>2. CASE message.ancount = 0
    <3>1. Return(NoAddress)
      BY <1>4, <2>1, <2>2 DEF Header
    <3>2. Addresses(message) = {}
      BY <1>1, <1>2, <2>2, CountedOut
    <3> QED BY <3>1, <3>2, ReturnsNothing
  <2>3. CASE message.ancount # 0
    <3>1. Go("question", 12) /\ left' = message.ancount
      BY <1>4, <2>1, <2>3 DEF Header
    <3>2. 0 \in 0 .. Len(message.domain) /\ LabelAt(message.domain, 0) = 0
      <4>1. message.domain \in Seq(Label)
        BY <1>2 DEF LabelsHere
      <4>2. Len(message.domain) \in Nat
        BY <4>1, LenProperties
      <4> QED BY <4>1, <4>2, LabelSteps
    <3>3. InQuestion(offset', left')
      BY <3>1, <3>2 DEF Go, InQuestion
    <3> QED BY <3>1, <3>3, ToQuestion DEF Go
  <2> QED BY <2>2, <2>3
<1> QED BY <1>3, <1>4

LEMMA QuestionLabelTracks ==
  ASSUME AnswersInv, Same, OnTrack, QuestionLabel PROVE OnTrack'
<1>1. Encoded /\ LabelsHere(message.domain, 12, data)
  BY QuestionHere DEF AnswersInv
<1>2. PICK j \in 0 .. Len(message.domain) :
        left = message.ancount /\ offset = 12 + LabelAt(message.domain, j)
  BY DEF OnTrack, QuestionLabel, InQuestion
<1>3. offset < Len(data) /\ data[offset + 1] # 0
  BY DEF QuestionLabel, MoreLabels, At
<1>4. /\ j + 1 \in 0 .. Len(message.domain)
      /\ offset + 1 + data[offset + 1] = 12 + LabelAt(message.domain, j + 1)
  BY <1>1, <1>2, <1>3, LabelRead
<1>5. pc' = "question" /\ offset' = offset + 1 + data[offset + 1] /\ left' = left
  BY DEF QuestionLabel, Go, At
<1>6. InQuestion(offset', left')
  BY <1>2, <1>4, <1>5, ZenonT(60) DEF InQuestion
<1> QED BY <1>5, <1>6, ToQuestion

LEMMA QuestionEndTracks ==
  ASSUME AnswersInv, Same, OnTrack, QuestionEnd PROVE OnTrack'
<1>1. /\ Encoded /\ LabelsHere(message.domain, 12, data) /\ Passed(0, message.ancount)
      /\ Len(data) \in Nat
  BY QuestionHere, DataEnds DEF AnswersInv
<1>2. PICK j \in 0 .. Len(message.domain) :
        left = message.ancount /\ offset = 12 + LabelAt(message.domain, j)
  BY DEF OnTrack, QuestionEnd, InQuestion
<1>3. PICK x \in Nat : x = Len(EncodeLabels(message.domain)) /\ Start(message, 0) = x + 17
  BY <1>1, QuestionHere
<1>4. /\ offset \in Nat /\ offset <= 12 + x
      /\ offset < Len(data) /\ data[offset + 1] = 0 => offset = 12 + x
  BY <1>1, <1>2, <1>3, LabelRead
<1>5. pc' = "record" /\ offset' = offset + 1 + 4 /\ left' = left
  BY DEF QuestionEnd, Go
<1>6. offset >= Len(data) \/ (offset < Len(data) /\ data[offset + 1] = 0)
  BY <1>1, <1>4 DEF QuestionEnd, MoreLabels, At
<1>7. CASE offset >= Len(data)
  <2>1. Start(message, 0) + 15 > Len(data) /\ offset' + 10 > Len(data)
    BY <1>1, <1>3, <1>4, <1>5, <1>7
  <2>2. Addresses(message) = {}
    BY <1>1, <2>1, NothingLeft
  <2> QED BY <1>5, <2>1, <2>2, ToRecord DEF AtRecord, Over
<1>8. CASE offset < Len(data) /\ data[offset + 1] = 0
  <2>1. offset' = Start(message, 0) /\ left' = message.ancount
    BY <1>2, <1>3, <1>4, <1>5, <1>8
  <2>2. AtRecord(offset', left')
    BY <1>1, <2>1 DEF AtRecord
  <2> QED BY <1>5, <2>2, ToRecord
<1> QED BY <1>6, <1>7, <1>8

LEMMA RecordTracks ==
  ASSUME AnswersInv, Plain, Same, OnTrack, Record PROVE OnTrack'
<1>1. Encoded /\ ParseTypeOK /\ Len(data) \in Nat /\ offset \in Nat /\ left \in Nat
  BY DataEnds DEF AnswersInv, ParseInv, ParseTypeOK
<1>2. AtRecord(offset, left)
  BY DEF OnTrack, Record
<1>3. CASE left = 0 \/ offset + 12 > Len(data)
  <2>1. Return(NoAddress)
    BY <1>3 DEF Record, LoopOver
  <2>2. Addresses(message) = {}
    <3>1. CASE Over(offset)
      BY <3>1 DEF Over
    <3>2. CASE ~Over(offset)
      <4>1. PICK k \in Nat : Passed(k, left) /\ offset = Start(message, k)
        BY <1>2, <3>2 DEF AtRecord
      <4>2. CASE left = 0
        BY <1>1, <4>1, <4>2, CountedOut
      <4>3. CASE offset + 12 > Len(data)
        <5>1. Start(message, k) + 15 > Len(data)
          BY <1>1, <4>1, <4>3
        <5> QED BY <1>1, <4>1, <5>1, NothingLeft
      <4> QED BY <1>3, <4>2, <4>3
    <3> QED BY <3>1, <3>2
  <2> QED BY <2>1, <2>2, ReturnsNothing
<1>4. CASE ~(left = 0 \/ offset + 12 > Len(data))
  <2>1. PICK k \in Nat : Passed(k, left) /\ offset = Start(message, k)
    BY <1>1, <1>2, <1>4 DEF AtRecord, Over
  <2>2. k < Len(message.records)
    <3>1. k <= Len(message.records)
      BY <2>1 DEF Passed
    <3>2. k # Len(message.records)
      BY <1>1, <1>4, <2>1, DataEnds
    <3>3. Len(message.records) \in Nat
      BY <1>1, DataEnds
    <3> QED BY <3>1, <3>2, <3>3
  <2>3. PICK r, n : r = RecordAt(k) /\ n = EncodeName(r.name)
    BY ZenonT(60)
  <2>4. r \in Records /\ Found(k, r, n, offset)
    BY <1>1, <2>1, <2>2, <2>3, RecordFound
  <2>5. data[offset + 1] = n[1]
    BY <1>1, <1>4, <2>4 DEF Found
  <2>6. r.name \in [labels : Seq(Label), end : Pointers \cup {Root}] /\ ~Mixed(r.name)
    <3>1. ~Mixed(r.name)
      BY <1>1, <2>1, <2>2, <2>3, NextIsPlain
    <3>2. r.name \in OwnerNames
      BY <2>4 DEF Records
    <3> QED BY <3>1, <3>2, AnswersAssumption
  <2>7. /\ n[1] >= 192 => Len(n) = 2
        /\ ~(n[1] >= 192) => r.name.end = Root
    BY <2>3, <2>6, PlainName
  <2>8. /\ left' = left
        /\ n[1] >= 192 => pc' = "fixed" /\ offset' = offset + 2
        /\ ~(n[1] >= 192) => pc' = "name" /\ offset' = offset
    BY <1>1, <1>4, <2>5 DEF Record, LoopOver, Reading, At, Go
  <2>9. CASE n[1] >= 192
    <3>1. offset' = Start(message, k) + NameLength(k)
      BY <2>1, <2>3, <2>7, <2>8, <2>9, ZenonT(60) DEF NameLength
    <3>2. AtFixed(offset', left')
      BY <2>1, <2>2, <2>8, <3>1 DEF AtFixed
    <3> QED BY <2>8, <2>9, <3>2, ToFixed
  <2>10. CASE ~(n[1] >= 192)
    <3>1. 0 \in 0 .. Len(LabelsAt(k)) /\ LabelAt(LabelsAt(k), 0) = 0
      <4>1. LabelsAt(k) \in Seq(Label)
        BY <2>3, <2>6 DEF LabelsAt
      <4>2. Len(LabelsAt(k)) \in Nat
        BY <4>1, LenProperties
      <4> QED BY <4>1, <4>2, LabelSteps
    <3>2. offset' = Start(message, k) + LabelAt(LabelsAt(k), 0)
      BY <1>1, <2>1, <2>8, <2>10, <3>1
    <3>3. InName(offset', left')
      BY <2>1, <2>2, <2>3, <2>7, <2>8, <2>10, <3>1, <3>2, ZenonT(60) DEF InName
    <3> QED BY <2>8, <2>10, <3>3, ToName
  <2> QED BY <2>9, <2>10
<1> QED BY <1>3, <1>4

(* Inside of a name that ends in the root label. *)
LEMMA NameHere ==
  ASSUME Encoded, NEW k \in Nat, k < Len(message.records), RecordAt(k).name.end = Root
  PROVE  /\ LabelsHere(LabelsAt(k), Start(message, k), data)
         /\ Len(EncodeLabels(LabelsAt(k))) \in Nat /\ Start(message, k) \in Nat
         /\ NameLength(k) = Len(EncodeLabels(LabelsAt(k))) + 1
         /\ Start(message, k + 1) \in Nat
         /\ Start(message, k + 1) >= Start(message, k) + NameLength(k) + 10
<1>1. PICK r, n, s, e : /\ r = RecordAt(k) /\ n = EncodeName(r.name) /\ s = Start(message, k)
                        /\ e = EncodeLabels(r.name.labels)
  BY ZenonT(60)
<1>2. r \in Records /\ Found(k, r, n, s)
  BY <1>1, RecordFound
<1>3. r.name \in [labels : Seq(Label), end : Pointers \cup {Root}]
  BY <1>2, AnswersAssumption DEF Records
<1>4. PICK x \in Nat : /\ x = Len(e) /\ Len(n) = x + 1 /\ n[x + 1] = 0
                       /\ \A i \in 1 .. x : n[i] = e[i]
  <2>1. r.name.end = Root
    BY <1>1
  <2>2. /\ Len(e) \in Nat /\ (r.name.end = Root => Len(n) = Len(e) + 1 /\ n[Len(e) + 1] = 0)
        /\ \A i \in 1 .. Len(e) : n[i] = e[i]
    <3>1. e = EncodeLabels(r.name.labels) /\ n = EncodeName(r.name)
      BY <1>1
    <3> QED BY ONLY <1>3, <3>1, NameParts, SMTT(60), Z3T(60)
  <2> QED BY <2>1, <2>2, ZenonT(60)
<1>5. /\ s \in Nat /\ \A i \in 1 .. x + 1 : s + i <= Len(data) => data[s + i] = n[i]
  BY <1>2, <1>4 DEF Found
<1>6. Len(data) \in Nat
  BY DataEnds
<1>7. ASSUME NEW i \in 1 .. x, s + i <= Len(data) PROVE data[s + i] = e[i]
  <2>1. i \in 1 .. x + 1
    OBVIOUS
  <2> QED BY <1>4, <1>5, <1>7, <2>1
<1>8. ASSUME s + x + 1 <= Len(data) PROVE data[s + x + 1] = 0
  <2>1. PICK i : i \in 1 .. x + 1 /\ i = x + 1 /\ s + i = s + x + 1
    BY <1>5
  <2> QED BY <1>4, <1>5, <1>8, <2>1
<1>9. LabelsHere(LabelsAt(k), s, data)
  BY <1>1, <1>3, <1>4, <1>5, <1>6, <1>7, <1>8 DEF LabelsHere, LabelsAt
<1>10. PICK y \in Nat : Start(message, k + 1) = s + (x + 1) + 10 + y
  BY <1>2, <1>4, ZenonT(60) DEF Found
<1>11. Start(message, k + 1) \in Nat /\ Start(message, k + 1) >= s + (x + 1) + 10
  BY <1>5, <1>10
<1> QED BY <1>1, <1>4, <1>5, <1>9, <1>11 DEF NameLength, LabelsAt

LEMMA NameLabelTracks ==
  ASSUME AnswersInv, Same, OnTrack, NameLabel PROVE OnTrack'
<1>1. Encoded
  BY DEF AnswersInv
<1>2. PICK k \in Nat : /\ Passed(k, left) /\ k < Len(message.records) /\ RecordAt(k).name.end = Root
                       /\ \E j \in 0 .. Len(LabelsAt(k)) :
                            offset = Start(message, k) + LabelAt(LabelsAt(k), j)
  BY DEF OnTrack, NameLabel, InName
<1>3. PICK j \in 0 .. Len(LabelsAt(k)) : offset = Start(message, k) + LabelAt(LabelsAt(k), j)
  BY <1>2
<1>4. LabelsHere(LabelsAt(k), Start(message, k), data)
  BY <1>1, <1>2, NameHere
<1>5. offset < Len(data) /\ data[offset + 1] # 0
  BY DEF NameLabel, MoreLabels, At
<1>6. /\ j + 1 \in 0 .. Len(LabelsAt(k))
      /\ offset + 1 + data[offset + 1] = Start(message, k) + LabelAt(LabelsAt(k), j + 1)
  BY <1>3, <1>4, <1>5, LabelRead
<1>7. pc' = "name" /\ offset' = offset + 1 + data[offset + 1] /\ left' = left
  BY DEF NameLabel, Go, At
<1>8. InName(offset', left')
  BY <1>2, <1>6, <1>7, ZenonT(60) DEF InName
<1> QED BY <1>7, <1>8, ToName

LEMMA NameEndTracks ==
  ASSUME AnswersInv, Same, OnTrack, NameEnd PROVE OnTrack'
<1>1. Encoded /\ Len(data) \in Nat
  BY DataEnds DEF AnswersInv
<1>2. PICK k \in Nat : /\ Passed(k, left) /\ k < Len(message.records) /\ RecordAt(k).name.end = Root
                       /\ \E j \in 0 .. Len(LabelsAt(k)) :
                            offset = Start(message, k) + LabelAt(LabelsAt(k), j)
  BY DEF OnTrack, NameEnd, InName
<1>3. PICK j \in 0 .. Len(LabelsAt(k)) : offset = Start(message, k) + LabelAt(LabelsAt(k), j)
  BY <1>2
<1>4. LabelsHere(LabelsAt(k), Start(message, k), data)
  BY <1>1, <1>2, NameHere
<1>5. PICK x \in Nat, s \in Nat :
        /\ x = Len(EncodeLabels(LabelsAt(k))) /\ s = Start(message, k) /\ NameLength(k) = x + 1
        /\ Start(message, k + 1) \in Nat /\ Start(message, k + 1) >= s + (x + 1) + 10
  BY <1>1, <1>2, NameHere
<1>6. /\ offset \in Nat /\ offset <= s + x
      /\ offset < Len(data) /\ data[offset + 1] = 0 => offset = s + x
  BY <1>3, <1>4, <1>5, LabelRead, ZenonT(60)
<1>7. pc' = "fixed" /\ offset' = offset + 1 /\ left' = left
  BY DEF NameEnd, Go
<1>8. offset >= Len(data) \/ (offset < Len(data) /\ data[offset + 1] = 0)
  BY <1>1, <1>6 DEF NameEnd, MoreLabels, At
<1>9. CASE offset >= Len(data)
  <2>1. Start(message, k + 1) > Len(data) /\ offset' + 10 > Len(data)
    <3>1. PICK b, l, o : b = Start(message, k + 1) /\ l = Len(data) /\ o = offset
      BY ZenonT(60)
    <3>2. b \in Nat /\ l \in Nat /\ o \in Nat /\ o <= s + x /\ b >= s + (x + 1) + 10 /\ o >= l
      BY <1>1, <1>5, <1>6, <1>9, <3>1, ZenonT(60)
    <3>3. b > l /\ (o + 1) + 10 > l
      BY ONLY x \in Nat, s \in Nat, <3>2, SMTT(60), Z3T(60)
    <3> QED BY <1>7, <3>1, <3>3, ZenonT(60)
  <2>2. Addresses(message) = {}
    BY <1>1, <1>2, <2>1, NothingLeft
  <2> QED BY <1>7, <2>1, <2>2, ToFixed DEF AtFixed, Over
<1>10. CASE offset < Len(data) /\ data[offset + 1] = 0
  <2>1. offset' = Start(message, k) + NameLength(k)
    BY <1>5, <1>6, <1>7, <1>10
  <2>2. AtFixed(offset', left')
    BY <1>2, <1>7, <2>1 DEF AtFixed
  <2> QED BY <1>7, <2>2, ToFixed
<1> QED BY <1>8, <1>9, <1>10

(* The four bytes behind the ten of a record. *)
LEMMA FourBytes ==
  ASSUME NEW d \in Seq(Byte), NEW b \in Seq(Byte), NEW p \in Nat,
         Len(b) = 4, p + 14 <= Len(d),
         \A i \in 1 .. 4 : p + 10 + i <= Len(d) => d[p + 10 + i] = b[i]
  PROVE  SubSeq(d, p + 11, p + 14) = b
<1>1. PICK u \in Int, v \in Int : u = p + 11 /\ v = p + 14 /\ v - u + 1 = 4 /\ u <= v
  OBVIOUS
<1>2. PICK n \in Nat : n = Len(d)
  OBVIOUS
<1>3. ASSUME NEW i \in u .. v PROVE d[i] \in Byte
  <2>1. i \in 1 .. n
    BY <1>1, <1>2
  <2> QED BY <1>2, <2>1, ElementOfSeq
<1>4. PICK w : w = SubSeq(d, u, v)
  BY ZenonT(60)
<1>5. /\ w \in Seq(Byte) /\ Len(w) = v - u + 1
      /\ \A i \in 1 .. v - u + 1 : w[i] = d[u + i - 1]
  <2>1. \A i \in u .. v : d[i] \in Byte
    BY <1>3
  <2> QED BY <1>1, <1>4, <2>1, SubSeqProperties
<1>6. ASSUME NEW i \in 1 .. 4 PROVE w[i] = b[i]
  <2>1. u + i - 1 = p + 10 + i /\ p + 10 + i <= n /\ i \in 1 .. v - u + 1
    BY <1>1, <1>2
  <2> QED BY <1>2, <1>5, <2>1, ZenonT(60)
<1>7. w = b
  <2>1. Len(w) = Len(b) /\ \A i \in 1 .. Len(w) : w[i] = b[i]
    BY <1>1, <1>5, <1>6
  <2> QED BY <1>5, <2>1, SeqEqual, ZenonT(60)
<1> QED BY <1>1, <1>4, <1>7, ZenonT(60)

(* What the parser reads behind a name: the type and length of the record, *)
(* and an address exactly when the record is one.                          *)
LEMMA FixedRead ==
  ASSUME Encoded, ParseInv, pc = "fixed", ~TooShort,
         NEW k \in Nat, Passed(k, left), k < Len(message.records),
         offset = Start(message, k) + NameLength(k)
  PROVE  /\ Start(message, k + 1) = offset + 10 + u16_from_be_bytes(offset + 8)
         /\ k + 1 \in DOMAIN message.records
         /\ IsAddress(offset + 10) <=> k + 1 \in Addresses(message)
         /\ IsAddress(offset + 10) => SubSeq(data, offset + 11, offset + 14) = RecordAt(k).body.rdata
<1>1. PICK r, n, s, b : /\ r = RecordAt(k) /\ n = EncodeName(r.name) /\ s = Start(message, k)
                        /\ b = r.body.rdata
  BY ZenonT(60)
<1>2. r \in Records /\ Found(k, r, n, s)
  BY <1>1, RecordFound
<1>3. PICK x \in Nat, y \in Nat : x = Len(n) /\ y = Len(b) /\ s \in Nat
  <2>1. s \in Nat /\ Len(n) \in Nat /\ Len(r.body.rdata) \in Nat
    BY <1>2, ZenonT(60) DEF Found
  <2> QED BY <1>1, <2>1, ZenonT(60)
<1>4. offset = s + x /\ offset \in Nat /\ Len(data) \in Nat /\ data \in Seq(Byte)
  BY <1>1, <1>3, DataEnds DEF NameLength, ParseInv, ParseTypeOK
<1>5. offset + 10 <= Len(data)
  BY <1>4 DEF TooShort
<1>6. /\ Start(message, k + 1) = offset + 10 + y
      /\ 256 * data[offset + 1] + data[offset + 2] = r.body.rtype
      /\ 256 * data[offset + 9] + data[offset + 10] = y
      /\ \A i \in 1 .. y : offset + 10 + i <= Len(data) => data[offset + 10 + i] = b[i]
  <2>1. /\ Start(message, k + 1) = s + x + 10 + y
        /\ s + x + 10 <= Len(data) =>
             /\ 256 * data[s + x + 1] + data[s + x + 2] = r.body.rtype
             /\ 256 * data[s + x + 9] + data[s + x + 10] = y
        /\ \A i \in 1 .. y : s + x + 10 + i <= Len(data) => data[s + x + 10 + i] = b[i]
    <3>1. Len(n) = x /\ Len(r.body.rdata) = y /\ r.body.rdata = b
      BY <1>1, <1>3
    <3>2. Start(message, k + 1) = s + x + 10 + y
      BY <1>2, <3>1, ZenonT(60) DEF Found
    <3>3. s + x + 10 <= Len(data) =>
            /\ 256 * data[s + x + 1] + data[s + x + 2] = r.body.rtype
            /\ 256 * data[s + x + 9] + data[s + x + 10] = y
      BY <1>2, <3>1, ZenonT(60) DEF Found
    <3>4. \A i \in 1 .. y : s + x + 10 + i <= Len(data) => data[s + x + 10 + i] = b[i]
      <4>1. \A i \in 1 .. Len(r.body.rdata) :
              s + Len(n) + 10 + i <= Len(data) => data[s + Len(n) + 10 + i] = r.body.rdata[i]
        BY <1>2 DEF Found
      <4> QED BY <3>1, <4>1, ZenonT(60)
    <3> QED BY <3>2, <3>3, <3>4
  <2> QED BY <1>4, <1>5, <2>1, ZenonT(60)
<1>7. u16_from_be_bytes(offset) = r.body.rtype /\ u16_from_be_bytes(offset + 8) = y
  <2>1. /\ offset + 8 + 1 = offset + 9 /\ offset + 8 + 1 + 1 = offset + 10
        /\ offset + 1 + 1 = offset + 2
    BY <1>4
  <2> QED BY <1>6, <2>1 DEF u16_from_be_bytes, At
<1>8. PICK m : m = message /\ m \in Messages
  BY DEF Encoded
<1>9. PICK l \in Nat : l = Len(m.records) /\ DOMAIN m.records = 1 .. l
  BY <1>8, RecordsType
<1>10. k + 1 \in DOMAIN m.records /\ k + 1 \in Nat
  BY <1>8, <1>9
<1>11. k + 1 <= m.ancount
  <2>1. m.ancount \in Nat /\ left = m.ancount - k /\ left >= 1
    BY <1>8, DataEnds DEF Passed, ParseInv
  <2> QED BY <2>1
<1>12. /\ r = m.records[k + 1] /\ Len(EncodeUpTo(m, k + 1)) = offset + 10 + y
       /\ Len(r.body.rdata) = y
  BY <1>1, <1>3, <1>6, <1>8 DEF RecordAt, Start
<1>13. k + 1 \in Addresses(m) <=> r.body.rtype = 1 /\ y = 4 /\ offset + 10 + y <= Len(data)
  BY <1>10, <1>11, <1>12, ZenonT(60) DEF Addresses
<1>14. IsAddress(offset + 10) <=> r.body.rtype = 1 /\ y = 4 /\ offset + 10 + 4 <= Len(data)
  BY <1>7 DEF IsAddress
<1>15. ASSUME IsAddress(offset + 10) PROVE SubSeq(data, offset + 11, offset + 14) = b
  <2>1. y = 4 /\ offset + 14 <= Len(data)
    BY <1>4, <1>14, <1>15
  <2>2. b \in Seq(Byte) /\ Len(b) = 4
    BY <1>1, <1>2, <1>3, <2>1, AnswersAssumption DEF Records
  <2>3. \A i \in 1 .. 4 : offset + 10 + i <= Len(data) => data[offset + 10 + i] = b[i]
    BY <1>6, <2>1, ZenonT(60)
  <2> QED BY <1>4, <2>1, <2>2, <2>3, FourBytes, ZenonT(60)
<1>16. IsAddress(offset + 10) <=> k + 1 \in Addresses(m)
  BY <1>13, <1>14
<1> QED BY <1>1, <1>6, <1>7, <1>8, <1>10, <1>15, <1>16

LEMMA FixedTracks ==
  ASSUME AnswersInv, Same, OnTrack, Fixed PROVE OnTrack'
<1>1. Encoded /\ ParseInv /\ Len(data) \in Nat /\ offset \in Nat /\ left \in Nat /\ pc = "fixed"
  BY DataEnds DEF AnswersInv, ParseInv, ParseTypeOK, Fixed
<1>2. AtFixed(offset, left)
  BY <1>1 DEF OnTrack
<1>3. CASE TooShort
  <2>1. Return(NoAddress)
    BY <1>3 DEF Fixed
  <2>2. Addresses(message) = {}
    <3>1. CASE Over(offset)
      BY <3>1 DEF Over
    <3>2. CASE ~Over(offset)
      <4>1. PICK k \in Nat : /\ Passed(k, left) /\ k < Len(message.records)
                             /\ offset = Start(message, k) + NameLength(k)
        BY <1>2, <3>2 DEF AtFixed
      <4>2. PICK y \in Nat : Start(message, k + 1) = offset + 10 + y
        <5>1. Found(k, RecordAt(k), EncodeName(RecordAt(k).name), Start(message, k))
          BY <1>1, <4>1, RecordFound
        <5> QED BY <4>1, <5>1, ZenonT(60) DEF Found, NameLength
      <4>3. Start(message, k + 1) > Len(data)
        BY <1>1, <1>3, <4>2 DEF TooShort
      <4> QED BY <1>1, <4>1, <4>3, NothingLeft
    <3> QED BY <3>1, <3>2
  <2> QED BY <2>1, <2>2, ReturnsNothing
<1>4. CASE ~TooShort
  <2>1. PICK k \in Nat : /\ Passed(k, left) /\ k < Len(message.records)
                         /\ offset = Start(message, k) + NameLength(k)
    BY <1>2, <1>4 DEF AtFixed, Over, TooShort
  <2>2. /\ Start(message, k + 1) = offset + 10 + u16_from_be_bytes(offset + 8)
        /\ k + 1 \in DOMAIN message.records
        /\ IsAddress(offset + 10) <=> k + 1 \in Addresses(message)
        /\ IsAddress(offset + 10) => SubSeq(data, offset + 11, offset + 14) = RecordAt(k).body.rdata
    BY <1>1, <1>4, <2>1, FixedRead
  <2>3. Reading(offset + 9)
    BY <1>1, <1>4 DEF Reading, TooShort
  <2>4. ASSUME NEW i \in Addresses(message) PROVE i \in Nat /\ k + 1 <= i
    <3>1. k < i
      BY <2>1 DEF Passed
    <3>2. i \in 1 .. Len(message.records) /\ Len(message.records) \in Nat
      BY <1>1, <3>1, AddressFits, DataEnds
    <3> QED BY <3>1, <3>2
  <2>5. CASE IsAddress(offset + 10)
    <3>1. offset + 13 < Len(data)
      BY <1>1, <2>5 DEF IsAddress
    <3>2. pc' = "done" /\ address' = SubSeq(data, offset + 11, offset + 14)
      BY <1>4, <2>3, <2>5, <3>1 DEF Fixed, Reading, Return
    <3>3. k + 1 \in Addresses(message)
      BY <2>2, <2>5
    <3>4. PICK f : f = CHOOSE i \in Addresses(message) : \A j \in Addresses(message) : i <= j
      BY ZenonT(60)
    <3>5. f \in Addresses(message) /\ f <= k + 1
      BY <2>4, <3>3, <3>4, ZenonT(60)
    <3>6. f = k + 1
      BY <2>4, <3>5
    <3>7. FirstAddress(message) = message.records[k + 1].body.rdata
      BY <3>3, <3>4, <3>6, ZenonT(60) DEF FirstAddress
    <3> QED BY <2>2, <2>5, <3>2, <3>7, ToDone DEF RecordAt
  <2>6. CASE ~IsAddress(offset + 10)
    <3>1. pc' = "record" /\ offset' = Start(message, k + 1) /\ left' = left - 1
      BY <1>4, <2>2, <2>3, <2>6 DEF Fixed, Go
    <3>2. Len(message.records) \in Nat /\ message.ancount \in Nat
      BY <1>1, DataEnds
    <3>3. ASSUME NEW i \in Addresses(message) PROVE i > k + 1
      <4>1. i # k + 1
        BY <2>2, <2>6, <3>3
      <4> QED BY <2>4, <4>1
    <3>4. Passed(k + 1, left')
      BY <2>1, <3>1, <3>2, <3>3 DEF Passed
    <3>5. AtRecord(offset', left')
      BY <3>1, <3>4 DEF AtRecord
    <3> QED BY <3>1, <3>5, ToRecord
  <2> QED BY <2>5, <2>6
<1> QED BY <1>3, <1>4

LEMMA InitAnswers == AnswersInit => AnswersInv
<1> SUFFICES ASSUME AnswersInit PROVE AnswersInv
  OBVIOUS
<1>1. Encoded
  BY DEF AnswersInit, Encoded
<1>2. ParseInv /\ pc = "header"
  BY InitParse DEF AnswersInit, ParseInit
<1>3. OnTrack
  BY <1>2 DEF OnTrack
<1> QED BY <1>1, <1>2, <1>3 DEF AnswersInv

LEMMA NextAnswers == AnswersInv /\ [AnswersNext \/ Returned]_answerVars => AnswersInv'
<1> SUFFICES ASSUME AnswersInv, [AnswersNext \/ Returned]_answerVars PROVE AnswersInv'
  OBVIOUS
<1>1. AnswersNext \/ UNCHANGED answerVars
  BY DEF Returned
<1>2. Same
  BY <1>1, StaysSame
<1>3. Encoded' /\ Plain' = Plain
  BY <1>2 DEF Same, AnswersInv
<1>4. ParseInv'
  BY <1>1, NextParse DEF AnswersInv, AnswersNext, answerVars
<1>5. ASSUME Plain PROVE OnTrack'
  <2>1. OnTrack
    BY <1>5 DEF AnswersInv
  <2>2. CASE UNCHANGED answerVars
    <3>1. /\ message' = message /\ data' = data /\ pc' = pc /\ offset' = offset /\ left' = left
          /\ address' = address
      BY <2>2 DEF answerVars, parseVars
    <3>2. ASSUME pc = "question" PROVE OnTrack'
      BY <1>2, <2>1, <3>1, <3>2, ToQuestion DEF OnTrack
    <3>3. ASSUME pc = "record" PROVE OnTrack'
      BY <1>2, <2>1, <3>1, <3>3, ToRecord DEF OnTrack
    <3>4. ASSUME pc = "name" PROVE OnTrack'
      BY <1>2, <2>1, <3>1, <3>4, ToName DEF OnTrack
    <3>5. ASSUME pc = "fixed" PROVE OnTrack'
      BY <1>2, <2>1, <3>1, <3>5, ToFixed DEF OnTrack
    <3>6. ASSUME pc = "done" PROVE OnTrack'
      BY <1>2, <2>1, <3>1, <3>6, ToDone DEF OnTrack
    <3>7. ASSUME pc \notin {"question", "record", "name", "fixed", "done"} PROVE OnTrack'
      BY <3>1, <3>7 DEF OnTrack
    <3> QED BY <3>2, <3>3, <3>4, <3>5, <3>6, <3>7
  <2>3. CASE AnswersNext
    <3>1. CASE Header
      BY <1>2, <3>1, HeaderTracks
    <3>2. CASE QuestionLabel
      BY <1>2, <2>1, <3>2, QuestionLabelTracks
    <3>3. CASE QuestionEnd
      BY <1>2, <2>1, <3>3, QuestionEndTracks
    <3>4. CASE Record
      BY <1>2, <1>5, <2>1, <3>4, RecordTracks
    <3>5. CASE NameLabel
      BY <1>2, <2>1, <3>5, NameLabelTracks
    <3>6. CASE NameEnd
      BY <1>2, <2>1, <3>6, NameEndTracks
    <3>7. CASE Fixed
      BY <1>2, <2>1, <3>7, FixedTracks
    <3> QED BY <2>3, <3>1, <3>2, <3>3, <3>4, <3>5, <3>6, <3>7 DEF AnswersNext, ParseNext
  <2> QED BY <1>1, <2>2, <2>3
<1> QED BY <1>3, <1>4, <1>5 DEF AnswersInv

(* parse_dns_response returns the first address a name server's answer     *)
(* holds, and none when there is none, for every domain, any records in    *)
(* any order, any count in the header and wherever the packet is cut off,  *)
(* unless a name of labels that ends in a pointer comes before it.         *)
THEOREM FirstAddressFound == AnswersSpec => []FindsFirstAddress
<1>1. AnswersInv => FindsFirstAddress
  BY DEF AnswersInv, Plain, OnTrack, FindsFirstAddress
<1> QED BY <1>1, InitAnswers, NextAnswers, PTL DEF AnswersSpec
=============================================================================
