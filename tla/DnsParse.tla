------------------------------- MODULE DnsParse -------------------------------
(***************************************************************************)
(* dns.rs: build_dns_query, and the walk of parse_dns_response over the    *)
(* bytes of a packet, one step per loop iteration.  An index outside the   *)
(* slice is a panic, which stops the kernel.                               *)
(***************************************************************************)
EXTENDS Lists

CONSTANT NoAddress   \* Option::None

Byte == {n \in Nat : n < 256}

VARIABLES
  data,    \* the packet
  offset,  \* the position in it, from 0
  left,    \* answer records the for loop has still to look at
  pc,      \* the loop that runs, or "done" or "panic"
  address  \* what is returned

parseVars == <<data, offset, left, pc, address>>

-----------------------------------------------------------------------------
U16(n) == <<n \div 256, n % 256>>

(* Each label follows its length, which is cut to a byte. *)
EncodeLabel(label) == <<Len(label) % 256>> \o label

EncodeLabels(labels) == Flatten([i \in DOMAIN labels |-> EncodeLabel(labels[i])])

(* The identifier, flags and counts, the labels of the domain (its parts   *)
(* between dots), the root label, type A and class IN.                     *)
build_dns_query(domain) ==
  <<171, 205, 1, 0>> \o U16(1) \o U16(0) \o U16(0) \o U16(0)
    \o EncodeLabels(domain) \o <<0>> \o U16(1) \o U16(1)

-----------------------------------------------------------------------------
At(i) == data[i + 1]

u16_from_be_bytes(i) == 256 * At(i) + At(i + 1)

Return(value) == /\ pc' = "done"
                 /\ address' = value
                 /\ UNCHANGED <<data, offset, left>>

Go(to, position) == /\ pc' = to
                    /\ offset' = position
                    /\ UNCHANGED <<data, address>>

Panic == pc' = "panic" /\ UNCHANGED <<data, offset, left, address>>

(* A step that reads data up to index last does not panic. *)
Reading(last) == last < Len(data)

-----------------------------------------------------------------------------
Header ==
  /\ pc = "header"
  /\ IF Len(data) < 12 THEN Return(NoAddress)
     ELSE IF ~Reading(7) THEN Panic
     ELSE IF u16_from_be_bytes(6) = 0 THEN Return(NoAddress)
     ELSE Go("question", 12) /\ left' = u16_from_be_bytes(6)

MoreLabels == offset < Len(data) /\ At(offset) # 0

QuestionLabel == /\ pc = "question"
                 /\ MoreLabels
                 /\ Go("question", offset + 1 + At(offset))
                 /\ UNCHANGED left

\* mutant: the class of the question is not skipped
QuestionEnd_NoClass ==
  /\ pc = "question"
  /\ ~MoreLabels
  /\ Go("record", offset + 1 + 2)
  /\ UNCHANGED left

(* The null terminator, the type and the class. *)
QuestionEnd == /\ pc = "question"
               /\ ~MoreLabels
               /\ Go("record", offset + 1 + 4)
               /\ UNCHANGED left

(* for _ in 0..ancount *)
LoopOver == left = 0

(* The head of the for loop, up to the look at the first byte of a name. *)
Record ==
  /\ pc = "record"
  /\ IF LoopOver \/ offset + 12 > Len(data) THEN Return(NoAddress)
     ELSE IF ~Reading(offset) THEN Panic
     ELSE /\ IF At(offset) >= 192 THEN Go("fixed", offset + 2) ELSE Go("name", offset)
          /\ UNCHANGED left

\* mutant: a pointer inside of a name is left for later
NameLabel_Stop ==
  /\ pc = "name"
  /\ MoreLabels
  /\ Go("name", IF At(offset) >= 192 THEN offset ELSE offset + 1 + At(offset))
  /\ UNCHANGED left

NameLabel == /\ pc = "name"
             /\ MoreLabels
             /\ Go("name", offset + 1 + At(offset))
             /\ UNCHANGED left

NameEnd == /\ pc = "name"
           /\ ~MoreLabels
           /\ Go("fixed", offset + 1)
           /\ UNCHANGED left

IsAddress(start) == u16_from_be_bytes(offset) = 1 /\ u16_from_be_bytes(offset + 8) = 4
                      /\ start + 4 <= Len(data)

\* mutant: the length check before a record's name is taken to be enough
TooShort_Not == FALSE

TooShort == offset + 10 > Len(data)

(* The fixed part of a record and, of an address, its data; the data of    *)
(* any other record is skipped.                                            *)
Fixed ==
  /\ pc = "fixed"
  /\ IF TooShort THEN Return(NoAddress)
     ELSE IF ~Reading(offset + 9) THEN Panic
     ELSE IF IsAddress(offset + 10)
     THEN IF Reading(offset + 13)
          THEN Return(SubSeq(data, offset + 11, offset + 14))
          ELSE Panic
     ELSE /\ Go("record", offset + 10 + u16_from_be_bytes(offset + 8))
          /\ left' = left - 1

-----------------------------------------------------------------------------
ParseInit ==
  /\ data \in Seq(Byte)
  /\ offset = 0
  /\ left = 0
  /\ pc = "header"
  /\ address = NoAddress

ParseNext == Header \/ QuestionLabel \/ QuestionEnd \/ Record \/ NameLabel \/ NameEnd \/ Fixed

ParseSpec == ParseInit /\ [][ParseNext]_parseVars

(* The types of the parser's state. *)
ParseTypeOK ==
  /\ data \in Seq(Byte)
  /\ offset \in Nat
  /\ left \in Nat
  /\ pc \in {"header", "question", "record", "name", "fixed", "done", "panic"}
  /\ address \in {NoAddress} \cup [1 .. 4 -> Byte]

(* No packet, whole or cut short, makes the parser index past its end. *)
NeverPanics == pc # "panic"
=============================================================================
