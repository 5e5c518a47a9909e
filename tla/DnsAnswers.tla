------------------------------ MODULE DnsAnswers ------------------------------
(***************************************************************************)
(* parse_dns_response on what a name server sends: the header and question *)
(* of the query with the number of answers filled in, the answer records,  *)
(* and possibly not all of the bytes.                                      *)
(***************************************************************************)
EXTENDS DnsParse

CONSTANTS
  Domains,     \* the domains asked for, as sequences of labels
  OwnerNames,  \* the names of answer records, as [labels, end]
  RecordData,  \* their types and data, as [rtype, rdata]
  MaxRecords,  \* bound: records in an answer
  MaxCount,    \* bound: the number of answers a header claims
  Cuts         \* how many bytes can be missing at the end

u16 == {n \in Nat : n < 65536}

(* A label's length is not the first byte of a pointer. *)
Label == {l \in Seq(Byte) : 1 <= Len(l) /\ Len(l) < 192}

(* A name ends in the root label or in a pointer. *)
Root == <<0>>
Pointers == {p \in Seq(Byte) : Len(p) = 2 /\ p[1] >= 192}

ASSUME AnswersAssumption ==
  /\ Domains \subseteq Seq(Label)
  /\ OwnerNames \subseteq [labels : Seq(Label), end : Pointers \cup {Root}]
  /\ RecordData \subseteq [rtype : u16, rdata : Seq(Byte)]
  /\ \A r \in RecordData : Len(r.rdata) \in u16
  /\ MaxRecords \in Nat
  /\ MaxCount \in u16
  /\ Cuts \subseteq Nat

VARIABLE message   \* history: what data encodes

answerVars == <<parseVars, message>>

Messages == [domain : Domains,
             records : SequencesUpTo([name : OwnerNames, body : RecordData], MaxRecords),
             ancount : 0 .. MaxCount,
             cut : Cuts]

EncodeName(name) == EncodeLabels(name.labels) \o name.end

(* A record: name, type, class IN, time to live, data length, data. *)
EncodeRecord(r) ==
  EncodeName(r.name) \o U16(r.body.rtype) \o U16(1) \o <<0, 0, 1, 0>>
    \o U16(Len(r.body.rdata)) \o r.body.rdata

(* The query, but for the number of answers. *)
EncodeQuestion(m) ==
  LET query == build_dns_query(m.domain)
  IN  SubSeq(query, 1, 6) \o U16(m.ancount) \o SubSeq(query, 9, Len(query))

(* The bytes of the message up to and including record n. *)
EncodeUpTo(m, n) ==
  EncodeQuestion(m) \o Flatten([i \in 1 .. n |-> EncodeRecord(m.records[i])])

Encode(m) ==
  LET whole == EncodeUpTo(m, Len(m.records))
  IN  SubSeq(whole, 1, Len(whole) - m.cut)

AnswersInit == message \in Messages /\ data = Encode(message) /\ ParseInit

AnswersNext == /\ ParseNext
               /\ UNCHANGED message

(* The parser has returned. *)
Returned == pc = "done" /\ UNCHANGED answerVars

AnswersSpec == AnswersInit /\ [][AnswersNext \/ Returned]_answerVars /\ WF_answerVars(AnswersNext)

-----------------------------------------------------------------------------
(* A name of labels that ends in a pointer, which the parser does not      *)
(* look for behind a label.                                                *)
Mixed(name) == name.labels # << >> /\ name.end # Root

(* The addresses among the records the header counts, those wholly there. *)
Addresses(m) ==
  {i \in DOMAIN m.records :
     /\ i <= m.ancount
     /\ m.records[i].body.rtype = 1
     /\ Len(m.records[i].body.rdata) = 4
     /\ Len(EncodeUpTo(m, i)) <= Len(data)}

FirstAddress(m) ==
  IF Addresses(m) = {} THEN NoAddress
  ELSE LET first == CHOOSE i \in Addresses(m) : \A j \in Addresses(m) : i <= j
       IN  m.records[first].body.rdata

(* The parser returns the data of the first address record of the answer   *)
(* section that is wholly there, past records of any other kind, and none  *)
(* when there is none; unless a name of labels that ends in a pointer      *)
(* comes before it, from where on the walk is lost.                        *)
FindsFirstAddress ==
  pc = "done" /\ (\A i \in DOMAIN message.records :
                    Mixed(message.records[i].name) => \E j \in Addresses(message) : j < i)
    => address = FirstAddress(message)

(* The walk ends, wherever the lengths in the packet lead. *)
ParseEnds == <>(pc \in {"done", "panic"})
=============================================================================
