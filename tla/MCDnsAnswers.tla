----------------------------- MODULE MCDnsAnswers -----------------------------
(***************************************************************************)
(* Answers of up to two records: owner names that are a pointer, labels or *)
(* labels and a pointer; two addresses, an alias and a text of four bytes; *)
(* every cut through the last record.                                      *)
(***************************************************************************)
EXTENDS DnsAnswers

OneLabel == <<<<97>>>>
TwoLabels == <<<<97, 98>>, <<99>>>>

Pointer == [labels |-> << >>, end |-> <<192, 12>>]
Labels == [labels |-> OneLabel, end |-> Root]
LabelsPointer == [labels |-> OneLabel, end |-> <<192, 12>>]

Address == [rtype |-> 1, rdata |-> <<10, 0, 0, 1>>]
OtherAddress == [rtype |-> 1, rdata |-> <<10, 0, 0, 2>>]
Alias == [rtype |-> 5, rdata |-> <<192, 12>>]
Text == [rtype |-> 16, rdata |-> <<3, 97, 97, 97>>]

MCDomains == {OneLabel, TwoLabels}
MCOwnerNames == {Pointer, Labels, LabelsPointer}
MCRecordData == {Address, OtherAddress, Alias, Text}
MCCuts == 0 .. 18
=============================================================================
