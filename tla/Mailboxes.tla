------------------------------ MODULE Mailboxes ------------------------------
(***************************************************************************)
(* The interface of ipc.rs and capability.rs as its callers see it: they   *)
(* create and revoke capabilities, open endpoints, send and receive, in    *)
(* any order.  Two histories record what each process was sent and what it *)
(* was given.                                                              *)
(***************************************************************************)
EXTENDS Ipc

CONSTANTS
  NewCaps,    \* the capabilities that callers create
  Payloads,   \* the contents of messages
  MaxSends    \* bound: no endpoint accepts more than MaxSends messages

ASSUME MailboxesAssumption ==
  /\ NewCaps \subseteq Capabilities
  /\ MaxSends \in Nat

VARIABLES
  accepted,    \* history: per process, the messages whose send returned Ok
  received     \* history: per process, the messages receive_message returned

mailboxVars == <<store, next_cap_id, endpoints, accepted, received>>

-----------------------------------------------------------------------------
Create == /\ \E cap \in NewCaps : create_capability(cap)
          /\ UNCHANGED <<endpoints, accepted, received>>

Revoke == /\ \E id \in DOMAIN store : revoke_capability(id)
          /\ UNCHANGED <<endpoints, accepted, received>>

Open(p) == /\ create_endpoint(p)
           /\ UNCHANGED <<store, next_cap_id, accepted, received>>

Send(s, r, data, caps) ==
  /\ Len(accepted[r]) < MaxSends
  /\ send_message(s, r, data, caps)
  /\ accepted' = IF send_result(r, caps) = "Ok"
                 THEN [accepted EXCEPT ![r] = Append(@, Message(s, data, caps))]
                 ELSE accepted
  /\ UNCHANGED <<store, next_cap_id, received>>

Receive(p) ==
  /\ receive_message(p)
  /\ received' = IF Pending(p)
                 THEN [received EXCEPT ![p] = Append(@, Head(endpoints[p].messages))]
                 ELSE received
  /\ UNCHANGED <<store, next_cap_id, accepted>>

(* A message carries at most one capability here: 0 stands for an          *)
(* identifier that was never handed out, and next_cap_id for one that the  *)
(* next create_capability will hand out.                                   *)
CapLists == {<< >>} \cup {<<id>> : id \in 0 .. MaxCaps + 1}

MailboxInit ==
  /\ CapInit
  /\ EndpointsInit
  /\ accepted = [p \in Pids |-> << >>]
  /\ received = [p \in Pids |-> << >>]

MailboxNext ==
  \/ Create
  \/ Revoke
  \/ \E p \in Pids : Open(p)
  \/ \E s, r \in Pids, data \in Payloads, caps \in CapLists : Send(s, r, data, caps)
  \/ \E p \in Pids : Receive(p)

MailboxSpec == MailboxInit /\ [][MailboxNext]_mailboxVars

-----------------------------------------------------------------------------
Messages == [sender : Pids, data : Payloads, capabilities : Seq(Nat)]

(* The types of the store, the endpoints and the histories. *)
MailboxTypeOK ==
  /\ CapTypeOK
  /\ DOMAIN endpoints \subseteq Pids
  /\ endpoints \in [DOMAIN endpoints ->
                      [messages : Seq(Messages), max_messages : Nat \ {0}]]
  /\ accepted \in [Pids -> Seq(Messages)]
  /\ received \in [Pids -> Seq(Messages)]

Queued(p) == IF p \in DOMAIN endpoints THEN endpoints[p].messages ELSE << >>

(* Delivery: what send_message accepted for a process is exactly what the  *)
(* process has received followed by what is still queued, in that order.   *)
(* No message is lost, duplicated, reordered or invented, and no second    *)
(* create_endpoint empties a mailbox.                                      *)
InOrderNoLoss == \A p \in Pids : accepted[p] = received[p] \o Queued(p)

(* Every capability named by an accepted message had been created when the *)
(* message was accepted: a process cannot name today the identifier that   *)
(* create_capability will hand to someone else tomorrow.                   *)
NoForgedCapability ==
  \A p \in Pids : \A i \in DOMAIN accepted[p] :
    \A c \in DOMAIN accepted[p][i].capabilities :
      accepted[p][i].capabilities[c] \in 1 .. (next_cap_id - 1)

(* The queue limit: no mailbox ever holds more than its max_messages.      *)
WithinLimit ==
  \A p \in DOMAIN endpoints :
    Len(endpoints[p].messages) <= endpoints[p].max_messages

(* Revocation is final: an identifier that was handed out and no longer    *)
(* resolves never resolves again, so a stale identifier kept in a queue or *)
(* in an agent's list cannot come to name a later capability.              *)
RevokedStaysRevoked ==
  [][\A id \in 1 .. (next_cap_id - 1) :
       ~validate_capability(id) => ~validate_capability(id)']_mailboxVars
=============================================================================
