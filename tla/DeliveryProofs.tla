---------------------------- MODULE DeliveryProofs ----------------------------
(***************************************************************************)
(* Proofs about the parts that pass messages on.  Mailboxes: any number of *)
(* processes, capabilities and messages and any queue limits.  Dns: any    *)
(* names, any number of calls and polls and any size of a socket.          *)
(* Rtl8139: rings and packets of any size and any number of transmit       *)
(* buffers.                                                                *)
(***************************************************************************)
EXTENDS Mailboxes, Dns, Rtl8139, SequenceTheorems, TLAPS

(* A leaf gets a minute, and a second try, so that a slow machine checks it too. *)
USE SMTT(60), Z3T(60), ZenonT(60), SMTT(90), Z3T(90)

(* The store and the counter after create_capability. *)
LEMMA CreateType ==
  ASSUME CapTypeOK, NEW cap \in Capabilities, create_capability(cap)
  PROVE  CapTypeOK' /\ next_cap_id' = next_cap_id + 1
BY DEF CapTypeOK, create_capability, CapIds

(* The store after revoke_capability: no identifier is added. *)
LEMMA RevokeType ==
  ASSUME CapTypeOK, NEW id, revoke_capability(id)
  PROVE  CapTypeOK' /\ next_cap_id' = next_cap_id /\ DOMAIN store' \subseteq DOMAIN store
BY DEF CapTypeOK, revoke_capability, CapIds

-----------------------------------------------------------------------------
MailboxInv == MailboxTypeOK /\ InOrderNoLoss /\ NoForgedCapability /\ WithinLimit

LEMMA InitMailboxes == MailboxInit => MailboxInv
<1> SUFFICES ASSUME MailboxInit PROVE MailboxInv
  OBVIOUS
<1> USE CapabilityAssumption, IpcAssumption
<1>1. CapTypeOK
  BY DEF MailboxInit, CapInit, CapTypeOK, CapIds
<1>2. MailboxTypeOK
  BY <1>1 DEF MailboxInit, EndpointsInit, NewEndpoint, MailboxTypeOK, KERNEL_SUPERVISOR_PID
<1>3. InOrderNoLoss
  <2> SUFFICES ASSUME NEW p \in Pids PROVE accepted[p] = received[p] \o Queued(p)
    BY DEF InOrderNoLoss
  <2>1. Queued(p) = << >> /\ accepted[p] = << >> /\ received[p] = << >>
    BY DEF Queued, MailboxInit, EndpointsInit, NewEndpoint
  <2> QED
    BY <2>1
<1>4. NoForgedCapability
  BY DEF NoForgedCapability, MailboxInit
<1>5. WithinLimit
  BY DEF WithinLimit, MailboxInit, EndpointsInit, NewEndpoint
<1> QED
  BY <1>2, <1>3, <1>4, <1>5 DEF MailboxInv

-----------------------------------------------------------------------------
(* Receiving: the queue's head moves from its front to the end of r. *)
LEMMA MoveHead ==
  ASSUME NEW S, NEW r \in Seq(S), NEW q \in Seq(S), q # << >>
  PROVE  Append(r, Head(q)) \o Tail(q) = r \o q
OBVIOUS

LEMMA CreateInv == MailboxInv /\ Create => MailboxInv'
<1> SUFFICES ASSUME MailboxInv, NEW cap \in NewCaps, create_capability(cap),
                    UNCHANGED <<endpoints, accepted, received>>
             PROVE  MailboxInv'
  BY DEF Create
<1>1. CapTypeOK' /\ next_cap_id' = next_cap_id + 1
  BY CreateType, MailboxesAssumption DEF MailboxInv, MailboxTypeOK
<1>2. MailboxTypeOK'
  BY <1>1 DEF MailboxInv, MailboxTypeOK
<1>3. NoForgedCapability'
  BY <1>1 DEF MailboxInv, MailboxTypeOK, CapTypeOK, CapIds, NoForgedCapability
<1> QED
  BY <1>2, <1>3, ZenonT(60) DEF MailboxInv, InOrderNoLoss, Queued, WithinLimit

LEMMA RevokeInv == MailboxInv /\ Revoke => MailboxInv'
<1> SUFFICES ASSUME MailboxInv, NEW id, revoke_capability(id),
                    UNCHANGED <<endpoints, accepted, received>>
             PROVE  MailboxInv'
  BY DEF Revoke
<1>1. CapTypeOK' /\ next_cap_id' = next_cap_id
  BY RevokeType DEF MailboxInv, MailboxTypeOK
<1>2. MailboxTypeOK'
  BY <1>1 DEF MailboxInv, MailboxTypeOK
<1> QED
  BY <1>1, <1>2, ZenonT(60) DEF MailboxInv, InOrderNoLoss, Queued, WithinLimit, NoForgedCapability

LEMMA OpenInv == ASSUME MailboxInv, NEW p \in Pids, Open(p) PROVE MailboxInv'
<1>1. CapTypeOK'
  BY DEF MailboxInv, MailboxTypeOK, CapTypeOK, Open
<1>2. MailboxTypeOK'
  BY <1>1, IpcAssumption DEF MailboxInv, MailboxTypeOK, Open, create_endpoint, NewEndpoint
<1>3. InOrderNoLoss'
  BY DEF MailboxInv, MailboxTypeOK, InOrderNoLoss, Queued, Open, create_endpoint, NewEndpoint
<1>4. WithinLimit'
  BY IpcAssumption DEF MailboxInv, WithinLimit, Open, create_endpoint, NewEndpoint
<1> QED
  BY <1>2, <1>3, <1>4 DEF MailboxInv, Open, NoForgedCapability

LEMMA SendInv ==
  ASSUME MailboxInv, NEW s \in Pids, NEW r \in Pids, NEW data \in Payloads,
         NEW caps \in CapLists, Send(s, r, data, caps)
  PROVE  MailboxInv'
<1> DEFINE m == Message(s, data, caps)
<1>0. caps \in Seq(Nat) /\ m \in Messages
  <2>1. CASE caps = << >>
    BY <2>1 DEF Message, Messages
  <2>2. ASSUME NEW id \in 0 .. MaxCaps + 1, caps = <<id>>
        PROVE  caps \in Seq(Nat)
    <3>1. id \in Nat
      BY CapabilityAssumption
    <3> QED
      BY <2>2, <3>1
  <2>3. caps \in Seq(Nat)
    BY <2>1, <2>2 DEF CapLists
  <2> QED
    BY <2>3 DEF Message, Messages
<1>1. CapTypeOK'
  BY DEF MailboxInv, MailboxTypeOK, CapTypeOK, Send
<1>2. CASE send_result(r, caps) # "Ok"
  <2>1. UNCHANGED <<store, next_cap_id, endpoints, accepted, received>>
    BY <1>2 DEF Send, send_message
  <2> QED
    BY <2>1, <1>1 DEF MailboxInv, MailboxTypeOK, InOrderNoLoss, Queued, NoForgedCapability, WithinLimit
<1>3. CASE send_result(r, caps) = "Ok"
  <2>1. r \in DOMAIN endpoints /\ AllValid(caps) /\ ~Full(r)
    BY <1>3 DEF send_result
  <2>2. /\ endpoints' = WithQueue(r, Append(endpoints[r].messages, m))
        /\ accepted' = [accepted EXCEPT ![r] = Append(@, m)]
        /\ UNCHANGED <<store, next_cap_id, received>>
    BY <1>3 DEF Send, send_message
  <2>3. MailboxTypeOK'
    BY <1>0, <1>1, <2>1, <2>2 DEF WithQueue, MailboxInv, MailboxTypeOK
  <2>4. InOrderNoLoss'
    <3> SUFFICES ASSUME NEW p \in Pids PROVE accepted'[p] = received'[p] \o Queued(p)'
      BY DEF InOrderNoLoss
    <3>1. CASE p # r
      BY <3>1, <2>1, <2>2 DEF WithQueue, MailboxInv, MailboxTypeOK, InOrderNoLoss, Queued
    <3>2. CASE p = r
      <4>1. accepted'[r] = Append(received[r] \o Queued(r), m)
        BY <2>2, ZenonT(60) DEF WithQueue, MailboxInv, MailboxTypeOK, InOrderNoLoss
      <4>2. Queued(r)' = Append(Queued(r), m) /\ received'[r] = received[r]
        BY <2>1, <2>2 DEF WithQueue, MailboxInv, MailboxTypeOK, Queued
      <4>3. Queued(r) \in Seq(Messages) /\ received[r] \in Seq(Messages)
        BY <2>1 DEF MailboxInv, MailboxTypeOK, Queued
      <4> HIDE DEF m
      <4>4. m \in Messages
        BY <1>0
      <4>5. Append(received[r] \o Queued(r), m) = received[r] \o Append(Queued(r), m)
        <5> DEFINE q == Queued(r)
                   a == received[r]
        <5>1. a \in Seq(Messages) /\ q \in Seq(Messages)
          BY <4>3
        <5> HIDE DEF a, q
        <5>2. Append(a \o q, m) = a \o Append(q, m)
          BY <5>1, <4>4
        <5> QED
          BY <5>2 DEF a, q
      <4> QED
        BY <3>2, <4>1, <4>2, <4>5
    <3> QED
      BY <3>1, <3>2
  <2>5. NoForgedCapability'
    <3>1. \A c \in DOMAIN m.capabilities : m.capabilities[c] \in 1 .. next_cap_id - 1
      BY <2>1 DEF AllValid, validate_capability, Message, MailboxInv, MailboxTypeOK, CapTypeOK
    <3> HIDE DEF m
    <3> QED
      BY <3>1, <2>2, <1>0 DEF WithQueue, MailboxInv, MailboxTypeOK, NoForgedCapability
  <2>6. WithinLimit'
    BY <1>0, <2>1, <2>2 DEF WithQueue, MailboxInv, MailboxTypeOK, WithinLimit, Full
  <2> QED
    BY <2>3, <2>4, <2>5, <2>6 DEF MailboxInv
<1> QED
  BY <1>2, <1>3

LEMMA ReceiveInv == ASSUME MailboxInv, NEW p \in Pids, Receive(p) PROVE MailboxInv'
<1>1. CapTypeOK'
  BY DEF MailboxInv, MailboxTypeOK, CapTypeOK, Receive
<1>2. CASE ~Pending(p)
  <2>1. UNCHANGED <<store, next_cap_id, endpoints, accepted, received>>
    BY <1>2 DEF Receive, receive_message
  <2> QED
    BY <2>1, <1>1 DEF MailboxInv, MailboxTypeOK, InOrderNoLoss, Queued, NoForgedCapability, WithinLimit
<1>3. CASE Pending(p)
  <2> DEFINE q == endpoints[p].messages
  <2>1. p \in DOMAIN endpoints /\ q \in Seq(Messages) /\ q # << >>
    BY <1>3 DEF Pending, MailboxInv, MailboxTypeOK
  <2>2. /\ endpoints' = WithQueue(p, Tail(q))
        /\ received' = [received EXCEPT ![p] = Append(@, Head(q))]
        /\ UNCHANGED <<store, next_cap_id, accepted>>
    BY <1>3 DEF Receive, receive_message
  <2>3. Head(q) \in Messages /\ Tail(q) \in Seq(Messages) /\ Len(Tail(q)) = Len(q) - 1
    BY <2>1
  <2>4. MailboxTypeOK'
    BY <1>1, <2>1, <2>2, <2>3 DEF WithQueue, MailboxInv, MailboxTypeOK
  <2>5. InOrderNoLoss'
    <3> SUFFICES ASSUME NEW o \in Pids PROVE accepted'[o] = received'[o] \o Queued(o)'
      BY DEF InOrderNoLoss
    <3>1. CASE o # p
      BY <3>1, <2>1, <2>2 DEF WithQueue, MailboxInv, MailboxTypeOK, InOrderNoLoss, Queued
    <3>2. CASE o = p
      <4>1. accepted'[p] = received[p] \o q /\ received[p] \in Seq(Messages)
        BY <2>1, <2>2 DEF WithQueue, MailboxInv, MailboxTypeOK, InOrderNoLoss, Queued
      <4>2. Queued(p)' = Tail(q) /\ received'[p] = Append(received[p], Head(q))
        BY <2>1, <2>2 DEF WithQueue, MailboxInv, MailboxTypeOK, Queued
      <4> HIDE DEF q
      <4> QED
        BY <3>2, <4>1, <4>2, <2>1, MoveHead, SMTT(60), Z3T(60)
    <3> QED
      BY <3>1, <3>2
  <2>6. WithinLimit'
    BY <2>1, <2>2, <2>3 DEF WithQueue, MailboxInv, MailboxTypeOK, WithinLimit
  <2> QED
    BY <2>2, <2>4, <2>5, <2>6 DEF WithQueue, MailboxInv, NoForgedCapability
<1> QED
  BY <1>2, <1>3

-----------------------------------------------------------------------------
LEMMA NextMailboxes == MailboxInv /\ [MailboxNext]_mailboxVars => MailboxInv'
<1> SUFFICES ASSUME MailboxInv, [MailboxNext]_mailboxVars PROVE MailboxInv'
  OBVIOUS
<1>1. CASE UNCHANGED mailboxVars
  BY <1>1 DEF mailboxVars, MailboxInv, MailboxTypeOK, CapTypeOK, InOrderNoLoss, Queued,
              NoForgedCapability, WithinLimit
<1>2. CASE MailboxNext
  BY <1>2, CreateInv, RevokeInv, OpenInv, SendInv, ReceiveInv DEF MailboxNext
<1> QED
  BY <1>1, <1>2

(* The inductive invariant holds throughout. *)
LEMMA MailboxInvariance == MailboxSpec => []MailboxInv
<1> QED
  BY InitMailboxes, NextMailboxes, PTL DEF MailboxSpec

(* The tables and the histories keep their types. *)
THEOREM MailboxTypes == MailboxSpec => []MailboxTypeOK
<1>1. MailboxInv => MailboxTypeOK
  BY DEF MailboxInv
<1> QED
  BY <1>1, MailboxInvariance, PTL

(* ipc.rs delivers: what a process was sent is what it received and what   *)
(* is queued for it, in order, whatever else is sent, opened or revoked.   *)
THEOREM Delivery == MailboxSpec => []InOrderNoLoss
<1>1. MailboxInv => InOrderNoLoss
  BY DEF MailboxInv
<1> QED
  BY <1>1, MailboxInvariance, PTL

(* send_message accepts no identifier that create_capability has not       *)
(* handed out yet.                                                         *)
THEOREM NothingForged == MailboxSpec => []NoForgedCapability
<1>1. MailboxInv => NoForgedCapability
  BY DEF MailboxInv
<1> QED
  BY <1>1, MailboxInvariance, PTL

(* No mailbox is over its limit, for any limits. *)
THEOREM QueuesBounded == MailboxSpec => []WithinLimit
<1>1. MailboxInv => WithinLimit
  BY DEF MailboxInv
<1> QED
  BY <1>1, MailboxInvariance, PTL

(* Revocation is final: once revoke_capability has removed an identifier,  *)
(* no create_capability makes it resolve again.                            *)
THEOREM RevocationIsFinal == MailboxSpec => RevokedStaysRevoked
<1>1. MailboxInv /\ [MailboxNext]_mailboxVars
        => [\A id \in 1 .. (next_cap_id - 1) :
              ~validate_capability(id) => ~validate_capability(id)']_mailboxVars
  <2> SUFFICES ASSUME MailboxInv, MailboxNext,
                      NEW id \in 1 .. (next_cap_id - 1), ~validate_capability(id)
               PROVE  ~validate_capability(id)'
    BY DEF mailboxVars, validate_capability
  <2>0. id # next_cap_id
    BY DEF MailboxInv, MailboxTypeOK, CapTypeOK, CapIds
  <2>1. CASE Create
    BY <2>0, <2>1 DEF Create, create_capability, validate_capability
  <2>2. CASE Revoke
    BY <2>2 DEF WithQueue, Revoke, revoke_capability, validate_capability
  <2>3. CASE UNCHANGED store
    BY <2>3 DEF validate_capability
  <2> QED
    BY <2>1, <2>2, <2>3 DEF WithQueue, MailboxNext, Open, Send, Receive
<1> QED
  BY <1>1, InitMailboxes, NextMailboxes, PTL DEF MailboxSpec, RevokedStaysRevoked

-----------------------------------------------------------------------------
(* resolve. *)

(* The type of net.sockets. *)
SocketsOK(s) == /\ s \in Seq(Seq(Answers))
                /\ \A i \in DOMAIN s : Len(s[i]) <= RX_SLOTS

(* Every packet of a socket answers one of the names N. *)
OnlyFor(q, N) == \A j \in DOMAIN q : q[j].name \in N

(* A call that runs after a failed one finds nothing in its socket. *)
NothingAfterFailure ==
  failed > 0 /\ domain # None => sockets[Len(sockets)] = << >>

(* While a call runs, every answer under way, and every one in its socket, *)
(* is one that it may return.                                              *)
OnlyDue ==
  domain # None => /\ \A answer \in flight : answer.name \in due
                   /\ OnlyFor(sockets[Len(sockets)], due)

DnsInv == /\ DnsTypeOK
          /\ calls \in Nat
          /\ domain # None => polls < POLLS /\ domain \in due
          /\ queued => domain # None
          /\ SocketPerFailedSend
          /\ NothingAfterFailure
          /\ OnlyDue
          /\ OnlyAnswersUnderWay

-----------------------------------------------------------------------------
(* SocketSet::add appends an empty socket. *)
LEMMA AddKeeps ==
  ASSUME NEW s, SocketsOK(s)
  PROVE  LET t == Append(s, << >>)
         IN  /\ SocketsOK(t)
             /\ Len(t) = Len(s) + 1 /\ t[Len(t)] = << >>
<1> DEFINE t == Append(s, << >>)
<1>1. << >> \in Seq(Answers) /\ Len(<< >>) = 0
  BY EmptySeq
<1>2. s \in Seq(Seq(Answers)) /\ Len(s) \in Nat /\ DOMAIN s = 1 .. Len(s)
  BY LenProperties DEF SocketsOK
<1>3. /\ t \in Seq(Seq(Answers)) /\ Len(t) = Len(s) + 1
      /\ \A i \in 1 .. Len(s) : t[i] = s[i]
      /\ t[Len(s) + 1] = << >>
  BY <1>1, <1>2, AppendProperties
<1>4. DOMAIN t = 1 .. Len(t)
  BY <1>3, LenProperties
<1> HIDE DEF t
<1>5. SocketsOK(t)
  <2> SUFFICES ASSUME NEW i \in DOMAIN t PROVE Len(t[i]) <= RX_SLOTS
    BY <1>3 DEF SocketsOK
  <2>1. CASE i = Len(s) + 1
    BY <1>1, <1>3, <2>1, DnsAssumption
  <2>2. CASE i \in DOMAIN s
    BY <1>2, <1>3, <2>2 DEF SocketsOK
  <2> QED  BY <1>2, <1>3, <1>4, <2>1, <2>2
<1>6. t[Len(t)] = << >>
  BY <1>3
<1> QED  BY <1>3, <1>5, <1>6 DEF t

(* SocketSet::remove takes out resolve's socket only. *)
LEMMA RemoveKeeps ==
  ASSUME NEW s, SocketsOK(s), Len(s) > 0
  PROVE  SocketsOK(remove(s)) /\ Len(remove(s)) = Len(s) - 1
<1>1. s \in Seq(Seq(Answers)) /\ Len(s) \in Nat /\ DOMAIN s = 1 .. Len(s)
  BY LenProperties DEF SocketsOK
<1>2. \A i \in 1 .. Len(s) - 1 : s[i] \in Seq(Answers)
  BY <1>1, ElementOfSeq
<1>3. /\ remove(s) \in Seq(Seq(Answers)) /\ Len(remove(s)) = Len(s) - 1
      /\ \A i \in 1 .. Len(s) - 1 : remove(s)[i] = s[i]
  BY <1>1, <1>2, SubSeqProperties DEF remove
<1>4. DOMAIN remove(s) = 1 .. Len(s) - 1
  BY <1>3, LenProperties
<1>5. ASSUME NEW i \in 1 .. Len(s) - 1 PROVE Len(remove(s)[i]) <= RX_SLOTS
  <2>1. remove(s)[i] = s[i]
    BY <1>3
  <2>2. i \in DOMAIN s
    BY <1>1
  <2> QED  BY <2>1, <2>2 DEF SocketsOK
<1> QED  BY <1>3, <1>4, <1>5 DEF SocketsOK

(* Interface::poll changes the first socket only, and only by the answer. *)
LEMMA TakenInKeeps ==
  ASSUME NEW answer \in Answers, SocketsOK(sockets)
  PROVE  /\ SocketsOK(TakenIn(answer))
         /\ Len(TakenIn(answer)) = Len(sockets)
         /\ \A i \in DOMAIN sockets : i # 1 => TakenIn(answer)[i] = sockets[i]
         /\ \A N : \A i \in DOMAIN sockets :
              OnlyFor(sockets[i], N) /\ answer.name \in N => OnlyFor(TakenIn(answer)[i], N)
<1>1. CASE ~Room
  BY <1>1 DEF TakenIn
<1>2. CASE Room
  <2> DEFINE q == Append(sockets[1], answer)
             t == [sockets EXCEPT ![1] = q]
  <2>1. /\ sockets \in Seq(Seq(Answers)) /\ Len(sockets) \in Nat \ {0}
        /\ DOMAIN sockets = 1 .. Len(sockets)
    BY <1>2, LenProperties, EmptySeq DEF SocketsOK, Room
  <2>2. sockets[1] \in Seq(Answers) /\ Len(sockets[1]) \in Nat /\ Len(sockets[1]) < RX_SLOTS
    BY <1>2, <2>1, ElementOfSeq, LenProperties DEF Room
  <2>3. /\ q \in Seq(Answers) /\ Len(q) = Len(sockets[1]) + 1
        /\ \A j \in 1 .. Len(sockets[1]) : q[j] = sockets[1][j]
        /\ q[Len(sockets[1]) + 1] = answer
    BY <2>2, AppendProperties
  <2>4. DOMAIN q = 1 .. Len(q) /\ DOMAIN sockets[1] = 1 .. Len(sockets[1])
    BY <2>2, <2>3, LenProperties
  <2>5. TakenIn(answer) = t
    BY <1>2 DEF TakenIn
  <2> HIDE DEF q
  <2>6. /\ t \in Seq(Seq(Answers)) /\ Len(t) = Len(sockets)
        /\ \A i \in 1 .. Len(sockets) : t[i] = IF i = 1 THEN q ELSE sockets[i]
    BY <2>1, <2>3, ExceptSeq
  <2> HIDE DEF t
  <2>7. DOMAIN t = 1 .. Len(sockets)
    BY <2>6, LenProperties
  <2>8. SocketsOK(t)
    BY <2>1, <2>2, <2>3, <2>6, <2>7, DnsAssumption, SMTT(60), Z3T(60) DEF SocketsOK
  <2>9. ASSUME NEW N, NEW i \in DOMAIN sockets, OnlyFor(sockets[i], N), answer.name \in N
        PROVE  OnlyFor(t[i], N)
    <3>1. CASE i # 1
      BY <2>1, <2>6, <2>9, <3>1
    <3>2. CASE i = 1
      <4>1. ASSUME NEW j \in DOMAIN q PROVE q[j].name \in N
        <5>1. CASE j = Len(sockets[1]) + 1
          BY <2>3, <2>9, <5>1
        <5>2. CASE j \in DOMAIN sockets[1]
          <6>1. q[j] = sockets[1][j]
            BY <2>3, <2>4, <5>2
          <6> QED  BY <2>9, <3>2, <5>2, <6>1 DEF OnlyFor
        <5> QED  BY <2>2, <2>3, <2>4, <5>1, <5>2
      <4>2. t[i] = q
        BY <2>1, <2>6, <3>2
      <4> QED  BY <4>1, <4>2 DEF OnlyFor
    <3> QED  BY <3>1, <3>2
  <2> QED  BY <2>1, <2>5, <2>6, <2>8, <2>9
<1> QED  BY <1>1, <1>2

(* recv takes the first packet out of resolve's socket. *)
LEMMA ReadKeeps ==
  ASSUME SocketsOK(sockets), Len(sockets) > 0, Unread # << >>
  PROVE  /\ Head(Unread) \in Answers
         /\ SocketsOK(Read) /\ Len(Read) = Len(sockets)
         /\ \A N : OnlyFor(Unread, N) => /\ OnlyFor(Read[Len(Read)], N)
                                        /\ Head(Unread).name \in N
<1> DEFINE n == Len(sockets)
           q == Tail(Unread)
           t == [sockets EXCEPT ![n] = q]
<1>1. /\ sockets \in Seq(Seq(Answers)) /\ n \in Nat \ {0}
      /\ DOMAIN sockets = 1 .. n
  BY LenProperties DEF SocketsOK
<1>2. /\ Unread = sockets[n] /\ n \in DOMAIN sockets
      /\ Unread \in Seq(Answers) /\ Len(Unread) \in Nat \ {0}
      /\ DOMAIN Unread = 1 .. Len(Unread)
  BY <1>1, ElementOfSeq, LenProperties, EmptySeq DEF Unread, Mine
<1>3. /\ Head(Unread) \in Answers /\ Head(Unread) = Unread[1]
      /\ q \in Seq(Answers) /\ Len(q) = Len(Unread) - 1
      /\ \A j \in 1 .. Len(q) : q[j] = Unread[j + 1]
  BY <1>2, HeadTailProperties
<1>4. DOMAIN q = 1 .. Len(q)
  BY <1>3, LenProperties
<1>5. Read = t
  BY DEF Read, Unread, Mine
<1> HIDE DEF q
<1>6. /\ t \in Seq(Seq(Answers)) /\ Len(t) = n
      /\ \A i \in 1 .. n : t[i] = IF i = n THEN q ELSE sockets[i]
  BY <1>1, <1>3, ExceptSeq
<1> HIDE DEF t, n
<1>7. DOMAIN t = 1 .. n
  BY <1>6, LenProperties
<1>8. SocketsOK(t)
  BY <1>1, <1>2, <1>3, <1>6, <1>7, DnsAssumption DEF SocketsOK
<1>9. ASSUME NEW N, OnlyFor(Unread, N)
      PROVE  OnlyFor(q, N) /\ Head(Unread).name \in N
  <2>1. ASSUME NEW j \in DOMAIN q PROVE q[j].name \in N
    <3>1. j + 1 \in DOMAIN Unread /\ q[j] = Unread[j + 1]
      BY <1>2, <1>3, <1>4
    <3> QED  BY <1>9, <3>1 DEF OnlyFor
  <2>2. 1 \in DOMAIN Unread
    BY <1>2
  <2> QED  BY <1>3, <1>9, <2>1, <2>2 DEF OnlyFor
<1>10. t[Len(t)] = q
  BY <1>1, <1>6
<1> QED  BY <1>3, <1>5, <1>6, <1>8, <1>9, <1>10 DEF n

-----------------------------------------------------------------------------
LEMMA InitDns == DnsInit => DnsInv
<1> SUFFICES ASSUME DnsInit PROVE DnsInv
  OBVIOUS
<1>1. sockets \in Seq(Seq(Answers)) /\ DOMAIN sockets = {} /\ Len(sockets) = 0
  BY DEF DnsInit
<1>2. network \in BOOLEAN /\ queued \in BOOLEAN
  BY ZenonT(60) DEF DnsInit
<1>3. polls \in 0 .. POLLS /\ failed \in 0 .. calls
  BY DnsAssumption DEF DnsInit
<1>4. flight \subseteq Answers /\ domain = None /\ result = None /\ due = {}
  BY DEF DnsInit
<1>5. DnsTypeOK
  BY <1>1, <1>2, <1>3, <1>4 DEF DnsTypeOK
<1> QED  BY <1>1, <1>5 DEF DnsInit, DnsInv, SocketPerFailedSend, NothingAfterFailure,
                           OnlyDue, OnlyAnswersUnderWay

LEMMA BeginKeeps == ASSUME NEW name \in Names PROVE DnsInv /\ Begin(name) => DnsInv'
<1> SUFFICES ASSUME DnsInv, Begin(name) PROVE DnsInv'
  OBVIOUS
<1>1. /\ SocketsOK(sockets) /\ domain = None /\ ~queued /\ failed \in Nat /\ calls \in Nat
      /\ failed <= calls /\ Len(sockets) = failed
  BY DEF DnsInv, DnsTypeOK, SocketsOK, Begin, SocketPerFailedSend
<1>2. /\ SocketsOK(add) /\ Len(add) = failed + 1 /\ add[Len(add)] = << >>
  BY <1>1, AddKeeps DEF add
<1>3. /\ name # None /\ due' \subseteq Names
      /\ name \in due' /\ \A answer \in flight : answer.name \in due'
  BY DnsAssumption DEF Begin, DnsInv, DnsTypeOK, Answers
<1>4. CASE ~network
  <2>1. DnsTypeOK'
    BY <1>1, <1>3, <1>4, DnsAssumption DEF Begin, DnsInv, DnsTypeOK
  <2> QED  BY <1>1, <1>4, <2>1 DEF Begin, DnsInv, SocketPerFailedSend, NothingAfterFailure,
                                   OnlyDue, OnlyAnswersUnderWay
<1>5. CASE network /\ name \in LongNames
  <2>1. SocketsOK(sockets') /\ Len(sockets') = failed' /\ failed' \in 0 .. calls'
    BY <1>1, <1>2, <1>5 DEF Begin
  <2>2. DnsTypeOK'
    BY <1>1, <1>3, <1>5, <2>1, DnsAssumption DEF Begin, DnsInv, DnsTypeOK, SocketsOK
  <2> QED  BY <1>1, <1>5, <2>1, <2>2 DEF Begin, DnsInv, SocketPerFailedSend,
                         NothingAfterFailure, OnlyDue, OnlyAnswersUnderWay
<1>6. CASE network /\ name \notin LongNames
  <2>1. /\ sockets' = add /\ domain' = name /\ failed' = failed
        /\ queued' = TRUE /\ polls' = 0 /\ flight' = flight /\ calls' = calls + 1
    BY <1>6 DEF Begin
  <2>2. DnsTypeOK'
    BY <1>1, <1>2, <1>3, <1>6, <2>1, DnsAssumption DEF Begin, DnsInv, DnsTypeOK, SocketsOK
  <2>3. SocketPerFailedSend' /\ NothingAfterFailure'
    BY <1>1, <1>2, <1>3, <2>1 DEF SocketPerFailedSend, NothingAfterFailure
  <2>4. OnlyFor(<< >>, due')
    BY DEF OnlyFor
  <2>5. OnlyDue' /\ OnlyAnswersUnderWay'
    BY <1>2, <1>3, <2>1, <2>4, ZenonT(60) DEF OnlyDue, OnlyAnswersUnderWay
  <2> QED  BY <1>1, <1>3, <2>1, <2>2, <2>3, <2>5, DnsAssumption DEF DnsInv
<1> QED  BY <1>4, <1>5, <1>6

LEMMA TakeInKeeps ==
  ASSUME NEW answer \in flight PROVE DnsInv /\ (TakeIn(answer) \/ Lose(answer)) => DnsInv'
<1> SUFFICES ASSUME DnsInv, TakeIn(answer) \/ Lose(answer) PROVE DnsInv'
  OBVIOUS
<1>1. answer \in Answers /\ SocketsOK(sockets) /\ flight' \subseteq flight
  BY DEF DnsInv, DnsTypeOK, SocketsOK, TakeIn, Lose
<1>2. UNCHANGED <<network, domain, queued, polls, result, calls, due, failed>>
  BY DEF TakeIn, Lose
<1>3. /\ SocketsOK(sockets') /\ Len(sockets') = Len(sockets)
      /\ \A i \in DOMAIN sockets : i # 1 => sockets'[i] = sockets[i]
      /\ \A N : \A i \in DOMAIN sockets :
           OnlyFor(sockets[i], N) /\ answer.name \in N => OnlyFor(sockets'[i], N)
  BY <1>1, TakenInKeeps DEF TakeIn, Lose
<1>4. DnsTypeOK'
  BY <1>1, <1>2, <1>3 DEF DnsInv, DnsTypeOK, SocketsOK
<1>5. SocketPerFailedSend' /\ OnlyAnswersUnderWay'
  BY <1>2, <1>3 DEF DnsInv, SocketPerFailedSend, OnlyAnswersUnderWay
<1>6. NothingAfterFailure'
  <2> SUFFICES ASSUME failed > 0, domain # None PROVE sockets'[Len(sockets)] = << >>
    BY <1>2, <1>3 DEF NothingAfterFailure
  <2>1. Len(sockets) = failed + 1 /\ failed \in Nat /\ DOMAIN sockets = 1 .. Len(sockets)
    BY <1>1, LenProperties DEF DnsInv, SocketPerFailedSend, DnsTypeOK, SocketsOK
  <2>2. Len(sockets) \in DOMAIN sockets /\ Len(sockets) # 1
    BY <2>1
  <2> QED  BY <1>3, <2>2 DEF DnsInv, NothingAfterFailure
<1>7. OnlyDue'
  <2> SUFFICES ASSUME domain # None
               PROVE  /\ \A a \in flight' : a.name \in due
                      /\ OnlyFor(sockets'[Len(sockets)], due)
    BY <1>2, <1>3 DEF OnlyDue
  <2>1. /\ \A a \in flight : a.name \in due
        /\ OnlyFor(sockets[Len(sockets)], due)
    BY DEF DnsInv, OnlyDue
  <2>2. Len(sockets) \in DOMAIN sockets
    <3>1. Len(sockets) = failed + 1 /\ failed \in Nat /\ DOMAIN sockets = 1 .. Len(sockets)
      BY <1>1, LenProperties DEF DnsInv, SocketPerFailedSend, DnsTypeOK, SocketsOK
    <3> QED  BY <3>1
  <2> QED  BY <1>1, <1>3, <2>1, <2>2, ZenonT(60)
<1> QED  BY <1>2, <1>4, <1>5, <1>6, <1>7 DEF DnsInv

LEMMA SendQueryKeeps == DnsInv /\ SendQuery => DnsInv'
<1> SUFFICES ASSUME DnsInv, SendQuery PROVE DnsInv'
  OBVIOUS
<1>1. /\ UNCHANGED <<network, sockets, domain, polls, result, calls, due, failed>>
      /\ queued' = FALSE /\ domain # None /\ domain \in Names
  BY DEF SendQuery, DnsInv, DnsTypeOK
<1>2. flight' \subseteq Answers /\ \A answer \in flight' : answer \in flight \/ answer.name = domain
  BY <1>1 DEF SendQuery, DnsInv, DnsTypeOK, Answers
<1>3. DnsTypeOK'
  BY <1>1, <1>2, ZenonT(60) DEF DnsInv, DnsTypeOK
<1>4. OnlyDue'
  BY <1>1, <1>2, ZenonT(60) DEF DnsInv, OnlyDue
<1> QED  BY <1>1, <1>3, <1>4 DEF DnsInv, SocketPerFailedSend, NothingAfterFailure, OnlyAnswersUnderWay

(* A call that runs ends, if it does, with a name that is due or None, and *)
(* with None after a failed one.                                           *)
LEMMA LookKeeps ==
  ASSUME DnsInv, Look
  PROVE  DnsInv' /\ (failed > 0 /\ domain' = None => result' = None)
<1>1. /\ SocketsOK(sockets) /\ domain # None /\ domain \in Names /\ domain \in due
      /\ failed \in Nat /\ Len(sockets) = failed + 1 /\ Len(sockets) > 0
      /\ polls \in Nat /\ polls < POLLS /\ calls \in Nat
  BY DEF DnsInv, DnsTypeOK, SocketsOK, Look, SocketPerFailedSend
<1>2. /\ UNCHANGED <<network, flight, calls, due, failed>>
      /\ polls' = polls + 1 /\ polls' \in 0 .. POLLS
  BY <1>1, DnsAssumption DEF Look
<1>3. CASE Unread # << >> /\ Head(Unread).kind # "short"
  <2> DEFINE v == parse_dns_response(Head(Unread))
  <2>1. /\ sockets' = remove(Read) /\ result' = v /\ domain' = None /\ queued' = FALSE
    BY <1>3 DEF Look, Finish
  <2>2. /\ Head(Unread) \in Answers /\ SocketsOK(Read) /\ Len(Read) = Len(sockets)
        /\ \A N : OnlyFor(Unread, N) => Head(Unread).name \in N
    BY <1>1, <1>3, ReadKeeps
  <2>3. SocketsOK(sockets') /\ Len(sockets') = failed
    BY <1>1, <2>1, <2>2, RemoveKeeps
  <2>4. v \in {Head(Unread).name, None} /\ v \in Names \cup {None}
    BY <2>2 DEF parse_dns_response, Answers
  <2> HIDE DEF v
  <2>5. v \in due \cup {None}
    <3>1. OnlyFor(Unread, due)
      BY <1>1, ZenonT(60) DEF DnsInv, OnlyDue, Unread, Mine
    <3> QED  BY <2>2, <2>4, <3>1, ZenonT(60)
  <2>6. ~(failed > 0)
    BY <1>1, <1>3 DEF DnsInv, NothingAfterFailure, Unread, Mine
  <2>7. DnsTypeOK'
    BY <1>1, <1>2, <2>1, <2>3, <2>4, ZenonT(60) DEF DnsInv, DnsTypeOK, SocketsOK
  <2>8. SocketPerFailedSend' /\ NothingAfterFailure' /\ OnlyDue' /\ OnlyAnswersUnderWay'
    BY <1>1, <1>2, <2>1, <2>3, <2>5, <2>6
    DEF SocketPerFailedSend, NothingAfterFailure, OnlyDue, OnlyAnswersUnderWay
  <2> QED  BY <1>2, <2>1, <2>6, <2>7, <2>8 DEF DnsInv
<1>4. CASE ~(Unread # << >> /\ Head(Unread).kind # "short") /\ polls + 1 = POLLS
  <2>1. /\ sockets' = remove(sockets) /\ result' = None /\ domain' = None /\ queued' = FALSE
    BY <1>4 DEF Look, Finish
  <2>2. SocketsOK(sockets') /\ Len(sockets') = failed
    BY <1>1, <2>1, RemoveKeeps
  <2>3. DnsTypeOK'
    BY <1>1, <1>2, <2>1, <2>2, ZenonT(60) DEF DnsInv, DnsTypeOK, SocketsOK
  <2> QED  BY <1>1, <1>2, <2>1, <2>2, <2>3
           DEF DnsInv, SocketPerFailedSend, NothingAfterFailure, OnlyDue, OnlyAnswersUnderWay
<1>5. CASE ~(Unread # << >> /\ Head(Unread).kind # "short") /\ polls + 1 # POLLS
  <2>1. /\ sockets' = IF Unread = << >> THEN sockets ELSE Read
        /\ UNCHANGED <<domain, queued, result>>
    BY <1>5 DEF Look
  <2>2. polls' < POLLS
    BY <1>1, <1>2, <1>5, DnsAssumption
  <2>3. /\ SocketsOK(sockets') /\ Len(sockets') = Len(sockets)
        /\ OnlyFor(Unread, due) => OnlyFor(sockets'[Len(sockets')], due)
    <3>1. CASE Unread = << >>
      BY <1>1, <2>1, <3>1 DEF Unread, Mine
    <3>2. CASE Unread # << >>
      BY <1>1, <2>1, <3>2, ReadKeeps
    <3> QED  BY <3>1, <3>2
  <2>4. DnsTypeOK'
    BY <1>1, <1>2, <2>1, <2>3 DEF DnsInv, DnsTypeOK, SocketsOK
  <2>5. NothingAfterFailure'
    BY <1>1, <1>2, <2>1 DEF DnsInv, NothingAfterFailure, Unread, Mine
  <2>6. OnlyDue'
    BY <1>1, <1>2, <2>1, <2>3, ZenonT(60) DEF DnsInv, OnlyDue, Unread, Mine
  <2> QED  BY <1>1, <1>2, <2>1, <2>2, <2>3, <2>4, <2>5, <2>6
           DEF DnsInv, SocketPerFailedSend, OnlyAnswersUnderWay
<1> QED  BY <1>3, <1>4, <1>5

LEMMA StutterDns == DnsInv /\ UNCHANGED dnsVars => DnsInv'
BY DEF dnsVars, DnsInv, DnsTypeOK, SocketPerFailedSend, NothingAfterFailure, OnlyDue,
       OnlyFor, OnlyAnswersUnderWay

LEMMA NextDns == DnsInv /\ [DnsNext]_dnsVars => DnsInv'
BY BeginKeeps, TakeInKeeps, SendQueryKeeps, LookKeeps, StutterDns
   DEF DnsNext, Idle

(* The inductive invariant holds throughout. *)
THEOREM DnsInvariant == DnsSpec => []DnsInv
<1> QED  BY InitDns, NextDns, PTL DEF DnsSpec

(* The state keeps its types; a socket never holds more than its slots. *)
THEOREM DnsTyped == DnsSpec => []DnsTypeOK
<1>1. DnsInv => DnsTypeOK
  BY DEF DnsInv
<1> QED  BY <1>1, DnsInvariant, PTL

(* Sockets do not accumulate, however calls end, except one for each call  *)
(* whose query could not be sent.                                          *)
THEOREM SocketsRemoved == DnsSpec => []SocketPerFailedSend
<1>1. DnsInv => SocketPerFailedSend
  BY DEF DnsInv
<1> QED  BY <1>1, DnsInvariant, PTL

(* resolve returns no address but one that answers its question or was on  *)
(* its way when it began: what earlier calls took in and left unread is    *)
(* gone with their sockets, or in a socket that no call reads.             *)
THEOREM NoLeftOverAnswer == DnsSpec => []OnlyAnswersUnderWay
<1>1. DnsInv => OnlyAnswersUnderWay
  BY DEF DnsInv
<1> QED  BY <1>1, DnsInvariant, PTL

(* After a query that could not be sent, resolve never again returns an    *)
(* address.                                                                *)
THEOREM FailedSendSilencesResolve == DnsSpec => NoAddressAfterFailedSend
<1>1. DnsInv /\ [DnsNext]_dnsVars
        => [failed > 0 /\ domain # None /\ domain' = None => result' = None]_dnsVars
  <2> SUFFICES ASSUME DnsInv, DnsNext, failed > 0, domain # None, domain' = None
               PROVE  result' = None
    OBVIOUS
  <2>1. Look
    BY ZenonT(60) DEF DnsNext, Begin, TakeIn, Lose, SendQuery, Idle, dnsVars
  <2> QED  BY <2>1, LookKeeps
<1> QED  BY <1>1, DnsInvariant, PTL DEF DnsSpec, NoAddressAfterFailedSend

-----------------------------------------------------------------------------
(* The network card. *)

(* The k-th transmit buffer from buffer d on. *)
Slot(d, k) == IF d + k >= TX_BUFFERS THEN d + k - TX_BUFFERS ELSE d + k

TxType == /\ tx_buffers \in [0 .. TX_BUFFERS - 1 -> 0 .. handed]
          /\ tx_index \in 0 .. TX_BUFFERS - 1
          /\ pending \subseteq 0 .. TX_BUFFERS - 1
          /\ tx_desc \in 0 .. TX_BUFFERS - 1
          /\ handed \in Nat
          /\ sent \in Seq(Nat)
          /\ overrun \in BOOLEAN

(* A frame that waits has not been sent and waits in one buffer only. *)
Fresh == /\ \A i \in DOMAIN sent : sent[i] <= handed
         /\ \A p \in pending, i \in DOMAIN sent : sent[i] # tx_buffers[p]
         /\ \A p, r \in pending : tx_buffers[p] = tx_buffers[r] => p = r

(* Unless tx_raw was ahead by all buffers, the buffers that wait are those *)
(* from the card's to the driver's, with the frames after the last one     *)
(* sent.                                                                   *)
waiting == handed - Len(sent)

InStep == /\ waiting \in 0 .. TX_BUFFERS
          /\ tx_index = Slot(tx_desc, waiting)
          /\ pending = {Slot(tx_desc, k) : k \in 0 .. waiting - 1}
          /\ \A k \in 0 .. waiting - 1 : tx_buffers[Slot(tx_desc, k)] = Len(sent) + k + 1

TxInv == TxType /\ Fresh /\ TransmitsInOrder /\ (~overrun => InStep)

(* Where the packets are that the card has taken, and where it and the     *)
(* driver are: pos[n] is the place of packet n, and the last one is free.  *)
Layout(pos) ==
  /\ pos \in [1 .. Len(taken) + 1 -> Nat]
  /\ pos[1] = 0
  /\ cbr = pos[Len(taken) + 1]
  /\ \A n \in 1 .. Len(taken) :
       /\ pos[n + 1] = Align(pos[n] + taken[n] + 8)
       /\ \A i \in pos[n] .. pos[n] + taken[n] + 7 : rx_buffer[i] = <<n, i - pos[n] - 4>>
  /\ \A n \in 1 .. Len(taken), m \in 1 .. Len(taken) + 1 :
       n < m => pos[n] + taken[n] + 8 <= pos[m]
  /\ ~ahead => rx_offset = pos[Len(returned) + 1]

RxType == /\ rx_buffer \in [0 .. RX_BUFFER_SIZE - 1 -> Int \X Int]
          /\ \A i \in 0 .. RX_BUFFER_SIZE - 1 :
               rx_buffer[i] = Unwritten \/ rx_buffer[i][1] \in 1 .. Len(taken)
          /\ rx_offset \in Nat
          /\ cbr \in 0 .. RING - 1 /\ cbr % 4 = 0
          /\ panicked \in BOOLEAN /\ ahead \in BOOLEAN
          /\ taken \in Seq(Nat)
          /\ returned \in Seq(Seq(Int \X Int))

RxInv == RxType /\ ReceivesInOrder /\ \E pos : Layout(pos)

-----------------------------------------------------------------------------
(* A place inside of the ring is its own place. *)
LEMMA ModSmall ==
  ASSUME NEW T \in Nat \ {0}, NEW x \in Nat, x < T
  PROVE  x % T = x
OBVIOUS

(* The place behind the last one of the ring is the first. *)
LEMMA ModSelf ==
  ASSUME NEW T \in Nat \ {0}
  PROVE  T % T = 0
OBVIOUS

(* Rounding up to four bytes, as rx_poll moves rx_offset. *)
LEMMA AlignBounds ==
  ASSUME NEW n \in Nat
  PROVE  /\ Align(n) \in Nat
         /\ n <= Align(n) /\ Align(n) <= n + 3
         /\ Align(n) % 4 = 0
BY DEF Align

(* Rounding commutes with a start that is rounded already. *)
LEMMA AlignShift ==
  ASSUME NEW n \in Nat, NEW c \in Nat, c % 4 = 0
  PROVE  Align(c + n) = c + Align(n)
BY DEF Align

(* The step to the next of the transmit buffers. *)
LEMMA NextBuffer ==
  ASSUME NEW x \in 0 .. TX_BUFFERS - 1
  PROVE  (x + 1) % TX_BUFFERS = IF x + 1 = TX_BUFFERS THEN 0 ELSE x + 1
<1>1. TX_BUFFERS \in Nat \ {0}
  BY Rtl8139Assumption
<1>2. CASE x + 1 = TX_BUFFERS
  BY <1>1, <1>2, ModSelf
<1>3. CASE x + 1 < TX_BUFFERS
  BY <1>1, <1>3, ModSmall
<1> QED  BY <1>1, <1>2, <1>3

-----------------------------------------------------------------------------
(* At first no buffer waits. *)
LEMMA InitTx == Rtl8139Init => TxInv
<1> SUFFICES ASSUME Rtl8139Init
             PROVE  TxInv
  OBVIOUS
<1>1. TX_BUFFERS \in Nat \ {0}
  BY Rtl8139Assumption
<1>2. TxType
  <2>1. tx_buffers \in [0 .. TX_BUFFERS - 1 -> 0 .. handed]
    BY <1>1 DEF Rtl8139Init
  <2>2. overrun \in BOOLEAN
    BY ZenonT(60) DEF Rtl8139Init
  <2>3. sent \in Seq(Nat)
    BY DEF Rtl8139Init
  <2> QED  BY <1>1, <2>1, <2>2, <2>3 DEF Rtl8139Init, TxType
<1>3. Fresh /\ TransmitsInOrder
  BY DEF Rtl8139Init, Fresh, TransmitsInOrder
<1>4. InStep
  BY <1>1 DEF Rtl8139Init, InStep, Slot, waiting
<1> QED  BY <1>2, <1>3, <1>4 DEF TxInv

(* tx_raw fills a buffer with a frame that is in no other. *)
LEMMA TxRawKeeps == TxInv /\ TxRaw => TxInv'
<1> SUFFICES ASSUME TxInv, TxRaw
             PROVE  TxInv'
  OBVIOUS
<1>1. TX_BUFFERS \in Nat \ {0}
  BY Rtl8139Assumption
<1>2. TxType /\ Fresh /\ TransmitsInOrder
  BY DEF TxInv
<1>3. /\ tx_buffers' = [tx_buffers EXCEPT ![tx_index] = handed + 1]
      /\ pending' = pending \cup {tx_index}
      /\ handed' = handed + 1
      /\ overrun' = (overrun \/ tx_index \in pending)
      /\ tx_index' = IF tx_index + 1 = TX_BUFFERS THEN 0 ELSE tx_index + 1
      /\ UNCHANGED <<tx_desc, sent>>
  BY <1>2, NextBuffer DEF TxRaw, TxSlot, NextTx, TxType
<1>4. TxType'
  <2>1. tx_buffers' \in [0 .. TX_BUFFERS - 1 -> 0 .. handed']
    BY <1>1, <1>2, <1>3 DEF TxType
  <2>2. overrun' \in BOOLEAN
    BY <1>3, ZenonT(60)
  <2> QED  BY <1>1, <1>2, <1>3, <2>1, <2>2 DEF TxType
<1>5. Fresh'
  <2>1. \A i \in DOMAIN sent : sent[i] \in Nat
    BY <1>2, LenProperties, ElementOfSeq DEF TxType
  <2>2. \A p \in 0 .. TX_BUFFERS - 1 : p # tx_index => tx_buffers'[p] = tx_buffers[p]
    BY <1>2, <1>3 DEF TxType
  <2>3. tx_buffers'[tx_index] = handed + 1
    BY <1>2, <1>3 DEF TxType
  <2>4. \A p \in 0 .. TX_BUFFERS - 1 : tx_buffers[p] # handed + 1
    BY <1>2 DEF TxType
  <2>5. \A i \in DOMAIN sent : sent[i] # handed + 1 /\ sent[i] <= handed + 1
    BY <1>2, <2>1 DEF TxType, Fresh
  <2> QED  BY <1>2, <1>3, <2>2, <2>3, <2>4, <2>5 DEF TxType, Fresh
<1>6. TransmitsInOrder'
  BY <1>2, <1>3, ZenonT(60) DEF TransmitsInOrder
<1>7. ASSUME ~overrun'
      PROVE  InStep'
  <2>1. ~overrun /\ tx_index \notin pending /\ InStep
    BY <1>3, <1>7, ZenonT(60) DEF TxInv
  <2>2. Len(sent) \in Nat
    BY <1>2, LenProperties DEF TxType
  <2>3. waiting \in 0 .. TX_BUFFERS /\ tx_index = Slot(tx_desc, waiting)
    BY <2>1 DEF InStep
  <2>4. waiting # TX_BUFFERS
    <3> SUFFICES ASSUME waiting = TX_BUFFERS
                 PROVE  FALSE
      OBVIOUS
    <3>1. 0 \in 0 .. waiting - 1
      BY <1>1
    <3>2. Slot(tx_desc, 0) \in pending
      BY <2>1, <3>1 DEF InStep
    <3>3. Slot(tx_desc, 0) = Slot(tx_desc, waiting)
      BY <1>1, <1>2 DEF Slot, TxType
    <3> QED  BY <2>1, <2>3, <3>2, <3>3
  <2>5. waiting' = waiting + 1
    BY <1>2, <1>3, <2>2 DEF TxType, waiting
  <2>6. waiting' \in 0 .. TX_BUFFERS /\ 0 .. waiting' - 1 = 0 .. waiting
    BY <1>1, <2>3, <2>4, <2>5
  <2>7. tx_index' = Slot(tx_desc, waiting + 1)
    <3>1. waiting + 1 <= TX_BUFFERS /\ waiting \in Nat
      BY <1>1, <2>3, <2>4
    <3>2. tx_desc \in 0 .. TX_BUFFERS - 1
      BY <1>2 DEF TxType
    <3> QED  BY <1>1, <1>3, <2>3, <3>1, <3>2 DEF Slot
  <2>8. pending' = {Slot(tx_desc, k) : k \in 0 .. waiting}
    <3>1. \A k \in 0 .. waiting : k \in 0 .. waiting - 1 \/ k = waiting
      BY <2>3
    <3>2. waiting \in 0 .. waiting /\ 0 .. waiting - 1 \subseteq 0 .. waiting
      BY <2>3
    <3> QED  BY <1>3, <2>1, <2>3, <3>1, <3>2 DEF InStep
  <2>9. ASSUME NEW k \in 0 .. waiting
        PROVE  tx_buffers'[Slot(tx_desc, k)] = Len(sent) + k + 1
    <3>1. CASE k = waiting
      BY <1>2, <1>3, <2>2, <2>3, <3>1 DEF TxType, waiting
    <3>2. CASE k # waiting
      <4>1. k \in 0 .. waiting - 1
        BY <2>3, <3>2
      <4>2. Slot(tx_desc, k) \in pending /\ tx_buffers[Slot(tx_desc, k)] = Len(sent) + k + 1
        BY <2>1, <4>1 DEF InStep
      <4> QED  BY <1>2, <1>3, <2>1, <4>2 DEF TxType
    <3> QED  BY <3>1, <3>2
  <2>10. tx_index' = Slot(tx_desc', waiting')
    BY <1>3, <2>5, <2>7
  <2>11. pending' = {Slot(tx_desc', k) : k \in 0 .. waiting' - 1}
    BY <1>3, <2>6, <2>8, ZenonT(60)
  <2>12. \A k \in 0 .. waiting' - 1 : tx_buffers'[Slot(tx_desc', k)] = Len(sent') + k + 1
    BY <1>3, <2>6, <2>9, ZenonT(60)
  <2> QED  BY <2>6, <2>10, <2>11, <2>12, ZenonT(60) DEF InStep
<1> QED  BY <1>4, <1>5, <1>6, <1>7 DEF TxInv

(* The card takes the frame that has waited longest. *)
LEMMA SendFrameKeeps == TxInv /\ SendFrame => TxInv'
<1> SUFFICES ASSUME TxInv, SendFrame
             PROVE  TxInv'
  OBVIOUS
<1>1. TX_BUFFERS \in Nat \ {0}
  BY Rtl8139Assumption
<1>2. TxType /\ Fresh /\ TransmitsInOrder
  BY DEF TxInv
<1>3. /\ tx_desc \in pending
      /\ sent' = Append(sent, tx_buffers[tx_desc])
      /\ pending' = pending \ {tx_desc}
      /\ tx_desc' = IF tx_desc + 1 = TX_BUFFERS THEN 0 ELSE tx_desc + 1
      /\ UNCHANGED <<tx_buffers, tx_index, handed, overrun>>
  BY <1>2, NextBuffer DEF SendFrame, TxType
<1>4. tx_buffers[tx_desc] \in Nat /\ tx_buffers[tx_desc] <= handed
  BY <1>2 DEF TxType
<1>5. /\ Len(sent) \in Nat
      /\ DOMAIN sent = 1 .. Len(sent)
      /\ Len(sent') = Len(sent) + 1
      /\ DOMAIN sent' = 1 .. Len(sent) + 1
      /\ \A i \in 1 .. Len(sent) : sent'[i] = sent[i]
      /\ sent'[Len(sent) + 1] = tx_buffers[tx_desc]
      /\ sent' \in Seq(Nat)
  BY <1>2, <1>3, <1>4, LenProperties, AppendProperties DEF TxType
<1>6. TxType'
  BY <1>1, <1>2, <1>3, <1>5 DEF TxType
<1>7. Fresh'
  BY <1>2, <1>3, <1>4, <1>5 DEF Fresh
<1>8. ASSUME ~overrun
      PROVE  InStep' /\ tx_buffers[tx_desc] = Len(sent) + 1
  <2>1. InStep
    BY <1>8 DEF TxInv
  <2>2. waiting \in 1 .. TX_BUFFERS /\ tx_index = Slot(tx_desc, waiting)
    BY <1>2, <1>3, <2>1 DEF InStep
  <2>3. Slot(tx_desc, 0) = tx_desc
    BY <1>1, <1>2 DEF Slot, TxType
  <2>4. tx_buffers[tx_desc] = Len(sent) + 1
    <3>1. 0 \in 0 .. waiting - 1
      BY <1>1, <2>2
    <3> QED  BY <1>5, <2>1, <2>3, <3>1 DEF InStep
  <2>5. waiting' = waiting - 1
    BY <1>2, <1>3, <1>5 DEF TxType, waiting
  <2>6. waiting' \in 0 .. TX_BUFFERS /\ waiting' + 1 = waiting
    BY <1>1, <2>2, <2>5
  <2>7. ASSUME NEW k \in 0 .. TX_BUFFERS - 1
        PROVE  Slot(tx_desc', k) = Slot(tx_desc, k + 1)
    BY <1>1, <1>2, <1>3 DEF Slot, TxType
  <2>8. tx_index' = Slot(tx_desc', waiting')
    <3>1. waiting' \in 0 .. TX_BUFFERS - 1
      BY <1>1, <2>2, <2>5
    <3> QED  BY <1>3, <2>2, <2>6, <2>7, <3>1, ZenonT(60)
  <2>9. ASSUME NEW k \in 0 .. waiting' - 1
        PROVE  /\ k + 1 \in 0 .. waiting - 1
               /\ Slot(tx_desc', k) = Slot(tx_desc, k + 1)
    BY <1>1, <2>2, <2>5, <2>7
  <2>10. ASSUME NEW k \in 0 .. waiting' - 1
         PROVE  tx_buffers'[Slot(tx_desc', k)] = Len(sent') + k + 1
    <3>1. tx_buffers[Slot(tx_desc, k + 1)] = Len(sent) + (k + 1) + 1
      BY <2>1, <2>9 DEF InStep
    <3> QED  BY <1>3, <1>5, <2>9, <3>1
  <2>11. pending' = {Slot(tx_desc', k) : k \in 0 .. waiting' - 1}
    <3>1. pending = {Slot(tx_desc, k) : k \in 0 .. waiting - 1}
      BY <2>1 DEF InStep
    <3>2. ASSUME NEW k \in 0 .. waiting - 1, Slot(tx_desc, k) = tx_desc
          PROVE  k = 0
      BY <1>1, <1>2, <2>2, <3>2 DEF Slot, TxType
    <3>3. ASSUME NEW k \in 0 .. waiting - 1, k # 0
          PROVE  k - 1 \in 0 .. waiting' - 1 /\ (k - 1) + 1 = k
      BY <2>2, <2>5, <3>3
    <3>4. ASSUME NEW k \in 0 .. waiting' - 1
          PROVE  k + 1 # 0
      BY <3>4
    <3>5. pending' \subseteq {Slot(tx_desc', k) : k \in 0 .. waiting' - 1}
      BY <1>3, <2>3, <2>9, <3>1, <3>3
    <3>6. {Slot(tx_desc', k) : k \in 0 .. waiting' - 1} \subseteq pending'
      BY <1>3, <2>9, <3>1, <3>2, <3>4
    <3> QED  BY <3>5, <3>6
  <2> QED  BY <2>4, <2>6, <2>8, <2>10, <2>11, ZenonT(60) DEF InStep
<1>9. TransmitsInOrder'
  <2>1. \A i, j \in DOMAIN sent' : sent'[i] = sent'[j] => i = j
    BY <1>2, <1>3, <1>5 DEF Fresh, TransmitsInOrder
  <2>2. ~overrun => \A i \in DOMAIN sent' : sent'[i] = i
    BY <1>2, <1>5, <1>8 DEF TransmitsInOrder
  <2> QED  BY <1>3, <2>1, <2>2 DEF TransmitsInOrder
<1> QED  BY <1>3, <1>6, <1>7, <1>8, <1>9 DEF TxInv

(* The receive side leaves the transmit side alone. *)
LEMMA StutterTx == TxInv /\ UNCHANGED txVars => TxInv'
<1> SUFFICES ASSUME TxInv, UNCHANGED txVars
             PROVE  TxInv'
  OBVIOUS
<1>1. /\ tx_buffers' = tx_buffers /\ tx_index' = tx_index /\ pending' = pending
      /\ tx_desc' = tx_desc /\ handed' = handed /\ sent' = sent /\ overrun' = overrun
  BY DEF txVars
<1>2. waiting' = waiting
  BY <1>1 DEF waiting
<1>3. TxType' /\ Fresh' /\ TransmitsInOrder'
  BY <1>1 DEF TxInv, TxType, Fresh, TransmitsInOrder
<1>4. InStep' = InStep
  BY <1>1, <1>2 DEF InStep
<1> QED  BY <1>1, <1>3, <1>4 DEF TxInv

-----------------------------------------------------------------------------
(* The ring and the driver's buffer, from the assumption. *)
LEMMA Sizes == /\ RING \in Nat \ {0} /\ RING % 4 = 0
               /\ RX_BUFFER_SIZE \in Nat /\ RING <= RX_BUFFER_SIZE
BY Rtl8139Assumption DEF RX_BUFFER_SIZE

(* At first the ring is empty. *)
LEMMA InitRx == Rtl8139Init => RxInv
<1> SUFFICES ASSUME Rtl8139Init
             PROVE  RxInv
  OBVIOUS
<1>1. RxType
  <2>1. rx_buffer \in [0 .. RX_BUFFER_SIZE - 1 -> Int \X Int]
    BY DEF Rtl8139Init, Unwritten
  <2>2. \A i \in 0 .. RX_BUFFER_SIZE - 1 : rx_buffer[i] = Unwritten
    BY DEF Rtl8139Init
  <2>3. panicked \in BOOLEAN /\ ahead \in BOOLEAN
    BY ZenonT(60) DEF Rtl8139Init
  <2>4. taken \in Seq(Nat) /\ returned \in Seq(Seq(Int \X Int))
    BY DEF Rtl8139Init
  <2>5. rx_offset \in Nat /\ cbr \in 0 .. RING - 1 /\ cbr % 4 = 0
    BY Sizes DEF Rtl8139Init
  <2> QED  BY <2>1, <2>2, <2>3, <2>4, <2>5 DEF RxType
<1>2. ReceivesInOrder
  BY DEF Rtl8139Init, ReceivesInOrder
<1>3. Layout([n \in 1 .. 1 |-> 0])
  BY DEF Rtl8139Init, Layout
<1> QED  BY <1>1, <1>2, <1>3 DEF RxInv

(* A packet that ends below the write place ends below a later one. *)
LEMMA BelowFree ==
  ASSUME NEW p \in Nat, NEW a \in Nat, NEW c \in Nat, NEW f \in Nat,
         p + a + 8 <= c, c <= f
  PROVE  p + a + 8 <= f
OBVIOUS

(* A packet that ends inside of the ring starts inside of it. *)
LEMMA StartsBelow ==
  ASSUME NEW p \in Nat, NEW a \in Nat, NEW c \in Nat, NEW r \in Nat,
         p + a + 8 <= c, c < r
  PROVE  p < r
OBVIOUS

(* Every byte of a packet lies below the write place. *)
LEMMA InsidePacket ==
  ASSUME NEW p \in Nat, NEW a \in Nat, NEW c \in Nat, p + a + 8 <= c,
         NEW i \in p .. p + a + 7
  PROVE  i \in Nat /\ i < c
OBVIOUS

(* A packet that the card takes is put behind the others. *)
LEMMA ArriveKeeps == ASSUME NEW len \in PayloadLens
                     PROVE  RxInv /\ Arrive(len) => RxInv'
<1> SUFFICES ASSUME RxInv, Arrive(len)
             PROVE  RxInv'
  OBVIOUS
<1>1. RxType /\ ReceivesInOrder
  BY DEF RxInv
<1>2. PICK pos : Layout(pos)
  BY DEF RxInv
<1>3. UNCHANGED <<rx_offset, panicked, returned, ahead>>
  BY DEF Arrive
<1>4. CASE ~Fits(len)
  <2>1. UNCHANGED <<rx_buffer, taken, cbr>>
    BY <1>4 DEF Arrive
  <2>2. RxType' /\ ReceivesInOrder'
    BY <1>1, <1>3, <2>1 DEF RxType, ReceivesInOrder
  <2>3. Layout(pos)'
    BY <1>2, <1>3, <2>1, ZenonT(60) DEF Layout
  <2> QED  BY <2>2, <2>3 DEF RxInv
<1>5. CASE Fits(len)
  <2> DEFINE last == Len(taken)
             free == Align(cbr + len + 8)
  <2>1. /\ len \in Nat /\ len + 11 < RING
        /\ cbr \in Nat /\ cbr < RING /\ cbr % 4 = 0
        /\ last \in Nat
    BY <1>1, Sizes, Rtl8139Assumption, LenProperties DEF RxType
  <2>2. /\ rx_buffer' = [i \in DOMAIN rx_buffer |->
                           IF i \in cbr .. cbr + len + 7 THEN <<last + 1, i - cbr - 4>>
                           ELSE rx_buffer[i]]
        /\ taken' = Append(taken, len)
        /\ cbr' = free % RING
    BY <1>5 DEF Arrive
  <2>3. free \in Nat /\ free % 4 = 0 /\ cbr + len + 8 <= free
    <3>1. cbr + len + 8 \in Nat
      BY <2>1
    <3> QED  BY <3>1, AlignBounds
  <2>4. free < RING
    <3>1. CASE cbr = 0
      <4>1. cbr + len + 8 \in Nat /\ cbr + len + 8 + 3 < RING
        BY <2>1, <3>1, Sizes
      <4>2. free <= cbr + len + 8 + 3
        BY <4>1, AlignBounds
      <4> HIDE DEF free
      <4> QED  BY <2>1, <2>3, <4>1, <4>2, Sizes
    <3>2. CASE cbr # 0
      <4>1. Align(len + 8) < RING - cbr
        BY <1>5, <3>2 DEF Fits
      <4>2. free = cbr + Align(len + 8)
        <5>1. len + 8 \in Nat /\ cbr + len + 8 = cbr + (len + 8)
          BY <2>1
        <5> QED  BY <2>1, <5>1, AlignShift, ZenonT(60)
      <4>3. Align(len + 8) \in Nat
        <5>1. len + 8 \in Nat
          BY <2>1
        <5> QED  BY <5>1, AlignBounds
      <4> HIDE DEF free
      <4> QED  BY <2>1, <4>1, <4>2, <4>3, Sizes
    <3> QED  BY <3>1, <3>2
  <2> HIDE DEF free
  <2>5. cbr' = free
    BY <2>2, <2>3, <2>4, Sizes, ModSmall, ZenonT(60)
  <2>6. /\ taken' \in Seq(Nat) /\ Len(taken') = last + 1
        /\ \A n \in 1 .. last : taken'[n] = taken[n]
        /\ taken'[last + 1] = len
        /\ DOMAIN taken = 1 .. last
    BY <1>1, <2>1, <2>2, AppendProperties, LenProperties DEF RxType
  <2> HIDE DEF last
  <2>7. DOMAIN rx_buffer = 0 .. RX_BUFFER_SIZE - 1
    BY <1>1 DEF RxType
  <2>8. RxType'
    <3>1. rx_buffer' \in [0 .. RX_BUFFER_SIZE - 1 -> Int \X Int]
      <4>1. \A i \in 0 .. RX_BUFFER_SIZE - 1 : <<last + 1, i - cbr - 4>> \in Int \X Int
        BY <2>1, Sizes
      <4> QED  BY <1>1, <2>2, <2>7, <4>1, ZenonT(60) DEF RxType
    <3>2. ASSUME NEW i \in 0 .. RX_BUFFER_SIZE - 1
          PROVE  rx_buffer'[i] = Unwritten \/ rx_buffer'[i][1] \in 1 .. Len(taken')
      <4>1. rx_buffer[i] = Unwritten \/ rx_buffer[i][1] \in 1 .. last
        BY <1>1 DEF RxType, last
      <4>2. last + 1 \in 1 .. Len(taken') /\ 1 .. last \subseteq 1 .. Len(taken')
        BY <2>1, <2>6
      <4>3. CASE i \in cbr .. cbr + len + 7
        BY <2>2, <2>7, <4>2, <4>3
      <4>4. CASE i \notin cbr .. cbr + len + 7
        BY <2>2, <2>7, <4>1, <4>2, <4>4
      <4> QED  BY <4>3, <4>4
    <3>3. cbr' \in 0 .. RING - 1 /\ cbr' % 4 = 0
      BY <2>3, <2>4, <2>5, Sizes
    <3> QED  BY <1>1, <1>3, <2>6, <3>1, <3>2, <3>3, ZenonT(60) DEF RxType
  <2>9. ReceivesInOrder'
    <3>1. Len(returned) <= last /\ Len(returned) \in Nat /\ DOMAIN returned = 1 .. Len(returned)
      BY <1>1, LenProperties DEF ReceivesInOrder, RxType, last
    <3>2. \A n \in DOMAIN returned : n \in 1 .. last
      BY <2>1, <3>1
    <3>3. ASSUME NEW n \in DOMAIN returned
          PROVE  returned'[n] = [i \in 1 .. taken'[n] |-> <<n, i - 1>>]
      BY <1>1, <1>3, <2>6, <3>2 DEF ReceivesInOrder
    <3>4. panicked' => ahead'
      BY <1>1, <1>3 DEF ReceivesInOrder
    <3>5. Len(returned') <= Len(taken')
      BY <1>3, <2>1, <2>6, <3>1
    <3> QED  BY <1>3, <3>3, <3>4, <3>5 DEF ReceivesInOrder
  <2> PICK next : next = [n \in 1 .. last + 2 |-> IF n = last + 2 THEN free ELSE pos[n]]
    BY ZenonT(60)
  <2>10. /\ pos \in [1 .. last + 1 -> Nat]
         /\ pos[1] = 0 /\ cbr = pos[last + 1]
         /\ ~ahead => rx_offset = pos[Len(returned) + 1]
    BY <1>2 DEF Layout, last
  <2>11. /\ next \in [1 .. Len(taken') + 1 -> Nat]
         /\ \A n \in 1 .. last + 1 : next[n] = pos[n]
         /\ next[last + 2] = free
         /\ Len(taken') + 1 = last + 2
    <3>1. Len(taken') + 1 = last + 2
      BY <2>1, <2>6
    <3>2. free \in Nat
      BY <2>3
    <3>3. ASSUME NEW n \in 1 .. last + 2, n # last + 2
          PROVE  n \in 1 .. last + 1
      BY <2>1, <3>3
    <3>4. ASSUME NEW n \in 1 .. last + 1
          PROVE  n \in 1 .. last + 2 /\ n # last + 2
      BY <2>1, <3>4
    <3>5. last + 2 \in 1 .. last + 2
      BY <2>1
    <3>6. \A n \in 1 .. last + 1 : next[n] = pos[n]
      BY <3>4
    <3>7. next[last + 2] = free
      BY <3>5
    <3>8. next \in [1 .. last + 2 -> Nat]
      BY <2>10, <3>2, <3>3
    <3> QED  BY <3>1, <3>6, <3>7, <3>8
  <2>12. next[1] = 0 /\ cbr' = next[Len(taken') + 1]
    BY <2>1, <2>5, <2>10, <2>11
  <2>13. ASSUME NEW n \in 1 .. last
         PROVE  /\ taken[n] \in Nat /\ pos[n] \in Nat
                /\ pos[n] + taken[n] + 8 <= cbr
                /\ pos[n + 1] = Align(pos[n] + taken[n] + 8)
                /\ \A i \in pos[n] .. pos[n] + taken[n] + 7 :
                     rx_buffer[i] = <<n, i - pos[n] - 4>>
    <3>1. taken[n] \in Nat
      BY <1>1, <2>6, ElementOfSeq DEF RxType, last
    <3>2. n < last + 1 /\ last + 1 \in 1 .. last + 1 /\ n \in 1 .. last + 1
      BY <2>1
    <3> QED  BY <1>2, <2>10, <3>1, <3>2, ZenonT(60) DEF Layout, last
  <2>14. ASSUME NEW n \in 1 .. Len(taken')
         PROVE  /\ next[n + 1] = Align(next[n] + taken'[n] + 8)
                /\ \A i \in next[n] .. next[n] + taken'[n] + 7 :
                     rx_buffer'[i] = <<n, i - next[n] - 4>>
    <3>1. CASE n = last + 1
      <4>1. next[n] = cbr /\ next[n + 1] = free /\ taken'[n] = len
        BY <2>1, <2>6, <2>10, <2>11, <3>1
      <4>2. \A i \in cbr .. cbr + len + 7 : i \in 0 .. RX_BUFFER_SIZE - 1
        BY <2>1, <2>3, <2>4, Sizes
      <4>3. \A i \in cbr .. cbr + len + 7 : rx_buffer'[i] = <<n, i - cbr - 4>>
        BY <2>2, <2>7, <3>1, <4>2
      <4> QED  BY <4>1, <4>3, ZenonT(60) DEF free
    <3>2. CASE n # last + 1
      <4>1. n \in 1 .. last /\ n \in 1 .. last + 1 /\ n + 1 \in 1 .. last + 1
        BY <2>1, <2>6, <3>2
      <4>2. next[n] = pos[n] /\ next[n + 1] = pos[n + 1] /\ taken'[n] = taken[n]
        BY <2>6, <2>11, <4>1
      <4>3. ASSUME NEW i \in pos[n] .. pos[n] + taken[n] + 7
            PROVE  rx_buffer'[i] = rx_buffer[i]
        <5>1. pos[n] \in Nat /\ taken[n] \in Nat /\ pos[n] + taken[n] + 8 <= cbr
          BY <2>13, <4>1
        <5>2. i \in Nat /\ i < cbr
          BY <2>1, <5>1, InsidePacket, ZenonT(60)
        <5>3. i \in 0 .. RX_BUFFER_SIZE - 1 /\ i \notin cbr .. cbr + len + 7
          BY <2>1, <5>2, Sizes
        <5> QED  BY <2>2, <2>7, <5>3
      <4> QED  BY <2>13, <4>1, <4>2, <4>3, ZenonT(60)
    <3> QED  BY <3>1, <3>2, ZenonT(60)
  <2>15. ASSUME NEW n \in 1 .. Len(taken'), NEW m \in 1 .. Len(taken') + 1, n < m
         PROVE  next[n] + taken'[n] + 8 <= next[m]
    <3>1. CASE n = last + 1
      <4>1. m = last + 2
        BY <2>1, <2>6, <2>15, <3>1
      <4> QED  BY <2>1, <2>3, <2>6, <2>10, <2>11, <3>1, <4>1
    <3>2. CASE n # last + 1
      <4>1. n \in 1 .. last /\ n \in 1 .. last + 1
        BY <2>1, <2>6, <3>2
      <4>2. next[n] = pos[n] /\ taken'[n] = taken[n]
        BY <2>6, <2>11, <4>1
      <4>3. CASE m = last + 2
        <5>1. pos[n] \in Nat /\ taken[n] \in Nat /\ pos[n] + taken[n] + 8 <= cbr
          BY <2>13, <4>1
        <5>2. cbr <= free
          BY <2>1, <2>3
        <5>3. pos[n] + taken[n] + 8 <= free
          BY <2>1, <2>3, <5>1, <5>2, BelowFree, ZenonT(60)
        <5> QED  BY <2>11, <4>2, <4>3, <5>3
      <4>4. CASE m # last + 2
        <5>1. m \in 1 .. last + 1 /\ next[m] = pos[m]
          BY <2>1, <2>6, <2>11, <4>4
        <5> QED  BY <1>2, <2>15, <4>1, <4>2, <5>1 DEF Layout, last
      <4> QED  BY <4>3, <4>4
    <3> QED  BY <3>1, <3>2
  <2>16. ~ahead' => rx_offset' = next[Len(returned') + 1]
    <3>1. Len(returned) + 1 \in 1 .. last + 1
      BY <1>1, <2>1, LenProperties DEF ReceivesInOrder, RxType, last
    <3> QED  BY <1>3, <2>10, <2>11, <3>1, ZenonT(60)
  <2>17. Layout(next)'
    BY <2>11, <2>12, <2>14, <2>15, <2>16, ZenonT(60) DEF Layout
  <2> QED  BY <2>8, <2>9, <2>17 DEF RxInv
<1> QED  BY <1>4, <1>5

(* What rx_poll finds where the card has put packet n. *)
LEMMA PollsPacket ==
  ASSUME RxType, NEW pos, Layout(pos), NEW n \in 1 .. Len(taken)
  PROVE  LET a == taken[n]
         IN  /\ a \in Nat /\ pos[n] \in Nat /\ pos[n] + 3 < RX_BUFFER_SIZE
             /\ LengthsAt(pos[n]) = {a + 4}
             /\ PacketAt(pos[n], a + 4) = [i \in 1 .. a |-> <<n, i - 1>>]
             /\ pos[n + 1] \in Nat /\ pos[n + 1] < RING
             /\ Align(pos[n] + (a + 4) + 4) = pos[n + 1]
<1> DEFINE a == taken[n]
           p == pos[n]
<1>1. Len(taken) \in Nat /\ a \in Nat
  BY LenProperties, ElementOfSeq DEF RxType
<1>2. p \in Nat /\ p + a + 8 <= cbr /\ cbr \in Nat /\ cbr < RING
  <2>1. n \in 1 .. Len(taken) + 1 /\ n < Len(taken) + 1
        /\ Len(taken) + 1 \in 1 .. Len(taken) + 1
    BY <1>1
  <2>2. p \in Nat
    BY <2>1, ZenonT(60) DEF Layout
  <2>3. p + a + 8 <= pos[Len(taken) + 1] /\ cbr = pos[Len(taken) + 1]
    BY <2>1, ZenonT(60) DEF Layout
  <2>4. cbr \in Nat /\ cbr < RING
    BY Sizes DEF RxType
  <2> HIDE DEF p, a
  <2> QED  BY <2>2, <2>3, <2>4
<1>3. \A i \in p .. p + a + 7 : rx_buffer[i] = <<n, i - p - 4>>
  BY DEF Layout
<1>4. pos[n + 1] = Align(p + a + 8)
  BY DEF Layout
<1>5. pos[n + 1] \in Nat /\ pos[n + 1] < RING
  <2>1. n + 1 \in 1 .. Len(taken) + 1
    BY <1>1
  <2>2. pos[n + 1] \in Nat
    BY <2>1 DEF Layout
  <2>3. CASE n = Len(taken)
    BY <1>2, <2>3 DEF Layout
  <2>4. CASE n # Len(taken)
    <3>1. n + 1 \in 1 .. Len(taken) /\ n + 1 < Len(taken) + 1
      BY <1>1, <2>4
    <3>2. pos[n + 1] + taken[n + 1] + 8 <= cbr /\ taken[n + 1] \in Nat
      <4>1. taken[n + 1] \in Nat
        BY <3>1, ElementOfSeq DEF RxType
      <4>2. Len(taken) + 1 \in 1 .. Len(taken) + 1
        BY <1>1
      <4> QED  BY <3>1, <4>1, <4>2 DEF Layout
    <3>3. cbr \in Nat /\ cbr < RING /\ RING \in Nat
      BY Sizes DEF RxType
    <3> QED  BY <2>2, <3>2, <3>3, StartsBelow, ZenonT(60)
  <2> QED  BY <2>2, <2>3, <2>4
<1> HIDE DEF a, p
<1>6. p + 3 < RX_BUFFER_SIZE
  BY <1>1, <1>2, Sizes
<1>7. LengthsAt(p) = {a + 4}
  <2>1. ASSUME NEW i, i = p + 2
        PROVE  rx_buffer[i] = <<n, -2>>
    <3>1. i \in p .. p + a + 7 /\ i - p - 4 = -2
      BY <1>1, <1>2, <2>1
    <3> QED  BY <1>3, <3>1
  <2>2. ASSUME NEW i, i = p + 3
        PROVE  rx_buffer[i] = <<n, -1>>
    <3>1. i \in p .. p + a + 7 /\ i - p - 4 = -1
      BY <1>1, <1>2, <2>2
    <3> QED  BY <1>3, <3>1
  <2>3. rx_buffer[p + 2] = <<n, -2>> /\ rx_buffer[p + 3] = <<n, -1>>
    BY <2>1, <2>2
  <2>4. <<n, -2>> # Unwritten
    BY DEF Unwritten
  <2> QED  BY <2>3, <2>4 DEF LengthsAt, a
<1>8. PacketAt(p, a + 4) = [i \in 1 .. a |-> <<n, i - 1>>]
  <2>1. PayloadLen(a + 4) = a
    BY <1>1 DEF PayloadLen
  <2>2. ASSUME NEW i \in 1 .. a
        PROVE  rx_buffer[(p + 4 + i - 1) % RING] = <<n, i - 1>>
    <3>1. PICK j : j = p + 4 + i - 1
      OBVIOUS
    <3>2. j \in p .. p + a + 7 /\ j \in Nat /\ j < RING /\ j - p - 4 = i - 1
      BY <1>1, <1>2, <3>1, Sizes
    <3>3. j % RING = j
      BY <3>2, Sizes, ModSmall
    <3>4. rx_buffer[j] = <<n, i - 1>>
      BY <1>3, <3>2
    <3> QED  BY <3>1, <3>3, <3>4
  <2> QED  BY <2>1, <2>2 DEF PacketAt
<1>9. p + (a + 4) + 4 = p + a + 8
  BY <1>1, <1>2
<1> QED  BY <1>1, <1>2, <1>4, <1>5, <1>6, <1>7, <1>8, <1>9 DEF a, p

(* rx_poll returns the next packet, or reads ahead of the card. *)
LEMMA RxPollKeeps == RxInv /\ RxPoll => RxInv'
<1> SUFFICES ASSUME RxInv, RxPoll
             PROVE  RxInv'
  OBVIOUS
<1>1. RxType /\ ReceivesInOrder
  BY DEF RxInv
<1>2. PICK pos : Layout(pos)
  BY DEF RxInv
<1>3. UNCHANGED <<rx_buffer, cbr, taken>> /\ ~panicked
  BY DEF RxPoll
<1>4. /\ Len(taken) \in Nat /\ Len(returned) \in Nat
      /\ Len(returned) <= Len(taken)
      /\ DOMAIN returned = 1 .. Len(returned)
  BY <1>1, LenProperties DEF RxType, ReceivesInOrder
<1>5. CASE rx_offset + 3 >= RX_BUFFER_SIZE
  <2>1. panicked' = TRUE /\ UNCHANGED <<rx_offset, returned, ahead>>
    BY <1>5 DEF RxPoll
  <2>2. ahead
    <3> SUFFICES ASSUME ~ahead
                 PROVE  FALSE
      BY <1>1 DEF RxType
    <3>1. rx_offset = pos[Len(returned) + 1]
      BY <1>2 DEF Layout
    <3>2. CASE Len(returned) = Len(taken)
      <4>1. rx_offset = cbr
        BY <1>2, <3>1, <3>2 DEF Layout
      <4>2. cbr \in Nat /\ cbr < RING /\ cbr % 4 = 0
        BY <1>1, Sizes DEF RxType
      <4>3. cbr + 3 < RING
        BY <4>2, Sizes
      <4> QED  BY <1>5, <4>1, <4>2, <4>3, Sizes
    <3>3. CASE Len(returned) # Len(taken)
      <4>1. Len(returned) + 1 \in 1 .. Len(taken)
        BY <1>4, <3>3
      <4>2. rx_offset \in Nat /\ rx_offset + 3 < RX_BUFFER_SIZE
        BY <1>1, <1>2, <3>1, <4>1, PollsPacket, ZenonT(60)
      <4> QED  BY <1>5, <4>2, Sizes
    <3> QED  BY <3>2, <3>3
  <2>3. RxType'
    BY <1>1, <1>3, <2>1 DEF RxType
  <2>4. ReceivesInOrder'
    BY <1>1, <1>3, <2>1, <2>2 DEF ReceivesInOrder
  <2>5. Layout(pos)'
    BY <1>2, <1>3, <2>1 DEF Layout
  <2> QED  BY <2>3, <2>4, <2>5 DEF RxInv
<1>6. CASE ~(rx_offset + 3 >= RX_BUFFER_SIZE)
  <2>1. PICK length \in LengthsAt(rx_offset) :
          /\ rx_offset' = NextOffset(length)
          /\ ahead' = (ahead \/ Len(returned) = Len(taken))
          /\ returned' = IF ahead' THEN returned
                         ELSE Append(returned, PacketAt(rx_offset, length))
    BY <1>6 DEF RxPoll
  <2>2. UNCHANGED panicked
    BY <1>6 DEF RxPoll
  <2>3. ahead' \in BOOLEAN
    BY <2>1, ZenonT(60)
  <2>4. length \in Nat
    <3>1. JunkLengths \subseteq Nat
      BY Rtl8139Assumption
    <3>2. rx_offset + 2 \in 0 .. RX_BUFFER_SIZE - 1
      BY <1>1, <1>6, Sizes DEF RxType
    <3> DEFINE low == rx_buffer[rx_offset + 2]
    <3>3. CASE low # Unwritten
      <4>1. low[1] \in 1 .. Len(taken)
        BY <1>1, <3>2, <3>3 DEF RxType
      <4>2. taken[low[1]] + 4 \in Nat
        <5>1. taken[low[1]] \in Nat
          BY <1>1, <4>1, ElementOfSeq DEF RxType
        <5> QED  BY <5>1
      <4> QED  BY <2>1, <3>1, <4>2 DEF LengthsAt
    <3>4. CASE low = Unwritten
      BY <2>1, <3>1, <3>4 DEF LengthsAt
    <3> QED  BY <3>3, <3>4
  <2>5. rx_offset' \in Nat
    <3>1. rx_offset + length + 4 \in Nat
      BY <1>1, <2>4 DEF RxType
    <3>2. Align(rx_offset + length + 4) \in Nat
      BY <3>1, AlignBounds
    <3> QED  BY <2>1, <3>2, Sizes DEF NextOffset
  <2>6. CASE ahead'
    <3>1. returned' = returned
      BY <2>1, <2>6
    <3>2. RxType'
      BY <1>1, <1>3, <2>2, <2>3, <2>5, <3>1 DEF RxType
    <3>3. ReceivesInOrder'
      BY <1>1, <1>3, <2>6, <3>1 DEF ReceivesInOrder
    <3>4. Layout(pos)'
      BY <1>2, <1>3, <2>6 DEF Layout
    <3> QED  BY <3>2, <3>3, <3>4 DEF RxInv
  <2>7. CASE ~ahead'
    <3> DEFINE n == Len(returned) + 1
               a == taken[n]
               packet == [i \in 1 .. a |-> <<n, i - 1>>]
    <3>1. ~ahead /\ Len(returned) # Len(taken)
      BY <2>1, <2>7, ZenonT(60)
    <3>2. n \in 1 .. Len(taken)
      BY <1>4, <3>1
    <3>3. rx_offset = pos[n]
      BY <1>2, <3>1 DEF Layout
    <3>4. /\ a \in Nat
          /\ LengthsAt(rx_offset) = {a + 4}
          /\ PacketAt(rx_offset, a + 4) = packet
          /\ pos[n + 1] \in Nat /\ pos[n + 1] < RING
          /\ Align(rx_offset + (a + 4) + 4) = pos[n + 1]
      BY <1>1, <1>2, <3>2, <3>3, PollsPacket, ZenonT(60)
    <3>5. length = a + 4
      BY <2>1, <3>4
    <3>6. rx_offset' = pos[n + 1]
      BY <2>1, <3>4, <3>5, Sizes DEF NextOffset
    <3>7. returned' = Append(returned, packet)
      BY <2>1, <2>7, <3>4, <3>5
    <3>8. packet \in Seq(Int \X Int)
      <4>1. n \in Int /\ \A i \in 1 .. a : <<n, i - 1>> \in Int \X Int
        BY <1>4, <3>4
      <4> QED  BY <3>4, <4>1
    <3> HIDE DEF packet
    <3>9. /\ returned' \in Seq(Seq(Int \X Int))
          /\ Len(returned') = n
          /\ DOMAIN returned' = 1 .. n
          /\ \A k \in 1 .. Len(returned) : returned'[k] = returned[k]
          /\ returned'[n] = packet
      BY <1>1, <1>4, <3>7, <3>8, AppendProperties, LenProperties DEF RxType
    <3>10. RxType'
      BY <1>1, <1>3, <2>2, <2>3, <2>5, <3>9 DEF RxType
    <3>11. ReceivesInOrder'
      <4>1. ASSUME NEW k \in DOMAIN returned'
            PROVE  returned'[k] = [i \in 1 .. taken'[k] |-> <<k, i - 1>>]
        <5>1. CASE k = n
          BY <1>3, <3>9, <5>1 DEF packet
        <5>2. CASE k # n
          <6>1. k \in 1 .. Len(returned)
            BY <1>4, <3>9, <5>2
          <6> QED  BY <1>1, <1>3, <1>4, <3>9, <6>1 DEF ReceivesInOrder
        <5> QED  BY <5>1, <5>2
      <4>2. Len(returned') <= Len(taken')
        BY <1>3, <1>4, <3>2, <3>9
      <4> QED  BY <1>3, <2>2, <4>1, <4>2 DEF ReceivesInOrder
    <3>12. Layout(pos)'
      BY <1>2, <1>3, <3>6, <3>9 DEF Layout
    <3> QED  BY <3>10, <3>11, <3>12 DEF RxInv
  <2> QED  BY <2>6, <2>7
<1> QED  BY <1>5, <1>6

(* The transmit side leaves the receive side alone. *)
LEMMA StutterRx == RxInv /\ UNCHANGED rxVars => RxInv'
<1> SUFFICES ASSUME RxInv, UNCHANGED rxVars
             PROVE  RxInv'
  OBVIOUS
<1>1. UNCHANGED <<rx_buffer, rx_offset, cbr, panicked, taken, returned, ahead>>
  BY DEF rxVars
<1>2. PICK pos : Layout(pos)
  BY DEF RxInv
<1>3. Layout(pos)'
  BY <1>1, <1>2 DEF Layout
<1>4. RxType' /\ ReceivesInOrder'
  BY <1>1 DEF RxInv, RxType, ReceivesInOrder
<1> QED  BY <1>3, <1>4 DEF RxInv

-----------------------------------------------------------------------------
(* Every step of the card and of the driver keeps the invariant. *)
LEMMA NextKeeps == TxInv /\ RxInv /\ [Rtl8139Next]_cardVars => TxInv' /\ RxInv'
<1> SUFFICES ASSUME TxInv, RxInv, [Rtl8139Next]_cardVars
             PROVE  TxInv' /\ RxInv'
  OBVIOUS
<1>1. ASSUME NEW len \in PayloadLens, Arrive(len)
      PROVE  TxInv' /\ RxInv'
  BY <1>1, ArriveKeeps, StutterTx DEF Arrive
<1>2. CASE RxPoll
  BY <1>2, RxPollKeeps, StutterTx DEF RxPoll
<1>3. CASE TxRaw
  BY <1>3, TxRawKeeps, StutterRx DEF TxRaw
<1>4. CASE SendFrame
  BY <1>4, SendFrameKeeps, StutterRx DEF SendFrame
<1>5. CASE UNCHANGED cardVars
  BY <1>5, StutterTx, StutterRx DEF cardVars
<1> QED  BY <1>1, <1>2, <1>3, <1>4, <1>5 DEF Rtl8139Next, receive, consume, RxNone, Halted

(* The inductive invariant holds throughout. *)
THEOREM CardInvariant == Rtl8139Spec => [](TxInv /\ RxInv)
<1> QED  BY InitTx, InitRx, NextKeeps, PTL DEF Rtl8139Spec

(* rx_poll returns what the card took, in order and whole, and indexes     *)
(* nothing outside of the receive buffer, as long as it is not called more *)
(* often than packets have come: for any ring and packets of any length.   *)
THEOREM PacketsInOrder == Rtl8139Spec => []ReceivesInOrder
<1>1. TxInv /\ RxInv => ReceivesInOrder
  BY DEF RxInv
<1> QED  BY <1>1, CardInvariant, PTL

(* tx_raw: no frame is sent twice, and frames are sent in order unless the *)
(* driver was ahead of the card by all buffers, however many there are.    *)
THEOREM FramesInOrder == Rtl8139Spec => []TransmitsInOrder
<1>1. TxInv /\ RxInv => TransmitsInOrder
  BY DEF TxInv
<1> QED  BY <1>1, CardInvariant, PTL

(* The driver's and the card's indices stay within the buffers. *)
THEOREM CardTyped == Rtl8139Spec => []Rtl8139TypeOK
<1>1. TxInv /\ RxInv => Rtl8139TypeOK
  BY DEF TxInv, TxType, RxInv, RxType, Rtl8139TypeOK
<1> QED  BY <1>1, CardInvariant, PTL
=============================================================================
