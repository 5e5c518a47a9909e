---------------------------------- MODULE Dns ----------------------------------
(***************************************************************************)
(* dns.rs: resolve, one poll of the network interface at a time, over a    *)
(* network that delays, loses and duplicates answers.  The sockets, the    *)
(* interface and the network are smoltcp's and the card's; they are        *)
(* modelled as resolve uses them.  Nothing here says that a poll ends: by  *)
(* smoltcp's contract it does when the driver's receive returns None, and  *)
(* Rtl8139 shows that this driver's does not once a packet has come.  What *)
(* is stated of resolve holds whenever it returns.                         *)
(*                                                                         *)
(* Packets are taken from the card only while someone polls, so that an    *)
(* answer to one call can wait for the poll of a later one.  An answer is  *)
(* [name, kind]: the name it is the answer to and what                     *)
(* parse_dns_response makes of it.                                         *)
(***************************************************************************)
EXTENDS Integers, Sequences, FiniteSets

CONSTANTS
  Names,      \* the domain names asked for
  LongNames,  \* those whose query is larger than the socket's send buffer
  Kinds,      \* what answers hold: an address, no address (empty), or no
              \* more than twelve bytes (short)
  None,       \* no address
  POLLS,      \* polls of one resolve, 200 in the code
  RX_SLOTS,   \* packets a socket can hold, 4 in the code
  MaxCalls    \* bound: calls of resolve

ASSUME DnsAssumption ==
  /\ LongNames \subseteq Names
  /\ None \notin Names
  /\ Kinds \subseteq {"address", "empty", "short"}
  /\ POLLS \in Nat \ {0}
  /\ RX_SLOTS \in Nat \ {0}
  /\ MaxCalls \in Nat

Answers == [name : Names, kind : Kinds]

VARIABLES
  network,   \* whether NETWORK holds a stack, that is, a card was found
  sockets,   \* net.sockets, as the packets each socket has received
  domain,    \* resolve's argument while it runs, else None
  queued,    \* whether its query waits in the send buffer of its socket
  polls,     \* its loop counter
  result,    \* what the last call returned, None or the name it is for
  flight,    \* the answers on their way, in the network or in the card
  calls,     \* history: calls so far
  due,       \* history: the name the last call was asked for, and those of
             \* the answers that were on their way when it began
  failed     \* history: calls that ended because the query was not sent

dnsVars == <<network, sockets, domain, queued, polls, result, flight,
             calls, due, failed>>

(* An address that answers name is represented by name. *)
parse_dns_response(answer) == IF answer.kind = "address" THEN answer.name ELSE None

-----------------------------------------------------------------------------
\* mutant: a socket left over in the set is used again
add_Reuse == IF sockets = << >> THEN <<<< >>>> ELSE sockets

(* SocketSet::add: sockets left over keep their slots, so the new one is   *)
(* the last.                                                               *)
add == Append(sockets, << >>)

\* mutant: the socket is not removed
remove_Not(s) == s

(* SocketSet::remove of resolve's socket. *)
remove(s) == SubSeq(s, 1, Len(s) - 1)

(* Interface::poll: an incoming packet for LOCAL_PORT goes to the first    *)
(* socket bound to it, all of them are, and is dropped when that one is    *)
(* full or there is none.                                                  *)
Room == sockets # << >> /\ Len(sockets[1]) < RX_SLOTS

TakenIn(answer) ==
  IF Room THEN [sockets EXCEPT ![1] = Append(@, answer)] ELSE sockets

-----------------------------------------------------------------------------
(* The query: with no card resolve returns at once; bind succeeds; when    *)
(* send_slice fails the call returns and leaves the socket in the set.     *)
Begin(name) ==
  /\ domain = None
  /\ calls < MaxCalls
  /\ calls' = calls + 1
  /\ due' = {name} \cup {answer.name : answer \in flight}
  /\ polls' = 0
  /\ IF ~network
     THEN result' = None /\ UNCHANGED <<sockets, domain, queued, failed>>
     ELSE IF name \in LongNames
     THEN /\ sockets' = add
          /\ result' = None
          /\ failed' = failed + 1
          /\ UNCHANGED <<domain, queued>>
     ELSE /\ sockets' = add
          /\ domain' = name
          /\ queued' = TRUE
          /\ UNCHANGED <<result, failed>>
  /\ UNCHANGED <<network, flight>>

-----------------------------------------------------------------------------
(* A poll, of resolve or of tcp_request, takes in an answer; the network   *)
(* may have another copy of it.                                            *)
TakeIn(answer) ==
  /\ network
  /\ sockets' = TakenIn(answer)
  /\ flight' \in {flight, flight \ {answer}}
  /\ UNCHANGED <<network, domain, queued, polls, result, calls, due, failed>>

(* A poll of resolve sends the query, once the way to the server is known. *)
(* The server's answer is one of replies, or the query is lost.            *)
SendQuery ==
  /\ queued
  /\ queued' = FALSE
  /\ \E replies \in {{}} \cup {{[name |-> domain, kind |-> k]} : k \in Kinds} :
       flight' = flight \cup replies
  /\ UNCHANGED <<network, sockets, domain, polls, result, calls, due, failed>>

Lose(answer) ==
  /\ flight' = flight \ {answer}
  /\ UNCHANGED <<network, sockets, domain, queued, polls, result, calls, due, failed>>

(* The end of resolve, after the break or the last iteration. *)
Finish(s, value) == /\ sockets' = remove(s)
                    /\ result' = value
                    /\ domain' = None
                    /\ queued' = FALSE

\* mutant: the first socket of the set
Mine_First == 1

(* handle: the slot that add gave the socket of this call. *)
Mine == Len(sockets)

Unread == sockets[Mine]

Read == [sockets EXCEPT ![Mine] = Tail(@)]

(* After its poll, an iteration looks into the socket.  A packet of no     *)
(* more than twelve bytes is taken out and ignored; any other ends the     *)
(* loop with whatever address is in it.                                    *)
Look ==
  /\ domain # None
  /\ polls' = polls + 1
  /\ IF Unread # << >> /\ Head(Unread).kind # "short"
     THEN Finish(Read, parse_dns_response(Head(Unread)))
     ELSE IF polls + 1 = POLLS
     THEN Finish(sockets, None)
     ELSE /\ sockets' = IF Unread = << >> THEN sockets ELSE Read
          /\ UNCHANGED <<domain, queued, result>>
  /\ UNCHANGED <<network, flight, calls, due, failed>>

(* All calls of the bound are over. *)
Idle == domain = None /\ calls = MaxCalls /\ UNCHANGED dnsVars

-----------------------------------------------------------------------------
DnsInit ==
  /\ network \in BOOLEAN
  /\ sockets = << >>
  /\ domain = None
  /\ queued = FALSE
  /\ polls = 0
  /\ result = None
  /\ flight = {}
  /\ calls = 0
  /\ due = {}
  /\ failed = 0

DnsNext ==
  \/ \E name \in Names : Begin(name)
  \/ \E answer \in flight : TakeIn(answer) \/ Lose(answer)
  \/ SendQuery
  \/ Look
  \/ Idle

DnsSpec == DnsInit /\ [][DnsNext]_dnsVars

-----------------------------------------------------------------------------
(* The types of the state and of the histories. *)
DnsTypeOK ==
  /\ network \in BOOLEAN
  /\ sockets \in Seq(Seq(Answers))
  /\ \A i \in DOMAIN sockets : Len(sockets[i]) <= RX_SLOTS
  /\ domain \in (Names \ LongNames) \cup {None}
  /\ queued \in BOOLEAN
  /\ polls \in 0 .. POLLS
  /\ result \in Names \cup {None}
  /\ flight \subseteq Answers
  /\ due \subseteq Names
  /\ failed \in 0 .. calls

(* Sockets do not accumulate: besides the socket of the running call, the  *)
(* set holds one for each call whose query could not be sent, and none for *)
(* a call that got an answer, timed out or got junk.                       *)
SocketPerFailedSend == Len(sockets) = failed + (IF domain = None THEN 0 ELSE 1)

(* An address that resolve returns came off the network during this call:  *)
(* it answers the name asked for, or is in an answer to an earlier call    *)
(* that was still on its way when this one began.  An answer that an       *)
(* earlier call, or a poll between calls, took in and nobody read is never *)
(* returned by a later one, though all calls use the same port and nothing *)
(* in an answer is compared with the question.                             *)
OnlyAnswersUnderWay == domain = None => result \in due \cup {None}

(* Once a query could not be sent, no later call returns an address: the  *)
(* socket that resolve left in the set takes in all answers, and no call   *)
(* reads it.                                                               *)
NoAddressAfterFailedSend ==
  [][failed > 0 /\ domain # None /\ domain' = None => result' = None]_dnsVars
=============================================================================
