------------------------------- MODULE Rtl8139 -------------------------------
(***************************************************************************)
(* rtl8139.rs, rx_poll and tx_raw, and the tokens of net.rs through which  *)
(* smoltcp calls them, with the card they talk to: it writes packets into  *)
(* the receive ring and sends transmit buffers while the kernel runs.  The *)
(* card is modelled from its use, over buffers that it does reach.         *)
(*                                                                         *)
(* A byte of the receive buffer is <<n, k>>, byte k of the n-th packet:    *)
(* the header from -4 on, then the payload from 0 on, then the checksum;   *)
(* a byte that was never written is Unwritten, with any value.             *)
(***************************************************************************)
EXTENDS Integers, Sequences

CONSTANTS
  RING,         \* size of the receive ring, 8192 in the code
  SLACK,        \* bytes of the buffer behind it, 16 + 1500 in the code
  TX_BUFFERS,   \* transmit buffers, 4 in the code
  PayloadLens,  \* the lengths of packets without their checksum
  JunkLengths,  \* lengths that bytes which are no header can spell
  MaxPackets,   \* bound: packets that arrive at the card
  MaxFrames     \* bound: frames that smoltcp transmits

ASSUME Rtl8139Assumption ==
  /\ RING \in Nat \ {0} /\ RING % 4 = 0
  /\ SLACK \in Nat /\ TX_BUFFERS \in Nat \ {0}
  /\ PayloadLens \subseteq Nat /\ JunkLengths \subseteq Nat
  /\ \A len \in PayloadLens : len + 11 < RING   \* any packet fits into the empty ring
  /\ MaxPackets \in Nat /\ MaxFrames \in Nat

RX_BUFFER_SIZE == RING + SLACK

Unwritten == <<0, 0>>

VARIABLES
  rx_buffer,  \* the receive buffer
  rx_offset,  \* where the driver reads next
  cbr,        \* where the card writes next
  tx_buffers, \* the transmit buffers, as the numbers of the frames in them
  tx_index,   \* the buffer the driver fills next
  pending,    \* the buffers the card has been told to send and has not sent
  tx_desc,    \* the buffer the card sends next
  panicked,   \* an index was out of bounds
  arrived,    \* history: packets that came to the card
  taken,      \* history: the payload lengths of those it took
  returned,   \* history: what rx_poll returned until it was ahead of the card
  ahead,      \* history: rx_poll has read where no packet was
  handed,     \* history: frames given to tx_raw
  sent,       \* history: the frames the card sent
  overrun     \* history: tx_raw has filled a buffer that was not sent

rxVars == <<rx_buffer, rx_offset, cbr, panicked, arrived, taken, returned, ahead>>
txVars == <<tx_buffers, tx_index, pending, tx_desc, handed, sent, overrun>>
cardVars == <<rxVars, txVars>>

-----------------------------------------------------------------------------
Align(n) == ((n + 3) \div 4) * 4

(* The card takes a packet if it fits between its position and the end of  *)
(* the part that the driver has given back.  The driver gives nothing back *)
(* (it does not write CAPR), so that is the end of the ring.               *)
Fits(len) == cbr = 0 \/ Align(len + 8) < RING - cbr

(* A packet comes to the card: header, payload and checksum are written,   *)
(* and the next packet begins at a multiple of four.                       *)
Arrive(len) ==
  /\ arrived < MaxPackets
  /\ arrived' = arrived + 1
  /\ IF Fits(len)
     THEN LET n == Len(taken) + 1
          IN  /\ rx_buffer' = [i \in DOMAIN rx_buffer |->
                                 IF i \in cbr .. cbr + len + 7 THEN <<n, i - cbr - 4>>
                                 ELSE rx_buffer[i]]
              /\ taken' = Append(taken, len)
              /\ cbr' = Align(cbr + len + 8) % RING
     ELSE UNCHANGED <<rx_buffer, taken, cbr>>
  /\ UNCHANGED <<rx_offset, panicked, returned, ahead, txVars>>

(* Bit 0 of the command register: the card is where the driver is known to *)
(* have read up to.                                                        *)
QueueEmpty == cbr = 0

-----------------------------------------------------------------------------
(* u16::from_le_bytes of the third and fourth byte at the offset. *)
LengthsAt(o) ==
  LET low == rx_buffer[o + 2] high == rx_buffer[o + 3]
  IN  IF low # Unwritten /\ low[2] = -2 /\ high = <<low[1], -1>>
      THEN {taken[low[1]] + 4}
      ELSE JunkLengths

(* length.saturating_sub(4) *)
PayloadLen(length) == IF length < 4 THEN 0 ELSE length - 4

PacketAt(o, length) ==
  [i \in 1 .. PayloadLen(length) |-> rx_buffer[(o + 4 + i - 1) % RING]]

\* mutant: the next packet is not looked for at a multiple of four
NextOffset_Unaligned(length) == (rx_offset + length + 4) % RING

NextOffset(length) ==
  LET aligned == Align(rx_offset + length + 4)
  IN  IF aligned >= RING THEN aligned - RING ELSE aligned

(* rx_poll, with a packet. *)
RxPoll ==
  /\ ~panicked
  /\ ~QueueEmpty
  /\ IF rx_offset + 3 >= RX_BUFFER_SIZE
     THEN /\ panicked' = TRUE
          /\ UNCHANGED <<rx_offset, returned, ahead>>
     ELSE \E length \in LengthsAt(rx_offset) :
            /\ rx_offset' = NextOffset(length)
            /\ ahead' = (ahead \/ Len(returned) = Len(taken))
            /\ returned' = IF ahead' THEN returned
                           ELSE Append(returned, PacketAt(rx_offset, length))
            /\ UNCHANGED panicked
  /\ UNCHANGED <<rx_buffer, cbr, arrived, taken, txVars>>

(* rx_poll returns None *)
RxNone == QueueEmpty /\ UNCHANGED cardVars

(* Device::receive, which smoltcp calls until it returns None. *)
receive == RxPoll \/ RxNone

-----------------------------------------------------------------------------
\* mutant: the index moves before the buffer is filled
TxSlot_Next == (tx_index + 1) % TX_BUFFERS

TxSlot == tx_index

\* mutant: the index does not wrap
NextTx_NoWrap == tx_index + 1

NextTx == (tx_index + 1) % TX_BUFFERS

(* tx_raw, with the frame that smoltcp has put into the token's buffer. *)
TxRaw ==
  /\ ~panicked
  /\ handed < MaxFrames
  /\ handed' = handed + 1
  /\ overrun' = (overrun \/ TxSlot \in pending)
  /\ tx_buffers' = [tx_buffers EXCEPT ![TxSlot] = handed + 1]
  /\ pending' = pending \cup {TxSlot}
  /\ tx_index' = NextTx
  /\ UNCHANGED <<rxVars, tx_desc, sent>>

(* Device::transmit has a token at any time; TxTokenWrapper::consume. *)
consume == TxRaw

(* The card sends the buffers in turn. *)
SendFrame ==
  /\ tx_desc \in pending
  /\ sent' = Append(sent, tx_buffers[tx_desc])
  /\ pending' = pending \ {tx_desc}
  /\ tx_desc' = (tx_desc + 1) % TX_BUFFERS
  /\ UNCHANGED <<rxVars, tx_buffers, tx_index, handed, overrun>>

(* The panic handler loops. *)
Halted == panicked /\ UNCHANGED cardVars

-----------------------------------------------------------------------------
Rtl8139Init ==
  /\ rx_buffer = [i \in 0 .. RX_BUFFER_SIZE - 1 |-> Unwritten]
  /\ rx_offset = 0
  /\ cbr = 0
  /\ tx_buffers = [i \in 0 .. TX_BUFFERS - 1 |-> 0]
  /\ tx_index = 0
  /\ pending = {}
  /\ tx_desc = 0
  /\ panicked = FALSE
  /\ arrived = 0
  /\ taken = << >>
  /\ returned = << >>
  /\ ahead = FALSE
  /\ handed = 0
  /\ sent = << >>
  /\ overrun = FALSE

Rtl8139Next ==
  \/ \E len \in PayloadLens : Arrive(len)
  \/ receive
  \/ consume \/ SendFrame
  \/ Halted

Rtl8139Spec == Rtl8139Init /\ [][Rtl8139Next]_cardVars

-----------------------------------------------------------------------------
(* The types of the driver's state. *)
Rtl8139TypeOK ==
  /\ rx_offset \in Nat
  /\ cbr \in 0 .. RING - 1
  /\ tx_buffers \in [0 .. TX_BUFFERS - 1 -> 0 .. handed]
  /\ tx_index \in 0 .. TX_BUFFERS - 1
  /\ pending \subseteq 0 .. TX_BUFFERS - 1
  /\ tx_desc \in 0 .. TX_BUFFERS - 1

(* As long as rx_poll is called only for packets the card has taken, it    *)
(* returns them in order, each with all of its payload and nothing else,   *)
(* and indexes no byte outside of the buffer: the driver's offset keeps    *)
(* step with the card's.                                                   *)
ReceivesInOrder ==
  /\ panicked => ahead
  /\ Len(returned) <= Len(taken)
  /\ \A n \in DOMAIN returned :
       returned[n] = [i \in 1 .. taken[n] |-> <<n, i - 1>>]

(* No frame is sent twice; the frames are sent in the order in which they  *)
(* were given to tx_raw, unless it was ahead of the card by all buffers.   *)
TransmitsInOrder ==
  /\ \A i, j \in DOMAIN sent : sent[i] = sent[j] => i = j
  /\ ~overrun => \A i \in DOMAIN sent : sent[i] = i

(* "return None; // Queue Empty", rtl8139.rs: when all packets the card    *)
(* has taken are returned, rx_poll returns None.                           *)
EmptyWhenRead == Len(returned) = Len(taken) => QueueEmpty
=============================================================================
