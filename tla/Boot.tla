---------------------------------- MODULE Boot ----------------------------------
(***************************************************************************)
(* kernel_main up to run_wasm_demo: the heap, the scan of the PCI buses    *)
(* (pci.rs), and for every RTL8139 found its driver (rtl8139.rs: new and   *)
(* init) and the network stack (net.rs: init).  A device is named by its   *)
(* place, <<slot, function>>, with the slots of all buses numbered through.*)
(***************************************************************************)
EXTENDS BootMemory

CONSTANTS
  SLOTS,          \* slots of all buses, 256 * 32 in the hardware
  FUNCTIONS,      \* functions of a multi-function device, 8 in the hardware
  PHYS_OFFSET,    \* the page at which the bootloader maps frame 0
  ADDRESS_SPACE,  \* frames a 32-bit address can name
  RX_PAGES        \* pages of a receive buffer

ASSUME BootAssumption ==
  /\ SLOTS \in Nat \ {0} /\ FUNCTIONS \in Nat \ {0}
  /\ PHYS_OFFSET \in 0 .. HEAP_START
  /\ ADDRESS_SPACE \in Nat \ {0}
  /\ RX_PAGES \in 1 .. HEAP_PAGES

Places == (0 .. SLOTS - 1) \X (0 .. FUNCTIONS - 1)

(* What the registers of a function say; "none" is a vendor of 0xFFFF. *)
Kinds == {"none", "rtl8139", "other"}

VARIABLES
  config,    \* the configuration space
  multi,     \* the multi-function bit in the header of each slot
  slot,      \* the slot scan_buses looks at
  devices,   \* the devices found and not handled yet
  rx_buffer, \* the first page of the receive buffer of the card in setup
  rbstart,   \* each card's RBSTART register, None when it is not set
  network    \* the card in NETWORK, or None

scanVars == <<config, multi, slot, devices>>
cardVars == <<rx_buffer, rbstart, network>>
bootVars == <<memoryVars, pc, scanVars, cardVars>>

Present(place) == config[place] # "none"

-----------------------------------------------------------------------------
(* let functions = if (header_type & 0x80) != 0 { 8 } else { 1 } *)
functions(s) == IF multi[s] THEN FUNCTIONS ELSE 1

Found(s) == IF ~Present(<<s, 0>>) THEN << >>
            ELSE SelectAt([f \in 1 .. functions(s) |-> <<s, f - 1>>],
                          {f \in 1 .. functions(s) : Present(<<s, f - 1>>)})

(* scan_buses, one slot. *)
ScanSlot == /\ pc = "scan"
            /\ slot < SLOTS
            /\ devices' = devices \o Found(slot)
            /\ slot' = slot + 1
            /\ UNCHANGED <<memoryVars, pc, config, multi, cardVars>>

ScanEnd == /\ pc = "scan"
           /\ slot = SLOTS
           /\ pc' = "devices"
           /\ UNCHANGED <<memoryVars, scanVars, cardVars>>

-----------------------------------------------------------------------------
OtherDevice == /\ pc = "devices"
               /\ devices # << >>
               /\ config[Head(devices)] # "rtl8139"
               /\ devices' = Tail(devices)
               /\ UNCHANGED <<memoryVars, pc, config, multi, slot, cardVars>>

(* Rtl8139::new: the receive buffer is somewhere on the heap.  The card is *)
(* told to reset.                                                          *)
NewCard == /\ pc = "devices"
           /\ devices # << >>
           /\ config[Head(devices)] = "rtl8139"
           /\ rx_buffer' \in {p \in HeapPages : p + RX_PAGES - 1 \in HeapPages}
           /\ pc' = "reset"
           /\ UNCHANGED <<memoryVars, scanVars, rbstart, network>>

\* mutant: the operands are swapped
virt_to_phys_Swapped(p) == PHYS_OFFSET - p

virt_to_phys(p) == (p - PHYS_OFFSET) % ADDRESS_SPACE

\* mutant: the first card is kept
InNetwork_First == IF network = None THEN Head(devices) ELSE network

(* *NETWORK.lock() = Some(...) *)
InNetwork == Head(devices)

(* The card has reset: the rest of Rtl8139::init, then net::init, and the  *)
(* next device.                                                            *)
CardReady == /\ pc = "reset"
             /\ rbstart' = [rbstart EXCEPT ![Head(devices)] = virt_to_phys(rx_buffer)]
             /\ network' = InNetwork
             /\ devices' = Tail(devices)
             /\ pc' = "devices"
             /\ UNCHANGED <<memoryVars, config, multi, slot, rx_buffer>>

\* mutant: the loop over the devices does not end once there is a card
Demo_Reset == /\ pc = "devices"
              /\ devices = << >>
              /\ pc' = IF network = None THEN "demo" ELSE "devices"
              /\ UNCHANGED <<memoryVars, scanVars, cardVars>>

Demo == /\ pc = "devices"
        /\ devices = << >>
        /\ pc' = "demo"
        /\ UNCHANGED <<memoryVars, scanVars, cardVars>>

KernelStep == \/ MemoryStep /\ UNCHANGED <<scanVars, cardVars>>
              \/ ScanSlot \/ ScanEnd \/ OtherDevice \/ NewCard \/ CardReady \/ Demo

(* run_wasm_demo has begun, or the kernel has panicked. *)
Booted == pc \in {"demo", "panic"} /\ UNCHANGED bootVars

BootInit ==
  /\ MemoryInit
  /\ config \in [Places -> Kinds]
  /\ multi \in [0 .. SLOTS - 1 -> BOOLEAN]
  /\ slot = 0
  /\ devices = << >>
  /\ rx_buffer = None
  /\ rbstart = [place \in Places |-> None]
  /\ network = None

(* The CPU goes on, and a card that is told to reset does. *)
BootSpec == BootInit /\ [][KernelStep \/ Booted]_bootVars /\ WF_bootVars(KernelStep)

-----------------------------------------------------------------------------
(* The types of the boot state. *)
BootTypeOK ==
  /\ MemoryTypeOK
  /\ pc \in {"page", "table", "scan", "devices", "reset", "demo", "panic"}
  /\ config \in [Places -> Kinds]
  /\ multi \in [0 .. SLOTS - 1 -> BOOLEAN]
  /\ slot \in 0 .. SLOTS
  /\ devices \in Seq(Places)
  /\ rx_buffer \in HeapPages \cup {None}
  /\ rbstart \in [Places -> Nat \cup {None}]
  /\ network \in Places \cup {None}

(* The cards a scan can see: a device has a function 0, and others only if *)
(* that one says so.                                                       *)
Cards == {p \in Places : /\ config[p] = "rtl8139"
                         /\ Present(<<p[1], 0>>)
                         /\ p[2] = 0 \/ multi[p[1]]}

Before(p, q) == p[1] < q[1] \/ (p[1] = q[1] /\ p[2] <= q[2])

(* When the modules are about to run, NETWORK is empty just if there is no *)
(* card, and otherwise holds the last one of the machine, set up.          *)
CardInNetwork ==
  pc = "demo" =>
    IF Cards = {} THEN network = None
    ELSE /\ network \in Cards
         /\ \A c \in Cards : Before(c, network)
         /\ rbstart[network] # None

(* The kernel comes to the modules or panics, on every machine. *)
BootEnds == <>(pc \in {"demo", "panic"})

(* "Setup RX Ring Buffer pointing to our physical translated memory        *)
(* address", rtl8139.rs: the card writes to the frames that the buffer's   *)
(* pages are mapped to.                                                    *)
RbstartIsBuffer ==
  pc = "devices" /\ network # None =>
    \A i \in 0 .. RX_PAGES - 1 :
      rbstart[network] + i = entries[<<0, rx_buffer + i>>]
=============================================================================
