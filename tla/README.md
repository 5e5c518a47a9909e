# A TLA+ verification of the agent microkernel

The kernel in `src/src/` is a single-CPU Rust program. It boots, mounts a tar
archive that is compiled into it, and runs every `.wasm` file of that archive
with the `wasmi` interpreter on behalf of one *agent*. Modules reach the kernel
through host functions, which look at the agent's *capabilities* before they send
a message, touch a file or use the network.

This directory holds TLA+ models of the kernel, the TLC configurations that check
them on small instances, and TLAPS proofs, for every value of the constants, of all
the safety properties that the passing runs check. `PROJECT.json` maps each definition
to the source lines it models, and lists runs, mutants, findings, hazards and theorems.

## 1. The system

| Part | Source | Modelled by | Status |
|---|---|---|---|
| capability store | `capability.rs` | `Capability` | modelled |
| agent registry | `task.rs` | `Task` | modelled |
| mailboxes (IPC) | `ipc.rs` | `Ipc`, `Mailboxes` | modelled |
| file system | `vfs.rs` | `Vfs`, `FileMap` | modelled |
| archive loader | `initramfs.rs` | `Initramfs` | modelled |
| host functions | `wasm.rs` | `HostCalls`, `AgentSystem` | modelled |
| boot and module loop | `main.rs` | `Boot`, `Kernel`, `Interrupts` | modelled |
| frames and heap | `memory.rs`, `allocator.rs` | `BootMemory` | modelled |
| PCI scan | `pci.rs` | `Boot` | modelled |
| interrupts | `interrupts.rs` | `Interrupts` | partly: not the fault handlers |
| screen | `vga_buffer.rs` | `Vga`, `Interrupts` | modelled |
| clock | `time.rs` | `Clock`, `Interrupts` | modelled |
| DNS resolver | `dns.rs` | `Dns`, `DnsParse`, `DnsAnswers` | modelled |
| network stack | `net.rs` | `Boot`, `Dns`, `Rtl8139` | modelled |
| network card | `rtl8139.rs` | `Boot`, `Rtl8139` | modelled |
| descriptor tables, serial port, error codes | `gdt.rs`, `serial.rs`, `syscall_errors.rs` | – | left out |

How the parts interact:

- The tables (capabilities, agents, endpoints, files) are statics behind spin
  locks. `kernel_main` and the modules it runs are one thread, and no interrupt
  handler touches a table. A host call therefore is one atomic step, even where it
  takes several locks one after the other.
- What does run concurrently: the timer and keyboard handlers, which share the
  `PICS`, `KEYBOARD` and `WRITER` locks with `kernel_main` and each other; the
  network card, which fills the receive ring and empties the transmit buffers; the
  network behind it; and the real-time clock, which goes on while it is read.
- What survives across calls: identifiers in agents' lists and in queued
  messages after a revocation, files after the permission to write them is gone,
  sockets and late answers after a `resolve`. Most properties are about these.

## 2. Modules

Components compose by EXTENDS: `Ipc` extends `Capability`; `HostCalls` extends
`Ipc`, `Task` and `Vfs`; `AgentSystem` and `Kernel` extend `HostCalls`; `Interrupts`
extends `Vga`, `Boot` extends `BootMemory`, `DnsAnswers` extends `DnsParse`.
Operations keep the names they have in the source. `Lists` holds the few operations
of Rust's vectors and iterators that several modules use (`flat_map`, `retain` and
`filter`, `starts_with`). They are not taken from a library of folds, because their
definitions have to be of first order for the proofs.

| Module | State | Actions |
|---|---|---|
| `Capability` | `store`, `next_cap_id` | `create_capability`, `revoke_capability`; the checks `can_send_to`, `can_read_file`, `can_write_file`, `can_access_network` |
| `Task` | `agents`, `next_id` | `spawn_agent`, `grant_capability_to_agent`, `terminate_agent` |
| `Ipc` | `endpoints` | `create_endpoint`, `send_message`, `receive_message` |
| `Mailboxes` | + histories `accepted`, `received` | the interface of `ipc.rs` and `capability.rs` in any order |
| `Vfs` | `files`, a sequence searched from the front | `register_file`, `write_file`, `delete_file`, and the lookups |
| `FileMap` | `content`, `system`, `op` | the abstract file system: a map from names to contents, and what each call does to it and answers |
| `Initramfs` | `entries`, `len`, `offset`, `count`, `mounting`, history `op` | one action per way through the loader's loop; then writes and deletions |
| `HostCalls` | + `ret`, history `minted` | one action per host function, with its whole effect and result |
| `AgentSystem` | as `HostCalls` | several agents' host calls, and the kernel's own operations |
| `Kernel` | + `archive`, `pc`, the locals of `kernel_main`, histories `ran`, `requests` | `kernel_main` from the mount to the halt loop |
| `BootMemory` | the memory map, the allocator's `next`, page table entries, the locals of `init_heap` | `allocate_frame`, and `map_to` level by level |
| `Boot` | + the configuration space, the devices found, `RBSTART` of every card, `NETWORK` | the scan slot by slot; `new`, `init` and `net::init` for every card |
| `Vga` | the writer: rows and column | `write_byte` and `new_line`, as operators |
| `Interrupts` | CPU flag, PIC, spin locks, the writer, uptime | the prints of `kernel_main` byte by byte, the devices, the two handlers step by step |
| `Clock` | the clock, the registers read | the six reads of `unix_timestamp`, the clock's carries |
| `Dns` | sockets, the loop of `resolve`, answers on their way | one poll at a time, and a network that delays, loses and duplicates |
| `DnsParse` | the packet, `offset`, records left | one action per loop iteration of `parse_dns_response`; `build_dns_query` |
| `DnsAnswers` | + the answer the packet encodes | what a name server makes of an answer, cut anywhere |
| `Rtl8139` | the receive ring, the transmit buffers, the card's positions, histories | `rx_poll`, `tx_raw`, and the card |

Abstractions worth knowing:

- **Paths** are sequences of pieces; `starts_with` is the prefix relation on them.
- **Host call arguments** are values, or one of the ways the access to the module's
  memory fails: `BadPtr` traps, `NotUtf8` traps where the code decodes text (and
  counts as empty in `request_capability`), `TooLong` is a length the kernel's heap
  has no room for and ends in the allocation error handler, a panic. Only lengths
  the caller chooses exhaust the heap in the model.
- **Archives** are sequences of blocks. The loader does not know which blocks are
  headers; a data block taken for one can be any of `Bodies`, among them the header of
  a file with data and a null block.
  `Kernel` mounts in one step, and leaves the loop to `Initramfs`.
- **Agents and process identifiers** are the same numbers, as in the code.
- **Modules** may make any host calls in any order, end, or run for ever.
- **DNS answers** in `Dns` carry the name they answer, and one of three kinds: the
  parser finds an address, finds none, or the packet has at most twelve bytes. Which
  bytes lead to which is the subject of `DnsParse`, where packets are bytes.
- **A panic** is a state of its own (`panic`, `panicked`): the handler prints and
  halts.
- **Memory** is counted in pages and frames, page tables by level and number. The
  map's regions do not overlap, which is the bootloader's promise.
- **Bytes of the receive ring** are named by packet and position, so that a packet
  put together from the wrong ones shows. A length read where no header is can be
  anything in `JunkLengths`.
- **The screen** holds characters without colours; a character is printable, a
  newline or neither.
- **The clock** counts in BCD and changes its registers all at once; a virtual
  machine may be stopped in the middle of a call and go on much later. The years are
  2000 to 2099, which is what two digits stand for in `unix_timestamp`, and the century
  does not end during a call.
- **smoltcp, the PIC, the timer, the network card, the name server, the page table
  code of the `x86_64` crate and the real-time clock** are external. They are
  modelled from how the code uses them, and marked so in the map. `Dns` relies on
  the device to deliver what arrives; the two findings below say that the present
  driver does not, so what `Dns` shows is about `resolve` over a working device.

## 3. Runs

| Run | Distinct states | Shows |
|---|---|---|
| `mailboxes` | 46 650 | what `send_message` accepted is what was received followed by what is queued, in order, for every process (`InOrderNoLoss`); no message names a capability that had not been created (`NoForgedCapability`); queue limits hold (`WithinLimit`); a revoked identifier never resolves again (`RevokedStaysRevoked`) |
| `initramfs` | 362 960 | every archive of up to two entries and six blocks, cut at any byte, is mounted exactly, unless an entry with an invalid name has data (`MountsTheArchive`); also then the files mounted are pieces of the archive that share no byte (`MountedApart`); the loader ends (`MountReturns`); each call on the vector of files does to the map of `FileMap` what it says and answers whether it did (`ImplementsFileMap`) |
| `agents` | 324 472 | with revocations and terminations in between, every queued message, every agent file and everything a read or a listing shows is covered by a capability of the agent (`SenderHadAuthority`, `WriterHadAuthority`, `SeenConfined`); in the step that sends or writes, that capability is live (`LiveAuthority`); an identifier means one capability for ever (`IdMeansOneCapability`) |
| `kernel` | 305 944 | only entries of the archive run, with the archive's bytes (`RunsBootImage`); when the kernel halts, every module has run once and in order, also after modules that trapped (`EveryModuleRuns`); no capability leaks (`EveryCapabilityHeldOnce`); agent files stay under a writable prefix (`FilesUnderWritablePrefix`); the supervisor's mailbox, which nobody reads, holds the oldest requests in order, and those beyond its limit are granted without it being told (`SupervisorHasOldest`); the kernel comes to its halt loop if no module runs for ever (`KernelHalts`) |
| `interrupts` | 124 805 | handlers never wait for `PICS` or `KEYBOARD` (`OnlyWriterContended`); prints are whole (`PrintsAreWhole`); the screen shows the last lines of all that was printed (`ScreenShowsTail`); every interrupt is served unless a key comes in the middle of a print (`ServedUnlessLockedOut`), and then the kernel stands still for ever (`LockedOutForever`) |
| `dns` | 87 697 | sockets are left over only by calls that could not send (`SocketPerFailedSend`), and after one no call finds an address (`NoAddressAfterFailedSend`); an address that a call returns came in during that call, so it is for its name or was on its way when the call began (`OnlyAnswersUnderWay`) |
| `dns_answers` | 164 606 | the parser ends (`ParseEnds`), reads nothing outside of the packet (`NeverPanics`) and returns the first address of the answer that is wholly there, or none if there is none, unless a name of labels that ends in a pointer comes before it (`FindsFirstAddress`) |
| `boot` | 149 616 | heap pages and page tables lie in frames of their own (`FramesDistinct`); the heap is handed out only when it is mapped, and only a want of frames ends in a panic (`HeapBacked`); `NETWORK` holds the last card of the machine (`CardInNetwork`); booting ends (`BootEnds`) |
| `card` | 143 726 | the driver's offset keeps step with the card's: packets come out in order, whole, and from inside of the buffer (`ReceivesInOrder`); no frame is sent twice, and frames are sent in order unless `tx_raw` was ahead by all buffers (`TransmitsInOrder`) |
| `clock` | 1 604 126 | a read while the clock stands still gives the calendar's time but for the missing leap day (`ExactWhenStill`); a torn read never gives a time before the call, up to that day (`NotBeforeCall`) |

Type invariants: `BootTypeOK` and `Rtl8139TypeOK` are checked by the runs; those of the
other modules are left to the proofs (section 4). For every property of these runs
`PROJECT.json` names a mutant: a definition changed the way a plausible bug would
change it, under which TLC finds the property violated.

### Disagreements between the code and its comments

These two runs each check one statement of a comment, and TLC refutes it.

| Run | Statement | What the code does |
|---|---|---|
| `boot_dma` | "Setup RX Ring Buffer pointing to our physical translated memory address" (`rtl8139.rs`) | `virt_to_phys` subtracts the offset of the physical memory window, but the buffer is on the heap, whose pages are mapped to other frames: the card is given an address that is not the buffer's |
| `card_empty` | "return None; // Queue Empty" (`rtl8139.rs`) | the driver never writes `CAPR`, so once a packet has come the card does not report an empty queue again; `rx_poll` then returns bytes that are no packet, and the card, whose ring fills up, takes no more packets |

### Known limits of the code

These follow from the code as it is. The models include them, and the properties
are stated around them.

- **A key during a print stops the kernel.** Its handler spins on the `WRITER` lock
  of the code it interrupted. `LockedOutForever` is proved.
- **A query that is too long silences `resolve`.** It leaves its socket behind, which
  takes in all later answers. `NoAddressAfterFailedSend` is proved.
- **A late answer is taken for the next one.** All queries share an identifier and a
  port, and the answer's name is not compared. `OnlyAnswersUnderWay` says how late:
  the answer was still on its way when the call began.
- **`resolve` need not return.** It polls 200 times, but a poll goes on as long as the
  driver has packets, and after the first one the driver always has (`card_empty`).
  What is stated of `resolve` holds whenever it returns.
- **An archive entry whose name is not UTF-8 is skipped by its header only.** Its
  data is then read as headers; hence the premise of `MountsTheArchive`, which
  `MountedApart` does not have.
- **A name of labels that ends in a pointer is not passed correctly.** Behind a label
  the parser looks only for the root label, so it takes the pointer for a label and
  goes on at a wrong place. It still reads nothing outside of the packet
  (`NeverPanics`), but what it finds can be anything; hence the premise of
  `FindsFirstAddress`.
- **`terminate_agent` revokes nothing**, although its comment says so. It sets the
  state, which no host function looks at. In `AgentSystem` terminated agents go on
  calling, and the properties hold for them as well.
- **`uptime_ms` runs slow.** 18 is added per tick of 55 ms (18.2 Hz).
- **`unix_timestamp` counts from 1970.** Its comment says "seconds since 2000-01-01 for
  simplicity" (`time.rs`, line 18); the code subtracts 1970, which makes 10 957 days
  more. `ExactWhenStill` is stated for 1970.
- **`unix_timestamp` lacks a day** from March to December of a leap year.
- **A frame can be overwritten before it is sent.** `tx_raw` does not ask whether the
  card is done with a buffer. When it is ahead by all buffers the model sets `overrun`,
  and `TransmitsInOrder` says nothing of the order after that.
- **With two cards** the last one found is used. The driver of the first is dropped,
  with its buffers, while its receiver stays enabled.

### Bounds

Every bound is a constant that appears in a guard.

- `mailboxes`: two mailboxes of capacities 2 and 1, two sends each, two
  capabilities. The smaller mailbox fills up, is emptied and fills again; a
  capability is created after another was revoked.
- `initramfs`: blocks of two bytes and entries of 0, 2 and 3 bytes: empty, one
  block, a block and a half. Two entries let one follow another in every way, with
  equal names and invalid ones. A data block looks like the header of a file of one
  block, or like the end. Six blocks hold two entries with a block of data each and
  the null block, or an entry of three blocks and one of two.
- `agents`: two agents, two capabilities, at most one of them held by each; two file
  names of which one is a prefix of the other. A capability is revoked while it is in
  an agent's list, and the agent tries again. Only agent 1 is terminated
  (`Terminable`); no check looks at the state. Failing arguments change no table and
  are left to the `kernel` run.
- `kernel`: an empty archive, one without a module, one with two modules and another
  file between them, and one with the same name twice and different bytes; three
  requests against a supervisor's mailbox of two, so that the mailbox has an order and
  overflows; all failing arguments; module names that only agents use. Requests are for
  the network, for files and of an unknown type: a request for spawning takes the
  same way as one for the network and creates a capability nothing looks at.
- `interrupts`: a screen of two by two, four prints of up to three bytes, two
  interrupts of either kind. Lines wrap, the screen scrolls more than once, keys come
  in the middle of a print and interrupts pend while a handler runs.
- `dns`: four calls of three polls, sockets of two packets, one name too long to
  send: a call can time out, meet a late answer and meet a socket left over.
- `dns_answers`: names of one and two labels, up to two records, whose owner is a
  pointer, labels, or labels and a pointer; addresses, an alias and a text of four
  bytes; counts up to three; every cut through the last record.
- `boot`: tables of two entries and a heap of four pages that is not aligned to
  them, so that it takes ten frames, on maps with between none and thirteen usable;
  two slots of two functions, each with a card, another device or nothing.
- `card`: a ring that four of the packets fill, payloads of 1, 4 and 5 bytes, with
  and without padding; two transmit buffers and four frames, so that the driver can
  be ahead by a whole round.
- `clock`: every day of 2023 and 2024, and days of 2000 and 2099, at midnight and just
  before a carry; two changes of the clock during a call (`MaxChanges`), each a second
  or a jump.

### Fairness

- `Initramfs`, `Kernel`, `DnsAnswers`, `Boot`: weak fairness of the kernel's own steps.
  There is one thread, and the CPU goes on with it. Nothing is assumed of modules: a
  module may run for ever, so `KernelHalts` has that as its premise. `BootEnds` takes
  for granted that a card told to reset does: `Rtl8139::init` waits for it without
  limit, and the run shows nothing about that wait.
- `Dns`: none. Answers need not come and polls need not return.
- `Interrupts`: weak fairness of `kernel_main` and of the running handler, strong
  fairness of the PIC's delivery, which is possible again after each `iret`. The
  timer has priority, but raises a bounded number of interrupts.

Deadlock is checked in every run; where the kernel rests (`hlt`) or a bound is
used up the modules have an explicit stuttering step (`Hlt`, `Wait`, `Spin`, `Idle`,
`Booted`, `Halted`, `Finished`, `Returned`).

## 4. Proofs

TLAPS proves every invariant, every action property and the refinement that the
passing runs check, for every value of the constants that satisfies the named
assumptions. Sizes, limits and bounds are constants as well, so the theorems hold for
any number of agents, messages, files, prints, packets, records or devices.

| Module | Theorems | Inductive invariant |
|---|---|---|
| `AgentSystemProofs` | `TypeCorrect`, `IdentifiersAreStable`, `SendersHadAuthority`, `WritersHadAuthority`, `ReadersAreConfined`, `AuthorityIsLive` | one part per table (`CapsOK`, `AgentsOK`, `QueuesOK`, `FilesOK`), and the lemma `Grows` that no step takes anything back from what agents were granted; this carries authority across revocations. `LiveAuthority` needs the tables before the step only |
| `KernelProofs` | `TypeCorrect`, `BootImageOnly`, `AllModulesRun`, `NoCapabilityLeaks`, `FilesStayWritable`, `SupervisorKeepsOldest` | see below |
| `InitramfsProofs` | `InitramfsTypes`, `ArchiveMounted`, `FilesApart`, `FilesAreMap` | the loader is at the header of an entry, and the files are what can be mounted of the entries before it (`AtEntry`); whatever the loader reads, the files lie apart and before its offset (`ApartInv`); a file that an agent may overwrite shares its name with no other (`Unshared`) |
| `BootProofs` | `BootTyped`, `FramesAreDistinct`, `HeapIsBacked`, `LastCardInNetwork` | every frame in an entry, and the frame in hand, was given out at a position below `next`, no position twice; pages below the current one are mapped, and the others are not, so `map_to` never finds one mapped; the devices found are those of the slots so far (`ScanInv`), and those already handled come before the ones still listed (`Handled`) |
| `DeliveryProofs` (`Mailboxes`) | `MailboxTypes`, `Delivery`, `NothingForged`, `QueuesBounded`, `RevocationIsFinal` | the checked properties together: identifiers stay below `next_cap_id`, so what is accepted now names nothing created later |
| `DeliveryProofs` (`Dns`) | `DnsTyped`, `SocketsRemoved`, `NoLeftOverAnswer`, `FailedSendSilencesResolve` | the socket of the running call is the last of the set; answers on their way during a call, and those in its socket, are for the names in `due` (`OnlyDue`); once a send has failed, the socket of the running call stays empty |
| `DeliveryProofs` (`Rtl8139`) | `CardTyped`, `PacketsInOrder`, `FramesInOrder` | packets lie one behind the other from the start of the ring, each with its header and bytes, and while `rx_poll` is not ahead of the card its offset is the place of the next one (`Layout`); a frame that waits was not sent and waits in one buffer (`Fresh`), and while `tx_raw` was never ahead by all buffers, those that wait are the buffers from the card's to the driver's, in order (`InStep`) |
| `DnsProofs` (`DnsParse`) | `ParserTyped`, `ParserSafe` | types, `NeverPanics`, and that inside of the loop a record is left: the tests of the remaining length cover every read, for every packet |
| `DnsProofs` (`DnsAnswers`) | `FirstAddressFound` | the parser is at a label, a record or the ten bytes of a record of the message, at the place where the encoding has them, and no record before it is an address (`OnTrack`) |
| `DeviceProofs` (`Interrupts`) | `InterruptsTyped`, `OnlyWriterIsContended`, `PrintsWhole`, `LockedOutStays`, `ScreenIsTail` | who holds which lock follows from where `kernel_main` and the handler are (`Holders`), interrupts are disabled while a handler runs (`Running`), the print under way has the highest number on the screen, and the rows are the last lines of what was printed (`Shows`) |
| `DeviceProofs` (`Clock`) | `StillClockIsExact`, `TornReadErrsForward` | the fields read so far together with the clock's present values of the others are not before the call, in the lexicographic order of year to second (`ClockInv`) |

### What the theorems assume

- The bootloader's memory map is a list of regions whose usable ones do not overlap
  (`MapAssumption`).
- Any single packet fits into the empty ring (`Rtl8139Assumption`), which Ethernet's
  frame size guarantees.
- Labels have 1 to 191 bytes, pointers begin with the two highest bits set, and lengths
  and counts fit their two bytes (`AnswersAssumption`): what a name server sends. For
  all other packets `ParserSafe` still holds.
- Clock times are times of the calendar (`ClockAssumption`).
- The names and contents of the archive and of agents are among those of the file
  system, and an archive has at most `MaxArchive` bytes (`FileAssumption`).
- The others (`CapabilityAssumption`, `IpcAssumption`, `KernelAssumption`, ...) only
  give constants their types. TLC evaluates all of them in the runs.

### The arguments

**Induction over sequences.** Much of what the kernel computes is a loop over a list:
usable frames, files, archive entries, labels, records, printed characters. The provers
cannot instantiate a library theorem with a predicate, so `SequenceLemmas` states
induction with a set in place of the predicate: a set that holds 0 and with every number
the next one holds all (`SetInduction`, from the least number of its complement), and a
set that holds the empty sequence and with every one its extensions holds all
(`SeqInduction`). Recursive functions are reduced to their recursion: one that satisfies
it exists, two that do agree, so the one that is chosen satisfies it. From this come
what `flat_map`, `retain`, the printed lines, the encoded labels and the month table
compute.

**The kernel.** `KernelProofs` strengthens the properties with four facts. The core
agent exists exactly from its spawning on and is alone (`CoreOK`). No Process capability
is ever created, so `send_ipc` reaches nobody and the supervisor's mailbox has requests
only (`NoProcessCap`, `SupervisorOK`). The archive's entries are the first files of the
vector, in order and unchanged, and whatever follows them is an agent's file
(`ImageMounted`). The names still to run are names of archive entries (`ImageOK`). From
the last two, `open_file` finds the archive's bytes for every name in the snapshot: a
read-only file is never overwritten, and a later file of the same name cannot hide an
earlier one. `AllModulesRun` needs one more: the names still to run are those of the last
entries of the archive, and the modules among the entries before them have run, in order
(`Progress`). No step of a module leads past them: a call returns, or traps and leads
back to the loop, or panics.

**The archive.** The loop of `initramfs::init` computes offsets from sizes and knows
nothing of entries. That it is always at a header needs that the place after *k* entries
is the sum of their rounded sizes (`Offs`), that the block there is the header of entry
*k* + 1, and that the test for the end of the archive agrees with "wholly there". That
files share no byte needs none of this and holds for every sequence of blocks: the offset
is never inside of a file that was mounted, because the size it is moved by is rounded up.

**The file system.** `FilesAreMap` maps the vector to a map by the first file of every
name, and compares call by call: `op` holds the last call, its arguments and its answer.
`register_file` only appends, so it adds a name or changes nothing that can be
seen; `write_file` and `delete_file` touch files that agents own, and those are alone
with their names.

**The screen.** `Paper` writes all characters on an endless sheet; `Shows` says that the
rows are its last lines and the column is behind its last character. A byte that is
printable goes to the end of the last line, or, when the row is full, begins a line and
scrolls; a newline only scrolls. Which print a byte belongs to does not matter, so
interleaved prints are covered as well.

**The DNS walk.** The proof first says where everything is in a packet (`LabelsHere`,
`RecordIs`, `QuestionIs`), by what concatenation and prefixes do, and then follows the
parser: each action moves it from one such place to the next, or the packet ends there
and no address can follow (`Over`).

**The clock.** A torn read mixes fields of different times. When the clock goes on, the
mixed time grows in the order of its fields, largest unit first, because the units still
to be read are larger than those already read. What the call returns is then compared
with the call's beginning twice: the code's count of days against the calendar's, whose
leap years and months are counted (`LeapYears`, `DaysBeforeMonth`), and both counts
against the order of dates (`DateOrder`).

**Only model-checked** are the five liveness properties (`MountReturns`, `KernelHalts`,
`ServedUnlessLockedOut`, `ParseEnds`, `BootEnds`): fairness and ENABLED
are out of the prover's reach.

## 5. What is not modelled

- Descriptor tables (`gdt.rs`): constants loaded once. The serial port (`serial.rs`):
  output, under a lock no handler takes. `syscall_errors.rs`: constants used nowhere.
- The breakpoint and double fault handlers: nothing in the kernel triggers them.
- Log texts, colours, the addresses `net::init` configures, the card's own address,
  the composition of PCI configuration addresses: data no property tells apart.
- The interpreter, the heap allocator's free list, smoltcp beyond its sockets:
  libraries. A failed allocation is modelled where a caller chooses the length.
- What a card writes into memory that is not its buffer (see `boot_dma`): the contents
  of the memory would be anything, and nothing could be said about the rest.

## 6. Running it

    tlc -config MCKernel.cfg MCKernel
    tlapm KernelProofs.tla

A run with `"expect": "violation"` in `PROJECT.json` ends with the counterexample.
