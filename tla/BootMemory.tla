------------------------------ MODULE BootMemory ------------------------------
(***************************************************************************)
(* memory.rs and allocator.rs: the frame allocator over the bootloader's   *)
(* memory map, and init_heap, which maps the heap page by page and takes   *)
(* the frames of missing page tables from the same allocator.  Addresses   *)
(* are counted in pages and frames.                                        *)
(***************************************************************************)
EXTENDS Lists

CONSTANTS
  MemoryMaps,  \* what the bootloader may report: sequences of regions
               \* [start, end, usable], end exclusive
  HEAP_START,  \* the first heap page
  HEAP_PAGES,  \* the size of the heap, 2048 pages in the code
  FANOUT,      \* entries of a page table, 512 in the hardware
  None         \* no frame; an unused entry

Region == [start : Nat, end : Nat, usable : BOOLEAN]

Disjoint(r, s) == r.end <= s.start \/ s.end <= r.start

(* The regions the bootloader reports as usable do not overlap. *)
ASSUME MapAssumption ==
  \A map \in MemoryMaps :
    /\ map \in Seq(Region)
    /\ \A i, j \in DOMAIN map :
         i # j /\ map[i].usable /\ map[j].usable => Disjoint(map[i], map[j])

(* FrameAllocator: the frames of the usable regions, in map order. *)
region_frames(r) == [k \in 1 .. r.end - r.start |-> r.start + k - 1]

usable_frames(map) ==
  LET regions == SelectAt(map, {i \in DOMAIN map : map[i].usable})
  IN  Flatten([i \in DOMAIN regions |-> region_frames(regions[i])])

ASSUME HeapAssumption == /\ HEAP_START \in Nat
                         /\ HEAP_PAGES \in Nat \ {0}
                         /\ FANOUT \in Nat \ {0, 1}
                         /\ None \notin Nat

HeapPages == HEAP_START .. HEAP_START + HEAP_PAGES - 1

VARIABLES
  memory_map,  \* the map of this machine
  next,        \* BootInfoFrameAllocator::next
  entries,     \* page table entries of the heap: <<0, page>> for a page, and
               \* <<level, n>> for the n-th table of a level
  page,        \* the page init_heap maps
  level,       \* the level at which map_to looks for a table
  frame,       \* the frame the page is to get
  heap,        \* whether ALLOCATOR is initialised
  pc

memoryVars == <<memory_map, next, entries, page, level, frame, heap>>

frames == usable_frames(memory_map)

-----------------------------------------------------------------------------
(* allocate_frame: the next usable frame, none when they are used up; the  *)
(* counter moves in either case.                                           *)
Exhausted == next >= Len(frames)

allocated == frames[next + 1]

(* The table of level l on the way to page p. *)
Table(l, p) == <<l, p \div FANOUT ^ l>>

EntryKeys == {<<0, p>> : p \in HeapPages} \cup {Table(l, p) : l \in 1 .. 3, p \in HeapPages}

(* init_heap returns an error, and kernel_main expects none. *)
HeapError == /\ pc' = "panic"
             /\ UNCHANGED <<entries, page, level, frame, heap>>

\* mutant: the last page is left out
LastPage_Short == HEAP_START + HEAP_PAGES - 2

(* Page::range_inclusive to the page of heap_end *)
LastPage == HEAP_START + HEAP_PAGES - 1

-----------------------------------------------------------------------------
(* The frame of the next page. *)
AllocatePage ==
  /\ pc = "page"
  /\ page <= LastPage
  /\ next' = next + 1
  /\ IF Exhausted THEN HeapError
     ELSE /\ frame' = allocated
          /\ level' = 3
          /\ pc' = "table"
          /\ UNCHANGED <<entries, page, heap>>
  /\ UNCHANGED memory_map

\* mutant: a table is made out of the frame of the page
TableFrame_Page == frame

TableFrame == allocated

(* map_to, one level: a table that is missing is created. *)
CreateTable ==
  /\ pc = "table"
  /\ level > 0
  /\ IF entries[Table(level, page)] # None
     THEN /\ level' = level - 1
          /\ UNCHANGED <<next, entries, page, frame, heap, pc>>
     ELSE /\ next' = next + 1
          /\ IF Exhausted THEN HeapError
             ELSE /\ entries' = [entries EXCEPT ![Table(level, page)] = TableFrame]
                  /\ level' = level - 1
                  /\ UNCHANGED <<page, frame, heap, pc>>
  /\ UNCHANGED memory_map

(* map_to, the entry of the page itself. *)
SetEntry ==
  /\ pc = "table"
  /\ level = 0
  /\ IF entries[<<0, page>>] # None THEN HeapError
     ELSE /\ entries' = [entries EXCEPT ![<<0, page>>] = frame]
          /\ page' = page + 1
          /\ pc' = "page"
          /\ UNCHANGED <<level, frame, heap>>
  /\ UNCHANGED <<memory_map, next>>

(* ALLOCATOR.lock().init, after the loop. *)
HeapReady == /\ pc = "page"
             /\ page > LastPage
             /\ heap' = "ready"
             /\ pc' = "scan"
             /\ UNCHANGED <<memory_map, next, entries, page, level, frame>>

MemoryStep == AllocatePage \/ CreateTable \/ SetEntry \/ HeapReady

MemoryInit ==
  /\ memory_map \in MemoryMaps
  /\ next = 0
  /\ entries = [k \in EntryKeys |-> None]
  /\ page = HEAP_START
  /\ level = 0
  /\ frame = None
  /\ heap = "empty"
  /\ pc = "page"

-----------------------------------------------------------------------------
(* The types of the memory state. *)
MemoryTypeOK ==
  /\ memory_map \in MemoryMaps
  /\ next \in Nat
  /\ entries \in [EntryKeys -> Nat \cup {None}]
  /\ page \in HEAP_START .. HEAP_START + HEAP_PAGES
  /\ level \in 0 .. 3
  /\ frame \in Nat \cup {None}
  /\ heap \in {"empty", "ready"}

(* No frame is used twice: the heap pages and the page tables all lie in   *)
(* frames of their own, which the bootloader reported as usable.           *)
FramesDistinct ==
  LET usable == frames
  IN  \A k \in EntryKeys :
        entries[k] # None =>
          /\ \E i \in DOMAIN usable : entries[k] = usable[i]
          /\ \A j \in EntryKeys : entries[j] = entries[k] => j = k

(* The allocator gets the heap only when every page of it is mapped, and   *)
(* booting fails only for want of frames.                                  *)
HeapBacked ==
  /\ heap = "ready" => \A p \in HeapPages : entries[<<0, p>>] # None
  /\ pc = "panic" => heap = "empty" /\ next > Len(frames)
=============================================================================
