------------------------------ MODULE BootProofs ------------------------------
(***************************************************************************)
(* What init_heap does with frames, proved for every memory map, size of   *)
(* the heap and fanout of the page tables; what the scan of the buses      *)
(* finds and which card is used, for any devices in any number of slots.   *)
(***************************************************************************)
EXTENDS Boot, SequenceLemmas

(* A leaf gets a minute, and a second try, so that a slow machine checks it too. *)
USE SMTT(60), Z3T(60), ZenonT(60), SMTT(90), Z3T(90)

(* Every element of a flattened sequence is one of its parts'. *)
LEMMA FlattenRange ==
  ASSUME NEW S
  PROVE  \A t \in Seq(Seq(S)) : \A p \in DOMAIN Flatten(t) :
           \E k \in DOMAIN t : \E i \in DOMAIN t[k] : Flatten(t)[p] = t[k][i]
<1> DEFINE From(t) == \A p \in DOMAIN Flatten(t) :
                        \E k \in DOMAIN t : \E i \in DOMAIN t[k] : Flatten(t)[p] = t[k][i]
<1> DEFINE T == {t \in Seq(Seq(S)) : From(t)}
<1>1. << >> \in T
  BY FlattenEmpty, EmptySeq
<1>2. ASSUME NEW s \in Seq(Seq(S)), NEW e \in Seq(S), s \in T PROVE Append(s, e) \in T
  <2>1. PICK t, a, c : t = Append(s, e) /\ a = Flatten(s) /\ c = Flatten(t)
    BY ZenonT(60)
  <2>2. /\ Len(s) \in Nat /\ DOMAIN s = 1 .. Len(s) /\ t \in Seq(Seq(S))
        /\ DOMAIN t = 1 .. Len(s) + 1 /\ t[Len(s) + 1] = e
        /\ \A k \in 1 .. Len(s) : t[k] = s[k]
    BY <2>1, AppendParts
  <2>3. a \in Seq(S) /\ e \in Seq(S) /\ c = a \o e
    BY <2>1, FlattenAppend, FlattenType, ZenonT(60)
  <2>4. /\ c \in Seq(S) /\ Len(a) \in Nat /\ Len(e) \in Nat /\ Len(c) = Len(a) + Len(e)
        /\ \A i \in 1 .. Len(a) : c[i] = a[i]
        /\ \A i \in 1 .. Len(e) : c[Len(a) + i] = e[i]
    BY ONLY <2>3, ConcatParts, SMTT(60), Z3T(60)
  <2>5. DOMAIN c = 1 .. Len(c) /\ DOMAIN a = 1 .. Len(a) /\ DOMAIN e = 1 .. Len(e)
    BY <2>3, <2>4, LenProperties
  <2>6. ASSUME NEW p \in DOMAIN c
        PROVE  \E k \in DOMAIN t : \E i \in DOMAIN t[k] : c[p] = t[k][i]
    <3>1. CASE p \in 1 .. Len(a)
      <4>1. p \in DOMAIN a /\ c[p] = a[p]
        BY <2>4, <2>5, <3>1
      <4>2. PICK k \in DOMAIN s : \E i \in DOMAIN s[k] : a[p] = s[k][i]
        BY <1>2, <2>1, <4>1
      <4>3. k \in DOMAIN t /\ t[k] = s[k]
        BY <2>2
      <4> QED BY <4>1, <4>2, <4>3
    <3>2. CASE p \notin 1 .. Len(a)
      <4>1. PICK i : i = p - Len(a)
        BY ZenonT(60)
      <4>2. i \in 1 .. Len(e) /\ p = Len(a) + i
        BY <2>4, <2>5, <3>2, <4>1
      <4>3. i \in DOMAIN e /\ c[p] = e[i]
        BY <2>4, <2>5, <4>2
      <4>4. Len(s) + 1 \in DOMAIN t /\ t[Len(s) + 1] = e
        BY <2>2
      <4> QED BY <4>3, <4>4
    <3> QED BY <3>1, <3>2
  <2>7. From(t)
    BY <2>1, <2>6, ZenonT(60)
  <2> HIDE DEF From
  <2> QED BY <2>1, <2>2, <2>7
<1>3. Seq(Seq(S)) \subseteq T
  <2> HIDE DEF T
  <2> QED BY <1>1, <1>2, SeqInduction
<1> QED BY <1>3

(* No element occurs twice in the parts of a sequence. *)
PartsDistinct(t) ==
  \A j, k \in DOMAIN t : \A m \in DOMAIN t[j], n \in DOMAIN t[k] :
    t[j][m] = t[k][n] => j = k /\ m = n

(* If no element is in two places of the list, none is in two places of    *)
(* the whole.                                                              *)
LEMMA FlattenDistinct ==
  ASSUME NEW S
  PROVE  \A t \in Seq(Seq(S)) : PartsDistinct(t) =>
           \A p, q \in DOMAIN Flatten(t) : Flatten(t)[p] = Flatten(t)[q] => p = q
<1> DEFINE Once(c) == \A p, q \in DOMAIN c : c[p] = c[q] => p = q
<1> DEFINE T == {t \in Seq(Seq(S)) : PartsDistinct(t) => Once(Flatten(t))}
<1>1. << >> \in T
  BY FlattenEmpty, EmptySeq
<1>2. ASSUME NEW s \in Seq(Seq(S)), NEW e \in Seq(S), s \in T PROVE Append(s, e) \in T
  <2>1. PICK t, a, c : t = Append(s, e) /\ a = Flatten(s) /\ c = Flatten(t)
    BY ZenonT(60)
  <2>2. /\ Len(s) \in Nat /\ DOMAIN s = 1 .. Len(s) /\ t \in Seq(Seq(S))
        /\ DOMAIN t = 1 .. Len(s) + 1 /\ t[Len(s) + 1] = e
        /\ \A k \in 1 .. Len(s) : t[k] = s[k]
    BY <2>1, AppendParts
  <2>3. a \in Seq(S) /\ e \in Seq(S) /\ c = a \o e
    BY <2>1, FlattenAppend, FlattenType, ZenonT(60)
  <2>4. /\ c \in Seq(S) /\ Len(a) \in Nat /\ Len(e) \in Nat /\ Len(c) = Len(a) + Len(e)
        /\ \A i \in 1 .. Len(a) : c[i] = a[i]
        /\ \A i \in 1 .. Len(e) : c[Len(a) + i] = e[i]
    BY ONLY <2>3, ConcatParts, SMTT(60), Z3T(60)
  <2>5. DOMAIN c = 1 .. Len(c) /\ DOMAIN a = 1 .. Len(a) /\ DOMAIN e = 1 .. Len(e)
    BY <2>3, <2>4, LenProperties
  <2> SUFFICES ASSUME PartsDistinct(t) PROVE Once(c)
    BY <2>1, <2>2
  <2>6. PartsDistinct(s)
    BY <2>2 DEF PartsDistinct
  <2>7. Once(a)
    BY <1>2, <2>1, <2>6
  <2>8. \A m, n \in DOMAIN e : e[m] = e[n] => m = n
    <3>1. PICK k : k = Len(s) + 1
      BY ZenonT(60)
    <3>2. k \in DOMAIN t /\ t[k] = e
      BY <2>2, <3>1
    <3> QED BY <3>2 DEF PartsDistinct
  <2>9. ASSUME NEW p \in DOMAIN a, NEW n \in DOMAIN e PROVE a[p] # e[n]
    <3>1. PICK k \in DOMAIN s : \E i \in DOMAIN s[k] : a[p] = s[k][i]
      BY <2>1, FlattenRange
    <3>2. PICK i \in DOMAIN s[k] : a[p] = s[k][i]
      BY <3>1
    <3>3. PICK l : l = Len(s) + 1
      BY ZenonT(60)
    <3>4. l \in DOMAIN t /\ t[l] = e /\ k \in DOMAIN t /\ t[k] = s[k] /\ k # l
      BY <2>2, <3>3
    <3> QED BY <3>2, <3>4 DEF PartsDistinct
  <2>10. ASSUME NEW p \in DOMAIN c
         PROVE  \/ p \in DOMAIN a /\ c[p] = a[p]
                \/ \E i \in DOMAIN e : p = Len(a) + i /\ c[p] = e[i]
    <3>1. CASE p \in 1 .. Len(a)
      BY <2>4, <2>5, <3>1
    <3>2. CASE p \notin 1 .. Len(a)
      <4>1. PICK i : i = p - Len(a)
        BY ZenonT(60)
      <4>2. i \in 1 .. Len(e) /\ p = Len(a) + i
        BY <2>4, <2>5, <3>2, <4>1
      <4> QED BY <2>4, <2>5, <4>2, ZenonT(60)
    <3> QED BY <3>1, <3>2
  <2>11. ASSUME NEW p \in DOMAIN c, NEW q \in DOMAIN c, c[p] = c[q] PROVE p = q
    <3>1. CASE p \in DOMAIN a /\ c[p] = a[p]
      BY <2>7, <2>9, <2>10, <2>11, <3>1, ZenonT(60)
    <3>2. CASE \E i \in DOMAIN e : p = Len(a) + i /\ c[p] = e[i]
      BY <2>8, <2>9, <2>10, <2>11, <3>2
    <3> QED BY <2>10, <3>1, <3>2
  <2> QED BY <2>11
<1>3. Seq(Seq(S)) \subseteq T
  <2> HIDE DEF T
  <2> QED BY <1>1, <1>2, SeqInduction
<1> QED BY <1>3

(* A frame that allocate_frame has handed out. *)
Given(f) == \E i \in DOMAIN frames : i <= next /\ f = frames[i]

(* Each entry holds a frame that was handed out, and no other entry has    *)
(* it; neither has any the frame the next page is to get.                  *)
EntriesInv ==
  /\ \A k \in EntryKeys : entries[k] # None => Given(entries[k])
  /\ \A j, k \in EntryKeys : entries[j] # None /\ entries[j] = entries[k] => j = k
  /\ pc = "table" => Given(frame) /\ \A k \in EntryKeys : entries[k] # frame

(* The pages below the current one are mapped, the others are not. *)
ProgressInv ==
  /\ \A p \in HeapPages : entries[<<0, p>>] # None <=> p < page
  /\ pc \in {"page", "table"} => heap = "empty"
  /\ pc = "table" => page \in HeapPages
  /\ heap = "ready" => page > LastPage
  /\ pc = "panic" => heap = "empty" /\ next > Len(frames)

MemoryInv == MemoryTypeOK /\ EntriesInv /\ ProgressInv

-----------------------------------------------------------------------------
(* The frames that usable_frames hands out are numbers, each one once:     *)
(* regions do not overlap, and each is stepped through frame by frame.     *)
LEMMA RegionFrames ==
  ASSUME NEW r \in Region
  PROVE  /\ region_frames(r) \in Seq(Nat)
         /\ \A m \in DOMAIN region_frames(r) :
              /\ region_frames(r)[m] = r.start + m - 1 /\ m \in Nat
              /\ r.start <= region_frames(r)[m] /\ region_frames(r)[m] < r.end
<1>1. PICK a \in Nat, b \in Nat : a = r.start /\ b = r.end
  BY DEF Region
<1>2. PICK f : f = region_frames(r)
  BY ZenonT(60)
<1>3. f = [k \in 1 .. b - a |-> a + k - 1]
  BY <1>1, <1>2 DEF region_frames
<1>4. PICK n \in Nat : n = IF b >= a THEN b - a ELSE 0
  BY <1>1
<1>5. 1 .. b - a = 1 .. n
  BY <1>1, <1>4
<1>6. f \in [1 .. n -> Nat]
  BY <1>1, <1>3, <1>5
<1>7. f \in Seq(Nat)
  BY <1>4, <1>6
<1>8. \A m \in 1 .. b - a : f[m] = a + m - 1 /\ m \in Nat /\ a <= f[m] /\ f[m] < b
  BY <1>1, <1>3
<1>9. DOMAIN f = 1 .. b - a
  BY <1>3
<1> QED BY <1>1, <1>2, <1>7, <1>8, <1>9

(* The frame allocator lists no frame twice, as the usable regions do not  *)
(* overlap.                                                                *)
LEMMA UsableFrames ==
  ASSUME NEW map \in MemoryMaps
  PROVE  /\ usable_frames(map) \in Seq(Nat)
         /\ \A p, q \in DOMAIN usable_frames(map) :
              usable_frames(map)[p] = usable_frames(map)[q] => p = q
<1>1. map \in Seq(Region) /\ DOMAIN map = 1 .. Len(map) /\ Len(map) \in Nat
  BY MapAssumption, LenProperties
<1>2. PICK K, r : K = {i \in DOMAIN map : map[i].usable} /\ r = SelectAt(map, K)
  BY ZenonT(60)
<1>3. r \in Seq(Region)
  BY <1>1, <1>2, SelectType
<1>4. PICK m : SelectedFrom(map, K, r, m)
  BY <1>1, <1>2, SelectOrder, ZenonT(60)
<1>5. /\ Len(r) \in Nat /\ DOMAIN r = 1 .. Len(r)
      /\ \A j \in 1 .. Len(r) : m[j] \in K /\ m[j] \in DOMAIN map /\ r[j] = map[m[j]]
      /\ \A i, j \in 1 .. Len(r) : i < j => m[i] < m[j]
  BY <1>3, <1>4, LenProperties DEF SelectedFrom
<1>6. PICK t : t = [i \in DOMAIN r |-> region_frames(r[i])]
  BY ZenonT(60)
<1>7. \A i \in 1 .. Len(r) : r[i] \in Region /\ t[i] = region_frames(r[i]) /\ t[i] \in Seq(Nat)
  BY <1>3, <1>5, <1>6, ElementOfSeq, RegionFrames
<1>8. t \in Seq(Seq(Nat)) /\ DOMAIN t = 1 .. Len(r)
  BY <1>5, <1>6, <1>7
<1>9. usable_frames(map) = Flatten(t)
  BY <1>2, <1>6 DEF usable_frames
<1>10. ASSUME NEW i \in 1 .. Len(r), NEW j \in 1 .. Len(r), i < j
       PROVE  Disjoint(r[i], r[j])
  <2>1. m[i] # m[j] /\ m[i] \in DOMAIN map /\ m[j] \in DOMAIN map
    <3>1. m[i] < m[j] /\ m[i] \in Nat /\ m[j] \in Nat
      BY <1>1, <1>5, <1>10
    <3> QED BY <1>5, <3>1
  <2>2. map[m[i]].usable /\ map[m[j]].usable
    BY <1>2, <1>5
  <2> QED BY <1>5, <2>1, <2>2, MapAssumption
<1>11. PartsDistinct(t)
  <2> SUFFICES ASSUME NEW j \in 1 .. Len(r), NEW k \in 1 .. Len(r),
                      NEW x \in DOMAIN t[j], NEW y \in DOMAIN t[k], t[j][x] = t[k][y]
               PROVE  j = k /\ x = y
    BY <1>8 DEF PartsDistinct
  <2>1. PICK a \in Nat, b \in Nat : a = r[j].start /\ b = r[j].end
    BY <1>7, ZenonT(60) DEF Region
  <2>2. PICK c \in Nat, d \in Nat : c = r[k].start /\ d = r[k].end
    BY <1>7, ZenonT(60) DEF Region
  <2>3. t[j][x] = a + x - 1 /\ x \in Nat /\ a <= t[j][x] /\ t[j][x] < b
    BY <1>7, <2>1, RegionFrames, ZenonT(60)
  <2>4. t[k][y] = c + y - 1 /\ y \in Nat /\ c <= t[k][y] /\ t[k][y] < d
    BY <1>7, <2>2, RegionFrames, ZenonT(60)
  <2>u. PICK u : u = t[j][x] /\ u = t[k][y]
    OBVIOUS
  <2>v. /\ u = a + x - 1 /\ x \in Nat /\ a <= u /\ u < b /\ u \in Int
        /\ u = c + y - 1 /\ y \in Nat /\ c <= u /\ u < d
    <3>1. u = a + x - 1 /\ x \in Nat /\ a <= u /\ u < b
      BY ONLY <2>u, <2>3, ZenonT(60)
    <3>2. u = c + y - 1 /\ y \in Nat /\ c <= u /\ u < d
      BY ONLY <2>u, <2>4, ZenonT(60)
    <3>3. u \in Int
      BY ONLY <3>1, a \in Nat, SMTT(60), Z3T(60)
    <3> QED BY ONLY <3>1, <3>2, <3>3, SMTT(60), Z3T(60)
  <2>5. ~(b <= c) /\ ~(d <= a)
    BY ONLY <2>v, a \in Nat, b \in Nat, c \in Nat, d \in Nat, SMTT(60), Z3T(60)
  <2>6. j = k
    <3>1. j < k => b <= c \/ d <= a
      BY <1>10, <2>1, <2>2 DEF Disjoint
    <3>2. k < j => b <= c \/ d <= a
      BY <1>10, <2>1, <2>2 DEF Disjoint
    <3> QED BY <1>5, <2>5, <3>1, <3>2
  <2>7. a = c
    BY <2>1, <2>2, <2>6
  <2>8. x = y
    BY ONLY <2>v, <2>7, a \in Nat, c \in Nat, SMTT(60), Z3T(60)
  <2> QED BY <2>6, <2>8
<1>12. Flatten(t) \in Seq(Nat)
  BY <1>8, FlattenType
<1>13. \A p, q \in DOMAIN Flatten(t) : Flatten(t)[p] = Flatten(t)[q] => p = q
  BY <1>8, <1>11, FlattenDistinct
<1> QED BY <1>9, <1>12, <1>13

LEMMA FramesType ==
  ASSUME MemoryTypeOK
  PROVE  frames \in Seq(Nat) /\ \A i, j \in DOMAIN frames : frames[i] = frames[j] => i = j
<1>1. memory_map \in MemoryMaps
  BY DEF MemoryTypeOK
<1> QED BY <1>1, UsableFrames DEF frames

(* The key of a page is an entry, the key of a table is another. *)
LEMMA Keys ==
  ASSUME NEW p \in HeapPages
  PROVE  /\ <<0, p>> \in EntryKeys
         /\ \A l \in 1 .. 3 : Table(l, p) \in EntryKeys
         /\ \A l \in 1 .. 3 : \A q \in HeapPages : Table(l, p) # <<0, q>>
BY DEF EntryKeys, Table

(* The frame that allocate_frame hands out next is a number that no earlier *)
(* call has handed out.                                                     *)
LEMMA AllocatedNew ==
  ASSUME MemoryTypeOK, ~Exhausted
  PROVE  /\ allocated \in Nat
         /\ next + 1 \in DOMAIN frames
         /\ ~Given(allocated)
<1>1. next + 1 \in DOMAIN frames
  <2>1. Len(frames) \in Nat /\ DOMAIN frames = 1 .. Len(frames)
    BY FramesType, LenProperties
  <2> QED
    BY <2>1 DEF Exhausted, MemoryTypeOK
<1>2. allocated \in Nat
  BY <1>1, FramesType DEF allocated
<1>3. ASSUME NEW i \in DOMAIN frames, i <= next, allocated = frames[i]
      PROVE  FALSE
  <2>1. i = next + 1
    BY <1>1, <1>3, FramesType DEF allocated
  <2> QED
    BY <1>3, <2>1 DEF MemoryTypeOK
<1> QED
  BY <1>1, <1>2, <1>3 DEF Given

(* Frames that were handed out stay handed out. *)
LEMMA GivenStays ==
  ASSUME MemoryTypeOK, memory_map' = memory_map, next' \in {next, next + 1}
  PROVE  /\ frames' = frames
         /\ \A f : Given(f) => Given(f)'
<1>1. frames' = frames
  BY DEF frames
<1>2. Len(frames) \in Nat /\ DOMAIN frames = 1 .. Len(frames)
  BY FramesType, LenProperties
<1> QED
  BY <1>1, <1>2 DEF Given, MemoryTypeOK

(* The frame just handed out is handed out. *)
LEMMA AllocatedGiven ==
  ASSUME MemoryTypeOK, ~Exhausted, memory_map' = memory_map, next' = next + 1
  PROVE  \A f : f = allocated => Given(f)'
<1>1. frames' = frames
  BY DEF frames
<1>2. next + 1 \in DOMAIN frames
  BY AllocatedNew
<1>3. allocated = frames'[next + 1] /\ next + 1 \in DOMAIN frames' /\ next + 1 <= next'
  BY <1>1, <1>2 DEF allocated, MemoryTypeOK
<1> QED
  BY <1>3 DEF Given

(* The heap pages are those up to page_range's last. *)
LEMMA LastPageIs == \A p \in Nat : p \in HeapPages <=> HEAP_START <= p /\ p <= LastPage
BY HeapAssumption DEF HeapPages, LastPage

-----------------------------------------------------------------------------
LEMMA InitMemory == MemoryInit => MemoryInv
<1> SUFFICES ASSUME MemoryInit
             PROVE  MemoryInv
  OBVIOUS
<1>1. MemoryTypeOK
  BY HeapAssumption DEF MemoryInit, MemoryTypeOK
<1>2. EntriesInv
  BY DEF MemoryInit, EntriesInv
<1>3. ProgressInv
  <2>1. \A p \in HeapPages : <<0, p>> \in EntryKeys /\ ~(p < HEAP_START)
    <3>1. \A p \in HeapPages : <<0, p>> \in EntryKeys
      BY Keys, ZenonT(60)
    <3>2. \A p \in HeapPages : ~(p < HEAP_START)
      BY HeapAssumption DEF HeapPages
    <3> QED
      BY <3>1, <3>2, ZenonT(60)
  <2> QED
    BY <2>1 DEF MemoryInit, ProgressInv
<1> QED
  BY <1>1, <1>2, <1>3 DEF MemoryInv

(* The error return leaves the entries alone. *)
LEMMA ErrorKeeps ==
  ASSUME MemoryInv, HeapError, memory_map' = memory_map, next' = next + 1, Exhausted,
         pc \in {"page", "table"}
  PROVE  MemoryInv'
<1> USE DEF HeapError
<1>1. MemoryTypeOK'
  BY DEF MemoryInv, MemoryTypeOK
<1>2. frames' = frames /\ \A f : Given(f) => Given(f)'
  BY GivenStays DEF MemoryInv
<1>3. EntriesInv'
  BY <1>2 DEF MemoryInv, EntriesInv
<1>4. Len(frames) \in Nat
  BY FramesType, LenProperties DEF MemoryInv
<1>5. ProgressInv'
  BY <1>2, <1>4 DEF MemoryInv, ProgressInv, Exhausted, MemoryTypeOK
<1> QED
  BY <1>1, <1>3, <1>5 DEF MemoryInv

(* The frame of the next page was not handed out before. *)
LEMMA AllocatePageKeeps ==
  ASSUME MemoryInv, AllocatePage
  PROVE  MemoryInv'
<1>1. memory_map' = memory_map /\ next' = next + 1 /\ pc = "page" /\ page <= LastPage
  BY DEF AllocatePage
<1>2. CASE Exhausted
  BY <1>1, <1>2, ErrorKeeps DEF AllocatePage
<1>3. CASE ~Exhausted
  <2> USE DEF MemoryInv
  <2>1. /\ frame' = allocated /\ level' = 3 /\ pc' = "table"
        /\ entries' = entries /\ page' = page /\ heap' = heap
    BY <1>3 DEF AllocatePage
  <2>2. frames' = frames /\ \A f : Given(f) => Given(f)'
    BY <1>1, GivenStays
  <2>3. allocated \in Nat /\ ~Given(allocated)
    BY <1>3, AllocatedNew
  <2>4. MemoryTypeOK'
    BY <1>1, <2>1, <2>3 DEF MemoryTypeOK
  <2>5. Given(frame)'
    <3>1. \A f : f = allocated => Given(f)'
      BY <1>1, <1>3, AllocatedGiven
    <3> QED
      BY <2>1, <3>1 DEF Given
  <2>6. \A k \in EntryKeys : entries[k] # allocated
    BY <2>3, HeapAssumption DEF EntriesInv
  <2>7. EntriesInv'
    BY <2>1, <2>2, <2>5, <2>6 DEF EntriesInv
  <2>8. page \in HeapPages
    BY <1>1, LastPageIs, HeapAssumption DEF MemoryTypeOK
  <2>9. ProgressInv'
    BY <1>1, <2>1, <2>8 DEF ProgressInv
  <2> QED
    BY <2>4, <2>7, <2>9
<1> QED
  BY <1>2, <1>3

(* The frame of a new page table was not handed out before. *)
LEMMA CreateTableKeeps ==
  ASSUME MemoryInv, CreateTable
  PROVE  MemoryInv'
<1> DEFINE key == Table(level, page)
<1> USE DEF MemoryInv
<1>1. /\ memory_map' = memory_map /\ pc = "table" /\ level \in 1 .. 3
      /\ page \in HeapPages
  BY DEF CreateTable, ProgressInv, MemoryTypeOK
<1>2. key \in EntryKeys /\ \A q \in HeapPages : key # <<0, q>>
  BY <1>1, Keys, ZenonT(60)
<1>3. CASE entries[key] # None
  <2>1. level' = level - 1 /\ UNCHANGED <<memory_map, next, entries, page, frame, heap, pc>>
    BY <1>3 DEF CreateTable
  <2>2. MemoryTypeOK'
    BY <1>1, <2>1 DEF MemoryTypeOK
  <2>3. frames' = frames /\ \A f : Given(f) => Given(f)'
    BY <2>1, GivenStays
  <2>4. EntriesInv'
    BY <2>1, <2>3 DEF EntriesInv
  <2>5. ProgressInv'
    BY <2>1, <2>3 DEF ProgressInv
  <2> QED
    BY <2>2, <2>4, <2>5
<1>4. CASE entries[key] = None /\ Exhausted
  BY <1>1, <1>4, ErrorKeeps DEF CreateTable
<1>5. CASE entries[key] = None /\ ~Exhausted
  <2>1. /\ entries' = [entries EXCEPT ![key] = allocated]
        /\ level' = level - 1 /\ next' = next + 1
        /\ UNCHANGED <<page, frame, heap, pc>>
    BY <1>5 DEF CreateTable, TableFrame
  <2>2. allocated \in Nat /\ ~Given(allocated)
    BY <1>5, AllocatedNew
  <2>3. MemoryTypeOK'
    <3> HIDE DEF key
    <3>1. entries' \in [EntryKeys -> Nat \cup {None}]
      BY <2>1, <2>2, ZenonT(60) DEF MemoryTypeOK
    <3>2. level' \in 0 .. 3 /\ next' \in Nat
      BY <1>1, <2>1 DEF MemoryTypeOK
    <3> QED
      BY <1>1, <2>1, <3>1, <3>2 DEF MemoryTypeOK
  <2>4. frames' = frames /\ \A f : Given(f) => Given(f)'
    BY <1>1, <2>1, GivenStays
  <2>5. \A f : f = allocated => Given(f)'
    BY <1>1, <1>5, <2>1, AllocatedGiven
  <2>6. /\ entries'[key] = allocated
        /\ \A k \in EntryKeys : k # key => entries'[k] = entries[k]
    BY <1>2, <2>1 DEF MemoryTypeOK
  <2>7. \A k \in EntryKeys : entries[k] # None => entries[k] # allocated
    BY <2>2 DEF EntriesInv
  <2>8. allocated # None /\ frame # allocated
    BY <1>1, <2>2, HeapAssumption DEF EntriesInv
  <2>9. EntriesInv'
    <3>1. \A k \in EntryKeys : entries'[k] # None =>
             \E i \in DOMAIN frames' : i <= next' /\ entries'[k] = frames'[i]
      BY <2>4, <2>5, <2>6 DEF EntriesInv, Given
    <3>2. \A j, k \in EntryKeys : entries'[j] # None /\ entries'[j] = entries'[k] => j = k
      BY <2>6, <2>7, <2>8 DEF EntriesInv
    <3>3. \E i \in DOMAIN frames' : i <= next' /\ frame' = frames'[i]
      BY <1>1, <2>1, <2>4 DEF EntriesInv, Given
    <3>4. \A k \in EntryKeys : entries'[k] # frame'
      BY <1>1, <2>1, <2>6, <2>8 DEF EntriesInv
    <3> QED
      BY <3>1, <3>2, <3>3, <3>4 DEF EntriesInv, Given
  <2>10. \A p \in HeapPages : entries'[<<0, p>>] = entries[<<0, p>>]
    BY <1>2, <2>6, Keys, ZenonT(60)
  <2>11. ProgressInv'
    BY <1>1, <2>1, <2>10 DEF ProgressInv
  <2> QED
    BY <2>3, <2>9, <2>11
<1> QED
  BY <1>3, <1>4, <1>5

(* map_to finds no page mapped and moves on to the next. *)
LEMMA SetEntryKeeps ==
  ASSUME MemoryInv, SetEntry
  PROVE  MemoryInv'
<1> DEFINE key == <<0, page>>
<1> USE DEF MemoryInv
<1>1. /\ pc = "table" /\ page \in HeapPages /\ heap = "empty"
      /\ memory_map' = memory_map /\ next' = next
  BY DEF SetEntry, ProgressInv
<1>2. page \in Nat /\ page + 1 \in HEAP_START .. HEAP_START + HEAP_PAGES
  BY <1>1, HeapAssumption DEF HeapPages
<1>3. key \in EntryKeys /\ entries[key] = None
  BY <1>1, <1>2, Keys DEF ProgressInv
<1>4. /\ entries' = [entries EXCEPT ![key] = frame]
      /\ page' = page + 1 /\ pc' = "page"
      /\ UNCHANGED <<level, frame, heap>>
  BY <1>3 DEF SetEntry
<1>5. MemoryTypeOK'
  BY <1>1, <1>2, <1>4, ZenonT(60) DEF MemoryTypeOK
<1>6. frames' = frames /\ \A f : Given(f) => Given(f)'
  BY <1>1, GivenStays
<1>7. /\ entries'[key] = frame
      /\ \A k \in EntryKeys : k # key => entries'[k] = entries[k]
  BY <1>3, <1>4 DEF MemoryTypeOK
<1>8. Given(frame) /\ \A k \in EntryKeys : entries[k] # frame
  BY <1>1 DEF EntriesInv
<1>9. EntriesInv'
  <2>1. \A k \in EntryKeys : entries'[k] # None =>
           \E i \in DOMAIN frames' : i <= next' /\ entries'[k] = frames'[i]
    BY <1>6, <1>7, <1>8 DEF EntriesInv, Given
  <2>2. \A j, k \in EntryKeys : entries'[j] # None /\ entries'[j] = entries'[k] => j = k
    BY <1>7, <1>8 DEF EntriesInv
  <2> QED
    BY <1>4, <2>1, <2>2 DEF EntriesInv, Given
<1>10. ProgressInv'
  <2>1. frame # None
    <3>1. PICK i \in DOMAIN frames : frame = frames[i]
      BY <1>8 DEF Given
    <3>2. frames[i] \in Nat
      BY FramesType
    <3> QED
      BY <3>1, <3>2, HeapAssumption
  <2>2. ASSUME NEW p \in HeapPages
        PROVE  entries'[<<0, p>>] # None <=> p < page'
    <3>1. p \in Nat /\ <<0, p>> \in EntryKeys
      BY Keys, HeapAssumption DEF HeapPages
    <3>2. CASE p = page
      BY <1>2, <1>4, <1>7, <2>1, <3>2
    <3>3. CASE p # page
      <4>1. entries'[<<0, p>>] = entries[<<0, p>>]
        BY <1>7, <3>1, <3>3
      <4> QED
        BY <1>2, <1>4, <3>1, <3>3, <4>1 DEF ProgressInv
    <3> QED
      BY <3>2, <3>3
  <2> QED
    BY <1>1, <1>4, <2>2 DEF ProgressInv
<1> QED
  BY <1>5, <1>9, <1>10

LEMMA HeapReadyKeeps ==
  ASSUME MemoryInv, HeapReady
  PROVE  MemoryInv'
<1> USE DEF MemoryInv, HeapReady
<1>1. MemoryTypeOK'
  BY DEF MemoryTypeOK
<1>2. frames' = frames /\ \A f : Given(f) => Given(f)'
  BY GivenStays
<1>3. EntriesInv'
  BY <1>2 DEF EntriesInv
<1>4. ProgressInv'
  BY <1>2 DEF ProgressInv
<1> QED
  BY <1>1, <1>3, <1>4

(* The steps after init_heap do not touch the memory. *)
LEMMA LaterKeeps ==
  ASSUME MemoryInv, UNCHANGED memoryVars,
         pc' = pc \/ pc' \in {"scan", "devices", "reset", "demo"}
  PROVE  MemoryInv'
<1> USE DEF MemoryInv, memoryVars
<1>1. MemoryTypeOK'
  BY DEF MemoryTypeOK
<1>2. frames' = frames /\ \A f : Given(f) => Given(f)'
  BY GivenStays
<1>3. EntriesInv'
  BY <1>2 DEF EntriesInv
<1>4. ProgressInv'
  BY <1>2 DEF ProgressInv, LastPage
<1> QED
  BY <1>1, <1>3, <1>4

LEMMA NextMemory == MemoryInv /\ [KernelStep \/ Booted]_bootVars => MemoryInv'
<1> SUFFICES ASSUME MemoryInv, [KernelStep \/ Booted]_bootVars
             PROVE  MemoryInv'
  OBVIOUS
<1>1. CASE AllocatePage
  BY <1>1, AllocatePageKeeps
<1>2. CASE CreateTable
  BY <1>2, CreateTableKeeps
<1>3. CASE SetEntry
  BY <1>3, SetEntryKeeps
<1>4. CASE HeapReady
  BY <1>4, HeapReadyKeeps
<1>5. CASE ScanSlot \/ ScanEnd \/ OtherDevice \/ NewCard \/ CardReady \/ Demo
  <2>1. UNCHANGED memoryVars /\ (pc' = pc \/ pc' \in {"scan", "devices", "reset", "demo"})
    BY <1>5 DEF ScanSlot, ScanEnd, OtherDevice, NewCard, CardReady, Demo
  <2> QED
    BY <2>1, LaterKeeps
<1>6. CASE Booted \/ UNCHANGED bootVars
  <2>1. UNCHANGED memoryVars /\ pc' = pc
    BY <1>6 DEF Booted, bootVars
  <2> QED
    BY <2>1, LaterKeeps
<1> QED
  BY <1>1, <1>2, <1>3, <1>4, <1>5, <1>6 DEF KernelStep, MemoryStep

(* MemoryInv is an invariant of booting. *)
THEOREM MemoryInvariant == BootSpec => []MemoryInv
<1>1. BootInit => MemoryInv
  BY InitMemory DEF BootInit
<1> QED
  BY <1>1, NextMemory, PTL DEF BootSpec

(* No frame serves two heap pages, two page tables or one of each, however *)
(* init_heap and map_to interleave their calls of allocate_frame.          *)
THEOREM FramesAreDistinct == BootSpec => []FramesDistinct
<1>1. MemoryInv => FramesDistinct
  BY DEF MemoryInv, EntriesInv, Given, FramesDistinct
<1> QED
  BY <1>1, MemoryInvariant, PTL

(* ALLOCATOR is initialised only over a heap that is mapped as a whole,    *)
(* and init_heap fails only when the usable frames are used up.            *)
THEOREM HeapIsBacked == BootSpec => []HeapBacked
<1>1. MemoryInv => HeapBacked
  <2> SUFFICES ASSUME MemoryInv
               PROVE  HeapBacked
    OBVIOUS
  <2>1. ASSUME heap = "ready", NEW p \in HeapPages
        PROVE  entries[<<0, p>>] # None
    <3>1. page > LastPage /\ page \in Nat /\ p \in Nat /\ p <= LastPage
      BY <2>1, HeapAssumption DEF MemoryInv, ProgressInv, MemoryTypeOK, HeapPages, LastPage
    <3>2. p < page
      BY <3>1, HeapAssumption DEF LastPage
    <3> QED
      BY <3>2 DEF MemoryInv, ProgressInv
  <2> QED
    BY <2>1 DEF MemoryInv, ProgressInv, HeapBacked
<1> QED
  BY <1>1, MemoryInvariant, PTL


-----------------------------------------------------------------------------
(* The devices a scan can see, and their order. *)
Scannable == {p \in Places : /\ Present(p)
                             /\ Present(<<p[1], 0>>)
                             /\ p[2] = 0 \/ multi[p[1]]}

Precedes(p, q) == p[1] < q[1] \/ (p[1] = q[1] /\ p[2] < q[2])

Listed == {devices[i] : i \in DOMAIN devices}

BootType ==
  /\ pc \in {"page", "table", "scan", "devices", "reset", "demo", "panic"}
  /\ config \in [Places -> Kinds]
  /\ multi \in [0 .. SLOTS - 1 -> BOOLEAN]
  /\ slot \in 0 .. SLOTS
  /\ devices \in Seq(Places)
  /\ rx_buffer \in HeapPages \cup {None}
  /\ rbstart \in [Places -> Nat \cup {None}]
  /\ network \in Places \cup {None}

(* The devices found are in the order of the scan, each once. *)
InOrder == \A i, j \in DOMAIN devices : i < j => Precedes(devices[i], devices[j])

(* While the buses are scanned, the devices of all slots so far. *)
ScanInv ==
  pc \in {"page", "table", "scan", "panic"} =>
    /\ Listed = {p \in Scannable : p[1] < slot}
    /\ network = None

(* Then the devices that are not listed any more are the first ones, and   *)
(* the last card among them is in NETWORK.                                 *)
Handled == Cards \ Listed

DeviceInv ==
  pc \in {"devices", "reset", "demo"} =>
    /\ Listed \subseteq Scannable
    /\ \A p \in Scannable \ Listed, q \in Listed : Precedes(p, q)
    /\ IF Handled = {} THEN network = None
       ELSE /\ network \in Handled
            /\ \A c \in Handled : Before(c, network)
            /\ rbstart[network] # None
    /\ pc = "reset" => /\ devices # << >> /\ config[Head(devices)] = "rtl8139"
                       /\ rx_buffer \in HeapPages
    /\ pc = "demo" => devices = << >>

ProbeInv == BootType /\ InOrder /\ ScanInv /\ DeviceInv

LEMMA SlotPlaces ==
  ASSUME NEW s \in 0 .. SLOTS - 1
  PROVE  <<s, 0>> \in Places
BY BootAssumption DEF Places

LEMMA PlaceParts ==
  ASSUME NEW p \in Places
  PROVE  /\ p[1] \in 0 .. SLOTS - 1 /\ p[2] \in 0 .. FUNCTIONS - 1
         /\ p[1] \in Nat /\ p[2] \in Nat /\ p = <<p[1], p[2]>>
BY BootAssumption DEF Places

(* What scan_buses finds in a slot: its present functions, in order. *)
LEMMA FoundIs ==
  ASSUME BootType, slot < SLOTS, NEW r, r = Found(slot)
  PROVE  /\ r \in Seq(Places)
         /\ \A i \in DOMAIN r : r[i] \in Scannable /\ r[i][1] = slot
         /\ \A i, j \in DOMAIN r : i < j => r[i][2] < r[j][2]
         /\ \A p \in Scannable : p[1] = slot => \E i \in DOMAIN r : r[i] = p
<1>0. slot \in 0 .. SLOTS - 1 /\ slot \in Nat /\ <<slot, 0>> \in Places
  BY SlotPlaces, BootAssumption DEF BootType
<1>1. CASE ~Present(<<slot, 0>>)
  <2>1. r = << >> /\ DOMAIN r = {}
    BY <1>1 DEF Found
  <2>2. \A p \in Scannable : p[1] # slot
    BY <1>1 DEF Scannable
  <2>3. r \in Seq(Places)
    BY <2>1, EmptySeq
  <2> QED BY <2>1, <2>2, <2>3
<1>2. CASE Present(<<slot, 0>>)
  <2>1. PICK n \in Nat : n = functions(slot) /\ n <= FUNCTIONS /\ n >= 1 /\ (n > 1 => multi[slot])
                         /\ (multi[slot] => n = FUNCTIONS)
    BY <1>0, BootAssumption DEF functions, BootType
  <2>2. PICK s, K : /\ s = [f \in 1 .. n |-> <<slot, f - 1>>]
                    /\ K = {f \in 1 .. n : Present(<<slot, f - 1>>)}
    BY ZenonT(60)
  <2>3. r = SelectAt(s, K)
    BY <1>2, <2>1, <2>2 DEF Found
  <2>4. \A f \in 1 .. n : s[f] = <<slot, f - 1>> /\ s[f] \in Places /\ s[f][1] = slot /\ s[f][2] = f - 1
    BY <1>0, <2>1, <2>2, BootAssumption DEF Places
  <2>5. s \in Seq(Places) /\ DOMAIN s = 1 .. n
    BY <2>2, <2>4
  <2>6. PICK m : SelectedFrom(s, K, r, m)
    BY <2>3, <2>5, SelectOrder
  <2>7. r \in Seq(Places) /\ Len(r) \in Nat /\ DOMAIN r = 1 .. Len(r)
    BY <2>3, <2>5, SelectType, LenProperties
  <2>8. /\ \A j \in DOMAIN r : m[j] \in K /\ m[j] \in 1 .. n /\ r[j] = s[m[j]]
        /\ \A i, j \in DOMAIN r : i < j => m[i] < m[j]
        /\ \A k \in K : k \in 1 .. n => \E j \in DOMAIN r : m[j] = k
    BY <2>5, <2>6, <2>7 DEF SelectedFrom
  <2>9. \A i \in DOMAIN r : r[i] \in Scannable /\ r[i][1] = slot /\ r[i][2] = m[i] - 1
    <3> SUFFICES ASSUME NEW i \in DOMAIN r
                 PROVE  r[i] \in Scannable /\ r[i][1] = slot /\ r[i][2] = m[i] - 1
      OBVIOUS
    <3>0. m[i] \in K /\ m[i] \in 1 .. n /\ r[i] = s[m[i]]
      BY <2>8, ZenonT(60)
    <3>1. PICK f \in 1 .. n : f = m[i] /\ f \in K /\ r[i] = <<slot, f - 1>>
      BY <2>4, <3>0, ZenonT(60)
    <3>2. Present(<<slot, f - 1>>) /\ <<slot, f - 1>> \in Places
      BY <2>2, <2>4, <3>1
    <3>3. f - 1 = 0 \/ multi[slot]
      BY <2>1
    <3> QED BY <1>2, <3>1, <3>2, <3>3 DEF Scannable
  <2>10. ASSUME NEW i \in DOMAIN r, NEW j \in DOMAIN r, i < j PROVE r[i][2] < r[j][2]
    BY <2>8, <2>9, <2>10
  <2>11. ASSUME NEW p \in Scannable, p[1] = slot PROVE \E i \in DOMAIN r : r[i] = p
    <3>1. p \in Places /\ Present(p) /\ (p[2] = 0 \/ multi[slot])
      BY <2>11 DEF Scannable
    <3>2. PICK f : f = p[2] + 1
      BY ZenonT(60)
    <3>3. p[2] \in Nat /\ p[2] < FUNCTIONS /\ p = <<slot, p[2]>>
      BY <2>11, <3>1, PlaceParts, BootAssumption
    <3>4. f \in 1 .. n /\ f - 1 = p[2] /\ p = <<slot, f - 1>>
      BY <2>1, <3>1, <3>2, <3>3, BootAssumption
    <3>5. f \in K
      BY <2>2, <3>1, <3>4
    <3>6. PICK i \in DOMAIN r : m[i] = f
      BY <2>8, <3>4, <3>5
    <3>7. r[i] = p
      BY <2>4, <2>8, <3>4, <3>6
    <3> QED BY <3>7
  <2> QED BY <2>7, <2>9, <2>10, <2>11
<1> QED BY <1>1, <1>2

-----------------------------------------------------------------------------
LEMMA InitProbe == BootInit => ProbeInv
<1> SUFFICES ASSUME BootInit PROVE ProbeInv
  OBVIOUS
<1>1. BootType
  BY BootAssumption DEF BootInit, MemoryInit, BootType
<1>2. DOMAIN devices = {} /\ pc = "page" /\ network = None /\ slot = 0
  BY DEF BootInit, MemoryInit
<1>3. Listed = {} /\ \A p \in Scannable : ~(p[1] < slot)
  BY <1>2, PlaceParts DEF Listed, Scannable
<1>4. ScanInv
  BY <1>2, <1>3 DEF ScanInv
<1> QED BY <1>1, <1>2, <1>4 DEF ProbeInv, InOrder, DeviceInv

(* The scan of one slot adds what is in it. *)
LEMMA ScanSlotKeeps == ProbeInv /\ ScanSlot => ProbeInv'
<1> SUFFICES ASSUME ProbeInv, ScanSlot PROVE ProbeInv'
  OBVIOUS
<1>0. /\ pc = "scan" /\ slot < SLOTS /\ slot' = slot + 1
      /\ UNCHANGED <<pc, config, multi, rx_buffer, rbstart, network>>
      /\ BootType /\ InOrder /\ Listed = {p \in Scannable : p[1] < slot} /\ network = None
      /\ slot \in Nat
  BY DEF ProbeInv, ScanInv, ScanSlot, cardVars, BootType
<1>1. PICK r, a, c : r = Found(slot) /\ a = devices /\ c = devices'
  BY ZenonT(60)
<1>2. /\ r \in Seq(Places)
      /\ \A i \in DOMAIN r : r[i] \in Scannable /\ r[i][1] = slot
      /\ \A i, j \in DOMAIN r : i < j => r[i][2] < r[j][2]
      /\ \A p \in Scannable : p[1] = slot => \E i \in DOMAIN r : r[i] = p
  BY <1>0, <1>1, FoundIs
<1>3. a \in Seq(Places) /\ r \in Seq(Places) /\ c = a \o r
  BY <1>0, <1>1, <1>2 DEF ScanSlot, BootType
<1>4. /\ c \in Seq(Places) /\ Len(a) \in Nat /\ Len(r) \in Nat /\ Len(c) = Len(a) + Len(r)
      /\ \A i \in 1 .. Len(a) : c[i] = a[i]
      /\ \A i \in 1 .. Len(r) : c[Len(a) + i] = r[i]
  BY ONLY <1>3, ConcatParts, SMTT(60), Z3T(60)
<1>5. DOMAIN c = 1 .. Len(c) /\ DOMAIN a = 1 .. Len(a) /\ DOMAIN r = 1 .. Len(r)
  BY <1>3, <1>4, LenProperties
<1>6. BootType'
  BY <1>0, <1>1, <1>4, BootAssumption DEF BootType
<1>7. Scannable' = Scannable
  BY <1>0 DEF Scannable, Present
<1>8. \A i \in DOMAIN a : a[i] \in Scannable /\ a[i][1] < slot
  BY <1>0, <1>1 DEF Listed
<1>9. ASSUME NEW i \in DOMAIN c
      PROVE  \/ i \in DOMAIN a /\ c[i] = a[i]
             \/ \E k \in DOMAIN r : i = Len(a) + k /\ c[i] = r[k]
  <2>1. CASE i \in 1 .. Len(a)
    BY <1>4, <1>5, <2>1
  <2>2. CASE i \notin 1 .. Len(a)
    <3>1. PICK k : k = i - Len(a)
      BY ZenonT(60)
    <3>2. k \in 1 .. Len(r) /\ i = Len(a) + k
      BY <1>4, <1>5, <2>2, <3>1
    <3> QED BY <1>4, <1>5, <3>2
  <2> QED BY <2>1, <2>2
<1>10. \A i \in DOMAIN a : i \in DOMAIN c /\ c[i] = a[i]
  BY <1>4, <1>5
<1>11. \A k \in DOMAIN r : Len(a) + k \in DOMAIN c /\ c[Len(a) + k] = r[k]
  BY <1>4, <1>5
<1>12. InOrder'
  <2> SUFFICES ASSUME NEW i \in DOMAIN c, NEW j \in DOMAIN c, i < j
               PROVE  Precedes(c[i], c[j])
    BY <1>1 DEF InOrder, Precedes
  <2>1. CASE j \in DOMAIN a
    <3>1. i \in DOMAIN a
      BY <1>4, <1>5, <2>1
    <3> QED BY <1>0, <1>1, <1>10, <2>1, <3>1 DEF InOrder
  <2>2. CASE \E k \in DOMAIN r : j = Len(a) + k /\ c[j] = r[k]
    <3>1. PICK k \in DOMAIN r : j = Len(a) + k /\ c[j] = r[k]
      BY <2>2
    <3>2. CASE i \in DOMAIN a /\ c[i] = a[i]
      BY <1>2, <1>8, <3>1, <3>2 DEF Precedes
    <3>3. CASE \E l \in DOMAIN r : i = Len(a) + l /\ c[i] = r[l]
      <4>1. PICK l \in DOMAIN r : i = Len(a) + l /\ c[i] = r[l]
        BY <3>3
      <4>2. l < k
        BY <1>4, <1>5, <3>1, <4>1
      <4> QED BY <1>2, <3>1, <4>1, <4>2 DEF Precedes
    <3> QED BY <1>9, <3>2, <3>3
  <2> QED BY <1>9, <2>1, <2>2
<1>13. Listed' = {p \in Scannable : p[1] < slot + 1}
  <2>1. Listed' = {c[i] : i \in DOMAIN c}
    BY <1>1 DEF Listed
  <2>2. ASSUME NEW i \in DOMAIN c PROVE c[i] \in Scannable /\ c[i][1] < slot + 1
    <3>1. c[i] \in Scannable /\ (c[i][1] < slot \/ c[i][1] = slot)
      BY <1>2, <1>8, <1>9
    <3>2. c[i][1] \in Nat
      BY <3>1, PlaceParts DEF Scannable
    <3> QED BY <1>0, <3>1, <3>2
  <2>3. ASSUME NEW p \in Scannable, p[1] < slot + 1 PROVE \E i \in DOMAIN c : c[i] = p
    <3>1. p[1] \in Nat
      BY PlaceParts DEF Scannable
    <3>2. CASE p[1] < slot
      <4>1. \E i \in DOMAIN a : a[i] = p
        BY <1>0, <1>1, <3>2 DEF Listed
      <4> QED BY <1>10, <4>1
    <3>3. CASE p[1] = slot
      BY <1>2, <1>11, <3>3
    <3> QED BY <1>0, <2>3, <3>1, <3>2, <3>3
  <2> QED BY <2>1, <2>2, <2>3
<1>14. ScanInv' /\ DeviceInv'
  BY <1>0, <1>7, <1>13 DEF ScanInv, DeviceInv
<1> QED BY <1>6, <1>12, <1>14 DEF ProbeInv

(* The cards are among the devices a scan can see. *)
LEMMA CardsScannable ==
  ASSUME BootType PROVE Cards = {p \in Scannable : config[p] = "rtl8139"}
<1>1. \A p \in Places : config[p] = "rtl8139" => Present(p)
  BY DEF Present
<1> QED BY <1>1 DEF Cards, Scannable

(* The loop over the devices takes the first one. *)
LEMMA TakeDevice ==
  ASSUME BootType, InOrder, devices # << >>, devices' = Tail(devices), NEW d, d = Head(devices)
  PROVE  /\ d \in Places /\ d \in Listed /\ devices' \in Seq(Places)
         /\ Listed' = Listed \ {d}
         /\ \A q \in Listed' : Precedes(d, q)
         /\ InOrder'
<1>0. PICK n \in Nat : Len(devices) = n + 1
  <2>1. Len(devices) \in Nat /\ Len(devices) # 0
    BY LenProperties, EmptySeq DEF BootType
  <2>2. PICK n : n = Len(devices) - 1
    BY ZenonT(60)
  <2> QED BY <2>1, <2>2
<1>1. PICK a, c : a = devices /\ c = devices'
  BY ZenonT(60)
<1>2. /\ a \in Seq(Places) /\ DOMAIN a = 1 .. n + 1 /\ d = a[1]
      /\ c \in Seq(Places) /\ DOMAIN c = 1 .. n /\ \A i \in 1 .. n : c[i] = a[i + 1]
  <2>1. a \in Seq(Places) /\ a # << >> /\ c = Tail(a) /\ d = Head(a) /\ Len(a) = n + 1
    BY <1>0, <1>1 DEF BootType
  <2> QED BY ONLY n \in Nat, <2>1, HeadTailProperties, LenProperties, SMTT(60), Z3T(60)
<1>3. \A i, j \in 1 .. n + 1 : i < j => Precedes(a[i], a[j])
  BY <1>1, <1>2 DEF InOrder
<1>4. ASSUME NEW i \in 1 .. n PROVE Precedes(d, c[i]) /\ d # c[i]
  <2>1. Precedes(a[1], a[i + 1])
    BY <1>3
  <2>2. d[1] \in Nat /\ d[2] \in Nat
    <3>1. 1 \in 1 .. n + 1 /\ n + 1 \in Nat
      OBVIOUS
    <3>2. d \in Places
      BY <1>1, <1>2, <3>1, ElementOfSeq
    <3> QED BY <3>2, PlaceParts
  <2> QED BY <1>2, <2>1, <2>2 DEF Precedes
<1>5. Listed = {a[i] : i \in 1 .. n + 1} /\ Listed' = {c[i] : i \in 1 .. n}
  BY <1>1, <1>2, ZenonT(60) DEF Listed
<1>6. Listed' = Listed \ {d}
  <2>1. ASSUME NEW i \in 1 .. n PROVE c[i] \in Listed \ {d}
    <3>1. i + 1 \in 1 .. n + 1
      OBVIOUS
    <3> QED BY <1>2, <1>4, <1>5, <3>1
  <2>2. ASSUME NEW i \in 1 .. n + 1, a[i] # d PROVE a[i] \in Listed'
    <3>1. PICK j : j = i - 1
      BY ZenonT(60)
    <3>2. j \in 1 .. n /\ j + 1 = i
      BY <1>2, <2>2, <3>1
    <3>3. c[j] = a[i]
      BY <1>2, <3>2
    <3> QED BY <1>5, <3>2, <3>3
  <2> QED BY <1>5, <2>1, <2>2
<1>7. InOrder'
  <2> SUFFICES ASSUME NEW i \in 1 .. n, NEW j \in 1 .. n, i < j PROVE Precedes(c[i], c[j])
    <3>1. InOrder' = (\A i, j \in DOMAIN c : i < j => Precedes(c[i], c[j]))
      BY <1>1 DEF InOrder, Precedes
    <3> QED BY <1>2, <3>1
  <2>1. i + 1 \in 1 .. n + 1 /\ j + 1 \in 1 .. n + 1 /\ i + 1 < j + 1
    OBVIOUS
  <2> QED BY <1>2, <1>3, <2>1
<1>8. d \in Listed /\ d \in Places
  BY <1>2, <1>5
<1>9. \A q \in Listed' : Precedes(d, q)
  BY <1>4, <1>5
<1> QED BY <1>1, <1>2, <1>6, <1>7, <1>8, <1>9

(* When the scan ends, every device that can be seen is listed and none is *)
(* handled.                                                                *)
LEMMA ScanEndKeeps == ProbeInv /\ ScanEnd => ProbeInv'
<1> SUFFICES ASSUME ProbeInv, ScanEnd PROVE ProbeInv'
  OBVIOUS
<1>1. /\ pc = "scan" /\ slot = SLOTS /\ pc' = "devices"
      /\ UNCHANGED <<config, multi, slot, devices, rx_buffer, rbstart, network>>
      /\ BootType /\ InOrder /\ Listed = {p \in Scannable : p[1] < slot} /\ network = None
  BY DEF ProbeInv, ScanInv, ScanEnd, scanVars, cardVars
<1>2. BootType'
  BY <1>1 DEF BootType
<1>3. Scannable' = Scannable /\ Listed' = Listed /\ Cards' = Cards
  BY <1>1 DEF Scannable, Present, Listed, Cards
<1>4. InOrder'
  BY <1>1 DEF InOrder, Precedes
<1>5. \A p \in Scannable : p[1] < SLOTS
  BY PlaceParts, BootAssumption DEF Scannable
<1>6. Listed = Scannable
  BY <1>1, <1>5
<1>7. Cards \ Listed = {}
  BY <1>1, <1>6, CardsScannable
<1>8. DeviceInv'
  BY <1>1, <1>3, <1>6, <1>7 DEF DeviceInv, Handled, Precedes
<1> QED BY <1>1, <1>2, <1>4, <1>8 DEF ProbeInv, ScanInv

(* A device that is not a card leaves NETWORK alone. *)
LEMMA OtherDeviceKeeps == ProbeInv /\ OtherDevice => ProbeInv'
<1> SUFFICES ASSUME ProbeInv, OtherDevice PROVE ProbeInv'
  OBVIOUS
<1>1. /\ pc = "devices" /\ devices # << >> /\ devices' = Tail(devices)
      /\ UNCHANGED <<pc, config, multi, slot, rx_buffer, rbstart, network>>
      /\ BootType /\ InOrder /\ DeviceInv
  BY DEF ProbeInv, OtherDevice, cardVars
<1>2. PICK d : d = Head(devices)
  BY ZenonT(60)
<1>3. config[d] # "rtl8139"
  BY <1>2 DEF OtherDevice
<1>4. /\ d \in Places /\ d \in Listed /\ devices' \in Seq(Places)
      /\ Listed' = Listed \ {d}
      /\ \A q \in Listed' : Precedes(d, q)
      /\ InOrder'
  BY <1>1, <1>2, TakeDevice
<1>5. BootType'
  BY <1>1, <1>4 DEF BootType
<1>6. Scannable' = Scannable /\ Cards' = Cards
  BY <1>1 DEF Scannable, Present, Cards
<1>7. Handled' = Handled
  BY <1>3, <1>4, <1>6 DEF Handled, Cards
<1>8. \A p \in Scannable \ Listed', q \in Listed' : Precedes(p, q)
  BY <1>1, <1>4 DEF DeviceInv
<1>9. Listed' \subseteq Scannable
  BY <1>1, <1>4 DEF DeviceInv
<1>10. DeviceInv'
  BY <1>1, <1>6, <1>7, <1>8, <1>9 DEF DeviceInv, Precedes, Before
<1> QED BY <1>1, <1>4, <1>5, <1>10 DEF ProbeInv, ScanInv

LEMMA NewCardKeeps == ProbeInv /\ NewCard => ProbeInv'
<1> SUFFICES ASSUME ProbeInv, NewCard PROVE ProbeInv'
  OBVIOUS
<1>1. /\ pc = "devices" /\ devices # << >> /\ config[Head(devices)] = "rtl8139" /\ pc' = "reset"
      /\ UNCHANGED <<config, multi, slot, devices, rbstart, network>>
      /\ rx_buffer' \in HeapPages
      /\ BootType /\ InOrder /\ DeviceInv
  BY DEF ProbeInv, NewCard, scanVars
<1>2. BootType'
  BY <1>1 DEF BootType
<1>3. Scannable' = Scannable /\ Cards' = Cards /\ Listed' = Listed /\ Handled' = Handled
  BY <1>1 DEF Scannable, Present, Cards, Listed, Handled
<1>4. InOrder'
  BY <1>1 DEF InOrder, Precedes
<1>5. DeviceInv'
  BY <1>1, <1>3 DEF DeviceInv, Precedes, Before
<1> QED BY <1>1, <1>2, <1>4, <1>5 DEF ProbeInv, ScanInv

(* A card that is ready replaces the one in NETWORK, and is the last so    *)
(* far.                                                                    *)
LEMMA CardReadyKeeps == ProbeInv /\ CardReady => ProbeInv'
<1> SUFFICES ASSUME ProbeInv, CardReady PROVE ProbeInv'
  OBVIOUS
<1>1. /\ pc = "reset" /\ pc' = "devices" /\ devices' = Tail(devices)
      /\ UNCHANGED <<config, multi, slot, rx_buffer>>
      /\ BootType /\ InOrder /\ DeviceInv
      /\ devices # << >> /\ config[Head(devices)] = "rtl8139" /\ rx_buffer \in HeapPages
  BY DEF ProbeInv, CardReady, DeviceInv
<1>2. PICK d : d = Head(devices)
  BY ZenonT(60)
<1>3. config[d] = "rtl8139"
  BY <1>1, <1>2
<1>4. /\ d \in Places /\ d \in Listed /\ devices' \in Seq(Places)
      /\ Listed' = Listed \ {d}
      /\ \A q \in Listed' : Precedes(d, q)
      /\ InOrder'
  BY <1>1, <1>2, TakeDevice
<1>5. PICK v \in Nat : v = virt_to_phys(rx_buffer)
  BY <1>1, BootAssumption, HeapAssumption DEF virt_to_phys, HeapPages
<1>6. network' = d /\ rbstart' = [rbstart EXCEPT ![d] = v]
  BY <1>2, <1>5 DEF CardReady, InNetwork
<1>7. BootType' /\ rbstart'[d] = v
  BY <1>1, <1>4, <1>5, <1>6 DEF BootType
<1>8. Scannable' = Scannable /\ Cards' = Cards
  BY <1>1 DEF Scannable, Present, Cards
<1>9. d \in Cards
  <2>1. d \in Scannable
    BY <1>1, <1>4 DEF DeviceInv
  <2> QED BY <1>1, <1>3, <2>1, CardsScannable
<1>10. Handled' = Handled \cup {d}
  BY <1>4, <1>8, <1>9 DEF Handled
<1>11. \A p \in Scannable \ Listed', q \in Listed' : Precedes(p, q)
  BY <1>1, <1>4 DEF DeviceInv
<1>12. Listed' \subseteq Scannable
  BY <1>1, <1>4 DEF DeviceInv
<1>13. ASSUME NEW c \in Handled' PROVE Before(c, d)
  <2>1. CASE c = d
    BY <1>4, <2>1, PlaceParts DEF Before
  <2>2. CASE c \in Handled
    <3>1. c \in Scannable \ Listed
      BY <1>1, <2>2, CardsScannable DEF Handled
    <3>2. Precedes(c, d)
      BY <1>1, <1>4, <3>1 DEF DeviceInv
    <3>3. c[2] \in Nat /\ d[2] \in Nat
      BY <1>4, <3>1, PlaceParts DEF Scannable
    <3> QED BY <3>2, <3>3 DEF Before, Precedes
  <2> QED BY <1>10, <2>1, <2>2
<1>14. rbstart'[network'] # None /\ network' \in Handled' /\ \A c \in Handled' : Before(c, network')
  BY <1>5, <1>6, <1>7, <1>10, <1>13, HeapAssumption
<1>15. DeviceInv'
  BY <1>1, <1>8, <1>11, <1>12, <1>14 DEF DeviceInv, Precedes, Before
<1> QED BY <1>1, <1>4, <1>7, <1>15 DEF ProbeInv, ScanInv

LEMMA DemoKeeps == ProbeInv /\ Demo => ProbeInv'
<1> SUFFICES ASSUME ProbeInv, Demo PROVE ProbeInv'
  OBVIOUS
<1>1. /\ pc = "devices" /\ devices = << >> /\ pc' = "demo"
      /\ UNCHANGED <<config, multi, slot, devices, rx_buffer, rbstart, network>>
      /\ BootType /\ InOrder /\ DeviceInv
  BY DEF ProbeInv, Demo, scanVars, cardVars
<1>2. BootType'
  BY <1>1 DEF BootType
<1>3. Scannable' = Scannable /\ Cards' = Cards /\ Listed' = Listed /\ Handled' = Handled
  BY <1>1 DEF Scannable, Present, Cards, Listed, Handled
<1>4. InOrder'
  BY <1>1 DEF InOrder, Precedes
<1>5. DeviceInv'
  BY <1>1, <1>3 DEF DeviceInv, Precedes, Before
<1> QED BY <1>1, <1>2, <1>4, <1>5 DEF ProbeInv, ScanInv

(* The heap is made before the buses are scanned. *)
LEMMA HeapKeepsProbe ==
  ProbeInv /\ MemoryStep /\ UNCHANGED <<scanVars, cardVars>> => ProbeInv'
<1> SUFFICES ASSUME ProbeInv, MemoryStep, UNCHANGED <<scanVars, cardVars>> PROVE ProbeInv'
  OBVIOUS
<1>1. /\ pc \in {"page", "table"} /\ pc' \in {"page", "table", "scan", "panic"}
      /\ UNCHANGED <<config, multi, slot, devices, rx_buffer, rbstart, network>>
      /\ BootType /\ InOrder /\ ScanInv
  BY DEF ProbeInv, MemoryStep, AllocatePage, CreateTable, SetEntry, HeapReady, HeapError,
         scanVars, cardVars
<1>2. BootType'
  BY <1>1 DEF BootType
<1>3. Scannable' = Scannable /\ Listed' = Listed
  BY <1>1 DEF Scannable, Present, Listed
<1>4. InOrder'
  BY <1>1 DEF InOrder, Precedes
<1>5. ScanInv'
  BY <1>1, <1>3 DEF ScanInv
<1> QED BY <1>1, <1>2, <1>4, <1>5 DEF ProbeInv, DeviceInv

LEMMA NextProbe == ProbeInv /\ [KernelStep \/ Booted]_bootVars => ProbeInv'
<1> SUFFICES ASSUME ProbeInv, [KernelStep \/ Booted]_bootVars PROVE ProbeInv'
  OBVIOUS
<1>1. CASE UNCHANGED bootVars
  <2>1. UNCHANGED <<pc, config, multi, slot, devices, rx_buffer, rbstart, network>>
    BY <1>1 DEF bootVars, scanVars, cardVars
  <2>2. Scannable' = Scannable /\ Cards' = Cards /\ Listed' = Listed /\ Handled' = Handled
    BY <2>1 DEF Scannable, Present, Cards, Listed, Handled
  <2>3. BootType' /\ InOrder'
    BY <2>1 DEF ProbeInv, BootType, InOrder, Precedes
  <2>4. ScanInv' /\ DeviceInv'
    BY <2>1, <2>2 DEF ProbeInv, ScanInv, DeviceInv, Precedes, Before
  <2> QED BY <2>3, <2>4 DEF ProbeInv
<1>2. CASE Booted
  BY <1>1, <1>2 DEF Booted
<1> QED BY <1>1, <1>2, HeapKeepsProbe, ScanSlotKeeps, ScanEndKeeps, OtherDeviceKeeps,
           NewCardKeeps, CardReadyKeeps, DemoKeeps DEF KernelStep

(* The boot state keeps its types. *)
THEOREM BootTyped == BootSpec => []BootTypeOK
<1>1. ProbeInv /\ MemoryInv => BootTypeOK
  BY DEF ProbeInv, BootType, MemoryInv, BootTypeOK
<1> QED BY <1>1, InitProbe, NextProbe, MemoryInvariant, PTL DEF BootSpec

(* Whatever devices the buses hold, the scan lists each one that can be    *)
(* seen, once and in order, and after the loop over the list NETWORK holds *)
(* the last card, set up, or is empty when there is none.                  *)
THEOREM LastCardInNetwork == BootSpec => []CardInNetwork
<1>1. ProbeInv => CardInNetwork
  <2> SUFFICES ASSUME ProbeInv, pc = "demo"
               PROVE  IF Cards = {} THEN network = None
                      ELSE /\ network \in Cards
                           /\ \A c \in Cards : Before(c, network)
                           /\ rbstart[network] # None
    BY DEF CardInNetwork
  <2>1. Listed = {}
    <3>1. devices = << >>
      BY DEF ProbeInv, DeviceInv
    <3> QED BY <3>1 DEF Listed
  <2>2. Handled = Cards
    BY <2>1 DEF Handled
  <2> QED BY <2>2 DEF ProbeInv, DeviceInv
<1> QED BY <1>1, InitProbe, NextProbe, PTL DEF BootSpec
=============================================================================
