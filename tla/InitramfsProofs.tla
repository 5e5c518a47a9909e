--------------------------- MODULE InitramfsProofs ---------------------------
(***************************************************************************)
(* Proofs about the loader and the file system: the types, that the files  *)
(* implement the map of FileMap, and that init mounts the archive.         *)
(***************************************************************************)
EXTENDS Initramfs, SequenceLemmas

(* A leaf gets a minute, and a second try, so that a slow machine checks it too. *)
USE SMTT(60), Z3T(60), ZenonT(60), SMTT(90), Z3T(90)

(* SelectAt looks only at the places it keeps. *)
LEMMA SelectSame ==
  ASSUME NEW s, NEW t, NEW K, NEW L, DOMAIN s = DOMAIN t,
         \A i \in DOMAIN s : (i \in K <=> i \in L) /\ (i \in K => s[i] = t[i])
  PROVE  SelectAt(s, K) = SelectAt(t, L)
<1>1. PICK a : a = [i \in DOMAIN s |-> IF i \in K THEN <<s[i]>> ELSE << >>]
  BY ZenonT(60)
<1>2. PICK b : b = [i \in DOMAIN t |-> IF i \in L THEN <<t[i]>> ELSE << >>]
  BY ZenonT(60)
<1>3. a = b
  BY <1>1, <1>2
<1> QED BY <1>1, <1>2, <1>3 DEF SelectAt

(* It keeps all of a sequence of whose places it keeps all. *)
LEMMA SelectAll ==
  ASSUME NEW S, NEW K
  PROVE  \A s \in Seq(S) : DOMAIN s \subseteq K => SelectAt(s, K) = s
<1> DEFINE T == {s \in Seq(S) : DOMAIN s \subseteq K => SelectAt(s, K) = s}
<1>1. << >> \in T
  BY SelectEmpty, EmptySeq
<1>2. ASSUME NEW s \in Seq(S), NEW e \in S, s \in T PROVE Append(s, e) \in T
  <2>1. PICK n, t : n \in Nat /\ n = Len(s) /\ t = Append(s, e)
    BY LenProperties, ZenonT(60)
  <2> n \in Nat
    BY <2>1
  <2>2. t \in Seq(S) /\ DOMAIN t = 1 .. n + 1 /\ DOMAIN s = 1 .. n
    BY <2>1, AppendProperties, LenProperties
  <2>3. ASSUME DOMAIN t \subseteq K PROVE SelectAt(t, K) = t
    <3>1. n + 1 \in K /\ DOMAIN s \subseteq K
      BY <2>2, <2>3
    <3>2. SelectAt(t, K) = SelectAt(s, K) \o <<e>>
      BY <2>1, <3>1, SelectAppend
    <3>3. SelectAt(s, K) = s
      BY <1>2, <3>1
    <3>4. s \o <<e>> = Append(s, e)
      OBVIOUS
    <3> QED BY <2>1, <3>2, <3>3, <3>4
  <2> QED BY <2>1, <2>2, <2>3
<1>3. Seq(S) \subseteq T
  <2> HIDE DEF T
  <2> QED BY <1>1, <1>2, SeqInduction
<1> QED BY <1>3

(* Nothing is kept of what follows the first k elements, if no place there *)
(* is one to keep.                                                         *)
LEMMA SelectRest ==
  ASSUME NEW S, NEW s \in Seq(S), NEW K, NEW k \in Nat, k <= Len(s),
         \A i \in K : i \in Nat => i <= k
  PROVE  SelectAt(s, K) = SelectAt(Upto(s, k), K)
<1>1. PICK n \in Nat : n = Len(s)
  BY LenProperties
<1> DEFINE T == {m \in Nat : k <= m /\ m <= n => SelectAt(Upto(s, m), K) = SelectAt(Upto(s, k), K)}
<1>2. 0 \in T
  BY <1>1
<1>3. ASSUME NEW m \in Nat, m \in T PROVE m + 1 \in T
  <2> SUFFICES ASSUME k <= m + 1, m + 1 <= n
               PROVE  SelectAt(Upto(s, m + 1), K) = SelectAt(Upto(s, k), K)
    OBVIOUS
  <2>1. CASE k = m + 1
    BY <2>1
  <2>2. CASE k # m + 1
    <3>1. k <= m /\ m <= n /\ m < n
      BY <2>2
    <3>2. PICK r, e : r = Upto(s, m) /\ e = s[m + 1]
      BY ZenonT(60)
    <3>3. r \in Seq(S) /\ Len(r) = m /\ e \in S /\ Upto(s, m + 1) = Append(r, e)
      BY <1>1, <3>1, <3>2, UptoStep, ElementOfSeq
    <3>4. Len(r) + 1 \notin K
      BY <3>1, <3>3
    <3>5. SelectAt(Append(r, e), K) = SelectAt(r, K) \o << >>
      BY <3>3, <3>4, SelectAppend, ZenonT(60)
    <3>6. SelectAt(r, K) \o << >> = SelectAt(r, K)
      BY <3>3, SelectType, ConcatEmptySeq
    <3>7. SelectAt(r, K) = SelectAt(Upto(s, k), K)
      BY <1>3, <3>1, <3>2
    <3> QED BY <3>3, <3>5, <3>6, <3>7, ZenonT(60)
  <2> QED BY <2>1, <2>2
<1>4. Nat \subseteq T
  <2> HIDE DEF T
  <2> QED BY <1>2, <1>3, SetInduction
<1>5. n \in T /\ Upto(s, n) = s
  BY <1>1, <1>4, UptoStep
<1> QED BY <1>1, <1>5

(* The elements of s that are in P. *)
Those(s, P) == SelectAt(s, {i \in DOMAIN s : s[i] \in P})

(* One element more, which has the property or not. *)
LEMMA ThoseAppend ==
  ASSUME NEW S, NEW s \in Seq(S), NEW e \in S, NEW P
  PROVE  Those(Append(s, e), P) = Those(s, P) \o (IF e \in P THEN <<e>> ELSE << >>)
<1>1. PICK n, t : n \in Nat /\ n = Len(s) /\ t = Append(s, e)
  BY LenProperties, ZenonT(60)
<1> n \in Nat
  BY <1>1
<1>2. /\ t \in Seq(S) /\ DOMAIN t = 1 .. n + 1 /\ DOMAIN s = 1 .. n /\ t[n + 1] = e
      /\ \A i \in 1 .. n : t[i] = s[i]
  BY <1>1, AppendProperties, LenProperties
<1>3. PICK K : K = {i \in DOMAIN t : t[i] \in P}
  BY ZenonT(60)
<1>4. SelectAt(t, K) = SelectAt(s, K) \o (IF n + 1 \in K THEN <<e>> ELSE << >>)
  BY <1>1, SelectAppend
<1>5. n + 1 \in K <=> e \in P
  BY <1>2, <1>3
<1>6. SelectAt(s, K) = Those(s, P)
  <2>1. PICK L : L = {i \in DOMAIN s : s[i] \in P}
    BY ZenonT(60)
  <2>2. \A i \in DOMAIN s : i \in K <=> i \in L
    BY <1>2, <1>3, <2>1
  <2>3. SelectAt(s, K) = SelectAt(s, L)
    BY <2>2, SelectSame
  <2> QED BY <2>1, <2>3 DEF Those
<1>7. SelectAt(t, K) = Those(t, P)
  BY <1>3 DEF Those
<1> QED BY <1>1, <1>4, <1>5, <1>6, <1>7

(* Those in P are left when only others are removed. *)
LEMMA ThoseSelected ==
  ASSUME NEW S, NEW P, NEW K
  PROVE  \A s \in Seq(S) : (\A i \in DOMAIN s : s[i] \in P => i \in K) =>
           Those(SelectAt(s, K), P) = Those(s, P)
<1> DEFINE T == {s \in Seq(S) : (\A i \in DOMAIN s : s[i] \in P => i \in K) =>
                                  Those(SelectAt(s, K), P) = Those(s, P)}
<1>1. << >> \in T
  BY SelectEmpty, EmptySeq
<1>2. ASSUME NEW s \in Seq(S), NEW e \in S, s \in T PROVE Append(s, e) \in T
  <2>1. PICK n, t : n \in Nat /\ n = Len(s) /\ t = Append(s, e)
    BY LenProperties, ZenonT(60)
  <2> n \in Nat
    BY <2>1
  <2>2. /\ t \in Seq(S) /\ DOMAIN t = 1 .. n + 1 /\ DOMAIN s = 1 .. n /\ t[n + 1] = e
        /\ \A i \in 1 .. n : t[i] = s[i]
    BY <2>1, AppendProperties, LenProperties
  <2>3. ASSUME \A i \in DOMAIN t : t[i] \in P => i \in K
        PROVE  Those(SelectAt(t, K), P) = Those(t, P)
    <3>1. PICK r \in Seq(S) : r = SelectAt(s, K)
      BY SelectType
    <3>2. Those(r, P) = Those(s, P) /\ (e \in P => n + 1 \in K)
      BY <1>2, <2>2, <2>3, <3>1
    <3>3. Those(t, P) = Those(s, P) \o (IF e \in P THEN <<e>> ELSE << >>)
      BY <2>1, ThoseAppend
    <3>4. CASE n + 1 \in K
      <4>1. SelectAt(t, K) = r \o <<e>>
        BY <2>1, <3>1, <3>4, SelectAppend
      <4>2. r \o <<e>> = Append(r, e)
        OBVIOUS
      <4>3. Those(Append(r, e), P) = Those(r, P) \o (IF e \in P THEN <<e>> ELSE << >>)
        BY ThoseAppend
      <4> QED BY <3>2, <3>3, <4>1, <4>2, <4>3, ZenonT(60)
    <3>5. CASE n + 1 \notin K
      <4>1. SelectAt(t, K) = r \o << >>
        BY <2>1, <3>1, <3>5, SelectAppend, ZenonT(60)
      <4>2. r \o << >> = r
        BY ConcatEmptySeq
      <4>3. Those(t, P) = Those(s, P) \o << >>
        BY <3>2, <3>3, <3>5, ZenonT(60)
      <4>4. Those(s, P) \o << >> = Those(s, P)
        BY SelectType, ConcatEmptySeq DEF Those
      <4> QED BY <3>2, <4>1, <4>2, <4>3, <4>4
    <3> QED BY <3>4, <3>5
  <2> QED BY <2>1, <2>2, <2>3, ZenonT(60)
<1>3. Seq(S) \subseteq T
  <2> HIDE DEF T
  <2> QED BY <1>1, <1>2, SeqInduction
<1> QED BY <1>3

(* k is the place of the first file named n. *)
First(fs, n, k) ==
  /\ k \in DOMAIN fs /\ fs[k].name = n
  /\ \A j \in 1 .. k - 1 : fs[j].name # n

(* A name that some file has is that of a first file. *)
LEMMA FirstExists ==
  ASSUME NEW S, NEW fs \in Seq(S), NEW n, NEW i \in DOMAIN fs, fs[i].name = n
  PROVE  \E k : First(fs, n, k)
<1> DEFINE T == {j \in DOMAIN fs : fs[j].name = n}
<1>1. T \in SUBSET Nat /\ i \in T /\ DOMAIN fs = 1 .. Len(fs) /\ Len(fs) \in Nat
  BY LenProperties
<1>2. PICK k \in T : \A j \in T : k <= j
  <2> HIDE DEF T
  <2> QED BY <1>1, LeastNumber
<1>3. ASSUME NEW j \in 1 .. k - 1 PROVE fs[j].name # n
  <2>1. j \in DOMAIN fs /\ ~(k <= j)
    BY <1>1
  <2> QED BY <1>2, <2>1
<1> QED BY <1>2, <1>3 DEF First

(* The first file of a name is the one open_file finds. *)
LEMMA FirstChosen ==
  ASSUME NEW S, NEW fs \in Seq(S), NEW n, NEW k, First(fs, n, k)
  PROVE  /\ \E i \in DOMAIN fs : fs[i].name = n
         /\ k = CHOOSE i \in DOMAIN fs : /\ fs[i].name = n
                                         /\ \A j \in 1 .. i - 1 : fs[j].name # n
<1>1. DOMAIN fs = 1 .. Len(fs) /\ Len(fs) \in Nat
  BY LenProperties
<1>2. ASSUME NEW i \in DOMAIN fs, fs[i].name = n, \A j \in 1 .. i - 1 : fs[j].name # n
      PROVE  i = k
  BY <1>1, <1>2 DEF First
<1> QED BY <1>2 DEF First

(* open_file gives the data of the first file of a name. *)
LEMMA OpenFirst ==
  ASSUME NEW S, NEW n, NEW k
  PROVE  /\ files \in Seq(S) /\ First(files, n, k) => open_file(n) = files[k].data
         /\ files' \in Seq(S) /\ First(files', n, k) => open_file(n)' = files'[k].data
<1>1. ASSUME files \in Seq(S), First(files, n, k) PROVE open_file(n) = files[k].data
  <2>1. Exists(n) /\ k = FirstIndex(n)
    BY <1>1, FirstChosen DEF Exists, FirstIndex
  <2> QED BY <2>1 DEF open_file
<1>2. ASSUME files' \in Seq(S), First(files', n, k) PROVE open_file(n)' = files'[k].data
  <2>1. Exists(n)' /\ k = FirstIndex(n)'
    BY <1>2, FirstChosen DEF Exists, FirstIndex
  <2> QED BY <2>1 DEF open_file
<1> QED BY <1>1, <1>2

-----------------------------------------------------------------------------
(* The blocks the archive is made of. *)
Block == [null : BOOLEAN, name : EntryNames \cup {NotUtf8}, size : Sizes \cup {0},
          regular : BOOLEAN]

LEMMA BlockSize ==
  ASSUME NEW b \in Block PROVE b.size \in Nat /\ b.size \in Sizes \cup {0}
<1>1. b.size \in Sizes \cup {0}
  BY DEF Block
<1>2. Sizes \subseteq Nat /\ 0 \in Nat
  BY InitramfsAssumption
<1> QED BY <1>1, <1>2, ZenonT(60)

(* The blocks of every entry. *)
BlocksOf(es) == [i \in DOMAIN es |-> EntryBlocks(es[i])]

(* x is a whole number of blocks. *)
LEMMA WholeBlocks ==
  ASSUME NEW q \in Nat
  PROVE  /\ BLOCK * q \in Nat /\ (BLOCK * q) % BLOCK = 0 /\ (BLOCK * q) \div BLOCK = q
         /\ q * BLOCK = BLOCK * q
BY InitramfsAssumption

(* Aligned sizes are whole blocks. *)
LEMMA AlignBlocks ==
  ASSUME NEW size \in Nat
  PROVE  /\ Align(size) \div BLOCK \in Nat
         /\ Align(size) = BLOCK * (Align(size) \div BLOCK)
         /\ size <= Align(size)
         /\ size = 0 => Align(size) = 0
<1>1. PICK q : q = (size + BLOCK - 1) \div BLOCK
  BY ZenonT(60)
<1>2. q \in Nat /\ size <= BLOCK * q /\ (size = 0 => q = 0)
  BY <1>1, InitramfsAssumption
<1>3. Align(size) = q * BLOCK
  BY <1>1 DEF Align
<1>4. Align(size) = BLOCK * q /\ Align(size) \div BLOCK = q
  BY <1>2, <1>3, WholeBlocks
<1>5. q = 0 => BLOCK * q = 0
  BY InitramfsAssumption
<1> QED BY <1>2, <1>4, <1>5

LEMMA EntryType ==
  ASSUME NEW e \in Entry
  PROVE  /\ e.name \in EntryNames /\ e.size \in Sizes /\ e.regular \in BOOLEAN
         /\ e.data \in [1 .. Align(e.size) \div BLOCK -> Bodies]
<1>1. PICK size \in Sizes : e \in [name : EntryNames, size : {size}, regular : BOOLEAN,
                                  data : [1 .. Align(size) \div BLOCK -> Bodies]]
  BY DEF Entry
<1>2. e.size = size
  BY <1>1
<1> QED BY <1>1, <1>2

LEMMA EntrySize == ASSUME NEW e \in Entry PROVE e.size \in Nat
<1>1. e.size \in Sizes /\ Sizes \subseteq Nat
  BY EntryType, InitramfsAssumption
<1> QED BY <1>1, ZenonT(60)

(* An entry is its header and the blocks of its data. *)
LEMMA EntryBlocksType ==
  ASSUME NEW e \in Entry
  PROVE  /\ EntryBlocks(e) \in Seq(Block)
         /\ EntryBlocks(e)[1] = HeaderBlock(e)
         /\ Len(EntryBlocks(e)) = 1 + Align(e.size) \div BLOCK
<1>1. e.size \in Nat /\ Align(e.size) \div BLOCK \in Nat
  BY EntrySize, AlignBlocks, ZenonT(60)
<1>2. PICK m \in Nat : m = Align(e.size) \div BLOCK
  BY <1>1
<1>3. HeaderBlock(e) \in Block /\ Bodies \subseteq Block
  BY EntryType, InitramfsAssumption DEF HeaderBlock, Block
<1>4. PICK b : b = e.data
  BY ZenonT(60)
<1>5. b \in Seq(Block) /\ Len(b) = m
  <2>1. b \in [1 .. m -> Bodies]
    BY <1>2, <1>4, EntryType
  <2>2. b \in [1 .. m -> Block]
    BY <1>3, <2>1
  <2> QED BY <2>2
<1>6. PICK a : a = <<HeaderBlock(e)>>
  BY ZenonT(60)
<1>7. a \in Seq(Block) /\ Len(a) = 1 /\ a[1] = HeaderBlock(e)
  BY <1>3, <1>6
<1>8. PICK c : c = a \o b
  BY ZenonT(60)
<1>9. c \in Seq(Block) /\ Len(c) = 1 + m /\ c[1] = HeaderBlock(e)
  <2>1. b \in Seq(Block) /\ Len(b) = m
    BY <1>5
  <2>2. c \in Seq(Block) /\ Len(c) = Len(a) + Len(b) /\ \A i \in 1 .. Len(a) : c[i] = a[i]
    <3>1. a \in Seq(Block) /\ b \in Seq(Block) /\ c = a \o b
      BY <1>7, <1>8, <2>1
    <3> QED BY ONLY <3>1, ConcatParts, SMTT(60), Z3T(60)
  <2> QED BY <1>7, <2>1, <2>2
<1>10. c = EntryBlocks(e)
  BY <1>4, <1>6, <1>8 DEF EntryBlocks
<1> QED BY <1>2, <1>9, <1>10

LEMMA BlocksType ==
  ASSUME NEW es \in Seq(Entry)
  PROVE  /\ BlocksOf(es) \in Seq(Seq(Block)) /\ Len(BlocksOf(es)) = Len(es)
         /\ Flatten(BlocksOf(es)) \in Seq(Block)
<1>1. DOMAIN es = 1 .. Len(es) /\ Len(es) \in Nat /\ \A i \in 1 .. Len(es) : es[i] \in Entry
  BY LenProperties, ElementOfSeq
<1>2. \A i \in 1 .. Len(es) : EntryBlocks(es[i]) \in Seq(Block)
  BY <1>1, EntryBlocksType
<1>3. BlocksOf(es) \in Seq(Seq(Block)) /\ Len(BlocksOf(es)) = Len(es)
  BY <1>1, <1>2 DEF BlocksOf
<1> QED BY <1>3, FlattenType

-----------------------------------------------------------------------------
(* The loader's part of the state. *)
LoaderInv ==
  /\ entries \in Seq(Entry) /\ count \in Nat /\ mounting \in BOOLEAN
  /\ len \in Nat /\ len <= BLOCK * Len(Blocks) /\ len <= MaxArchive
  /\ \E q \in Nat : offset = BLOCK * q

(* No two files share a name, unless both are read-only. *)
Unshared(fs) ==
  \A i, j \in DOMAIN fs : ~fs[i].read_only /\ fs[i].name = fs[j].name => i = j

(* The files: while the loader runs there are only system files, and the   *)
(* name of an agent's file is never that of another file.                  *)
FilesInv ==
  /\ files \in Seq(VirtualFile)
  /\ mounting => \A i \in DOMAIN files : files[i].read_only
  /\ Unshared(files)

(* The archive is the blocks of its entries and a null block. *)
LEMMA BlocksAre ==
  ASSUME entries \in Seq(Entry)
  PROVE  /\ Blocks \in Seq(Block)
         /\ Len(Blocks) = Len(Flatten(BlocksOf(entries))) + 1
         /\ Blocks[Len(Blocks)] = NullBlock
         /\ \A i \in 1 .. Len(Flatten(BlocksOf(entries))) :
              Blocks[i] = Flatten(BlocksOf(entries))[i]
<1>1. PICK a : a = Flatten(BlocksOf(entries))
  BY ZenonT(60)
<1>2. PICK b : b = <<NullBlock>>
  BY ZenonT(60)
<1>3. PICK c : c = Blocks
  BY ZenonT(60)
<1>4. a \in Seq(Block)
  BY <1>1, BlocksType
<1>5. b \in Seq(Block) /\ Len(b) = 1 /\ b[1] = NullBlock
  BY <1>2 DEF NullBlock, Block
<1>6. c = a \o b
  BY <1>1, <1>2, <1>3 DEF Blocks, BlocksOf
<1>7. /\ c \in Seq(Block) /\ Len(a) \in Nat /\ Len(b) \in Nat /\ Len(c) = Len(a) + Len(b)
      /\ \A i \in 1 .. Len(a) : c[i] = a[i]
      /\ \A i \in 1 .. Len(b) : c[Len(a) + i] = b[i]
  <2>1. a \in Seq(Block) /\ b \in Seq(Block) /\ c = a \o b
    BY <1>4, <1>5, <1>6
  <2> QED BY ONLY <2>1, ConcatParts, SMTT(60), Z3T(60)
<1>8. Len(c) = Len(a) + 1 /\ c[Len(c)] = NullBlock
  BY <1>5, <1>7
<1> QED BY <1>1, <1>3, <1>7, <1>8

(* The loader reads a block of the archive. *)
LEMMA HeaderIs ==
  ASSUME LoaderInv, offset + BLOCK <= len
  PROVE  Header \in Block
<1>1. PICK q \in Nat : offset = BLOCK * q
  BY DEF LoaderInv
<1>2. Blocks \in Seq(Block) /\ Len(Blocks) \in Nat
  BY BlocksAre, LenProperties DEF LoaderInv
<1>3. BLOCK * q + BLOCK <= BLOCK * Len(Blocks)
  BY <1>1, <1>2, InitramfsAssumption DEF LoaderInv
<1>4. q + 1 <= Len(Blocks)
  BY <1>2, <1>3, InitramfsAssumption
<1>5. offset \div BLOCK = q
  BY <1>1, WholeBlocks
<1> QED BY <1>2, <1>4, <1>5, ElementOfSeq DEF Header

(* The offset moves on by whole blocks. *)
LEMMA OffsetMoves ==
  ASSUME LoaderInv, NEW size \in Nat
  PROVE  /\ \E q \in Nat : offset + BLOCK = BLOCK * q
         /\ \E q \in Nat : offset + BLOCK + Align(size) = BLOCK * q
<1>1. PICK q \in Nat : offset = BLOCK * q
  BY DEF LoaderInv
<1>2. PICK m \in Nat : Align(size) = BLOCK * m
  BY AlignBlocks
<1>3. offset + BLOCK = BLOCK * (q + 1)
  BY <1>1, InitramfsAssumption
<1>4. offset + BLOCK + Align(size) = BLOCK * (q + 1 + m)
  BY <1>1, <1>2, InitramfsAssumption
<1>5. q + 1 \in Nat /\ q + 1 + m \in Nat
  OBVIOUS
<1> QED BY <1>3, <1>4, <1>5

LEMMA LoaderInit ==
  ASSUME InitramfsInit PROVE LoaderInv /\ FilesInv
<1>1. entries \in Seq(Entry)
  BY DEF InitramfsInit, SequencesUpTo
<1>2. Len(Blocks) \in Nat
  BY <1>1, BlocksAre, LenProperties
<1>3. BLOCK * Len(Blocks) \in Nat
  BY <1>2, InitramfsAssumption
<1>4. len \in Nat /\ len <= BLOCK * Len(Blocks) /\ len <= MaxArchive
  BY <1>3, InitramfsAssumption DEF InitramfsInit
<1>5. offset = BLOCK * 0
  BY InitramfsAssumption DEF InitramfsInit
<1>6. FilesInv
  BY EmptySeq DEF InitramfsInit, VfsInit, FilesInv, Unshared
<1> QED BY <1>1, <1>4, <1>5, <1>6 DEF LoaderInv, InitramfsInit

LEMMA LoaderNext ==
  ASSUME LoaderInv, [InitramfsNext]_initramfsVars
  PROVE  LoaderInv'
<1>1. CASE UNCHANGED archiveVars
  BY <1>1 DEF LoaderInv, archiveVars, Blocks
<1>2. CASE MountStep
  <2>1. UNCHANGED <<entries, len>> /\ mounting' \in BOOLEAN
    BY <1>2, ZenonT(60) DEF MountStep, Finish, SkipInvalidName, MountRegular, Truncated, SkipOther, LoaderInv
  <2>2. count' \in Nat
    <3>1. count' = count \/ count' = count + 1
      BY <1>2, ZenonT(60) DEF MountStep, Finish, SkipInvalidName, MountRegular, Truncated, SkipOther
    <3> QED BY <3>1 DEF LoaderInv
  <2>3. Blocks' = Blocks
    BY <2>1 DEF Blocks
  <2>4. \E q \in Nat : offset' = BLOCK * q
    <3>1. CASE offset' = offset
      BY <3>1 DEF LoaderInv
    <3>2. CASE offset' = offset + BLOCK
      BY <3>2, OffsetMoves
    <3>3. CASE ~AtEnd /\ offset' = offset + BLOCK + SkipSize(Header)
      <4>1. offset + BLOCK <= len
        BY <3>3, InitramfsAssumption, WholeBlocks DEF AtEnd, LoaderInv
      <4>2. Header.size \in Nat
        <5>1. Header \in Block
          BY <4>1, HeaderIs
        <5> QED BY <5>1, BlockSize
      <4> QED BY <3>3, <4>2, OffsetMoves DEF SkipSize
    <3> QED BY <1>2, <3>1, <3>2, <3>3, ZenonT(60)
            DEF MountStep, Finish, SkipInvalidName, MountRegular, Truncated, SkipOther
  <2> QED BY <2>1, <2>2, <2>3, <2>4 DEF LoaderInv
<1> QED BY <1>1, <1>2 DEF InitramfsNext, AgentWrite, Delete, initramfsVars, archiveVars

-----------------------------------------------------------------------------
(* What appending a file does to the lookup of a name. *)
LEMMA FirstKept ==
  ASSUME NEW S, NEW fs \in Seq(S), NEW f \in S, NEW m, NEW k, First(fs, m, k)
  PROVE  First(Append(fs, f), m, k) /\ Append(fs, f)[k] = fs[k]
<1>1. PICK n, gs : n \in Nat /\ n = Len(fs) /\ gs = Append(fs, f)
  BY LenProperties, ZenonT(60)
<1> n \in Nat
  BY <1>1
<1>2. /\ DOMAIN gs = 1 .. n + 1 /\ DOMAIN fs = 1 .. n
      /\ \A i \in 1 .. n : gs[i] = fs[i]
  BY <1>1, AppendProperties, LenProperties
<1>3. First(gs, m, k) /\ gs[k] = fs[k]
  BY <1>2 DEF First
<1> QED BY <1>1, <1>3

(* A file that is appended with a new name is the first of its name. *)
LEMMA FirstNew ==
  ASSUME NEW S, NEW fs \in Seq(S), NEW f \in S, \A i \in DOMAIN fs : fs[i].name # f.name
  PROVE  First(Append(fs, f), f.name, Len(fs) + 1) /\ Append(fs, f)[Len(fs) + 1] = f
<1>1. PICK n, gs : n \in Nat /\ n = Len(fs) /\ gs = Append(fs, f)
  BY LenProperties, ZenonT(60)
<1> n \in Nat
  BY <1>1
<1>2. /\ DOMAIN gs = 1 .. n + 1 /\ DOMAIN fs = 1 .. n /\ gs[n + 1] = f
      /\ \A i \in 1 .. n : gs[i] = fs[i]
  BY <1>1, AppendProperties, LenProperties
<1>3. First(gs, f.name, n + 1) /\ gs[n + 1] = f
  BY <1>2 DEF First
<1> QED BY <1>1, <1>3

(* An appended file adds no other name. *)
LEMMA NoneNew ==
  ASSUME NEW S, NEW fs \in Seq(S), NEW f \in S, NEW m,
         \A i \in DOMAIN fs : fs[i].name # m, f.name # m
  PROVE  \A i \in DOMAIN Append(fs, f) : Append(fs, f)[i].name # m
<1>1. PICK n, gs : n \in Nat /\ n = Len(fs) /\ gs = Append(fs, f)
  BY LenProperties, ZenonT(60)
<1> n \in Nat
  BY <1>1
<1>2. /\ DOMAIN gs = 1 .. n + 1 /\ DOMAIN fs = 1 .. n /\ gs[n + 1] = f
      /\ \A i \in 1 .. n : gs[i] = fs[i]
  BY <1>1, AppendProperties, LenProperties
<1>3. \A i \in DOMAIN gs : gs[i].name # m
  BY <1>2
<1> QED BY <1>1, <1>3

(* The content of a name stays what it is when the first file of that name *)
(* keeps its data, and when there is none before and after.                *)
LEMMA OpenSame ==
  ASSUME NEW S, files \in Seq(S), files' \in Seq(S), NEW m,
         \/ \E k, l : First(files, m, k) /\ First(files', m, l) /\ files'[l] = files[k]
         \/ /\ \A i \in DOMAIN files : files[i].name # m
            /\ \A i \in DOMAIN files' : files'[i].name # m
  PROVE  open_file(m)' = open_file(m)
<1>1. CASE \E k, l : First(files, m, k) /\ First(files', m, l) /\ files'[l] = files[k]
  <2>1. PICK k, l : First(files, m, k) /\ First(files', m, l) /\ files'[l] = files[k]
    BY <1>1, ZenonT(60)
  <2> QED BY <2>1, OpenFirst, ZenonT(60)
<1>2. CASE /\ \A i \in DOMAIN files : files[i].name # m
           /\ \A i \in DOMAIN files' : files'[i].name # m
  BY <1>2 DEF open_file, Exists
<1> QED BY <1>1, <1>2

(* Appending a file changes the content of its name, if it had none. *)
LEMMA OpenAppended ==
  ASSUME NEW S, files \in Seq(S), NEW f \in S, files' = Append(files, f), NEW m
  PROVE  /\ Exists(m) \/ f.name # m => open_file(m)' = open_file(m)
         /\ ~Exists(m) => open_file(m) = NoFile
         /\ ~Exists(m) /\ f.name = m => open_file(m)' = f.data
<1>1. files' \in Seq(S)
  BY AppendProperties
<1>2. CASE Exists(m)
  <2>1. PICK k : First(files, m, k)
    BY <1>2, FirstExists DEF Exists
  <2>2. First(files', m, k) /\ files'[k] = files[k]
    BY <2>1, FirstKept, ZenonT(60)
  <2>3. open_file(m)' = open_file(m)
    BY <1>1, <2>1, <2>2, OpenSame, ZenonT(60)
  <2> QED BY <1>2, <2>3
<1>3. CASE ~Exists(m)
  <2>1. \A i \in DOMAIN files : files[i].name # m
    BY <1>3 DEF Exists
  <2>2. open_file(m) = NoFile
    BY <1>3 DEF open_file
  <2>3. ASSUME f.name # m PROVE open_file(m)' = open_file(m)
    <3>1. \A i \in DOMAIN files' : files'[i].name # m
      BY <2>1, <2>3, NoneNew
    <3> QED BY <1>1, <2>1, <3>1, OpenSame
  <2>4. ASSUME f.name = m PROVE open_file(m)' = f.data
    <3>1. First(Append(files, f), m, Len(files) + 1) /\ Append(files, f)[Len(files) + 1] = f
      BY <2>1, <2>4, FirstNew
    <3>2. PICK k : First(files', m, k) /\ files'[k] = f
      BY <3>1
    <3> QED BY <1>1, <3>2, OpenFirst, ZenonT(60)
  <2> QED BY <1>3, <2>2, <2>3, <2>4
<1> QED BY <1>2, <1>3

(* What open_file shows of every name, and how it changes in one. *)
Content == [m \in FileNames |-> open_file(m)]

LEMMA ContentBecomes ==
  ASSUME NEW n \in FileNames, NEW d, open_file(n)' = d,
         \A m \in FileNames : m # n => open_file(m)' = open_file(m)
  PROVE  Content' = [Content EXCEPT ![n] = d]
<1>1. PICK c, g : c = Content /\ g = Content'
  BY ZenonT(60)
<1>2. /\ c = [m \in FileNames |-> c[m]] /\ g = [m \in FileNames |-> g[m]]
      /\ g[n] = d /\ \A m \in FileNames : m # n => g[m] = c[m]
  BY <1>1, ZenonT(60) DEF Content
<1>3. g = [c EXCEPT ![n] = d]
  BY <1>2
<1> QED BY <1>1, <1>3

LEMMA ContentSame ==
  ASSUME \A m \in FileNames : open_file(m)' = open_file(m)
  PROVE  Content' = Content
BY ZenonT(60) DEF Content

(* The names of the system files. *)
SystemNames(fs) == {fs[i].name : i \in {j \in DOMAIN fs : fs[j].read_only}}

LEMMA SystemNamesAppend ==
  ASSUME NEW S, NEW fs \in Seq(S), NEW f \in S
  PROVE  SystemNames(Append(fs, f)) =
           SystemNames(fs) \cup (IF f.read_only THEN {f.name} ELSE {})
<1>1. PICK n, gs : n \in Nat /\ n = Len(fs) /\ gs = Append(fs, f)
  BY LenProperties, ZenonT(60)
<1> n \in Nat
  BY <1>1
<1>2. /\ DOMAIN gs = 1 .. n + 1 /\ DOMAIN fs = 1 .. n /\ gs[n + 1] = f
      /\ \A i \in 1 .. n : gs[i] = fs[i]
  BY <1>1, AppendProperties, LenProperties
<1>3. SystemNames(gs) = SystemNames(fs) \cup (IF f.read_only THEN {f.name} ELSE {})
  BY <1>2 DEF SystemNames
<1> QED BY <1>1, <1>3

(* Mounting a file is a MapRegister. *)
LEMMA MountMaps ==
  ASSUME FilesInv, mounting, NEW n \in FileNames, NEW d \in FileData,
         files' = Append(files, SystemFile(n, d)), op' = <<"register", n, d, TRUE>>
  PROVE  Map!MapNext
<1>1. PICK f : f = SystemFile(n, d)
  BY ZenonT(60)
<1>2. f \in VirtualFile /\ f.name = n /\ f.data = d /\ f.read_only
  BY <1>1 DEF SystemFile, VirtualFile
<1>3. files \in Seq(VirtualFile) /\ files' = Append(files, f)
  BY <1>1 DEF FilesInv
<1>4. \A m \in FileNames : m # n => open_file(m)' = open_file(m)
  BY <1>2, <1>3, OpenAppended
<1>5. SystemNames(files') = SystemNames(files) \cup {n}
  BY <1>2, <1>3, SystemNamesAppend
<1>6. CASE Exists(n)
  <2>1. open_file(n)' = open_file(n)
    BY <1>2, <1>3, <1>6, OpenAppended
  <2>2. n \in SystemNames(files)
    BY <1>6 DEF Exists, FilesInv, SystemNames
  <2>3. Content' = Content
    BY <1>4, <2>1, ContentSame, ZenonT(60)
  <2>4. Map!MapRegister(n, d)
    BY <1>5, <2>2, <2>3, ZenonT(60) DEF Map!MapRegister, SystemNames, Content
  <2> QED BY <2>4 DEF Map!MapNext
<1>7. CASE ~Exists(n)
  <2>1. open_file(n) = NoFile /\ open_file(n)' = d
    BY <1>2, <1>3, <1>7, OpenAppended
  <2>2. n \notin SystemNames(files)
    BY <1>7 DEF Exists, SystemNames
  <2>3. Content' = [Content EXCEPT ![n] = d]
    BY <1>4, <2>1, ContentBecomes, ZenonT(60)
  <2>4. Content[n] = NoFile
    BY <2>1 DEF Content
  <2>5. Map!MapRegister(n, d)
    BY <1>5, <2>2, <2>3, <2>4, ZenonT(60) DEF Map!MapRegister, SystemNames, Content
  <2> QED BY <2>5 DEF Map!MapNext
<1> QED BY <1>6, <1>7

LEMMA UnsharedAppend ==
  ASSUME NEW S, NEW fs \in Seq(S), NEW f \in S, Unshared(fs),
         \A i \in DOMAIN fs : fs[i].name # f.name
  PROVE  Unshared(Append(fs, f))
<1>1. PICK n, gs : n \in Nat /\ n = Len(fs) /\ gs = Append(fs, f)
  BY LenProperties, ZenonT(60)
<1> n \in Nat
  BY <1>1
<1>2. /\ DOMAIN gs = 1 .. n + 1 /\ DOMAIN fs = 1 .. n /\ gs[n + 1] = f
      /\ \A i \in 1 .. n : gs[i] = fs[i]
  BY <1>1, AppendProperties, LenProperties
<1>3. ASSUME NEW i \in DOMAIN gs, NEW j \in DOMAIN gs, ~gs[i].read_only, gs[i].name = gs[j].name
      PROVE  i = j
  <2>1. CASE i = n + 1 \/ j = n + 1
    BY <1>2, <1>3, <2>1
  <2>2. CASE i # n + 1 /\ j # n + 1
    <3>1. i \in 1 .. n /\ j \in 1 .. n
      BY <1>2, <2>2
    <3> QED BY <1>2, <1>3, <3>1 DEF Unshared
  <2> QED BY <2>1, <2>2
<1>4. Unshared(gs)
  BY <1>3 DEF Unshared
<1> QED BY <1>1, <1>4

(* A write is a MapWrite: it fails exactly when the name is that of a      *)
(* system file.                                                            *)
LEMMA WriteMaps ==
  ASSUME files \in Seq(VirtualFile), Unshared(files),
         NEW n \in FileNames, NEW d \in FileData, NEW o \in Owners,
         write_file(n, d, o), op' = <<"write", n, d, write_file_ok(n)>>
  PROVE  /\ files' \in Seq(VirtualFile) /\ Unshared(files')
         /\ Map!MapNext
<1>1. PICK g : g = AgentFile(n, d, o)
  BY ZenonT(60)
<1>2. g \in VirtualFile /\ g.name = n /\ g.data = d /\ ~g.read_only
  BY <1>1 DEF AgentFile, VirtualFile
<1>3. CASE ~write_file_ok(n)
  <2>1. files' = files
    BY <1>3 DEF write_file
  <2>2. Content' = Content /\ SystemNames(files') = SystemNames(files)
    BY <2>1 DEF Content, open_file, Exists, FirstIndex
  <2>3. PICK k : First(files, n, k)
    BY <1>3, FirstExists DEF Exists, write_file_ok
  <2>4. k = FirstIndex(n) /\ k \in DOMAIN files /\ files[k].name = n
    BY <2>3, FirstChosen DEF FirstIndex, First
  <2>5. n \in SystemNames(files)
    BY <1>3, <2>4 DEF SystemNames, write_file_ok
  <2>6. write_file_ok(n) = (n \notin SystemNames(files))
    BY <1>3, <2>5, ZenonT(60) DEF write_file_ok
  <2>7. Map!MapWrite(n, d)
    BY <2>2, <2>5, <2>6, ZenonT(60) DEF Map!MapWrite, SystemNames, Content
  <2> QED BY <2>1, <2>7 DEF Map!MapNext
<1>4. CASE write_file_ok(n) /\ ~Exists(n)
  <2>1. files' = Append(files, g)
    BY <1>1, <1>4 DEF write_file
  <2>2. \A i \in DOMAIN files : files[i].name # n
    BY <1>4 DEF Exists
  <2>3. files' \in Seq(VirtualFile)
    BY <1>2, <2>1, AppendProperties
  <2>4. Unshared(files')
    BY <1>2, <2>1, <2>2, UnsharedAppend
  <2>5. open_file(n)' = d /\ \A m \in FileNames : m # n => open_file(m)' = open_file(m)
    BY <1>2, <1>4, <2>1, OpenAppended
  <2>6. SystemNames(files') = SystemNames(files)
    <3>1. SystemNames(files') = SystemNames(files) \cup {}
      BY <1>2, <2>1, SystemNamesAppend, ZenonT(60)
    <3> QED BY <3>1, ZenonT(60)
  <2>7. n \notin SystemNames(files)
    BY <2>2 DEF SystemNames
  <2>8. Content' = [Content EXCEPT ![n] = d]
    BY <2>5, ContentBecomes, ZenonT(60)
  <2>9. write_file_ok(n) = (n \notin SystemNames(files))
    BY <1>4, <2>7, ZenonT(60) DEF write_file_ok
  <2>10. Map!MapWrite(n, d)
    BY <2>6, <2>7, <2>8, <2>9, ZenonT(60) DEF Map!MapWrite, SystemNames, Content
  <2> QED BY <2>3, <2>4, <2>10 DEF Map!MapNext
<1>5. CASE write_file_ok(n) /\ Exists(n)
  <2>1. PICK k : First(files, n, k)
    BY <1>5, FirstExists DEF Exists
  <2>2. k = FirstIndex(n)
    BY <2>1, FirstChosen DEF FirstIndex
  <2>3. files' = [files EXCEPT ![k] = g] /\ ~files[k].read_only
    BY <1>1, <1>5, <2>2 DEF write_file, write_file_ok
  <2>4. k \in DOMAIN files /\ files[k].name = n /\ \A j \in 1 .. k - 1 : files[j].name # n
    BY <2>1 DEF First
  <2>5. /\ files' \in Seq(VirtualFile) /\ DOMAIN files' = DOMAIN files
        /\ files'[k] = g /\ \A i \in DOMAIN files : i # k => files'[i] = files[i]
    BY <1>2, <2>3, <2>4, ExceptSeq
  <2>6. \A i \in DOMAIN files : files[i].name = n => i = k
    BY <2>3, <2>4 DEF Unshared
  <2>7. \A i \in DOMAIN files : /\ files'[i].name = files[i].name
                                /\ files'[i].read_only <=> files[i].read_only
    BY <1>2, <2>3, <2>4, <2>5
  <2>8. Unshared(files')
    BY <2>5, <2>7 DEF Unshared
  <2>9. SystemNames(files') = SystemNames(files) /\ n \notin SystemNames(files)
    BY <2>3, <2>5, <2>6, <2>7 DEF SystemNames
  <2>10. DOMAIN files = 1 .. Len(files) /\ Len(files) \in Nat
    BY LenProperties
  <2>11. open_file(n)' = d
    <3>1. First(files', n, k)
      BY <1>2, <2>4, <2>5, <2>6, <2>7, <2>10 DEF First
    <3> QED BY <1>2, <2>5, <3>1, OpenFirst
  <2>12. ASSUME NEW m \in FileNames, m # n PROVE open_file(m)' = open_file(m)
    <3>1. CASE Exists(m)
      <4>1. PICK l : First(files, m, l)
        BY <3>1, FirstExists DEF Exists
      <4>2. l \in DOMAIN files /\ files[l].name = m /\ \A j \in 1 .. l - 1 : files[j].name # m
        BY <4>1 DEF First
      <4>3. \A j \in 1 .. l - 1 : j \in DOMAIN files
        BY <2>10, <4>2
      <4>4. First(files', m, l) /\ files'[l] = files[l]
        BY <2>4, <2>5, <2>7, <2>12, <4>2, <4>3 DEF First
      <4> QED BY <2>5, <4>1, <4>4, OpenSame, ZenonT(60)
    <3>2. CASE ~Exists(m)
      <4>1. /\ \A i \in DOMAIN files : files[i].name # m
            /\ \A i \in DOMAIN files' : files'[i].name # m
        BY <2>5, <2>7, <3>2 DEF Exists
      <4> QED BY <2>5, <4>1, OpenSame
    <3> QED BY <3>1, <3>2
  <2>13. Content' = [Content EXCEPT ![n] = d]
    BY <2>11, <2>12, ContentBecomes, ZenonT(60)
  <2>14. write_file_ok(n) = (n \notin SystemNames(files))
    BY <1>5, <2>9, ZenonT(60) DEF write_file_ok
  <2>15. Map!MapWrite(n, d)
    BY <2>9, <2>13, <2>14, ZenonT(60) DEF Map!MapWrite, SystemNames, Content
  <2> QED BY <2>5, <2>8, <2>15 DEF Map!MapNext
<1> QED BY <1>3, <1>4, <1>5

(* What is left of the files when some are removed: h says where each was. *)
KeptAt(fs, K, gs, h) ==
  /\ gs = SelectAt(fs, K) /\ DOMAIN gs = 1 .. Len(gs) /\ Len(gs) \in Nat
  /\ \A i \in DOMAIN gs : h[i] \in K /\ h[i] \in DOMAIN fs /\ gs[i] = fs[h[i]]
  /\ \A i, j \in DOMAIN gs : i < j => h[i] < h[j]
  /\ \A k \in K \cap DOMAIN fs : \E j \in DOMAIN gs : h[j] = k

(* Files that retain keeps are among those there were, in their order. *)
LEMMA Selected ==
  ASSUME NEW S, NEW fs \in Seq(S), NEW K
  PROVE  \E gs \in Seq(S) : \E h : KeptAt(fs, K, gs, h)
<1>1. PICK gs : gs = SelectAt(fs, K)
  BY ZenonT(60)
<1>2. gs \in Seq(S) /\ DOMAIN gs = 1 .. Len(gs) /\ Len(gs) \in Nat
  BY <1>1, SelectType, LenProperties
<1>3. PICK h : SelectedFrom(fs, K, gs, h)
  BY <1>1, SelectOrder
<1>4. /\ \A i \in DOMAIN gs : h[i] \in K /\ h[i] \in DOMAIN fs /\ gs[i] = fs[h[i]]
      /\ \A i, j \in DOMAIN gs : i < j => h[i] < h[j]
      /\ \A k \in K \cap DOMAIN fs : \E j \in DOMAIN gs : h[j] = k
  BY <1>2, <1>3 DEF SelectedFrom
<1>5. KeptAt(fs, K, gs, h)
  BY <1>1, <1>2, <1>4 DEF KeptAt
<1> QED BY <1>2, <1>5

(* What retain keeps has no names shared that were not, and all system     *)
(* files if it keeps them.                                                 *)
LEMMA FilesSelected ==
  ASSUME NEW S, NEW fs \in Seq(S), NEW K, Unshared(fs)
  PROVE  /\ SelectAt(fs, K) \in Seq(S) /\ Unshared(SelectAt(fs, K))
         /\ (\A i \in DOMAIN fs : fs[i].read_only => i \in K) =>
              SystemNames(SelectAt(fs, K)) = SystemNames(fs)
<1>0. PICK gs, h : gs \in Seq(S) /\ KeptAt(fs, K, gs, h)
  BY Selected
<1> gs \in Seq(S)
  BY <1>0
<1>1. /\ gs = SelectAt(fs, K) /\ DOMAIN gs = 1 .. Len(gs) /\ Len(gs) \in Nat
      /\ \A i \in DOMAIN gs : h[i] \in K /\ h[i] \in DOMAIN fs /\ gs[i] = fs[h[i]]
      /\ \A i, j \in DOMAIN gs : i < j => h[i] < h[j]
      /\ \A k \in K \cap DOMAIN fs : \E j \in DOMAIN gs : h[j] = k
  BY <1>0 DEF KeptAt
<1>2. DOMAIN fs = 1 .. Len(fs) /\ Len(fs) \in Nat
  BY LenProperties
<1>3. Unshared(gs)
  <2> SUFFICES ASSUME NEW i \in DOMAIN gs, NEW j \in DOMAIN gs,
                      ~gs[i].read_only, gs[i].name = gs[j].name
               PROVE  i = j
    BY DEF Unshared
  <2>1. h[i] = h[j]
    BY <1>1 DEF Unshared
  <2>2. ~(h[i] < h[j]) /\ ~(h[j] < h[i])
    BY <1>1, <1>2, <2>1
  <2> QED BY <1>1, <2>2
<1>4. ASSUME \A i \in DOMAIN fs : fs[i].read_only => i \in K
      PROVE  SystemNames(gs) = SystemNames(fs)
  <2>1. ASSUME NEW x \in SystemNames(gs) PROVE x \in SystemNames(fs)
    BY <1>1 DEF SystemNames
  <2>2. ASSUME NEW x \in SystemNames(fs) PROVE x \in SystemNames(gs)
    <3>1. PICK k \in DOMAIN fs : fs[k].read_only /\ x = fs[k].name
      BY <2>2 DEF SystemNames
    <3>2. PICK j \in DOMAIN gs : h[j] = k
      BY <1>1, <1>4, <3>1
    <3> QED BY <1>1, <3>1, <3>2 DEF SystemNames
  <2> QED BY <2>1, <2>2, ZenonT(60)
<1> QED BY <1>1, <1>3, <1>4

(* The first file of a name stays the first one if retain keeps it. *)
LEMMA FirstSelected ==
  ASSUME NEW S, NEW fs \in Seq(S), NEW K, NEW m, NEW k, First(fs, m, k), k \in K
  PROVE  \E l : First(SelectAt(fs, K), m, l) /\ SelectAt(fs, K)[l] = fs[k]
<1>0. PICK gs, h : gs \in Seq(S) /\ KeptAt(fs, K, gs, h)
  BY Selected
<1> gs \in Seq(S)
  BY <1>0
<1>1. /\ gs = SelectAt(fs, K) /\ DOMAIN gs = 1 .. Len(gs) /\ Len(gs) \in Nat
      /\ \A i \in DOMAIN gs : h[i] \in K /\ h[i] \in DOMAIN fs /\ gs[i] = fs[h[i]]
      /\ \A i, j \in DOMAIN gs : i < j => h[i] < h[j]
      /\ \A i \in K \cap DOMAIN fs : \E j \in DOMAIN gs : h[j] = i
  BY <1>0 DEF KeptAt
<1>2. DOMAIN fs = 1 .. Len(fs) /\ Len(fs) \in Nat
  BY LenProperties
<1>3. k \in DOMAIN fs /\ fs[k].name = m /\ \A j \in 1 .. k - 1 : fs[j].name # m
  BY DEF First
<1>4. PICK l \in DOMAIN gs : h[l] = k
  BY <1>1, <1>3
<1>5. ASSUME NEW j \in 1 .. l - 1 PROVE gs[j].name # m
  <2>1. j \in DOMAIN gs /\ j < l
    BY <1>1, <1>4
  <2>2. h[j] < k /\ h[j] \in DOMAIN fs /\ gs[j] = fs[h[j]]
    BY <1>1, <1>4, <2>1
  <2>3. h[j] \in 1 .. k - 1
    BY <1>2, <1>3, <2>2
  <2> QED BY <1>3, <2>2, <2>3
<1>6. gs[l] = fs[k]
  BY <1>1, <1>4
<1>7. First(gs, m, l)
  BY <1>3, <1>4, <1>5, <1>6 DEF First
<1> QED BY <1>1, <1>6, <1>7

(* A name is gone if retain keeps no file of it. *)
LEMMA NoneSelected ==
  ASSUME NEW S, NEW fs \in Seq(S), NEW K, NEW m, \A i \in DOMAIN fs : fs[i].name = m => i \notin K
  PROVE  \A i \in DOMAIN SelectAt(fs, K) : SelectAt(fs, K)[i].name # m
<1>0. PICK gs, h : gs \in Seq(S) /\ KeptAt(fs, K, gs, h)
  BY Selected
<1> gs \in Seq(S)
  BY <1>0
<1>1. /\ gs = SelectAt(fs, K)
      /\ \A i \in DOMAIN gs : h[i] \in K /\ h[i] \in DOMAIN fs /\ gs[i] = fs[h[i]]
  BY <1>0 DEF KeptAt
<1> QED BY <1>1

(* A deletion is a MapDelete: it fails exactly when the name is that of a  *)
(* system file or of none.                                                 *)
LEMMA DeleteMaps ==
  ASSUME files \in Seq(VirtualFile), Unshared(files), NEW n \in FileNames,
         delete_file(n), op' = <<"delete", n, NoFile, delete_file_ok(n)>>
  PROVE  /\ files' \in Seq(VirtualFile) /\ Unshared(files')
         /\ Map!MapNext
<1>1. PICK K : K = {i \in DOMAIN files : files[i].name # n \/ files[i].read_only}
  BY ZenonT(60)
<1>2. files' = SelectAt(files, K)
  BY <1>1 DEF delete_file
<1>3. /\ files' \in Seq(VirtualFile) /\ Unshared(files')
      /\ SystemNames(files') = SystemNames(files)
  BY <1>1, <1>2, FilesSelected
<1>4. ASSUME NEW m \in FileNames, \A i \in DOMAIN files : files[i].name = m => i \in K
      PROVE  open_file(m)' = open_file(m)
  <2>1. CASE Exists(m)
    <3>1. PICK k : First(files, m, k)
      BY <2>1, FirstExists DEF Exists
    <3>2. k \in K
      BY <1>4, <3>1 DEF First
    <3>3. \E l : First(files', m, l) /\ files'[l] = files[k]
      BY <1>2, <3>1, <3>2, FirstSelected
    <3> QED BY <1>3, <3>1, <3>3, OpenSame, ZenonT(60)
  <2>2. CASE ~Exists(m)
    <3>1. \A i \in DOMAIN files : files[i].name # m
      BY <2>2 DEF Exists
    <3>2. \A i \in DOMAIN files' : files'[i].name # m
      BY <1>2, <3>1, NoneSelected, ZenonT(60)
    <3> QED BY <1>3, <3>1, <3>2, OpenSame
  <2> QED BY <2>1, <2>2
<1>5. \A m \in FileNames : m # n => open_file(m)' = open_file(m)
  BY <1>1, <1>4
<1>6. CASE n \in SystemNames(files)
  <2>1. \A i \in DOMAIN files : files[i].name = n => i \in K
    BY <1>1, <1>6 DEF SystemNames, Unshared
  <2>2. open_file(n)' = open_file(n)
    BY <1>4, <2>1
  <2>3. Content' = Content
    BY <1>5, <2>2, ContentSame, ZenonT(60)
  <2>4. ~delete_file_ok(n)
    BY <1>6 DEF SystemNames, Unshared, delete_file_ok
  <2>5. delete_file_ok(n) = (n \notin SystemNames(files) /\ Content[n] # NoFile)
    BY <1>6, <2>4, ZenonT(60) DEF delete_file_ok
  <2>6. Map!MapDelete(n)
    BY <1>3, <1>6, <2>3, <2>5, ZenonT(60) DEF Map!MapDelete, SystemNames, Content
  <2> QED BY <1>3, <2>6 DEF Map!MapNext
<1>7. CASE n \notin SystemNames(files)
  <2>1. \A i \in DOMAIN files : files[i].name = n => i \notin K
    BY <1>1, <1>7 DEF SystemNames
  <2>2. \A i \in DOMAIN files' : files'[i].name # n
    BY <1>2, <2>1, NoneSelected, ZenonT(60)
  <2>3. open_file(n)' = NoFile
    BY <2>2 DEF open_file, Exists
  <2>4. Content' = [Content EXCEPT ![n] = NoFile]
    BY <1>5, <2>3, ContentBecomes, ZenonT(60)
  <2>5. Exists(n) <=> delete_file_ok(n)
    BY <1>7 DEF Exists, delete_file_ok, SystemNames
  <2>6. ASSUME Exists(n) PROVE Content[n] # NoFile
    <3>1. PICK k : First(files, n, k)
      BY <2>6, FirstExists DEF Exists
    <3>2. open_file(n) = files[k].data /\ k \in DOMAIN files
      BY <3>1, OpenFirst, ZenonT(60) DEF First
    <3>3. files[k] \in VirtualFile
      BY <3>2, LenProperties, ElementOfSeq
    <3>4. open_file(n) \in FileData
      BY <3>2, <3>3 DEF VirtualFile
    <3> QED BY <3>4, VfsAssumption DEF Content
  <2>7. ASSUME ~Exists(n) PROVE Content[n] = NoFile
    BY <2>7 DEF Content, open_file
  <2>8. delete_file_ok(n) = (n \notin SystemNames(files) /\ Content[n] # NoFile)
    BY <1>7, <2>5, <2>6, <2>7, ZenonT(60) DEF delete_file_ok
  <2>9. Map!MapDelete(n)
    BY <1>3, <1>7, <2>4, <2>8, ZenonT(60) DEF Map!MapDelete, SystemNames, Content
  <2> QED BY <1>3, <2>9 DEF Map!MapNext
<1> QED BY <1>6, <1>7

-----------------------------------------------------------------------------
(* What the loader mounts are a name and contents of files. *)
LEMMA MountedData ==
  ASSUME LoaderInv, ~AtEnd, Header.name # NotUtf8
  PROVE  /\ Header.name \in FileNames
         /\ Slice(offset + BLOCK, Header.size) \in FileData
<1>1. PICK q \in Nat : offset = BLOCK * q
  BY DEF LoaderInv
<1>2. offset \in Nat /\ BLOCK \in Nat /\ offset + BLOCK <= len /\ len \in Nat /\ len <= MaxArchive
  BY <1>1, WholeBlocks, InitramfsAssumption DEF LoaderInv, AtEnd
<1>3. Header \in Block
  BY <1>2, HeaderIs
<1>4. Header.name \in EntryNames \cup {NotUtf8} /\ Header.size \in Sizes \cup {0}
  BY <1>3 DEF Block
<1>5. Header.name \in FileNames
  BY <1>4, FileAssumption
<1>6. PICK at : at = IF Header.size = 0 THEN 0 ELSE offset + BLOCK
  BY ZenonT(60)
<1>7. at \in 0 .. MaxArchive
  BY <1>2, <1>6, InitramfsAssumption
<1>8. [at |-> at, size |-> Header.size] \in [at : 0 .. MaxArchive, size : Sizes \cup {0}]
  BY <1>4, <1>7
<1>9. Slice(offset + BLOCK, Header.size) = [at |-> at, size |-> Header.size]
  BY <1>6 DEF Slice
<1> QED BY <1>5, <1>8, <1>9, FileAssumption

(* Every step keeps the files unshared and is a step of the map. *)
LEMMA FilesNext ==
  ASSUME LoaderInv, FilesInv, [InitramfsNext]_initramfsVars
  PROVE  FilesInv' /\ [Map!MapNext]_(Map!mapVars)
<1>1. CASE UNCHANGED <<files, op>> /\ (mounting' => mounting)
  <2>1. UNCHANGED Map!mapVars
    BY <1>1 DEF Map!mapVars, open_file, Exists, FirstIndex
  <2> QED BY <1>1, <2>1 DEF FilesInv, Unshared
<1>2. CASE MountRegular
  <2>1. PICK n, d : n = Header.name /\ d = Slice(offset + BLOCK, Header.size)
    BY ZenonT(60)
  <2>2. n \in FileNames /\ d \in FileData
    BY <1>2, <2>1, MountedData DEF MountRegular
  <2>3. /\ files' = Append(files, SystemFile(n, d)) /\ mounting
        /\ op' = <<"register", n, d, TRUE>>
    BY <1>2, <2>1 DEF MountRegular, register_file
  <2>4. Map!MapNext
    BY <2>2, <2>3, MountMaps
  <2>5. SystemFile(n, d) \in VirtualFile /\ SystemFile(n, d).read_only
    BY <2>2 DEF SystemFile, VirtualFile
  <2>6. PICK f \in VirtualFile : f = SystemFile(n, d) /\ f.read_only
    BY <2>5
  <2>7. files \in Seq(VirtualFile) /\ \A i \in DOMAIN files : files[i].read_only
    BY <2>3 DEF FilesInv
  <2>8. files' \in Seq(VirtualFile) /\ \A i \in DOMAIN files' : files'[i].read_only
    BY <2>3, <2>6, <2>7, AppendProperties, LenProperties
  <2> QED BY <2>4, <2>8 DEF FilesInv, Unshared
<1>3. CASE AgentWrite
  <2>1. PICK n \in FileNames, d \in WrittenData, o \in Owners :
               write_file(n, d, o) /\ op' = <<"write", n, d, write_file_ok(n)>>
    BY <1>3 DEF AgentWrite
  <2>2. d \in FileData
    BY FileAssumption
  <2>3. /\ files' \in Seq(VirtualFile) /\ Unshared(files')
        /\ Map!MapNext
    BY <2>1, <2>2, WriteMaps DEF FilesInv
  <2> QED BY <1>3, <2>3 DEF FilesInv, AgentWrite, archiveVars
<1>4. CASE Delete
  <2>1. PICK n \in FileNames : delete_file(n) /\ op' = <<"delete", n, NoFile, delete_file_ok(n)>>
    BY <1>4 DEF Delete
  <2>2. /\ files' \in Seq(VirtualFile) /\ Unshared(files')
        /\ Map!MapNext
    BY <2>1, DeleteMaps DEF FilesInv
  <2> QED BY <1>4, <2>2 DEF FilesInv, Delete, archiveVars
<1> QED BY <1>1, <1>2, <1>3, <1>4
        DEF InitramfsNext, MountStep, Finish, SkipInvalidName, Truncated, SkipOther, initramfsVars

(* The types of the loader and of the file system, for every archive: the  *)
(* offset of initramfs::init always is that of a block, and what it mounts *)
(* are files.                                                              *)
THEOREM InitramfsTypes == InitramfsSpec => []InitramfsTypeOK
<1>1. InitramfsInit => LoaderInv /\ FilesInv
  BY LoaderInit
<1>2. LoaderInv /\ FilesInv /\ [InitramfsNext]_initramfsVars => (LoaderInv /\ FilesInv)'
  BY LoaderNext, FilesNext
<1>3. LoaderInv /\ FilesInv => InitramfsTypeOK
  BY WholeBlocks DEF LoaderInv, FilesInv, InitramfsTypeOK, VfsTypeOK
<1> QED BY <1>1, <1>2, <1>3, PTL DEF InitramfsSpec

(* vfs.rs keeps what FileMap promises, for every archive, every name and   *)
(* all contents: register_file, write_file and delete_file do to what      *)
(* open_file shows exactly what the map's operations do, and answer what   *)
(* they answer.  The argument is that a file an agent may overwrite shares *)
(* its name with no other file.                                            *)
THEOREM FilesAreMap == InitramfsSpec => ImplementsFileMap
<1>1. InitramfsInit => LoaderInv /\ FilesInv
  BY LoaderInit
<1>2. LoaderInv /\ FilesInv /\ [InitramfsNext]_initramfsVars => (LoaderInv /\ FilesInv)'
  BY LoaderNext, FilesNext
<1>3. LoaderInv /\ FilesInv /\ [InitramfsNext]_initramfsVars => [Map!MapNext]_(Map!mapVars)
  BY FilesNext
<1>4. InitramfsInit => Map!MapInit
  BY DEF InitramfsInit, VfsInit, Map!MapInit, open_file, Exists
<1> QED BY <1>1, <1>2, <1>3, <1>4, PTL DEF InitramfsSpec, ImplementsFileMap, Map!MapSpec

-----------------------------------------------------------------------------
(* The place after the first k entries of an archive. *)
Offs(es, k) == BLOCK * FlatLen(BlocksOf(es), k)

(* Behind an entry begins the next one, with its header. *)
LEMMA OffsStep ==
  ASSUME NEW es \in Seq(Entry), NEW k \in Nat, k < Len(es)
  PROVE  /\ Offs(es, k) \in Nat
         /\ Offs(es, k + 1) = Offs(es, k) + BLOCK + Align(es[k + 1].size)
         /\ Flatten(BlocksOf(es))[Offs(es, k) \div BLOCK + 1] = HeaderBlock(es[k + 1])
         /\ Offs(es, k) \div BLOCK + 1 \in 1 .. Len(Flatten(BlocksOf(es)))
<1>1. PICK e \in Entry, m \in Nat : e = es[k + 1] /\ m = Align(e.size) \div BLOCK
  <2>1. es[k + 1] \in Entry
    BY LenProperties, ElementOfSeq
  <2>2. es[k + 1].size \in Nat
    BY <2>1, EntrySize
  <2> QED BY <2>1, <2>2, AlignBlocks, ZenonT(60)
<1>2. e.size \in Nat
  BY EntrySize
<1>3. Align(e.size) = BLOCK * m
  BY <1>1, <1>2, AlignBlocks, ZenonT(60)
<1>4. PICK t \in Seq(Seq(Block)) : t = BlocksOf(es) /\ Len(t) = Len(es)
  BY BlocksType
<1>5. PICK j : j = k + 1 /\ t[j] = EntryBlocks(e)
  <2>1. k + 1 \in DOMAIN es
    BY LenProperties
  <2> QED BY <1>1, <1>4, <2>1 DEF BlocksOf
<1>6. PICK B : B = FlatLen(t, k)
  BY ZenonT(60)
<1>7. /\ B \in Nat /\ Flatten(t) \in Seq(Block)
      /\ FlatLen(t, j) = B + Len(t[j]) /\ FlatLen(t, j) <= Len(Flatten(t))
      /\ \A i \in 1 .. Len(t[j]) : Flatten(t)[B + i] = t[j][i]
  <2>1. k < Len(t) /\ k \in Nat /\ t \in Seq(Seq(Block)) /\ j = k + 1
    BY <1>4, <1>5
  <2>2. /\ FlatLen(t, k) \in Nat /\ Flatten(t) \in Seq(Block)
        /\ FlatLen(t, j) = FlatLen(t, k) + Len(t[j]) /\ FlatLen(t, j) <= Len(Flatten(t))
        /\ \A i \in 1 .. Len(t[j]) : Flatten(t)[FlatLen(t, k) + i] = t[j][i]
    BY ONLY <2>1, FlattenPart, SMTT(60), Z3T(60)
  <2> QED BY ONLY <1>6, <2>2, ZenonT(60)
<1>8. Len(EntryBlocks(e)) = 1 + m /\ EntryBlocks(e)[1] = HeaderBlock(e)
  BY <1>1, EntryBlocksType
<1>9. Offs(es, k) = BLOCK * B /\ Offs(es, k + 1) = BLOCK * (B + (1 + m))
  BY <1>4, <1>5, <1>6, <1>7, <1>8 DEF Offs
<1>10. BLOCK * (B + (1 + m)) = BLOCK * B + BLOCK + BLOCK * m
  BY <1>7, InitramfsAssumption
<1>11. Offs(es, k) \in Nat /\ Offs(es, k) \div BLOCK = B
  BY <1>7, <1>9, WholeBlocks, ZenonT(60)
<1>12. Flatten(t)[B + 1] = HeaderBlock(e)
  BY <1>5, <1>7, <1>8
<1>13. B + 1 \in 1 .. Len(Flatten(t))
  <2>1. Len(Flatten(t)) \in Nat
    BY <1>7, LenProperties
  <2> QED BY <1>5, <1>7, <1>8, <2>1
<1> QED BY <1>1, <1>3, <1>4, <1>9, <1>10, <1>11, <1>12, <1>13

(* Entries lie behind each other. *)
LEMMA OffsGrows ==
  ASSUME NEW es \in Seq(Entry), NEW k \in Nat, NEW n \in Nat, k <= n, n <= Len(es)
  PROVE  Offs(es, k) \in Nat /\ Offs(es, n) \in Nat /\ Offs(es, k) <= Offs(es, n)
<1>1. PICK t \in Seq(Seq(Block)) : t = BlocksOf(es) /\ Len(t) = Len(es)
  BY BlocksType
<1>2. PICK a, b : a = Flatten(Upto(t, k)) /\ b = Flatten(Upto(t, n))
  BY ZenonT(60)
<1>3. a \in Seq(Block) /\ b \in Seq(Block) /\ Len(a) <= Len(b)
  BY <1>1, <1>2, FlattenPrefix
<1>4. Len(a) \in Nat /\ Len(b) \in Nat
  BY <1>3, LenProperties
<1>5. BLOCK * Len(a) <= BLOCK * Len(b) /\ BLOCK * Len(a) \in Nat /\ BLOCK * Len(b) \in Nat
  <2>1. PICK x \in Nat, d \in Nat : x = Len(a) /\ x + d = Len(b)
    <3>1. Len(b) - Len(a) \in Nat /\ Len(a) + (Len(b) - Len(a)) = Len(b)
      BY <1>3, <1>4
    <3> QED BY <1>4, <3>1, ZenonT(60)
  <2>2. BLOCK * x <= BLOCK * (x + d) /\ BLOCK * x \in Nat /\ BLOCK * (x + d) \in Nat
    <3>1. BLOCK * (x + d) = BLOCK * x + BLOCK * d /\ BLOCK * x \in Nat /\ BLOCK * d \in Nat
      BY InitramfsAssumption
    <3> QED BY <3>1
  <2> QED BY <2>1, <2>2, ZenonT(60)
<1> QED BY <1>1, <1>2, <1>5 DEF Offs, FlatLen

LEMMA OffsZero == ASSUME NEW es \in Seq(Entry) PROVE Offs(es, 0) = 0
<1>1. PICK t \in Seq(Seq(Block)) : t = BlocksOf(es) /\ Len(t) = Len(es)
  BY BlocksType
<1>2. 0 \in Nat /\ 0 <= Len(t)
  BY LenProperties
<1>3. Upto(t, 0) = << >>
  BY <1>2, UptoStep
<1>4. Len(Flatten(Upto(t, 0))) = 0
  BY <1>3, FlattenEmpty
<1> QED BY <1>1, <1>4, InitramfsAssumption DEF Offs, FlatLen

(* The block after the first k entries is the header of the next one, and  *)
(* the null block after all of them.                                       *)
LEMMA HeaderAfter ==
  ASSUME LoaderInv, NEW k \in Nat, k <= Len(entries), offset = Offs(entries, k)
  PROVE  Header = IF k < Len(entries) THEN HeaderBlock(entries[k + 1]) ELSE NullBlock
<1>1. PICK es \in Seq(Entry) : es = entries
  BY DEF LoaderInv
<1>2. /\ Blocks \in Seq(Block)
      /\ Len(Blocks) = Len(Flatten(BlocksOf(es))) + 1
      /\ Blocks[Len(Blocks)] = NullBlock
      /\ \A i \in 1 .. Len(Flatten(BlocksOf(es))) : Blocks[i] = Flatten(BlocksOf(es))[i]
  BY <1>1, BlocksAre
<1>3. CASE k < Len(es)
  BY <1>1, <1>2, <1>3, OffsStep DEF Header
<1>4. CASE ~(k < Len(es))
  <2>1. k = Len(es)
    BY <1>1, <1>4, LenProperties
  <2>2. PICK t \in Seq(Seq(Block)) : t = BlocksOf(es) /\ Len(t) = Len(es) /\ k <= Len(t)
    BY <2>1, BlocksType, LenProperties
  <2>3. Upto(t, k) = t
    BY <2>1, <2>2, UptoStep
  <2>4. PICK B : B = Len(Flatten(t))
    BY ZenonT(60)
  <2>5. B \in Nat
    BY <2>2, <2>4, BlocksType, LenProperties
  <2>6. offset = BLOCK * B
    BY <1>1, <2>2, <2>3, <2>4 DEF Offs, FlatLen
  <2>7. offset \div BLOCK = B
    BY <2>5, <2>6, WholeBlocks
  <2>8. Header = NullBlock
    BY <1>2, <2>2, <2>4, <2>5, <2>7 DEF Header
  <2> QED BY <1>1, <1>4, <2>8
<1> QED BY <1>1, <1>3, <1>4

-----------------------------------------------------------------------------
(* An entry whose name is not UTF-8 has no data. *)
PlainNames(es) == \A i \in DOMAIN es : es[i].name = NotUtf8 => es[i].size = 0

(* The entries that can be mounted from an archive of l bytes, the file of *)
(* each, and the files of those among the first k.                         *)
Whole(es, l) == {i \in DOMAIN es : /\ es[i].name # NotUtf8 /\ es[i].regular
                                   /\ Offs(es, i - 1) + BLOCK + es[i].size <= l}

FileOf(es, i) == SystemFile(es[i].name, Slice(Offs(es, i - 1) + BLOCK, es[i].size))

Ids(k) == [i \in 1 .. k |-> i]

FilesOf(es, ids) == [j \in DOMAIN ids |-> FileOf(es, ids[j])]

Loaded(es, l, k) == FilesOf(es, SelectAt(Ids(k), Whole(es, l)))

LEMMA IdsStep ==
  ASSUME NEW k \in Nat
  PROVE  /\ Ids(k) \in Seq(Nat) /\ Len(Ids(k)) = k
         /\ Ids(k + 1) = Append(Ids(k), k + 1)
         /\ k = 0 => Ids(k) = << >>
         /\ \A n \in Nat : k <= n => Upto(Ids(n), k) = Ids(k)
<1>1. \A n \in Nat : Ids(n) \in Seq(Nat) /\ Len(Ids(n)) = n
  BY DEF Ids
<1>2. Ids(k + 1) = Append(Ids(k), k + 1)
  BY <1>1, SeqEqual DEF Ids
<1>3. \A n \in Nat : k <= n => Upto(Ids(n), k) = Ids(k)
  BY DEF Ids, Upto
<1>4. k = 0 => Ids(k) = << >>
  BY <1>1, EmptySeq
<1> QED BY <1>1, <1>2, <1>3, <1>4

LEMMA FilesOfAppend ==
  ASSUME NEW es, NEW ids \in Seq(Nat), NEW i \in Nat
  PROVE  /\ FilesOf(es, Append(ids, i)) = Append(FilesOf(es, ids), FileOf(es, i))
         /\ Len(FilesOf(es, ids)) = Len(ids)
<1>1. PICK n, js : n \in Nat /\ n = Len(ids) /\ js = Append(ids, i)
  BY LenProperties, ZenonT(60)
<1> n \in Nat
  BY <1>1
<1>2. /\ js \in Seq(Nat) /\ DOMAIN js = 1 .. n + 1 /\ DOMAIN ids = 1 .. n /\ js[n + 1] = i
      /\ \A j \in 1 .. n : js[j] = ids[j]
  BY <1>1, AppendProperties, LenProperties
<1>4. PICK a, b : a = FilesOf(es, ids) /\ b = FilesOf(es, js)
  BY ZenonT(60)
<1>5. a = [j \in 1 .. n |-> FileOf(es, ids[j])] /\ b = [j \in 1 .. n + 1 |-> FileOf(es, js[j])]
  BY <1>2, <1>4 DEF FilesOf
<1>6. DOMAIN a = 1 .. n /\ Len(a) = n
  BY <1>5
<1>7. b = Append(a, FileOf(es, i))
  BY <1>2, <1>5, <1>6
<1> QED BY <1>1, <1>4, <1>6, <1>7

(* One more entry. *)
LEMMA LoadedStep ==
  ASSUME NEW es, NEW l, NEW k \in Nat
  PROVE  /\ k + 1 \in Whole(es, l) =>
              /\ Loaded(es, l, k + 1) = Append(Loaded(es, l, k), FileOf(es, k + 1))
              /\ Len(Loaded(es, l, k + 1)) = Len(Loaded(es, l, k)) + 1
              /\ Len(Loaded(es, l, k)) \in Nat
         /\ k + 1 \notin Whole(es, l) => Loaded(es, l, k + 1) = Loaded(es, l, k)
<1>1. PICK K, s : K = Whole(es, l) /\ s = Ids(k)
  BY ZenonT(60)
<1>2. s \in Seq(Nat) /\ Len(s) = k /\ Ids(k + 1) = Append(s, k + 1) /\ k + 1 \in Nat
  <2>1. /\ Ids(k) \in Seq(Nat) /\ Len(Ids(k)) = k
        /\ Ids(k + 1) = Append(Ids(k), k + 1)
    BY IdsStep, ZenonT(60)
  <2> QED BY <1>1, <2>1
<1>3. PICK r \in Seq(Nat) : r = SelectAt(s, K)
  BY <1>2, SelectType
<1>4. CASE k + 1 \in K
  <2>1. SelectAt(Ids(k + 1), K) = r \o <<k + 1>>
    BY <1>2, <1>3, <1>4, SelectAppend, ZenonT(60)
  <2>2. r \o <<k + 1>> = Append(r, k + 1)
    OBVIOUS
  <2>3. PICK q : q = Append(r, k + 1) /\ q \in Seq(Nat) /\ Len(q) = Len(r) + 1
    BY <1>2, AppendProperties, ZenonT(60)
  <2>4. /\ FilesOf(es, q) = Append(FilesOf(es, r), FileOf(es, k + 1))
        /\ Len(FilesOf(es, r)) = Len(r) /\ Len(FilesOf(es, q)) = Len(q) /\ Len(r) \in Nat
    BY <1>2, <2>3, FilesOfAppend, LenProperties, ZenonT(60)
  <2> QED BY <1>1, <1>3, <1>4, <2>1, <2>2, <2>3, <2>4, ZenonT(60) DEF Loaded
<1>5. CASE k + 1 \notin K
  <2>1. SelectAt(Ids(k + 1), K) = r \o << >>
    <3>1. Len(s) + 1 \notin K
      BY <1>2, <1>5
    <3>2. SelectAt(Append(s, k + 1), K) =
            SelectAt(s, K) \o (IF Len(s) + 1 \in K THEN <<k + 1>> ELSE << >>)
      BY <1>2, SelectAppend
    <3> QED BY <1>2, <1>3, <3>1, <3>2, ZenonT(60)
  <2>2. r \o << >> = r
    BY ConcatEmptySeq
  <2> QED BY <1>1, <1>3, <1>5, <2>1, <2>2 DEF Loaded
<1> QED BY <1>1, <1>4, <1>5

(* When an archive is cut, no entry after the cut can be mounted. *)
LEMMA LoadedRest ==
  ASSUME NEW es \in Seq(Entry), NEW l \in Nat, NEW k \in Nat, k <= Len(es),
         \A i \in DOMAIN es : i > k => i \notin Whole(es, l)
  PROVE  Loaded(es, l, Len(es)) = Loaded(es, l, k)
<1>1. PICK n, K : n \in Nat /\ n = Len(es) /\ K = Whole(es, l)
  BY LenProperties
<1> n \in Nat
  BY <1>1
<1>2. ASSUME NEW i \in K PROVE i \in Nat => i <= k
  <2>1. i \in DOMAIN es
    BY <1>1 DEF Whole
  <2>2. ~(i > k)
    BY <1>1, <2>1
  <2> QED BY <2>2
<1>3. Ids(n) \in Seq(Nat) /\ Len(Ids(n)) = n /\ Upto(Ids(n), k) = Ids(k)
  BY <1>1, IdsStep
<1>4. SelectAt(Ids(n), K) = SelectAt(Ids(k), K)
  BY <1>1, <1>2, <1>3, SelectRest
<1> QED BY <1>1, <1>4 DEF Loaded

ReadOnly == {f \in VirtualFile : f.read_only}

LEMMA SystemFilesAre == ASSUME FilesInv PROVE SystemFiles = Those(files, ReadOnly)
<1>1. files \in Seq(VirtualFile)
  BY DEF FilesInv
<1>2. \A i \in DOMAIN files : files[i].read_only <=> files[i] \in ReadOnly
  BY <1>1, LenProperties, ElementOfSeq DEF ReadOnly
<1>3. PICK K, L : /\ K = {i \in DOMAIN files : files[i].read_only}
                  /\ L = {i \in DOMAIN files : files[i] \in ReadOnly}
  BY ZenonT(60)
<1>4. K = L
  BY <1>2, <1>3
<1> QED BY <1>3, <1>4, ZenonT(60) DEF SystemFiles, Those

(* While init runs there are no other files. *)
LEMMA AllReadOnly ==
  ASSUME NEW fs \in Seq(VirtualFile), \A i \in DOMAIN fs : fs[i].read_only
  PROVE  Those(fs, ReadOnly) = fs
<1>1. \A i \in DOMAIN fs : fs[i] \in ReadOnly
  BY LenProperties, ElementOfSeq DEF ReadOnly
<1>2. DOMAIN fs \subseteq {i \in DOMAIN fs : fs[i] \in ReadOnly}
  BY <1>1
<1> QED BY <1>2, SelectAll DEF Those

LEMMA OnlySystemFiles == ASSUME FilesInv, mounting PROVE Those(files, ReadOnly) = files
BY AllReadOnly DEF FilesInv

(* While init runs it is at the header of some entry, and has mounted what *)
(* can be mounted before that; afterwards the system files are those of    *)
(* the archive.                                                            *)
AtEntry(k) == /\ k <= Len(entries) /\ offset = Offs(entries, k)
              /\ files = Loaded(entries, len, k) /\ count = Len(files)

AllLoaded == /\ Those(files, ReadOnly) = Loaded(entries, len, Len(entries))
             /\ count = Len(Loaded(entries, len, Len(entries)))

ArchiveInv ==
  PlainNames(entries) => IF mounting THEN \E k \in Nat : AtEntry(k) ELSE AllLoaded

LEMMA ArchiveInit == ASSUME InitramfsInit PROVE ArchiveInv
<1>1. entries \in Seq(Entry) /\ Len(entries) \in Nat
  BY LoaderInit, LenProperties DEF LoaderInv
<1>2. Offs(entries, 0) = 0
  BY <1>1, OffsZero
<1>3. Loaded(entries, len, 0) = << >>
  <2>1. Ids(0) = << >>
    BY IdsStep
  <2> QED BY <2>1, SelectEmpty DEF Loaded, FilesOf
<1>4. AtEntry(0)
  BY <1>1, <1>2, <1>3 DEF AtEntry, InitramfsInit, VfsInit
<1> QED BY <1>4 DEF ArchiveInv, InitramfsInit

(* The loop ends with all of them mounted: at an entry that is not wholly  *)
(* in the archive, no later one is.                                        *)
LEMMA CutHere ==
  ASSUME LoaderInv, FilesInv, mounting, NEW k \in Nat, AtEntry(k),
         k < Len(entries) => offset + BLOCK > len \/ k + 1 \notin Whole(entries, len),
         k < Len(entries) => offset + BLOCK > len \/ offset + BLOCK + entries[k + 1].size > len,
         files' = files, count' = count, entries' = entries, len' = len
  PROVE  AllLoaded'
<1>1. PICK es \in Seq(Entry), n \in Nat, l \in Nat : es = entries /\ n = Len(es) /\ l = len
  BY LenProperties DEF LoaderInv
<1>2. DOMAIN es = 1 .. n /\ \A i \in 1 .. n : es[i] \in Entry /\ es[i].size \in Nat
  BY <1>1, LenProperties, ElementOfSeq, EntrySize
<1>3. k <= n /\ offset = Offs(es, k) /\ files = Loaded(es, l, k) /\ count = Len(files)
  BY <1>1 DEF AtEntry
<1>4. ASSUME NEW i \in DOMAIN es, i > k PROVE i \notin Whole(es, l)
  <2> SUFFICES ASSUME i \in Whole(es, l) PROVE FALSE
    OBVIOUS
  <2>1. Offs(es, i - 1) + BLOCK + es[i].size <= l /\ es[i].size \in Nat
    BY <1>2 DEF Whole
  <2>2. k < n /\ i \in 1 .. n /\ BLOCK \in Nat
    BY <1>2, <1>4, InitramfsAssumption
  <2>3. Offs(es, k) \in Nat /\ Offs(es, i - 1) \in Nat /\ Offs(es, k) <= Offs(es, i - 1)
    <3>1. PICK j \in Nat : j = i - 1 /\ k <= j /\ j <= n
      BY <1>4, <2>2
    <3> QED BY <1>1, <3>1, OffsGrows
  <2>4. CASE offset + BLOCK > l
    BY <1>1, <1>3, <2>1, <2>2, <2>3, <2>4
  <2>5. CASE ~(offset + BLOCK > l)
    <3>1. PICK m \in Nat : m = k + 1
      OBVIOUS
    <3>2. m \notin Whole(es, l) /\ offset + BLOCK + es[m].size > l
      BY <1>1, <2>2, <2>5, <3>1
    <3>3. i # m
      BY <3>2
    <3>4. m <= i - 1 /\ i - 1 \in Nat /\ i - 1 <= n /\ es[m].size \in Nat
      BY <1>2, <1>4, <2>2, <3>1, <3>3
    <3>5. Offs(es, m) \in Nat /\ Offs(es, m) <= Offs(es, i - 1)
      BY <1>1, <3>4, OffsGrows
    <3>6. Offs(es, m) = Offs(es, k) + BLOCK + Align(es[m].size) /\ es[m].size <= Align(es[m].size)
      BY <1>1, <2>2, <3>1, <3>4, OffsStep, AlignBlocks, ZenonT(60)
    <3>7. Align(es[m].size) \in Nat
      <4>1. Align(es[m].size) \div BLOCK \in Nat /\ Align(es[m].size) = BLOCK * (Align(es[m].size) \div BLOCK)
        BY <3>4, AlignBlocks, ZenonT(60)
      <4> QED BY <4>1, WholeBlocks, ZenonT(60)
    <3>8. PICK a \in Nat, b \in Nat, c \in Nat, x \in Nat, y \in Nat, z \in Nat :
            /\ a = Offs(es, k) /\ b = Offs(es, m) /\ c = Offs(es, i - 1)
            /\ x = es[m].size /\ y = Align(es[m].size) /\ z = es[i].size
      BY <2>1, <2>3, <3>4, <3>5, <3>7, ZenonT(60)
    <3>9. b = a + BLOCK + y /\ x <= y /\ b <= c /\ c + BLOCK + z <= l /\ a + BLOCK + x > l
      BY <1>3, <2>1, <3>2, <3>5, <3>6, <3>8
    <3> QED BY <2>2, <3>9
  <2> QED BY <2>4, <2>5
<1>5. Loaded(es, l, n) = Loaded(es, l, k)
  BY <1>1, <1>3, <1>4, LoadedRest
<1>6. Those(files, ReadOnly) = files
  BY OnlySystemFiles
<1>7. /\ Those(files', ReadOnly) = Loaded(es, l, n) /\ count' = Len(Loaded(es, l, n))
  BY <1>3, <1>5, <1>6
<1>8. entries' = es /\ len' = l
  BY <1>1
<1> QED BY <1>1, <1>7, <1>8 DEF AllLoaded

(* An iteration that goes on: the next entry is met with what can be       *)
(* mounted of this one mounted.                                            *)
LEMMA NextEntry ==
  ASSUME LoaderInv, NEW k \in Nat, AtEntry(k), k < Len(entries),
         offset' = offset + BLOCK + Align(entries[k + 1].size),
         entries' = entries, len' = len,
         \/ /\ k + 1 \in Whole(entries, len) /\ count' = count + 1
            /\ files' = Append(files, FileOf(entries, k + 1))
         \/ k + 1 \notin Whole(entries, len) /\ count' = count /\ files' = files
  PROVE  AtEntry(k + 1)'
<1>1. PICK es, n, l, m :
            es \in Seq(Entry) /\ n \in Nat /\ m \in Nat /\ es = entries /\ n = Len(es) /\ l = len /\ m = k + 1
  BY LenProperties DEF LoaderInv
<1> es \in Seq(Entry) /\ n \in Nat /\ m \in Nat
  BY <1>1
<1>2. offset = Offs(es, k) /\ files = Loaded(es, l, k) /\ count = Len(files) /\ m <= n
  BY <1>1 DEF AtEntry
<1>3. offset' = Offs(es, m)
  BY <1>1, <1>2, OffsStep
<1>4. files' = Loaded(es, l, m) /\ count' = Len(files')
  <2>1. CASE m \in Whole(es, l)
    <3>1. /\ Loaded(es, l, m) = Append(Loaded(es, l, k), FileOf(es, m))
          /\ Len(Loaded(es, l, m)) = Len(Loaded(es, l, k)) + 1
      BY <1>1, <2>1, LoadedStep
    <3>2. count' = count + 1 /\ files' = Append(files, FileOf(es, m))
      BY <1>1, <2>1
    <3> QED BY <1>2, <3>1, <3>2
  <2>2. CASE m \notin Whole(es, l)
    BY <1>1, <1>2, <2>2, LoadedStep
  <2> QED BY <2>1, <2>2
<1>5. entries' = es /\ len' = l
  BY <1>1
<1> QED BY <1>1, <1>2, <1>3, <1>4, <1>5 DEF AtEntry

(* What the loader makes of the entry it is at. *)
LEMMA AtHeader ==
  ASSUME LoaderInv, NEW k \in Nat, AtEntry(k), ~AtEnd
  PROVE  /\ k < Len(entries) /\ entries[k + 1] \in Entry
         /\ Header.name = entries[k + 1].name /\ Header.size = entries[k + 1].size
         /\ Header.regular = entries[k + 1].regular
         /\ k + 1 \in Whole(entries, len) <=>
              /\ Header.name # NotUtf8 /\ Header.regular
              /\ offset + BLOCK + Header.size <= len
         /\ FileOf(entries, k + 1) = SystemFile(Header.name, Slice(offset + BLOCK, Header.size))
<1>1. PICK es \in Seq(Entry), n \in Nat, m \in Nat : es = entries /\ n = Len(es) /\ m = k + 1
  BY LenProperties DEF LoaderInv
<1>2. offset = Offs(es, k) /\ k <= n
  BY <1>1 DEF AtEntry
<1>3. Header = IF k < n THEN HeaderBlock(es[m]) ELSE NullBlock
  BY <1>1, <1>2, HeaderAfter
<1>4. k < n
  BY <1>3 DEF AtEnd, NullBlock
<1>5. m \in DOMAIN es /\ es[m] \in Entry /\ m - 1 = k
  BY <1>1, <1>4, LenProperties, ElementOfSeq
<1>6. Header.name = es[m].name /\ Header.size = es[m].size /\ Header.regular = es[m].regular
  BY <1>3, <1>4 DEF HeaderBlock
<1>7. m \in Whole(es, len) <=> /\ Header.name # NotUtf8 /\ Header.regular
                               /\ offset + BLOCK + Header.size <= len
  BY <1>2, <1>5, <1>6 DEF Whole
<1>8. FileOf(es, m) = SystemFile(Header.name, Slice(offset + BLOCK, Header.size))
  BY <1>2, <1>5, <1>6 DEF FileOf
<1> QED BY <1>1, <1>4, <1>5, <1>6, <1>7, <1>8

(* Agents neither add nor remove system files. *)
LEMMA ThoseKept ==
  ASSUME FilesInv, AgentWrite \/ Delete
  PROVE  Those(files', ReadOnly) = Those(files, ReadOnly)
<1>1. files \in Seq(VirtualFile)
  BY DEF FilesInv
<1>2. CASE AgentWrite
  <2>1. PICK n \in FileNames, d \in WrittenData, o \in Owners : write_file(n, d, o)
    BY <1>2 DEF AgentWrite
  <2>2. PICK g : g = AgentFile(n, d, o)
    BY ZenonT(60)
  <2>3. g \in VirtualFile /\ g \notin ReadOnly
    BY <2>2, FileAssumption DEF AgentFile, VirtualFile, ReadOnly
  <2>4. CASE files' = files
    BY <2>4
  <2>5. CASE files' = Append(files, g)
    <3>1. Those(files', ReadOnly) = Those(files, ReadOnly) \o << >>
      BY <1>1, <2>3, <2>5, ThoseAppend, ZenonT(60)
    <3> QED BY <1>1, <3>1, SelectType, ConcatEmptySeq DEF Those
  <2>6. CASE write_file_ok(n) /\ Exists(n)
    <3>1. PICK k : First(files, n, k)
      BY <1>1, <2>6, FirstExists DEF Exists
    <3>2. k = FirstIndex(n)
      BY <1>1, <3>1, FirstChosen DEF FirstIndex
    <3>3. files' = [files EXCEPT ![k] = g] /\ ~files[k].read_only /\ k \in DOMAIN files
      BY <2>1, <2>2, <2>6, <3>1, <3>2 DEF write_file, write_file_ok, First
    <3>4. /\ DOMAIN files' = DOMAIN files
          /\ \A i \in DOMAIN files : IF i = k THEN files'[i] = g ELSE files'[i] = files[i]
      BY <3>3
    <3>5. files[k] \notin ReadOnly
      BY <3>3 DEF ReadOnly
    <3>6. PICK K, L : /\ K = {i \in DOMAIN files' : files'[i] \in ReadOnly}
                      /\ L = {i \in DOMAIN files : files[i] \in ReadOnly}
      BY ZenonT(60)
    <3>7. \A i \in DOMAIN files : (i \in K <=> i \in L) /\ (i \in K => files'[i] = files[i])
      BY <2>3, <3>4, <3>5, <3>6
    <3>8. SelectAt(files', K) = SelectAt(files, L)
      BY <3>4, <3>7, SelectSame
    <3> QED BY <3>6, <3>8 DEF Those
  <2> QED BY <2>1, <2>2, <2>4, <2>5, <2>6 DEF write_file
<1>3. CASE Delete
  <2>1. PICK n \in FileNames : delete_file(n)
    BY <1>3 DEF Delete
  <2>2. PICK K : K = {i \in DOMAIN files : files[i].name # n \/ files[i].read_only}
    BY ZenonT(60)
  <2>3. files' = SelectAt(files, K)
    BY <2>1, <2>2 DEF delete_file
  <2>4. \A i \in DOMAIN files : files[i] \in ReadOnly => i \in K
    BY <2>2 DEF ReadOnly
  <2> QED BY <1>1, <2>3, <2>4, ThoseSelected
<1> QED BY <1>2, <1>3

LEMMA ArchiveNext ==
  ASSUME LoaderInv, FilesInv, ArchiveInv, [InitramfsNext]_initramfsVars
  PROVE  ArchiveInv'
<1> SUFFICES ASSUME PlainNames(entries')
             PROVE  IF mounting' THEN \E k \in Nat : AtEntry(k)' ELSE AllLoaded'
  BY DEF ArchiveInv
<1>1. entries' = entries /\ len' = len /\ mounting \in BOOLEAN
  BY ZenonT(60) DEF InitramfsNext, MountStep, Finish, SkipInvalidName, MountRegular, Truncated, SkipOther,
         AgentWrite, Delete, initramfsVars, archiveVars, LoaderInv
<1>2. PlainNames(entries)
  BY <1>1
<1>3. CASE UNCHANGED initramfsVars
  BY <1>2, <1>3 DEF ArchiveInv, initramfsVars, AtEntry, AllLoaded
<1>4. CASE AgentWrite \/ Delete
  <2>1. ~mounting /\ mounting' = mounting /\ count' = count
    BY <1>4 DEF AgentWrite, Delete, archiveVars
  <2>2. Those(files', ReadOnly) = Those(files, ReadOnly)
    BY <1>4, ThoseKept
  <2> QED BY <1>1, <1>2, <2>1, <2>2 DEF ArchiveInv, AllLoaded
<1>5. CASE MountStep
  <2>1. mounting
    BY <1>5, ZenonT(60) DEF MountStep, Finish, SkipInvalidName, MountRegular, Truncated, SkipOther
  <2>2. PICK k \in Nat : AtEntry(k)
    BY <1>2, <2>1 DEF ArchiveInv
  <2>3. offset \in Nat /\ BLOCK \in Nat /\ len \in Nat /\ (~AtEnd => offset + BLOCK <= len)
    BY WholeBlocks, InitramfsAssumption DEF LoaderInv, AtEnd
  <2>4. CASE Finish
    <3>1. k < Len(entries) => offset + BLOCK > len
      <4> SUFFICES ASSUME k < Len(entries) PROVE offset + BLOCK > len
        OBVIOUS
      <4>1. Header = HeaderBlock(entries[k + 1])
        BY <2>2, HeaderAfter DEF AtEntry
      <4>2. ~Header.null
        BY <4>1 DEF HeaderBlock
      <4>3. ~(offset + BLOCK <= len)
        BY <2>4, <4>2, ZenonT(60) DEF Finish, AtEnd
      <4> QED BY <2>3, <4>3
    <3>2. files' = files /\ count' = count /\ ~mounting'
      BY <2>4 DEF Finish
    <3>3. AllLoaded'
      BY <1>1, <2>1, <2>2, <3>1, <3>2, CutHere
    <3> QED BY <3>2, <3>3
  <2>5. CASE ~AtEnd
    <3>1. PICK m \in Nat, e \in Entry : m = k + 1 /\ e = entries[m]
      BY <2>2, <2>5, AtHeader
    <3>2. /\ k < Len(entries)
          /\ Header.name = e.name /\ Header.size = e.size /\ Header.regular = e.regular
          /\ m \in Whole(entries, len) <=> /\ Header.name # NotUtf8 /\ Header.regular
                                           /\ offset + BLOCK + Header.size <= len
          /\ FileOf(entries, m) = SystemFile(Header.name, Slice(offset + BLOCK, Header.size))
      BY <2>2, <2>5, <3>1, AtHeader
    <3>3. e.size \in Nat /\ m \in DOMAIN entries
      BY <3>1, <3>2, EntrySize, LenProperties DEF LoaderInv
    <3>4. CASE SkipInvalidName
      <4>1. e.name = NotUtf8 /\ m \notin Whole(entries, len)
        BY <3>2, <3>4 DEF SkipInvalidName
      <4>2. e.size = 0
        BY <1>2, <3>1, <3>3, <4>1 DEF PlainNames
      <4>3. Align(e.size) = 0
        BY <3>3, <4>2, AlignBlocks
      <4>4. offset' = offset + BLOCK + Align(e.size) /\ files' = files /\ count' = count
        BY <2>3, <3>4, <4>3 DEF SkipInvalidName
      <4>5. AtEntry(k + 1)'
        BY <1>1, <2>2, <3>1, <3>2, <4>1, <4>4, NextEntry
      <4>6. mounting'
        BY <3>4 DEF SkipInvalidName
      <4> QED BY <4>5, <4>6
    <3>5. CASE MountRegular
      <4>1. /\ m \in Whole(entries, len) /\ count' = count + 1
            /\ files' = Append(files, FileOf(entries, m))
            /\ offset' = offset + BLOCK + Align(e.size)
        BY <3>2, <3>5 DEF MountRegular, register_file, SkipSize
      <4>2. AtEntry(k + 1)'
        BY <1>1, <2>2, <3>1, <3>2, <4>1, NextEntry
      <4>3. mounting'
        BY <3>5 DEF MountRegular
      <4> QED BY <4>2, <4>3
    <3>6. CASE SkipOther
      <4>1. /\ m \notin Whole(entries, len) /\ count' = count /\ files' = files
            /\ offset' = offset + BLOCK + Align(e.size)
        BY <3>2, <3>6 DEF SkipOther, SkipSize
      <4>2. AtEntry(k + 1)'
        BY <1>1, <2>2, <3>1, <3>2, <4>1, NextEntry
      <4>3. mounting'
        BY <3>6 DEF SkipOther
      <4> QED BY <4>2, <4>3
    <3>7. CASE Truncated
      <4>1. offset + BLOCK + e.size > len /\ files' = files /\ count' = count /\ ~mounting'
        BY <3>2, <3>7 DEF Truncated
      <4>2. m \notin Whole(entries, len)
        BY <2>3, <3>2, <3>3, <4>1
      <4>3. AllLoaded'
        BY <1>1, <2>1, <2>2, <3>1, <4>1, <4>2, CutHere
      <4> QED BY <4>1, <4>3
    <3> QED BY <1>5, <2>5, <3>4, <3>5, <3>6, <3>7 DEF MountStep, Finish
  <2> QED BY <1>5, <2>4, <2>5, ZenonT(60)
          DEF MountStep, SkipInvalidName, MountRegular, Truncated, SkipOther
<1> QED BY <1>3, <1>4, <1>5 DEF InitramfsNext

(* What the invariant says once init has returned. *)
LEMMA ArchiveLoaded ==
  ASSUME LoaderInv, FilesInv, ArchiveInv
  PROVE  MountsTheArchive
<1> SUFFICES ASSUME ~mounting, PlainNames(entries)
             PROVE  /\ SystemFiles = [k \in DOMAIN Mountable |-> EntryFile(Mountable[k])]
                    /\ count = Len(SystemFiles)
  BY DEF MountsTheArchive, PlainNames
<1>1. PICK es, n, l : es \in Seq(Entry) /\ n \in Nat /\ es = entries /\ n = Len(es) /\ l = len
  BY LenProperties DEF LoaderInv
<1> es \in Seq(Entry) /\ n \in Nat
  BY <1>1
<1>2. DOMAIN es = 1 .. n
  BY <1>1, LenProperties
<1>3. ASSUME NEW i \in DOMAIN es PROVE EntryOffset(i) = Offs(es, i - 1)
  <2>1. [j \in 1 .. i - 1 |-> EntryBlocks(entries[j])] = Upto(BlocksOf(es), i - 1)
    BY <1>1, <1>2 DEF Upto, BlocksOf
  <2> QED BY <2>1 DEF EntryOffset, Offs, FlatLen
<1>4. PICK r : r = SelectAt(Ids(n), Whole(es, l))
  BY ZenonT(60)
<1>5. Mountable = r
  <2>1. [i \in DOMAIN entries |-> i] = Ids(n)
    BY <1>1, <1>2 DEF Ids
  <2>2. {i \in DOMAIN entries : /\ entries[i].name # NotUtf8 /\ entries[i].regular
                                /\ EntryOffset(i) + BLOCK + entries[i].size <= len}
          = Whole(es, l)
    BY <1>1, <1>3 DEF Whole
  <2> QED BY <1>4, <2>1, <2>2, ZenonT(60) DEF Mountable
<1>6. r \in Seq(DOMAIN es)
  <2>1. Ids(n) \in Seq(DOMAIN es)
    BY <1>2 DEF Ids
  <2> QED BY <1>4, <2>1, SelectType
<1>7. \A k \in DOMAIN r : EntryFile(r[k]) = FileOf(es, r[k])
  <2> SUFFICES ASSUME NEW k \in DOMAIN r PROVE EntryFile(r[k]) = FileOf(es, r[k])
    OBVIOUS
  <2>1. PICK i \in DOMAIN es : i = r[k]
    BY <1>6, LenProperties, ElementOfSeq
  <2>2. EntryFile(i) = FileOf(es, i)
    BY <1>1, <1>3 DEF EntryFile, FileOf
  <2> QED BY <2>1, <2>2
<1>8. [k \in DOMAIN Mountable |-> EntryFile(Mountable[k])] = Loaded(es, l, n)
  <2>1. [k \in DOMAIN r |-> EntryFile(r[k])] = FilesOf(es, r)
    BY <1>7 DEF FilesOf
  <2> QED BY <1>4, <1>5, <2>1 DEF Loaded
<1>9. SystemFiles = Those(files, ReadOnly)
  BY SystemFilesAre
<1>10. AllLoaded
  BY DEF ArchiveInv
<1> QED BY <1>1, <1>8, <1>9, <1>10 DEF AllLoaded

(* initramfs::init mounts the archive, for every archive and wherever it   *)
(* is cut: its loop, which knows nothing of where the entries begin, is at *)
(* the header of an entry in every iteration and has mounted what can be   *)
(* mounted of those before it.                                             *)
THEOREM ArchiveMounted == InitramfsSpec => []MountsTheArchive
<1>1. InitramfsInit => LoaderInv /\ FilesInv /\ ArchiveInv
  BY LoaderInit, ArchiveInit
<1>2. LoaderInv /\ FilesInv /\ ArchiveInv /\ [InitramfsNext]_initramfsVars
        => (LoaderInv /\ FilesInv /\ ArchiveInv)'
  BY LoaderNext, FilesNext, ArchiveNext
<1>3. LoaderInv /\ FilesInv /\ ArchiveInv => MountsTheArchive
  BY ArchiveLoaded
<1> QED BY <1>1, <1>2, <1>3, PTL DEF InitramfsSpec

-----------------------------------------------------------------------------
(* The files of fs are pieces of an archive of l bytes, in its order and   *)
(* with a header before each; all of them end before o.                    *)
Apart(fs, l) ==
  \A i \in DOMAIN fs :
    /\ fs[i].data.at \in Nat /\ fs[i].data.size \in Nat
    /\ fs[i].data.at + fs[i].data.size <= l
    /\ \A j \in DOMAIN fs : i < j /\ fs[i].data.size > 0 /\ fs[j].data.size > 0 =>
         fs[i].data.at + fs[i].data.size + BLOCK <= fs[j].data.at

Behind(fs, o) == \A i \in DOMAIN fs : fs[i].data.at + fs[i].data.size <= o

(* The loader is behind all it has mounted, whatever it took for a header. *)
ApartInv == /\ Apart(Those(files, ReadOnly), len)
            /\ mounting => Behind(files, offset)

(* One more file, whose header is at o, and whose blocks take x bytes. *)
LEMMA ApartAppend ==
  ASSUME NEW S, NEW fs \in Seq(S), NEW f \in S, NEW l \in Nat, NEW o \in Nat,
         Apart(fs, l), Behind(fs, o), NEW size \in Nat, f.data = Slice(o + BLOCK, size),
         o + BLOCK + size <= l, NEW x \in Nat, size <= x
  PROVE  Apart(Append(fs, f), l) /\ Behind(Append(fs, f), o + BLOCK + x)
<1>1. PICK n, gs : n \in Nat /\ n = Len(fs) /\ gs = Append(fs, f)
  BY LenProperties, ZenonT(60)
<1> n \in Nat
  BY <1>1
<1>2. /\ DOMAIN gs = 1 .. n + 1 /\ DOMAIN fs = 1 .. n /\ gs[n + 1] = f
      /\ \A i \in 1 .. n : gs[i] = fs[i]
  BY <1>1, AppendProperties, LenProperties
<1>3. BLOCK \in Nat
  BY InitramfsAssumption
<1>4. PICK a \in Nat : /\ f.data.at = a /\ f.data.size = size
                       /\ a + size <= l /\ a + size <= o + BLOCK + x
                       /\ size > 0 => a = o + BLOCK
  BY <1>3 DEF Slice
<1>5. ASSUME NEW i \in 1 .. n
      PROVE  /\ gs[i].data.at \in Nat /\ gs[i].data.size \in Nat
             /\ gs[i].data.at + gs[i].data.size <= l
             /\ gs[i].data.at + gs[i].data.size <= o
             /\ \A j \in 1 .. n : i < j /\ gs[i].data.size > 0 /\ gs[j].data.size > 0 =>
                  gs[i].data.at + gs[i].data.size + BLOCK <= gs[j].data.at
  BY <1>2, ZenonT(60) DEF Apart, Behind
<1>6. Behind(gs, o + BLOCK + x)
  <2> SUFFICES ASSUME NEW i \in 1 .. n + 1
               PROVE  gs[i].data.at + gs[i].data.size <= o + BLOCK + x
    BY <1>2 DEF Behind
  <2>1. CASE i \in 1 .. n
    BY <1>3, <1>5, <2>1
  <2>2. CASE i = n + 1
    BY <1>2, <1>4, <2>2
  <2> QED BY <2>1, <2>2
<1>7. Apart(gs, l)
  <2> SUFFICES ASSUME NEW i \in 1 .. n + 1
               PROVE  /\ gs[i].data.at \in Nat /\ gs[i].data.size \in Nat
                      /\ gs[i].data.at + gs[i].data.size <= l
                      /\ \A j \in 1 .. n + 1 : i < j /\ gs[i].data.size > 0 /\ gs[j].data.size > 0 =>
                           gs[i].data.at + gs[i].data.size + BLOCK <= gs[j].data.at
    BY <1>2 DEF Apart
  <2>1. CASE i = n + 1
    BY <1>2, <1>4, <2>1
  <2>2. CASE i \in 1 .. n
    <3>1. ASSUME gs[i].data.size > 0, gs[n + 1].data.size > 0
          PROVE  gs[i].data.at + gs[i].data.size + BLOCK <= gs[n + 1].data.at
      <4>1. gs[n + 1].data.at = o + BLOCK
        BY <1>2, <1>4, <3>1
      <4> QED BY <1>3, <1>5, <2>2, <4>1
    <3>2. ASSUME NEW j \in 1 .. n + 1, i < j, gs[i].data.size > 0, gs[j].data.size > 0
          PROVE  gs[i].data.at + gs[i].data.size + BLOCK <= gs[j].data.at
      <4>1. CASE j = n + 1
        BY <3>1, <3>2, <4>1
      <4>2. CASE j \in 1 .. n
        BY <1>5, <2>2, <3>2, <4>2
      <4> QED BY <4>1, <4>2
    <3> QED BY <1>5, <2>2, <3>2
  <2> QED BY <2>1, <2>2
<1> QED BY <1>1, <1>6, <1>7

LEMMA ApartInit == ASSUME InitramfsInit PROVE ApartInv
<1>1. files = << >> /\ Those(files, ReadOnly) = << >>
  BY SelectEmpty DEF InitramfsInit, VfsInit, Those
<1> QED BY <1>1 DEF ApartInv, Apart, Behind

LEMMA ApartNext ==
  ASSUME LoaderInv, FilesInv, FilesInv', ApartInv, [InitramfsNext]_initramfsVars
  PROVE  ApartInv'
<1>1. offset \in Nat /\ BLOCK \in Nat /\ len \in Nat
  BY WholeBlocks, InitramfsAssumption DEF LoaderInv
<1>2. ASSUME files' = files, len' = len, mounting' => mounting /\ offset' \in Nat /\ offset <= offset'
      PROVE  ApartInv'
  <2>1. Apart(Those(files', ReadOnly), len')
    BY <1>2 DEF ApartInv
  <2>2. ASSUME mounting' PROVE Behind(files', offset')
    <3>1. Behind(files, offset) /\ Apart(files, len)
      BY <1>2, <2>2, OnlySystemFiles DEF ApartInv
    <3> QED BY <1>1, <1>2, <2>2, <3>1 DEF Behind, Apart
  <2> QED BY <2>1, <2>2 DEF ApartInv
<1>3. CASE AgentWrite \/ Delete
  <2>1. ~mounting' /\ len' = len
    BY <1>3 DEF AgentWrite, Delete, archiveVars
  <2>2. Those(files', ReadOnly) = Those(files, ReadOnly)
    BY <1>3, ThoseKept
  <2> QED BY <2>1, <2>2 DEF ApartInv
<1>4. ASSUME ~AtEnd PROVE Header.size \in Nat /\ Align(Header.size) \in Nat /\ Header.size <= Align(Header.size)
  <2>1. offset + BLOCK <= len
    BY <1>4, ZenonT(60) DEF AtEnd
  <2>2. Header \in Block
    BY <2>1, HeaderIs
  <2>3. PICK z \in Nat : z = Header.size
    BY <2>2, BlockSize
  <2>4. PICK q \in Nat : Align(z) = BLOCK * q /\ z <= Align(z)
    BY AlignBlocks, ZenonT(60)
  <2>5. Align(z) \in Nat
    BY <2>4, WholeBlocks
  <2> QED BY <2>3, <2>4, <2>5
<1>5. CASE MountRegular
  <2>1. /\ mounting /\ mounting' = mounting /\ ~AtEnd /\ len' = len
        /\ offset + BLOCK + Header.size <= len
        /\ files' = Append(files, SystemFile(Header.name, Slice(offset + BLOCK, Header.size)))
        /\ offset' = offset + BLOCK + Align(Header.size)
    BY <1>5 DEF MountRegular, register_file, SkipSize
  <2>2. PICK z \in Nat, x \in Nat : z = Header.size /\ x = Align(Header.size) /\ z <= x
    BY <1>4, <2>1
  <2>3. PICK f : f = SystemFile(Header.name, Slice(offset + BLOCK, z))
    BY ZenonT(60)
  <2>4. f.data = Slice(offset + BLOCK, z) /\ files' = Append(files, f)
    BY <2>1, <2>2, <2>3 DEF SystemFile
  <2>5. files \in Seq(VirtualFile) /\ f \in VirtualFile
    <3>1. Header.name \in FileNames /\ Slice(offset + BLOCK, Header.size) \in FileData
      BY <1>5, MountedData DEF MountRegular
    <3> QED BY <2>2, <2>3, <3>1 DEF SystemFile, VirtualFile, FilesInv
  <2>6. Apart(files, len) /\ Behind(files, offset)
    BY <2>1, OnlySystemFiles DEF ApartInv
  <2>7. Apart(Append(files, f), len) /\ Behind(Append(files, f), offset + BLOCK + x)
    BY <1>1, <2>1, <2>2, <2>4, <2>5, <2>6, ApartAppend, ZenonT(60)
  <2>8. Those(files', ReadOnly) = files'
    BY <2>1, AllReadOnly, ZenonT(60) DEF FilesInv
  <2> QED BY <2>1, <2>2, <2>4, <2>7, <2>8, ZenonT(60) DEF ApartInv
<1>6. CASE Finish \/ Truncated
  <2>1. files' = files /\ len' = len /\ ~mounting'
    BY <1>6, ZenonT(60) DEF Finish, Truncated
  <2> QED BY <1>2, <2>1
<1>7. CASE SkipInvalidName
  <2>1. files' = files /\ len' = len /\ mounting' = mounting /\ mounting /\ offset' = offset + BLOCK
    BY <1>7, ZenonT(60) DEF SkipInvalidName
  <2> QED BY <1>1, <1>2, <2>1
<1>8. CASE SkipOther
  <2>1. /\ files' = files /\ len' = len /\ mounting' = mounting /\ mounting /\ ~AtEnd
        /\ offset' = offset + BLOCK + Align(Header.size)
    BY <1>8, ZenonT(60) DEF SkipOther, SkipSize
  <2>2. offset' \in Nat /\ offset <= offset'
    BY <1>1, <1>4, <2>1
  <2> QED BY <1>2, <2>1, <2>2
<1>9. CASE UNCHANGED initramfsVars
  <2>1. files' = files /\ len' = len /\ mounting' = mounting /\ offset' = offset
    BY <1>9 DEF initramfsVars
  <2> QED BY <1>1, <1>2, <2>1
<1> QED BY <1>3, <1>5, <1>6, <1>7, <1>8, <1>9, ZenonT(60) DEF InitramfsNext, MountStep

(* Every system file is a piece of the archive and no two share a byte,    *)
(* for every archive: initramfs::init never mounts bytes it has not        *)
(* checked to be there, and each iteration of its loop moves behind what   *)
(* it mounted, also where it reads the data of an entry with an invalid    *)
(* name as headers.                                                        *)
THEOREM FilesApart == InitramfsSpec => []MountedApart
<1>1. InitramfsInit => LoaderInv /\ FilesInv /\ ApartInv
  BY LoaderInit, ApartInit
<1>2. LoaderInv /\ FilesInv /\ ApartInv /\ [InitramfsNext]_initramfsVars
        => (LoaderInv /\ FilesInv /\ ApartInv)'
  BY LoaderNext, FilesNext, ApartNext
<1>3. FilesInv /\ ApartInv => MountedApart
  BY SystemFilesAre DEF ApartInv, Apart, MountedApart
<1> QED BY <1>1, <1>2, <1>3, PTL DEF InitramfsSpec
=============================================================================
