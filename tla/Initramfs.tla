------------------------------ MODULE Initramfs ------------------------------
(***************************************************************************)
(* initramfs.rs: the loader walks a USTAR archive block by block and       *)
(* registers its regular files with the file system; afterwards agents     *)
(* write and files are deleted.                                            *)
(*                                                                         *)
(* The archive is what an archiver makes of a sequence of entries: a       *)
(* header block per entry, then the entry's data in whole blocks, then a   *)
(* null block, the whole possibly cut short.  The loader does not know     *)
(* which blocks are headers: it reads whatever block its offset names, and *)
(* file data may look like any header.                                     *)
(***************************************************************************)
EXTENDS Vfs

CONSTANTS
  BLOCK,       \* bytes in a block, 512 in a USTAR archive
  EntryNames,  \* the names of archive entries, NotUtf8 possibly among them
  Sizes,       \* the sizes of archive entries, in bytes
  MaxEntries,  \* bound: entries in an archive
  MaxArchive,  \* bound: bytes in an archive
  NotUtf8,     \* an entry name that is not valid UTF-8
  Bodies,      \* what blocks of file data read as when taken for headers
  WrittenData  \* what agents write

ASSUME InitramfsAssumption ==
  /\ BLOCK \in Nat \ {0}
  /\ Sizes \subseteq Nat
  /\ MaxEntries \in Nat
  /\ MaxArchive \in Nat
  /\ Bodies \subseteq [null : BOOLEAN, name : EntryNames, size : Sizes, regular : BOOLEAN]

(* The file system may hold what the archive or an agent puts there. *)
ASSUME FileAssumption ==
  /\ EntryNames \ {NotUtf8} \subseteq FileNames
  /\ [at : 0 .. MaxArchive, size : Sizes \cup {0}] \cup WrittenData \subseteq FileData

VARIABLES
  entries,    \* the entries the archive was made of
  len,        \* archive.len()
  offset,     \* init's local variable
  count,      \* init's local variable, its result once it has returned
  mounting,   \* whether init is still running
  op          \* history: the last call of vfs.rs that changes files, its
              \* arguments and its result

initramfsVars == <<files, entries, len, offset, count, mounting, op>>
archiveVars == <<entries, len, offset, count, mounting>>

(* (size + 511) & !511 *)
Align(size) == ((size + BLOCK - 1) \div BLOCK) * BLOCK

(* An entry of the archive, with what the blocks of its data look like. *)
Entry == UNION {[name : EntryNames, size : {size}, regular : BOOLEAN,
                 data : [1 .. Align(size) \div BLOCK -> Bodies]] : size \in Sizes}

(* The blocks of an archive as the header parser sees them. *)
HeaderBlock(e) ==
  [null |-> FALSE, name |-> e.name, size |-> e.size, regular |-> e.regular]
NullBlock == [null |-> TRUE, name |-> NotUtf8, size |-> 0, regular |-> TRUE]

EntryBlocks(e) == <<HeaderBlock(e)>> \o e.data

Blocks == Flatten([i \in DOMAIN entries |-> EntryBlocks(entries[i])]) \o <<NullBlock>>

(* &archive[from..from + size]: where in the archive the bytes are; all    *)
(* empty slices are the same.                                              *)
Slice(from, size) == [at |-> IF size = 0 THEN 0 ELSE from, size |-> size]

-----------------------------------------------------------------------------
Header == Blocks[offset \div BLOCK + 1]

AtEnd == offset + BLOCK <= len => Header.null

\* mutant: the data of an entry that is not a regular file is not skipped
SkipSize_RegularOnly(h) == IF h.regular THEN Align(h.size) ELSE 0

\* mutant: the size is rounded down to whole blocks
SkipSize_Down(h) == (h.size \div BLOCK) * BLOCK

(* offset += aligned_size, after offset += 512. *)
SkipSize(h) == Align(h.size)

(* The loop's test, and the break on a null block. *)
Finish == /\ mounting
          /\ AtEnd
          /\ mounting' = FALSE
          /\ UNCHANGED <<files, entries, len, offset, count, op>>

\* mutant: continue without moving past the header
SkipInvalidName_Stay ==
  /\ mounting
  /\ ~AtEnd
  /\ Header.name = NotUtf8
  /\ UNCHANGED initramfsVars

(* A name that is not UTF-8: only the header block is skipped. *)
SkipInvalidName ==
  /\ mounting
  /\ ~AtEnd
  /\ Header.name = NotUtf8
  /\ offset' = offset + BLOCK
  /\ UNCHANGED <<files, entries, len, count, mounting, op>>

MountRegular ==
  /\ mounting
  /\ ~AtEnd
  /\ Header.name # NotUtf8
  /\ Header.regular
  /\ offset + BLOCK + Header.size <= len
  /\ register_file(Header.name, Slice(offset + BLOCK, Header.size))
  /\ op' = <<"register", Header.name, Slice(offset + BLOCK, Header.size), TRUE>>
  /\ count' = count + 1
  /\ offset' = offset + BLOCK + SkipSize(Header)
  /\ UNCHANGED <<entries, len, mounting>>

(* "File extends beyond archive boundaries": the loop is left. *)
Truncated ==
  /\ mounting
  /\ ~AtEnd
  /\ Header.name # NotUtf8
  /\ Header.regular
  /\ offset + BLOCK + Header.size > len
  /\ offset' = offset + BLOCK
  /\ mounting' = FALSE
  /\ UNCHANGED <<files, entries, len, count, op>>

SkipOther ==
  /\ mounting
  /\ ~AtEnd
  /\ Header.name # NotUtf8
  /\ ~Header.regular
  /\ offset' = offset + BLOCK + SkipSize(Header)
  /\ UNCHANGED <<files, entries, len, count, mounting, op>>

(* Agents write through file_write once the archive is mounted. *)
AgentWrite == /\ ~mounting
              /\ \E n \in FileNames, d \in WrittenData, o \in Owners :
                   /\ write_file(n, d, o)
                   /\ op' = <<"write", n, d, write_file_ok(n)>>
              /\ UNCHANGED archiveVars

Delete == /\ ~mounting
          /\ \E n \in FileNames : /\ delete_file(n)
                                 /\ op' = <<"delete", n, NoFile, delete_file_ok(n)>>
          /\ UNCHANGED archiveVars

-----------------------------------------------------------------------------
(* include_bytes!("archive.tar"): any archive that is not empty. *)
InitramfsInit ==
  /\ entries \in SequencesUpTo(Entry, MaxEntries)
  /\ BLOCK * Len(Blocks) <= MaxArchive
  /\ len \in 1 .. BLOCK * Len(Blocks)
  /\ VfsInit
  /\ offset = 0
  /\ count = 0
  /\ mounting = TRUE
  /\ op = << >>

MountStep == Finish \/ SkipInvalidName \/ MountRegular \/ Truncated \/ SkipOther

InitramfsNext == MountStep \/ AgentWrite \/ Delete

InitramfsSpec ==
  InitramfsInit /\ [][InitramfsNext]_initramfsVars /\ WF_initramfsVars(MountStep)

-----------------------------------------------------------------------------
(* The types; the offset always is that of a block. *)
InitramfsTypeOK ==
  /\ mounting \in BOOLEAN
  /\ offset \in Nat /\ offset % BLOCK = 0
  /\ count \in Nat
  /\ VfsTypeOK

(* The place of an entry: after the blocks of the entries before it. *)
EntryOffset(i) == BLOCK * Len(Flatten([j \in 1 .. i - 1 |-> EntryBlocks(entries[j])]))

(* The regular entries that are in the archive up to their last byte. *)
Mountable ==
  SelectAt([i \in DOMAIN entries |-> i],
           {i \in DOMAIN entries : /\ entries[i].name # NotUtf8
                                   /\ entries[i].regular
                                   /\ EntryOffset(i) + BLOCK + entries[i].size <= len})

EntryFile(i) ==
  SystemFile(entries[i].name, Slice(EntryOffset(i) + BLOCK, entries[i].size))

SystemFiles == SelectAt(files, {i \in DOMAIN files : files[i].read_only})

(* initramfs::init mounts the archive and reports how many files it holds: *)
(* once it has returned, the system files are the regular entries that are *)
(* wholly in the archive, in the archive's order and with their own bytes, *)
(* whatever the blocks in between look like and wherever the archive is    *)
(* cut.  Later writes and deletions leave them as they are.  An entry      *)
(* whose name is not UTF-8 must have no data: the loader skips only the    *)
(* header of such an entry, and would read its data as headers.            *)
MountsTheArchive ==
  /\ ~mounting
  /\ \A i \in DOMAIN entries : entries[i].name = NotUtf8 => entries[i].size = 0
  => /\ SystemFiles = [k \in DOMAIN Mountable |-> EntryFile(Mountable[k])]
     /\ count = Len(SystemFiles)

(* Whatever the archive holds, the data of an entry with an invalid name   *)
(* read as headers too, every system file is a piece of the archive, and   *)
(* no two share a byte: between one file and the next is the header block  *)
(* of the next.                                                            *)
MountedApart ==
  \A i, j \in DOMAIN SystemFiles :
    LET a == SystemFiles[i].data
        b == SystemFiles[j].data
    IN  /\ a.at + a.size <= len
        /\ i < j /\ a.size > 0 /\ b.size > 0 => a.at + a.size + BLOCK <= b.at

(* initramfs::init returns, whatever the archive: every iteration of its   *)
(* loop moves the offset on.                                               *)
MountReturns == <>~mounting

(* The file system implements the map of FileMap, with open_file as its    *)
(* lookup: a system file cannot be replaced, removed or hidden, any other  *)
(* name holds what was last written to it until it is deleted, and         *)
(* write_file and delete_file return whether they did what was asked.      *)
Map == INSTANCE FileMap WITH
         content <- [n \in FileNames |-> open_file(n)],
         system <- {files[i].name : i \in {j \in DOMAIN files : files[j].read_only}}

ImplementsFileMap == Map!MapSpec
=============================================================================
