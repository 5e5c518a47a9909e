--------------------------------- MODULE Vfs ---------------------------------
(***************************************************************************)
(* vfs.rs: the files of the kernel, a vector searched from the front.      *)
(* initramfs registers read-only system files while the kernel boots; once *)
(* they are mounted, agents create and overwrite files of their own.       *)
(***************************************************************************)
EXTENDS Lists

CONSTANTS
  FileNames,   \* the names files may have
  FileData,    \* the contents files may have
  Owners,      \* the process identifiers that write files
  NoFile       \* open_file's None

ASSUME VfsAssumption ==
  /\ Owners \subseteq Nat
  /\ NoFile \notin FileData

VARIABLE files   \* VfsRegistry::files

VirtualFile == [name : FileNames, data : FileData, owner_pid : Owners \cup {0},
                read_only : BOOLEAN]

SystemFile(n, d) == [name |-> n, data |-> d, owner_pid |-> 0, read_only |-> TRUE]
AgentFile(n, d, o) == [name |-> n, data |-> d, owner_pid |-> o, read_only |-> FALSE]

Exists(n) == \E i \in DOMAIN files : files[i].name = n

(* iter().find(|f| f.name == name): the first file of that name. *)
FirstIndex(n) ==
  CHOOSE i \in DOMAIN files : /\ files[i].name = n
                              /\ \A j \in 1 .. i - 1 : files[j].name # n

-----------------------------------------------------------------------------
(* register_file does not look whether the name is taken. *)
register_file(n, d) == files' = Append(files, SystemFile(n, d))

open_file(n) == IF Exists(n) THEN files[FirstIndex(n)].data ELSE NoFile

list_files == [i \in DOMAIN files |-> files[i].name]

(* list_files_prefix, as the set of the names it returns. *)
list_files_prefix(prefix) ==
  {files[i].name : i \in {j \in DOMAIN files : starts_with(files[j].name, prefix)}}

\* mutant: the read-only flag is not looked at
write_file_ok_Always(n) == TRUE

(* write_file's result: false exactly when the file found is read-only. *)
write_file_ok(n) == Exists(n) => ~files[FirstIndex(n)].read_only

\* mutant: an agent's file is not looked for before a new one is made
write_file_Append(n, d, o) ==
  files' = IF write_file_ok(n) THEN Append(files, AgentFile(n, d, o)) ELSE files

(* write_file: overwrites the first file of that name, which then belongs  *)
(* to the writer, or appends a new one.                                    *)
write_file(n, d, o) ==
  files' = IF ~write_file_ok(n) THEN files
           ELSE IF Exists(n)
                THEN [files EXCEPT ![FirstIndex(n)] = AgentFile(n, d, o)]
                ELSE Append(files, AgentFile(n, d, o))

(* delete_file: every file of that name that is not read-only. *)
delete_file(n) ==
  files' = SelectAt(files, {i \in DOMAIN files : files[i].name # n \/ files[i].read_only})

(* delete_file's result: fewer files than before. *)
delete_file_ok(n) == \E i \in DOMAIN files : files[i].name = n /\ ~files[i].read_only

-----------------------------------------------------------------------------
VfsInit == files = << >>

VfsTypeOK == files \in Seq(VirtualFile)
=============================================================================
