----------------------------- MODULE Capability -----------------------------
(***************************************************************************)
(* capability.rs: the global table of capabilities, the counter it takes   *)
(* identifiers from, and the predicates through which every host function  *)
(* asks whether a list of capability identifiers allows an operation.      *)
(*                                                                         *)
(* CAPABILITY_STORE and NEXT_CAP_ID are guarded by spin locks that every   *)
(* operation takes and releases before it returns, and no interrupt        *)
(* handler calls any of them: each operation is one atomic step.           *)
(***************************************************************************)
EXTENDS Lists

CONSTANTS
  Paths,     \* the strings used as file names, paths and path prefixes
  Pids,      \* the process identifiers that occur, KERNEL_SUPERVISOR_PID too
  MaxCaps    \* bound: no more than MaxCaps capabilities are ever created

ASSUME CapabilityAssumption ==
  /\ Paths \subseteq Seq(STRING)
  /\ Pids \subseteq Nat
  /\ 0 \in Pids
  /\ MaxCaps \in Nat

VARIABLES
  store,        \* CAPABILITY_STORE: a map from identifiers to capabilities
  next_cap_id   \* NEXT_CAP_ID

(* The variants of enum Capability.  No operation looks into a Memory,     *)
(* Interrupt or Port capability of a running agent, so these keep no       *)
(* fields; Spawn's max_children is never read and is left out as well.     *)
NetworkCap == [kind |-> "Network"]
SpawnCap == [kind |-> "Spawn"]
ProcessCap(p, send, recv) ==
  [kind |-> "Process", pid |-> p, can_send |-> send, can_receive |-> recv]
FileSystemCap(prefix, r, w) ==
  [kind |-> "FileSystem", path_prefix |-> prefix, read |-> r, write |-> w]

Capabilities ==
  [kind : {"Network", "Spawn", "Memory", "Interrupt", "Port"}]
    \cup [kind : {"Process"}, pid : Pids, can_send : BOOLEAN, can_receive : BOOLEAN]
    \cup [kind : {"FileSystem"}, path_prefix : Paths, read : BOOLEAN, write : BOOLEAN]

CapIds == Nat \ {0}

-----------------------------------------------------------------------------
(* create_capability: the next identifier is taken, the counter is moved   *)
(* past it and the capability stored under it.  NewCapId is the returned   *)
(* identifier.                                                             *)
NewCapId == next_cap_id

\* mutant: the lowest free identifier is taken instead of the counter's
create_capability_LowestFree(cap) ==
  LET free == CHOOSE i \in (1 .. next_cap_id) \ DOMAIN store : 1 .. i - 1 \subseteq DOMAIN store
  IN /\ next_cap_id <= MaxCaps
     /\ next_cap_id' = next_cap_id + 1
     /\ store' = [id \in DOMAIN store \cup {free} |->
                    IF id = free THEN cap ELSE store[id]]

create_capability(cap) ==
  /\ next_cap_id <= MaxCaps
  /\ next_cap_id' = next_cap_id + 1
  /\ store' = [id \in DOMAIN store \cup {next_cap_id} |->
                 IF id = next_cap_id THEN cap ELSE store[id]]

(* validate_capability(id).is_some(). *)
validate_capability(id) == id \in DOMAIN store

(* revoke_capability: the entry goes, the counter stays where it is. *)
revoke_capability(id) ==
  /\ store' = [i \in DOMAIN store \ {id} |-> store[i]]
  /\ UNCHANGED next_cap_id

-----------------------------------------------------------------------------
(* find_capability: some identifier of the list still resolves to a        *)
(* capability that satisfies the predicate.                                *)
find_capability(caps, predicate(_)) ==
  \E i \in DOMAIN caps : /\ validate_capability(caps[i])
                         /\ predicate(store[caps[i]])

AllowsSend(cap, p) == cap.kind = "Process" /\ cap.can_send /\ cap.pid = p

can_send_to(caps, target_pid) ==
  find_capability(caps, LAMBDA c : AllowsSend(c, target_pid))

can_access_network(caps) ==
  find_capability(caps, LAMBDA c : c.kind = "Network")

AllowsRead(cap, path) ==
  cap.kind = "FileSystem" /\ cap.read /\ starts_with(path, cap.path_prefix)

AllowsWrite(cap, path) ==
  cap.kind = "FileSystem" /\ cap.write /\ starts_with(path, cap.path_prefix)

\* mutant: the prefix test the wrong way round
can_read_file_Swapped(caps, path) ==
  find_capability(caps, LAMBDA c : /\ c.kind = "FileSystem"
                                   /\ c.read
                                   /\ starts_with(c.path_prefix, path))

can_read_file(caps, path) ==
  find_capability(caps, LAMBDA c : AllowsRead(c, path))

\* mutant: the prefix is not looked at
can_write_file_NoPrefix(caps, path) ==
  find_capability(caps, LAMBDA c : c.kind = "FileSystem" /\ c.write)

can_write_file(caps, path) ==
  find_capability(caps, LAMBDA c : AllowsWrite(c, path))

-----------------------------------------------------------------------------
CapInit == store = << >> /\ next_cap_id = 1

CapTypeOK ==
  /\ next_cap_id \in CapIds
  /\ store \in [DOMAIN store -> Capabilities]
  /\ DOMAIN store \subseteq 1 .. (next_cap_id - 1)
=============================================================================
