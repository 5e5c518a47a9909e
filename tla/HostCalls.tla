------------------------------ MODULE HostCalls ------------------------------
(***************************************************************************)
(* wasm.rs: the host functions a WebAssembly module imports.  Each runs to *)
(* its end on the one CPU without giving way to another caller, so each is *)
(* one action, with the effects and the result of the whole function.      *)
(*                                                                         *)
(* Arguments are what the function finds in the module's memory: a value,  *)
(* or one of the ways the access fails.  A module without a memory of its  *)
(* own traps in every call that needs one and changes nothing.             *)
(***************************************************************************)
EXTENDS Ipc, Task, Vfs

CONSTANTS
  Payloads,       \* the contents agents send
  CapTypes,       \* the cap_type arguments of request_capability
  AGENT_PREFIX,   \* the path "/agent/"
  BadPtr,         \* a range of addresses that is not in the module's memory
  TooLong,        \* a length for which the kernel's heap has no room
  NotUtf8,        \* bytes that are not valid UTF-8
  BadArgs         \* which of these three occur

ASSUME HostCallsAssumption ==
  /\ FileNames \subseteq Paths
  /\ Owners \subseteq Pids
  /\ AGENT_PREFIX \in Paths
  /\ << >> \in Paths
  /\ BadArgs \subseteq {BadPtr, TooLong, NotUtf8}

VARIABLES
  ret,      \* the last host call: its result, the file names it let its
            \* caller see and, if any, the caller
  minted    \* history: the capabilities created so far, by identifier

kernelVars == <<store, next_cap_id, agents, next_id, endpoints, files>>
hostVars == <<kernelVars, ret, minted>>

(* The results of a host call besides the codes 0 to 3 it returns: a trap  *)
(* ends the module, a failed allocation panics the kernel.                 *)
Trap == -1
Panic == -2

NoCall == [agent |-> 0, code |-> 0, seen |-> {}]
Return(code) == [agent |-> 0, code |-> code, seen |-> {}]
Disclose(a, code, names) == [agent |-> a, code |-> code, seen |-> names]

(* get_memory, vec![0; len], memory.read: 0 when the bytes were read. *)
Fetch(arg) == IF arg = TooLong THEN Panic ELSE IF arg = BadPtr THEN Trap ELSE 0

(* The same and core::str::from_utf8. *)
FetchText(arg) == IF arg = NotUtf8 THEN Trap ELSE Fetch(arg)

(* memory.write. *)
Store(ptr) == IF ptr = BadPtr THEN Trap ELSE 0

Pointers == {0} \cup (BadArgs \cap {BadPtr})
TextArgs == Paths \cup BadArgs
ByteArgs(S) == S \cup (BadArgs \ {NotUtf8})

mint(cap) == create_capability(cap) /\ minted' = Append(minted, cap)

-----------------------------------------------------------------------------
debug_log(a, text) ==
  /\ ret' = Return(Fetch(text))
  /\ UNCHANGED <<kernelVars, minted>>

\* mutant: a capability of the sender counts after its revocation too
send_ipc_code_Revoked(a, target, data) ==
  LET caps == agent_capabilities(a)
  IN IF Fetch(data) # 0 THEN Fetch(data)
     ELSE IF ~\E i \in DOMAIN caps : AllowsSend(minted[caps[i]], target) THEN 2
     ELSE IF send_result(target, << >>) = "Ok" THEN 0
     ELSE 1

send_ipc_code(a, target, data) ==
  IF Fetch(data) # 0 THEN Fetch(data)
  ELSE IF ~can_send_to(agent_capabilities(a), target) THEN 2
  ELSE IF send_result(target, << >>) = "Ok" THEN 0
  ELSE 1

\* mutant: the sender's capabilities are not asked
send_ipc_Unchecked(a, target, data) ==
  /\ Fetch(data) = 0
  /\ ret' = Return(0)
  /\ send_message(a, target, data, << >>)
  /\ UNCHANGED <<store, next_cap_id, agents, next_id, files, minted>>

send_ipc(a, target, data) ==
  LET code == send_ipc_code(a, target, data)
  IN /\ ret' = Return(code)
     /\ IF code = 0 THEN send_message(a, target, data, << >>)
                    ELSE UNCHANGED endpoints
     /\ UNCHANGED <<store, next_cap_id, agents, next_id, files, minted>>

(* connected: whether there is a network card and Socket::connect is Ok.   *)
tcp_request(a, ip, payload, connected) ==
  /\ ret' = Return(IF ~can_access_network(agent_capabilities(a)) THEN 2
                      ELSE IF Store(ip) # 0 THEN Store(ip)
                      ELSE IF Fetch(payload) # 0 THEN Fetch(payload)
                      ELSE IF connected THEN 0 ELSE 1)
  /\ UNCHANGED <<kernelVars, minted>>

(* resolved: whether dns::resolve returns an address, see module Dns. *)
resolve_dns(a, name, out, resolved) ==
  /\ ret' = Return(IF ~can_access_network(agent_capabilities(a)) THEN 2
                      ELSE IF FetchText(name) # 0 THEN FetchText(name)
                      ELSE IF resolved THEN Store(out) ELSE 1)
  /\ UNCHANGED <<kernelVars, minted>>

file_read(a, path, out, out_len) ==
  /\ ret' = IF FetchText(path) # 0 THEN Return(FetchText(path))
            ELSE IF ~can_read_file(agent_capabilities(a), path) THEN Return(2)
            ELSE IF ~Exists(path) THEN Return(3)
            ELSE IF Store(out) # 0 THEN Return(Trap)
            ELSE Disclose(a, Store(out_len), {path})
  /\ UNCHANGED <<kernelVars, minted>>

file_write_code(a, path, data) ==
  IF FetchText(path) # 0 THEN FetchText(path)
  ELSE IF ~can_write_file(agent_capabilities(a), path) THEN 2
  ELSE IF Fetch(data) # 0 THEN Fetch(data)
  ELSE IF write_file_ok(path) THEN 0
  ELSE 1

\* mutant: permission to read is taken for permission to write
file_write_ReadCheck(a, path, data) ==
  /\ FetchText(path) = 0
  /\ Fetch(data) = 0
  /\ can_read_file(agent_capabilities(a), path)
  /\ ret' = Return(0)
  /\ write_file(path, data, a)
  /\ UNCHANGED <<store, next_cap_id, agents, next_id, endpoints, minted>>

file_write(a, path, data) ==
  LET code == file_write_code(a, path, data)
  IN /\ ret' = Return(code)
     /\ IF code = 0 THEN write_file(path, data, a) ELSE UNCHANGED files
     /\ UNCHANGED <<store, next_cap_id, agents, next_id, endpoints, minted>>

file_list(a, prefix, out, out_len) ==
  /\ ret' = IF FetchText(prefix) # 0 THEN Return(FetchText(prefix))
            ELSE IF ~can_read_file(agent_capabilities(a), prefix) THEN Return(2)
            ELSE IF Store(out) # 0 THEN Return(Trap)
            ELSE Disclose(a, Store(out_len), list_files_prefix(prefix))
  /\ UNCHANGED <<kernelVars, minted>>

(* These two take no argument and have no error: what they return is a     *)
(* time, see modules Clock and Interrupts.                                 *)
get_time(a) == ret' = Return(0) /\ UNCHANGED <<kernelVars, minted>>

get_uptime_ms(a) == ret' = Return(0) /\ UNCHANGED <<kernelVars, minted>>

-----------------------------------------------------------------------------
(* request_capability.  detail_len = 0 reads nothing; a detail that is not *)
(* UTF-8 counts as the empty one.                                          *)
DetailStr(detail) == IF detail = NotUtf8 THEN << >> ELSE detail

RequestMessage(a, cap_type, detail) ==
  [agent |-> a, cap_type |-> cap_type, detail |-> DetailStr(detail)]

Requested(cap_type, detail) ==
  IF cap_type = 0 THEN NetworkCap
  ELSE IF cap_type = 1
       THEN FileSystemCap(IF DetailStr(detail) = << >> THEN AGENT_PREFIX
                                                       ELSE DetailStr(detail),
                          TRUE, TRUE)
  ELSE SpawnCap

\* mutant: a capability is created before the type is looked at
request_capability_Leak(a, cap_type, detail) ==
  /\ Fetch(detail) = 0
  /\ send_message(a, KERNEL_SUPERVISOR_PID, RequestMessage(a, cap_type, detail), << >>)
  /\ mint(Requested(cap_type, detail))
  /\ IF cap_type \in 0 .. 2 THEN grant_capability_to_agent(a, NewCapId)
                            ELSE UNCHANGED <<agents, next_id>>
  /\ ret' = Return(0)
  /\ UNCHANGED files

(* The request is sent to the supervisor, with the result of the send      *)
(* ignored, and whatever is requested is created and granted.              *)
request_capability(a, cap_type, detail) ==
  IF Fetch(detail) # 0
  THEN /\ ret' = Return(Fetch(detail))
       /\ UNCHANGED <<kernelVars, minted>>
  ELSE /\ send_message(a, KERNEL_SUPERVISOR_PID,
                       RequestMessage(a, cap_type, detail), << >>)
       /\ IF cap_type \in 0 .. 2
          THEN /\ mint(Requested(cap_type, detail))
               /\ grant_capability_to_agent(a, NewCapId)
               /\ ret' = Return(0)
          ELSE /\ ret' = Return(1)
               /\ UNCHANGED <<store, next_cap_id, agents, next_id, minted>>
       /\ UNCHANGED files

-----------------------------------------------------------------------------
(* A call of a host function other than request_capability. *)
PlainCall(a) ==
  \/ \E text \in ByteArgs(Payloads) : debug_log(a, text)
  \/ \E target \in Pids, data \in ByteArgs(Payloads) :
       send_ipc(a, target, data)
  \/ \E ip \in Pointers, payload \in ByteArgs(Payloads), ok \in BOOLEAN :
       tcp_request(a, ip, payload, ok)
  \/ \E name \in Payloads \cup BadArgs, out \in Pointers, ok \in BOOLEAN :
       resolve_dns(a, name, out, ok)
  \/ \E path \in TextArgs, out, out_len \in Pointers : file_read(a, path, out, out_len)
  \/ \E path \in FileNames \cup BadArgs,
        data \in ByteArgs(FileData) : file_write(a, path, data)
  \/ \E prefix \in TextArgs, out, out_len \in Pointers :
       file_list(a, prefix, out, out_len)
  \/ get_time(a)
  \/ get_uptime_ms(a)

(* Whatever the module of agent a calls next. *)
HostCall(a) ==
  \/ PlainCall(a)
  \/ \E cap_type \in CapTypes, detail \in TextArgs :
       request_capability(a, cap_type, detail)

HostInit ==
  /\ CapInit
  /\ TaskInit
  /\ EndpointsInit
  /\ VfsInit
  /\ ret = NoCall
  /\ minted = << >>
=============================================================================
