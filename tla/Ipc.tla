--------------------------------- MODULE Ipc ---------------------------------
(***************************************************************************)
(* ipc.rs: one bounded mailbox per process, in a table guarded by a spin   *)
(* lock that every operation holds from its first to its last access.      *)
(***************************************************************************)
EXTENDS Capability

CONSTANTS
  SUPERVISOR_MAX,   \* max_messages of the supervisor's endpoint, 64 in ipc.rs
  ENDPOINT_MAX      \* max_messages of every other endpoint, 32 in ipc.rs

ASSUME IpcAssumption ==
  /\ SUPERVISOR_MAX \in Nat \ {0}
  /\ ENDPOINT_MAX \in Nat \ {0}

VARIABLE endpoints   \* IPC_ENDPOINTS: a map from ProcessId to IpcEndpoint

KERNEL_SUPERVISOR_PID == 0

Message(sender, data, caps) ==
  [sender |-> sender, data |-> data, capabilities |-> caps]

NewEndpoint(max) == [messages |-> << >>, max_messages |-> max]

(* The table after the queue of process p has become msgs. *)
WithQueue(p, msgs) ==
  [q \in DOMAIN endpoints |->
     IF q = p THEN [messages |-> msgs, max_messages |-> endpoints[p].max_messages]
              ELSE endpoints[q]]

-----------------------------------------------------------------------------
(* init: PID 0 is reserved for the Kernel Supervisor. *)
EndpointsInit ==
  endpoints = [p \in {KERNEL_SUPERVISOR_PID} |-> NewEndpoint(SUPERVISOR_MAX)]

\* mutant: an existing endpoint is replaced by a new one
create_endpoint_Replace(p) ==
  endpoints' = [q \in DOMAIN endpoints \cup {p} |->
                  IF q = p THEN NewEndpoint(ENDPOINT_MAX) ELSE endpoints[q]]

(* create_endpoint: "Endpoint already exists", with no effect, or a new one. *)
create_endpoint(p) ==
  endpoints' = IF p \in DOMAIN endpoints THEN endpoints
               ELSE [q \in DOMAIN endpoints \cup {p} |->
                       IF q = p THEN NewEndpoint(ENDPOINT_MAX) ELSE endpoints[q]]

AllValid(caps) == \A i \in DOMAIN caps : validate_capability(caps[i])

Full(p) == Len(endpoints[p].messages) >= endpoints[p].max_messages

\* mutant: the capabilities a message carries are not looked up
send_result_Unchecked(recipient, caps) ==
  IF recipient \notin DOMAIN endpoints THEN "No such endpoint"
  ELSE IF Full(recipient) THEN "Message queue full"
  ELSE "Ok"

\* mutant: the queue takes one message more than it has room for
send_result_OffByOne(recipient, caps) ==
  IF ~AllValid(caps) THEN "Invalid capability"
  ELSE IF recipient \notin DOMAIN endpoints THEN "No such endpoint"
  ELSE IF Len(endpoints[recipient].messages) > endpoints[recipient].max_messages
       THEN "Message queue full"
  ELSE "Ok"

(* send_message's result: the checks in the order of its early returns. *)
send_result(recipient, caps) ==
  IF ~AllValid(caps) THEN "Invalid capability"
  ELSE IF recipient \notin DOMAIN endpoints THEN "No such endpoint"
  ELSE IF Full(recipient) THEN "Message queue full"
  ELSE "Ok"

\* mutant: pushed at the front of the queue
send_message_Front(sender, recipient, data, caps) ==
  endpoints' = IF send_result(recipient, caps) = "Ok"
               THEN WithQueue(recipient, <<Message(sender, data, caps)>>
                                           \o endpoints[recipient].messages)
               ELSE endpoints

(* send_message: pushed at the end of the queue, or no effect. *)
send_message(sender, recipient, data, caps) ==
  endpoints' = IF send_result(recipient, caps) = "Ok"
               THEN WithQueue(recipient, Append(endpoints[recipient].messages,
                                                Message(sender, data, caps)))
               ELSE endpoints

Pending(p) == p \in DOMAIN endpoints /\ endpoints[p].messages # << >>

(* receive_message: the oldest message is removed and returned (it is the  *)
(* head before the step); None, with no effect, when there is none.        *)
receive_message(p) ==
  endpoints' = IF Pending(p)
               THEN WithQueue(p, Tail(endpoints[p].messages))
               ELSE endpoints
=============================================================================
