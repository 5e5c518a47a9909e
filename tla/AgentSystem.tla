----------------------------- MODULE AgentSystem -----------------------------
(***************************************************************************)
(* The kernel's services used to their full extent: several agents call    *)
(* host functions while the kernel creates, grants and revokes             *)
(* capabilities, spawns and terminates agents, and opens and reads         *)
(* mailboxes.  Module Kernel is the part of this that kernel_main          *)
(* exercises today.                                                        *)
(***************************************************************************)
EXTENDS HostCalls

CONSTANTS
  NewCaps,     \* the capabilities the kernel creates of its own accord
  Terminable,  \* the agents the kernel may terminate
  MaxHeld      \* bound: an agent is granted no more than MaxHeld capabilities

ASSUME AgentSystemAssumption ==
  /\ NewCaps \subseteq Capabilities
  /\ MaxHeld \in Nat
  /\ 1 .. MaxAgents \subseteq Owners

(* Agents are the processes of capabilities, messages and files: agent_pid *)
(* is the identity.                                                        *)
agent_pid(a) == a

Mint == /\ \E cap \in NewCaps : mint(cap)
        /\ ret' = NoCall
        /\ UNCHANGED <<agents, next_id, endpoints, files>>

Spawn == /\ \E caps \in {<< >>} \cup {<<id>> : id \in 1 .. next_cap_id - 1} :
              spawn_agent(caps)
         /\ ret' = NoCall
         /\ UNCHANGED <<store, next_cap_id, endpoints, files, minted>>

Grant(a) == /\ Len(agents[a].capabilities) < MaxHeld
            /\ \E id \in 1 .. next_cap_id - 1 : grant_capability_to_agent(a, id)
            /\ ret' = NoCall
            /\ UNCHANGED <<store, next_cap_id, endpoints, files, minted>>

Revoke == /\ \E id \in DOMAIN store : revoke_capability(id)
          /\ ret' = NoCall
          /\ UNCHANGED <<agents, next_id, endpoints, files, minted>>

Terminate(a) == /\ a \in Terminable
                /\ terminate_agent(a)
                /\ ret' = NoCall
                /\ UNCHANGED <<store, next_cap_id, endpoints, files, minted>>

Open == /\ \E p \in Pids : create_endpoint(p)
        /\ ret' = NoCall
        /\ UNCHANGED <<store, next_cap_id, agents, next_id, files, minted>>

Receive == /\ \E p \in Pids : receive_message(p)
           /\ ret' = NoCall
           /\ UNCHANGED <<store, next_cap_id, agents, next_id, files, minted>>

AgentNext ==
  \/ Mint \/ Spawn \/ Revoke \/ Open \/ Receive
  \/ \E a \in DOMAIN agents : \/ HostCall(agent_pid(a))
                              \/ Grant(a)
                              \/ Terminate(a)

AgentSpec == HostInit /\ [][AgentNext]_hostVars

-----------------------------------------------------------------------------
RequestMessages == [agent : Pids, cap_type : CapTypes, detail : Paths]

Messages == [sender : Pids, data : Payloads \cup RequestMessages,
             capabilities : Seq(Nat)]

(* The types of the kernel's tables, which name only identifiers that were *)
(* handed out.                                                             *)
AgentTypeOK ==
  /\ CapTypeOK
  /\ TaskTypeOK
  /\ VfsTypeOK
  /\ DOMAIN endpoints \subseteq Pids
  /\ endpoints \in [DOMAIN endpoints ->
                      [messages : Seq(Messages), max_messages : Nat \ {0}]]
  /\ minted \in Seq(Capabilities)
  /\ Len(minted) = next_cap_id - 1

(* The identifiers in an agent's list, and what they were created as,      *)
(* revoked since or not.                                                   *)
Held(a) == {agent_capabilities(a)[i] : i \in DOMAIN agent_capabilities(a)}
Granted(a) == {minted[id] : id \in Held(a) \cap DOMAIN minted}

(* An identifier means one capability for ever: what an agent's list names *)
(* had been created when it entered the list, and as long as an identifier *)
(* resolves it resolves to what was created under it.                      *)
IdMeansOneCapability ==
  /\ \A id \in DOMAIN store : store[id] = minted[id]
  /\ \A a \in DOMAIN agents : Held(a) \subseteq 1 .. next_cap_id - 1

(* The capabilities that an agent's list resolves to at this moment. *)
Live(a) == {store[id] : id \in Held(a) \cap DOMAIN store}

(* Every message queued for a process other than the supervisor comes from *)
(* an agent that was granted a Process capability to send to it, whatever  *)
(* was revoked, terminated or received since send_ipc looked.              *)
SenderHadAuthority ==
  \A p \in DOMAIN endpoints \ {KERNEL_SUPERVISOR_PID} :
    \A i \in DOMAIN endpoints[p].messages :
      \E c \in Granted(endpoints[p].messages[i].sender) : AllowsSend(c, p)

(* Every file that is not a system file belongs to an agent that was       *)
(* granted a capability to write it.                                       *)
WriterHadAuthority ==
  \A i \in DOMAIN files :
    ~files[i].read_only =>
      \E c \in Granted(files[i].owner_pid) : AllowsWrite(c, files[i].name)

(* file_read and file_list let an agent see only names that it may read    *)
(* at that moment: being allowed to read a prefix is being allowed to read *)
(* every name with that prefix.                                            *)
SeenConfined ==
  \A n \in ret.seen :
    \E c \in Live(ret.agent) : AllowsRead(c, n)

(* A step queues a message for a process other than the supervisor only    *)
(* when its sender may send there; a step creates or changes a file only   *)
(* when the owner it gives the file may write it.                          *)
SendsLive ==
  \A p \in DOMAIN endpoints \ {KERNEL_SUPERVISOR_PID} :
    LET queue == endpoints'[p].messages
    IN Len(queue) > Len(endpoints[p].messages) =>
         \E c \in Live(queue[Len(queue)].sender) : AllowsSend(c, p)

WritesLive ==
  \A i \in DOMAIN files' :
    (i \in DOMAIN files => files'[i] # files[i]) =>
      \E c \in Live(files'[i].owner_pid) : AllowsWrite(c, files'[i].name)

(* Authority is that of the moment of use: what send_ipc queues and what   *)
(* file_write writes is covered by a capability in the caller's list that  *)
(* still resolves.  Once the last such capability is revoked, neither has  *)
(* an effect.                                                              *)
LiveAuthority == [][SendsLive /\ WritesLive]_hostVars
=============================================================================
