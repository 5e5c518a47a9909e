-------------------------- MODULE AgentSystemProofs --------------------------
(***************************************************************************)
(* AgentSystem, for any number of agents, capabilities, files and messages *)
(* and any sequence of host calls, grants, revocations and terminations.   *)
(***************************************************************************)
EXTENDS AgentSystem, SequenceTheorems, TLAPS

(* A leaf gets a minute, and a second try, so that a slow machine checks it too. *)
USE SMTT(60), Z3T(60), ZenonT(60), SMTT(90), Z3T(90)

(* starts_with is transitive. *)
LEMMA PrefixTransitive ==
  ASSUME NEW p \in Seq(STRING), NEW q \in Seq(STRING), NEW r \in Seq(STRING),
         starts_with(q, p), starts_with(r, q)
  PROVE  starts_with(r, p)
<1>1. Len(p) <= Len(q) /\ Len(q) <= Len(r)
  BY DEF starts_with
<1>2. \A i \in 1 .. Len(p) : p[i] = q[i]
  BY DEF starts_with
<1>3. \A i \in 1 .. Len(q) : q[i] = r[i]
  BY DEF starts_with
<1>4. \A i \in 1 .. Len(p) : p[i] = r[i]
  BY <1>1, <1>2, <1>3
<1> QED
  BY <1>1, <1>4 DEF starts_with

-----------------------------------------------------------------------------
(* The inductive invariant, one part per table. *)
CapsOK ==
  /\ CapTypeOK
  /\ minted \in Seq(Capabilities)
  /\ Len(minted) = next_cap_id - 1
  /\ \A id \in DOMAIN store : store[id] = minted[id]

AgentsOK ==
  /\ TaskTypeOK
  /\ \A a \in DOMAIN agents : Held(a) \subseteq 1 .. next_cap_id - 1

QueuesOK ==
  /\ DOMAIN endpoints \subseteq Pids
  /\ endpoints \in [DOMAIN endpoints ->
                      [messages : Seq(Messages), max_messages : Nat \ {0}]]
  /\ SenderHadAuthority

FilesOK == VfsTypeOK /\ WriterHadAuthority

Inv == CapsOK /\ AgentsOK /\ QueuesOK /\ FilesOK

(* No step takes anything back from what agents were granted. *)
Grows == \A a : Granted(a) \subseteq Granted(a)'

LEMMA InitInv == HostInit => Inv /\ SeenConfined
<1> SUFFICES ASSUME HostInit PROVE Inv /\ SeenConfined
  OBVIOUS
<1> USE DEF HostInit
<1>1. CapsOK
  BY DEF CapInit, CapsOK, CapTypeOK, CapIds
<1>2. AgentsOK
  BY TaskAssumption DEF TaskInit, AgentsOK, TaskTypeOK
<1>3. QueuesOK
  BY CapabilityAssumption, IpcAssumption
     DEF EndpointsInit, NewEndpoint, QueuesOK, SenderHadAuthority, KERNEL_SUPERVISOR_PID
<1>4. FilesOK
  BY DEF VfsInit, FilesOK, VfsTypeOK, WriterHadAuthority
<1>5. SeenConfined
  BY DEF SeenConfined, NoCall
<1> QED
  BY <1>1, <1>2, <1>3, <1>4, <1>5 DEF Inv

(* Mailboxes and files that a step leaves alone stay authorised. *)
LEMMA KeepQueues == ASSUME QueuesOK, Grows, UNCHANGED endpoints PROVE QueuesOK'
BY DEF QueuesOK, SenderHadAuthority, Grows

LEMMA KeepFiles == ASSUME FilesOK, Grows, UNCHANGED files PROVE FilesOK'
BY DEF FilesOK, VfsTypeOK, WriterHadAuthority, Grows

LEMMA KeepGranted == ASSUME UNCHANGED <<agents, minted>> PROVE Grows
BY DEF Grows, Granted, Held, agent_capabilities

LEMMA KeepAll ==
  ASSUME Inv, UNCHANGED <<kernelVars, minted>>
  PROVE  Inv'
<1>1. CapsOK'
  BY DEF kernelVars, Inv, CapsOK, CapTypeOK
<1>2. AgentsOK'
  BY DEF kernelVars, Inv, AgentsOK, TaskTypeOK, Held, agent_capabilities
<1>3. Grows
  BY KeepGranted DEF kernelVars
<1>4. QueuesOK' /\ FilesOK'
  BY <1>3, KeepQueues, KeepFiles DEF kernelVars, Inv
<1> QED
  BY <1>1, <1>2, <1>4 DEF Inv

(* create_capability, with its history. *)
LEMMA MintEffect ==
  ASSUME CapsOK, NEW cap \in Capabilities, mint(cap)
  PROVE  /\ CapsOK'
         /\ next_cap_id' = next_cap_id + 1
         /\ \A id \in DOMAIN minted : id \in DOMAIN minted' /\ minted'[id] = minted[id]
<1>1. CapTypeOK' /\ next_cap_id' = next_cap_id + 1
  BY DEF CapsOK, CapTypeOK, CapIds, mint, create_capability
<1>2. /\ minted' \in Seq(Capabilities)
      /\ Len(minted') = next_cap_id
      /\ minted'[next_cap_id] = cap
      /\ DOMAIN minted = 1 .. next_cap_id - 1
      /\ DOMAIN minted' = 1 .. next_cap_id
      /\ \A id \in 1 .. next_cap_id - 1 : minted'[id] = minted[id]
  BY DEF CapsOK, CapTypeOK, CapIds, mint
<1>3. \A id \in DOMAIN store' : store'[id] = minted'[id]
  BY <1>2 DEF CapsOK, CapTypeOK, CapIds, mint, create_capability
<1> QED
  BY <1>1, <1>2, <1>3 DEF CapsOK, CapTypeOK, CapIds

(* grant_capability_to_agent: one list grows, by one identifier. *)
LEMMA GrantEffect ==
  ASSUME TaskTypeOK, NEW a, NEW id \in Nat, grant_capability_to_agent(a, id)
  PROVE  /\ TaskTypeOK'
         /\ DOMAIN agents' = DOMAIN agents
         /\ \A b : Held(b) \subseteq Held(b)' /\ Held(b)' \subseteq Held(b) \cup {id}
<1>1. TaskTypeOK' /\ DOMAIN agents' = DOMAIN agents
  BY DEF TaskTypeOK, grant_capability_to_agent
<1>2. ASSUME NEW b
      PROVE  Held(b) \subseteq Held(b)' /\ Held(b)' \subseteq Held(b) \cup {id}
  <2> DEFINE l == agent_capabilities(b)
  <2>1. l \in Seq(Nat)
    BY DEF TaskTypeOK, agent_capabilities
  <2>2. l' = l \/ l' = Append(l, id)
    BY DEF TaskTypeOK, grant_capability_to_agent, agent_capabilities
  <2>3. CASE l' = l
    BY <2>3 DEF Held
  <2>4. CASE l' = Append(l, id)
    <3>1. /\ DOMAIN l' = DOMAIN l \cup {Len(l) + 1}
          /\ l'[Len(l) + 1] = id
          /\ \A i \in DOMAIN l : l'[i] = l[i]
      BY <2>1, <2>4
    <3> QED
      BY <3>1 DEF Held
  <2> QED
    BY <2>2, <2>3, <2>4
<1> QED
  BY <1>1, <1>2

LEMMA MintInv == Inv /\ Mint => Inv'
<1> SUFFICES ASSUME Inv, NEW cap \in NewCaps, mint(cap),
                    UNCHANGED <<agents, next_id, endpoints, files>>
             PROVE  Inv'
  BY DEF Mint
<1>1. /\ CapsOK' /\ next_cap_id' = next_cap_id + 1
      /\ \A id \in DOMAIN minted : id \in DOMAIN minted' /\ minted'[id] = minted[id]
  BY MintEffect, AgentSystemAssumption DEF Inv
<1>2. AgentsOK'
  <2>1. TaskTypeOK' /\ \A a : Held(a)' = Held(a)
    BY DEF Inv, AgentsOK, TaskTypeOK, Held, agent_capabilities
  <2>2. 1 .. next_cap_id - 1 \subseteq 1 .. next_cap_id' - 1
    BY <1>1 DEF Inv, CapsOK, CapTypeOK, CapIds
  <2> QED
    BY <2>1, <2>2 DEF Inv, AgentsOK
<1>3. Grows
  BY <1>1 DEF Grows, Granted, Held, agent_capabilities
<1> QED
  BY <1>1, <1>2, <1>3, KeepQueues, KeepFiles DEF Inv

LEMMA SpawnInv == Inv /\ Spawn => Inv'
<1> SUFFICES ASSUME Inv,
                    NEW caps \in {<< >>} \cup {<<id>> : id \in 1 .. next_cap_id - 1},
                    spawn_agent(caps),
                    UNCHANGED <<store, next_cap_id, endpoints, files, minted>>
             PROVE  Inv'
  BY DEF Spawn
<1>0. next_cap_id \in Nat \ {0}
  BY DEF Inv, CapsOK, CapTypeOK, CapIds
<1>1. caps \in Seq(1 .. next_cap_id - 1)
  <2>1. ASSUME NEW id \in 1 .. next_cap_id - 1 PROVE <<id>> \in Seq(1 .. next_cap_id - 1)
    OBVIOUS
  <2>2. << >> \in Seq(1 .. next_cap_id - 1)
    OBVIOUS
  <2> QED
    BY <2>1, <2>2, ZenonT(60)
<1>2. caps \in Seq(Nat) /\ \A i \in DOMAIN caps : caps[i] \in 1 .. next_cap_id - 1
  BY <1>0, <1>1
<1>3. next_id \notin DOMAIN agents /\ next_id \in Nat
  BY TaskAssumption DEF Inv, AgentsOK, TaskTypeOK
<1>4. TaskTypeOK'
  BY <1>2, <1>3, TaskAssumption DEF Inv, AgentsOK, TaskTypeOK, spawn_agent, AgentState
<1>5. \A a \in DOMAIN agents : agent_capabilities(a)' = agent_capabilities(a)
  BY <1>3 DEF spawn_agent, agent_capabilities
<1>6. \A a : a = next_id => agent_capabilities(a)' = caps
  BY DEF spawn_agent, agent_capabilities
<1>7. AgentsOK'
  <2>1. \A a \in DOMAIN agents' : a \in DOMAIN agents \/ a = next_id
    BY DEF spawn_agent
  <2>2. \A a \in DOMAIN agents : Held(a)' = Held(a)
    BY <1>5 DEF Held
  <2>3. \A a : a = next_id => Held(a)' \subseteq 1 .. next_cap_id - 1
    BY <1>2, <1>6 DEF Held
  <2> QED
    BY <1>4, <2>1, <2>2, <2>3 DEF Inv, AgentsOK
<1>8. Grows
  <2> SUFFICES ASSUME NEW a PROVE Granted(a) \subseteq Granted(a)'
    BY DEF Grows
  <2>1. CASE a \in DOMAIN agents
    BY <2>1, <1>5 DEF Granted, Held
  <2>2. CASE a \notin DOMAIN agents
    BY <2>2 DEF Granted, Held, agent_capabilities
  <2> QED
    BY <2>1, <2>2
<1>9. CapsOK'
  BY DEF Inv, CapsOK, CapTypeOK
<1> QED
  BY <1>7, <1>8, <1>9, KeepQueues, KeepFiles DEF Inv

LEMMA GrantInv == ASSUME Inv, NEW a, Grant(a) PROVE Inv'
<1> PICK id \in 1 .. next_cap_id - 1 : grant_capability_to_agent(a, id)
  BY DEF Grant
<1>1. id \in Nat
  BY DEF Inv, CapsOK, CapTypeOK, CapIds
<1>2. /\ TaskTypeOK' /\ DOMAIN agents' = DOMAIN agents
      /\ \A b : Held(b) \subseteq Held(b)' /\ Held(b)' \subseteq Held(b) \cup {id}
  BY <1>1, GrantEffect DEF Inv, AgentsOK
<1>3. AgentsOK'
  BY <1>2 DEF Inv, AgentsOK, Grant
<1>4. Grows
  BY <1>2 DEF Grows, Granted, Grant
<1>5. CapsOK'
  BY DEF Inv, CapsOK, CapTypeOK, Grant
<1> QED
  BY <1>3, <1>4, <1>5, KeepQueues, KeepFiles DEF Inv, Grant

LEMMA RevokeInv == Inv /\ Revoke => Inv'
<1> SUFFICES ASSUME Inv, NEW id, revoke_capability(id),
                    UNCHANGED <<agents, next_id, endpoints, files, minted>>
             PROVE  Inv'
  BY DEF Revoke
<1>1. CapsOK'
  BY DEF Inv, CapsOK, CapTypeOK, CapIds, revoke_capability
<1>2. AgentsOK'
  BY DEF Inv, AgentsOK, TaskTypeOK, Held, agent_capabilities, revoke_capability
<1> QED
  BY <1>1, <1>2, KeepGranted, KeepQueues, KeepFiles DEF Inv

LEMMA TerminateInv == ASSUME Inv, NEW a, Terminate(a) PROVE Inv'
<1>1. TaskTypeOK' /\ DOMAIN agents' = DOMAIN agents
  BY DEF Inv, AgentsOK, TaskTypeOK, AgentState, Terminate, terminate_agent
<1>2. \A b : agent_capabilities(b)' = agent_capabilities(b)
  BY DEF Terminate, terminate_agent, agent_capabilities
<1>3. AgentsOK'
  BY <1>1, <1>2 DEF Inv, AgentsOK, Held, Terminate
<1>4. Grows
  BY <1>2 DEF Grows, Granted, Held, Terminate
<1>5. CapsOK'
  BY DEF Inv, CapsOK, CapTypeOK, Terminate
<1> QED
  BY <1>3, <1>4, <1>5, KeepQueues, KeepFiles DEF Inv, Terminate

LEMMA OpenInv == Inv /\ Open => Inv'
<1> SUFFICES ASSUME Inv, NEW p \in Pids, create_endpoint(p),
                    UNCHANGED <<store, next_cap_id, agents, next_id, files, minted>>
             PROVE  Inv'
  BY DEF Open
<1>1. Grows
  BY KeepGranted
<1>2. QueuesOK'
  <2>1. /\ DOMAIN endpoints' \subseteq Pids
        /\ endpoints' \in [DOMAIN endpoints' ->
                             [messages : Seq(Messages), max_messages : Nat \ {0}]]
    BY IpcAssumption DEF Inv, QueuesOK, create_endpoint, NewEndpoint
  <2>2. \A q \in DOMAIN endpoints' : \/ q \in DOMAIN endpoints /\ endpoints'[q] = endpoints[q]
                                     \/ endpoints'[q].messages = << >>
    BY DEF create_endpoint, NewEndpoint
  <2>3. SenderHadAuthority'
    BY <1>1, <2>2 DEF Inv, QueuesOK, SenderHadAuthority, Grows
  <2> QED
    BY <2>1, <2>3 DEF QueuesOK
<1>3. CapsOK' /\ AgentsOK'
  BY DEF Inv, CapsOK, CapTypeOK, AgentsOK, TaskTypeOK, Held, agent_capabilities
<1> QED
  BY <1>1, <1>2, <1>3, KeepFiles DEF Inv

LEMMA ReceiveInv == Inv /\ Receive => Inv'
<1> SUFFICES ASSUME Inv, NEW p \in Pids, receive_message(p),
                    UNCHANGED <<store, next_cap_id, agents, next_id, files, minted>>
             PROVE  Inv'
  BY DEF Receive
<1>1. Grows
  BY KeepGranted
<1>2. QueuesOK'
  <2>1. CASE ~Pending(p)
    BY <2>1, <1>1, KeepQueues DEF Inv, receive_message
  <2>2. CASE Pending(p)
    <3> DEFINE q == endpoints[p].messages
    <3>1. p \in DOMAIN endpoints /\ q \in Seq(Messages) /\ q # << >>
      BY <2>2 DEF Pending, Inv, QueuesOK
    <3>2. endpoints' = WithQueue(p, Tail(q))
      BY <2>2 DEF receive_message
    <3>3. Tail(q) \in Seq(Messages) /\ \A i \in DOMAIN Tail(q) : i + 1 \in DOMAIN q /\ Tail(q)[i] = q[i + 1]
      BY <3>1
    <3>4. /\ DOMAIN endpoints' = DOMAIN endpoints
          /\ endpoints' \in [DOMAIN endpoints ->
                               [messages : Seq(Messages), max_messages : Nat \ {0}]]
      BY <3>1, <3>2, <3>3 DEF WithQueue, Inv, QueuesOK
    <3>5. \A o \in DOMAIN endpoints : \A i \in DOMAIN endpoints'[o].messages :
            \E j \in DOMAIN endpoints[o].messages :
              endpoints'[o].messages[i] = endpoints[o].messages[j]
      BY <3>1, <3>2, <3>3 DEF WithQueue
    <3>6. SenderHadAuthority'
      <4> SUFFICES ASSUME NEW o \in DOMAIN endpoints \ {KERNEL_SUPERVISOR_PID},
                          NEW i \in DOMAIN endpoints'[o].messages
                   PROVE  \E c \in Granted(endpoints[o].messages[i].sender)' : AllowsSend(c, o)
        BY <3>4 DEF SenderHadAuthority, KERNEL_SUPERVISOR_PID
      <4>1. PICK j \in DOMAIN endpoints[o].messages :
              endpoints'[o].messages[i] = endpoints[o].messages[j]
        BY <3>5
      <4>2. PICK s : s = endpoints[o].messages[j].sender
        OBVIOUS
      <4>3. PICK c \in Granted(s) : AllowsSend(c, o)
        BY <4>2 DEF Inv, QueuesOK, SenderHadAuthority
      <4>4. c \in Granted(s)'
        BY <1>1, <4>3, ZenonT(60) DEF Grows
      <4>5. Granted(s)' = Granted(endpoints[o].messages[i].sender)'
        BY <4>1, <4>2 DEF Granted, Held, agent_capabilities
      <4> QED
        BY <4>3, <4>4, <4>5, ZenonT(60)
    <3> QED
      BY <3>4, <3>6 DEF Inv, QueuesOK
  <2> QED
    BY <2>1, <2>2
<1>3. CapsOK' /\ AgentsOK'
  BY DEF Inv, CapsOK, CapTypeOK, AgentsOK, TaskTypeOK, Held, agent_capabilities
<1> QED
  BY <1>1, <1>2, <1>3, KeepFiles DEF Inv

-----------------------------------------------------------------------------
(* Agents are processes, and their numbers are those of file owners. *)
LEMMA AgentIsPid == ASSUME Inv, NEW a \in DOMAIN agents PROVE a \in Owners /\ a \in Pids
<1>1. a \in 1 .. MaxAgents
  BY TaskAssumption DEF Inv, AgentsOK, TaskTypeOK
<1> QED
  BY <1>1, AgentSystemAssumption, HostCallsAssumption

(* A list that resolves to a capability holds an identifier of it. *)
LEMMA ResolvesGranted ==
  ASSUME Inv, NEW a, NEW i \in DOMAIN agent_capabilities(a),
         validate_capability(agent_capabilities(a)[i])
  PROVE  store[agent_capabilities(a)[i]] \in Granted(a)
<1> DEFINE id == agent_capabilities(a)[i]
<1>1. id \in Held(a) /\ id \in DOMAIN store
  BY DEF Held, validate_capability
<1>2. id \in DOMAIN minted /\ store[id] = minted[id]
  BY <1>1 DEF Inv, CapsOK, CapTypeOK, CapIds
<1> QED
  BY <1>1, <1>2 DEF Granted

(* send_message to a process that the sender may send to, or to the        *)
(* supervisor.                                                             *)
LEMMA SendEffect ==
  ASSUME Inv, Grows, NEW s \in Pids, NEW r, NEW d, NEW caps,
         send_message(s, r, d, caps), Message(s, d, caps) \in Messages,
         r # KERNEL_SUPERVISOR_PID => \E c \in Granted(s) : AllowsSend(c, r)
  PROVE  QueuesOK'
<1> DEFINE m == Message(s, d, caps)
<1>1. CASE send_result(r, caps) # "Ok"
  BY <1>1, KeepQueues DEF Inv, send_message
<1>2. CASE send_result(r, caps) = "Ok"
  <2> DEFINE q == endpoints[r].messages
  <2>1. r \in DOMAIN endpoints /\ q \in Seq(Messages)
    BY <1>2 DEF send_result, Inv, QueuesOK
  <2>2. endpoints' = WithQueue(r, Append(q, m))
    BY <1>2 DEF send_message
  <2>3. /\ Append(q, m) \in Seq(Messages)
        /\ \A i \in DOMAIN Append(q, m) : \/ i \in DOMAIN q /\ Append(q, m)[i] = q[i]
                                          \/ Append(q, m)[i] = m
    <3> HIDE DEF q, m
    <3> QED
      BY <2>1 DEF m
  <2>4. /\ DOMAIN endpoints' = DOMAIN endpoints
        /\ endpoints' \in [DOMAIN endpoints ->
                             [messages : Seq(Messages), max_messages : Nat \ {0}]]
    BY <2>1, <2>2, <2>3 DEF WithQueue, Inv, QueuesOK
  <2>5. \A o \in DOMAIN endpoints : \A i \in DOMAIN endpoints'[o].messages :
          \/ /\ i \in DOMAIN endpoints[o].messages
             /\ endpoints'[o].messages[i] = endpoints[o].messages[i]
          \/ o = r /\ endpoints'[o].messages[i] = m
    BY <2>1, <2>2, <2>3 DEF WithQueue
  <2>6. SenderHadAuthority'
    <3> SUFFICES ASSUME NEW o \in DOMAIN endpoints \ {KERNEL_SUPERVISOR_PID},
                        NEW i \in DOMAIN endpoints'[o].messages
                 PROVE  \E c \in Granted(endpoints[o].messages[i].sender)' : AllowsSend(c, o)
      BY <2>4 DEF SenderHadAuthority, KERNEL_SUPERVISOR_PID
    <3>0. \A x : Granted(x) \subseteq Granted(x)'
      BY DEF Grows
    <3>1. CASE i \in DOMAIN endpoints[o].messages /\ endpoints'[o].messages[i] = endpoints[o].messages[i]
      <4>1. PICK c \in Granted(endpoints[o].messages[i].sender) : AllowsSend(c, o)
        BY <3>1 DEF Inv, QueuesOK, SenderHadAuthority
      <4> QED
        BY <3>0, <3>1, <4>1
    <3>2. CASE o = r /\ endpoints'[o].messages[i] = m
      <4>1. m.sender = s
        BY DEF Message
      <4> QED
        BY <3>0, <3>2, <4>1
    <3> QED
      BY <3>1, <3>2, <2>5
  <2> QED
    BY <2>4, <2>6 DEF Inv, QueuesOK
<1> QED
  BY <1>1, <1>2

LEMMA SendIpcInv ==
  ASSUME Inv, NEW a \in DOMAIN agents, NEW t \in Pids, NEW d \in ByteArgs(Payloads),
         send_ipc(a, t, d)
  PROVE  Inv'
<1>1. CASE send_ipc_code(a, t, d) # 0
  BY <1>1, KeepAll DEF send_ipc, kernelVars
<1>2. CASE send_ipc_code(a, t, d) = 0
  <2>1. Fetch(d) = 0 /\ can_send_to(agent_capabilities(a), t)
    BY <1>2 DEF send_ipc_code
  <2>2. d \in Payloads
    BY <2>1, HostCallsAssumption DEF ByteArgs, Fetch, Trap, Panic
  <2>3. Message(a, d, << >>) \in Messages
    BY <2>2, AgentIsPid DEF Message, Messages
  <2>4. \E c \in Granted(a) : AllowsSend(c, t)
    BY <2>1, ResolvesGranted DEF can_send_to, find_capability
  <2>5. Grows
    BY KeepGranted DEF send_ipc
  <2>6. QueuesOK'
    BY <1>2, <2>3, <2>4, <2>5, AgentIsPid, SendEffect DEF send_ipc
  <2>7. CapsOK' /\ AgentsOK'
    BY DEF send_ipc, Inv, CapsOK, CapTypeOK, AgentsOK, TaskTypeOK, Held, agent_capabilities
  <2> QED
    BY <2>5, <2>6, <2>7, KeepFiles DEF Inv, send_ipc
<1> QED
  BY <1>1, <1>2

LEMMA FileWriteInv ==
  ASSUME Inv, NEW a \in DOMAIN agents, NEW path \in FileNames \cup BadArgs,
         NEW d \in ByteArgs(FileData), file_write(a, path, d)
  PROVE  Inv'
<1>1. CASE file_write_code(a, path, d) # 0
  BY <1>1, KeepAll DEF file_write, kernelVars
<1>2. CASE file_write_code(a, path, d) = 0
  <2>1. /\ FetchText(path) = 0
        /\ can_write_file(agent_capabilities(a), path)
        /\ Fetch(d) = 0
        /\ write_file_ok(path)
    BY <1>2 DEF file_write_code
  <2>2. d \in FileData /\ path \in FileNames
    BY <2>1, HostCallsAssumption DEF ByteArgs, FetchText, Fetch, Trap, Panic
  <2>3. PICK c \in Granted(a) : AllowsWrite(c, path)
    BY <2>1, ResolvesGranted DEF can_write_file, find_capability
  <2>4. Grows
    BY KeepGranted DEF file_write
  <2> DEFINE f == AgentFile(path, d, a)
  <2>5. f \in VirtualFile /\ f.owner_pid = a /\ f.name = path
    BY <2>2, AgentIsPid DEF AgentFile, VirtualFile
  <2>6. \/ files' = [files EXCEPT ![FirstIndex(path)] = f]
        \/ files' = Append(files, f)
    BY <1>2, <2>1 DEF file_write, write_file
  <2>7. files \in Seq(VirtualFile)
    BY DEF Inv, FilesOK, VfsTypeOK
  <2>8. /\ files' \in Seq(VirtualFile)
        /\ \A i \in DOMAIN files' : \/ i \in DOMAIN files /\ files'[i] = files[i]
                                    \/ files'[i] = f
    <3> HIDE DEF f
    <3> QED
      BY <2>5, <2>6, <2>7
  <2>9. WriterHadAuthority'
    <3> SUFFICES ASSUME NEW i \in DOMAIN files', ~files'[i].read_only
                 PROVE  \E k \in Granted(files[i].owner_pid)' : AllowsWrite(k, files'[i].name)
      BY DEF WriterHadAuthority
    <3>0. \A x : Granted(x) \subseteq Granted(x)'
      BY <2>4 DEF Grows
    <3>1. CASE i \in DOMAIN files /\ files'[i] = files[i]
      <4>1. PICK k \in Granted(files[i].owner_pid) : AllowsWrite(k, files[i].name)
        BY <3>1 DEF Inv, FilesOK, WriterHadAuthority
      <4> QED
        BY <3>0, <3>1, <4>1
    <3>2. CASE files'[i] = f
      BY <3>0, <3>2, <2>3, <2>5
    <3> QED
      BY <2>8, <3>1, <3>2
  <2>10. CapsOK' /\ AgentsOK'
    BY DEF file_write, Inv, CapsOK, CapTypeOK, AgentsOK, TaskTypeOK, Held, agent_capabilities
  <2> QED
    BY <2>4, <2>8, <2>9, <2>10, KeepQueues DEF Inv, FilesOK, VfsTypeOK, file_write
<1> QED
  BY <1>1, <1>2

LEMMA RequestInv ==
  ASSUME Inv, NEW a \in DOMAIN agents, NEW t \in CapTypes, NEW detail \in TextArgs,
         request_capability(a, t, detail)
  PROVE  Inv'
<1>1. CASE Fetch(detail) # 0
  BY <1>1, KeepAll DEF request_capability
<1>2. CASE Fetch(detail) = 0
  <2>1. DetailStr(detail) \in Paths
    BY <1>2, HostCallsAssumption DEF TextArgs, Fetch, DetailStr, Trap, Panic
  <2>2. Message(a, RequestMessage(a, t, detail), << >>) \in Messages
    <3>1. a \in Pids
      BY AgentIsPid
    <3>2. RequestMessage(a, t, detail) \in RequestMessages
      BY <2>1, <3>1 DEF RequestMessage, RequestMessages
    <3>3. << >> \in Seq(Nat)
      OBVIOUS
    <3> QED
      BY <3>1, <3>2, <3>3 DEF Message, Messages
  <2>3. Requested(t, detail) \in Capabilities
    BY <2>1, HostCallsAssumption
       DEF Requested, Capabilities, NetworkCap, FileSystemCap, SpawnCap
  <2>4. send_message(a, KERNEL_SUPERVISOR_PID, RequestMessage(a, t, detail), << >>)
        /\ UNCHANGED files
    BY <1>2 DEF request_capability
  <2>5. CASE t \notin 0 .. 2
    <3>1. UNCHANGED <<store, next_cap_id, agents, next_id, minted>>
      BY <1>2, <2>5 DEF request_capability
    <3>2. Grows
      BY <3>1, KeepGranted
    <3>3. CapsOK' /\ AgentsOK'
      BY <3>1 DEF Inv, CapsOK, CapTypeOK, AgentsOK, TaskTypeOK, Held, agent_capabilities
    <3>4. QueuesOK'
      BY <2>2, <2>4, <3>2, AgentIsPid, SendEffect
    <3> QED
      BY <2>4, <3>2, <3>3, <3>4, KeepFiles DEF Inv
  <2>6. CASE t \in 0 .. 2
    <3>1. mint(Requested(t, detail)) /\ grant_capability_to_agent(a, next_cap_id)
      BY <1>2, <2>6 DEF request_capability, NewCapId
    <3>2. /\ CapsOK' /\ next_cap_id' = next_cap_id + 1
          /\ \A id \in DOMAIN minted : id \in DOMAIN minted' /\ minted'[id] = minted[id]
      BY <2>3, <3>1, MintEffect DEF Inv
    <3>3. next_cap_id \in Nat \ {0}
      BY DEF Inv, CapsOK, CapTypeOK, CapIds
    <3>4. /\ TaskTypeOK' /\ DOMAIN agents' = DOMAIN agents
          /\ \A b : Held(b) \subseteq Held(b)' /\ Held(b)' \subseteq Held(b) \cup {next_cap_id}
      BY <3>1, <3>3, GrantEffect DEF Inv, AgentsOK
    <3>5. AgentsOK'
      <4>1. (1 .. next_cap_id - 1) \cup {next_cap_id} = 1 .. next_cap_id' - 1
        BY <3>2, <3>3
      <4> QED
        BY <3>4, <4>1 DEF Inv, AgentsOK
    <3>6. Grows
      BY <3>2, <3>4 DEF Grows, Granted
    <3>7. QueuesOK'
      BY <2>2, <2>4, <3>6, AgentIsPid, SendEffect
    <3> QED
      BY <2>4, <3>2, <3>5, <3>6, <3>7, KeepFiles DEF Inv
  <2> QED
    BY <2>5, <2>6
<1> QED
  BY <1>1, <1>2

-----------------------------------------------------------------------------
LEMMA NothingSeen == ASSUME ret'.seen = {} PROVE SeenConfined'
BY DEF SeenConfined

(* What an agent may read by a capability of its list. *)
LEMMA MayRead ==
  ASSUME NEW a, NEW path, can_read_file(agent_capabilities(a), path)
  PROVE  \E c \in Live(a) : AllowsRead(c, path)
BY DEF can_read_file, find_capability, validate_capability, Held, Live

LEMMA FileReadSeen ==
  ASSUME Inv, NEW a, NEW path \in TextArgs, NEW out, NEW out_len,
         file_read(a, path, out, out_len)
  PROVE  SeenConfined'
<1>1. CASE ret'.seen = {}
  BY <1>1, NothingSeen
<1>2. CASE ret'.seen # {}
  <2>1. ret'.agent = a /\ ret'.seen = {path} /\ can_read_file(agent_capabilities(a), path)
    BY <1>2 DEF file_read, Return, Disclose
  <2>2. UNCHANGED <<store, agents>>
    BY DEF file_read, kernelVars
  <2>3. Live(a)' = Live(a)
    BY <2>2 DEF Live, Held, agent_capabilities
  <2>4. \E c \in Live(a) : AllowsRead(c, path)
    BY <2>1, MayRead
  <2> QED
    BY <2>1, <2>3, <2>4 DEF SeenConfined
<1> QED
  BY <1>1, <1>2

LEMMA FileListSeen ==
  ASSUME Inv, NEW a, NEW prefix \in TextArgs, NEW out, NEW out_len,
         file_list(a, prefix, out, out_len)
  PROVE  SeenConfined'
<1>1. CASE ret'.seen = {}
  BY <1>1, NothingSeen
<1>2. CASE ret'.seen # {}
  <2>1. /\ ret'.agent = a
        /\ ret'.seen = list_files_prefix(prefix)
        /\ FetchText(prefix) = 0
        /\ can_read_file(agent_capabilities(a), prefix)
    BY <1>2 DEF file_list, Return, Disclose
  <2>2. UNCHANGED <<store, agents>>
    BY DEF file_list, kernelVars
  <2>3. prefix \in Seq(STRING)
    BY <2>1, HostCallsAssumption, CapabilityAssumption
       DEF TextArgs, FetchText, Fetch, Trap, Panic
  <2>4. PICK c \in Live(a) : AllowsRead(c, prefix)
    BY <2>1, MayRead
  <2>5. c \in Capabilities
    BY <2>4 DEF Live, Inv, CapsOK, CapTypeOK
  <2>6. c.path_prefix \in Seq(STRING)
    BY <2>4, <2>5, CapabilityAssumption DEF AllowsRead, Capabilities
  <2>7. ASSUME NEW n \in list_files_prefix(prefix) PROVE AllowsRead(c, n)
    <3>1. n \in FileNames /\ starts_with(n, prefix)
      <4>1. PICK j \in DOMAIN files : starts_with(files[j].name, prefix) /\ n = files[j].name
        BY DEF list_files_prefix
      <4>2. files[j] \in VirtualFile
        BY DEF Inv, FilesOK, VfsTypeOK
      <4> QED
        BY <4>1, <4>2 DEF starts_with, VirtualFile
    <3>2. n \in Seq(STRING)
      BY <3>1, HostCallsAssumption, CapabilityAssumption
    <3> QED
      BY <2>3, <2>4, <2>6, <3>1, <3>2, PrefixTransitive DEF AllowsRead
  <2> QED
    BY <2>1, <2>2, <2>4, <2>7 DEF SeenConfined, Live, Held, agent_capabilities
<1> QED
  BY <1>1, <1>2

LEMMA HostCallInv == ASSUME Inv, NEW a \in DOMAIN agents, HostCall(a) PROVE Inv' /\ SeenConfined'
<1>1. ASSUME NEW text, debug_log(a, text) PROVE Inv' /\ SeenConfined'
  BY <1>1, KeepAll, NothingSeen DEF debug_log, Return
<1>2. ASSUME NEW t \in Pids, NEW d \in ByteArgs(Payloads), send_ipc(a, t, d)
      PROVE  Inv' /\ SeenConfined'
  BY <1>2, SendIpcInv, NothingSeen DEF send_ipc, Return
<1>3. ASSUME NEW ip, NEW payload, NEW ok, tcp_request(a, ip, payload, ok)
      PROVE  Inv' /\ SeenConfined'
  BY <1>3, KeepAll, NothingSeen DEF tcp_request, Return
<1>4. ASSUME NEW name, NEW out, NEW ok, resolve_dns(a, name, out, ok)
      PROVE  Inv' /\ SeenConfined'
  BY <1>4, KeepAll, NothingSeen DEF resolve_dns, Return
<1>5. ASSUME NEW path \in TextArgs, NEW out, NEW out_len, file_read(a, path, out, out_len)
      PROVE  Inv' /\ SeenConfined'
  BY <1>5, KeepAll, FileReadSeen DEF file_read
<1>6. ASSUME NEW path \in FileNames \cup BadArgs, NEW d \in ByteArgs(FileData),
             file_write(a, path, d)
      PROVE  Inv' /\ SeenConfined'
  BY <1>6, FileWriteInv, NothingSeen, ZenonT(60) DEF file_write, Return
<1>7. ASSUME NEW prefix \in TextArgs, NEW out, NEW out_len, file_list(a, prefix, out, out_len)
      PROVE  Inv' /\ SeenConfined'
  BY <1>7, KeepAll, FileListSeen DEF file_list
<1>8. ASSUME NEW t \in CapTypes, NEW detail \in TextArgs, request_capability(a, t, detail)
      PROVE  Inv' /\ SeenConfined'
  <2>1. Inv'
    BY <1>8, RequestInv
  <2>2. ret'.seen = {}
    <3>1. \E code : ret' = Return(code)
      BY <1>8, ZenonT(60) DEF request_capability
    <3> QED BY <3>1 DEF Return
  <2> QED
    BY <2>1, <2>2, NothingSeen
<1>9. ASSUME get_time(a) \/ get_uptime_ms(a) PROVE Inv' /\ SeenConfined'
  BY <1>9, KeepAll, NothingSeen DEF get_time, get_uptime_ms, Return
<1> QED
  BY <1>1, <1>2, <1>3, <1>4, <1>5, <1>6, <1>7, <1>8, <1>9 DEF HostCall, PlainCall

LEMMA NextInv == Inv /\ SeenConfined /\ [AgentNext]_hostVars => Inv' /\ SeenConfined'
<1> SUFFICES ASSUME Inv, SeenConfined, [AgentNext]_hostVars PROVE Inv' /\ SeenConfined'
  OBVIOUS
<1>1. CASE UNCHANGED hostVars
  <2>1. Inv'
    BY <1>1, KeepAll DEF hostVars
  <2>2. SeenConfined'
    BY <1>1 DEF hostVars, kernelVars, SeenConfined, Live, Held, agent_capabilities
  <2> QED
    BY <2>1, <2>2
<1>2. CASE Mint
  BY <1>2, MintInv, NothingSeen DEF Mint, NoCall
<1>3. CASE Spawn
  BY <1>3, SpawnInv, NothingSeen DEF Spawn, NoCall
<1>4. CASE Revoke
  BY <1>4, RevokeInv, NothingSeen DEF Revoke, NoCall
<1>5. CASE Open
  BY <1>5, OpenInv, NothingSeen DEF Open, NoCall
<1>6. CASE Receive
  BY <1>6, ReceiveInv, NothingSeen DEF Receive, NoCall
<1>7. ASSUME NEW a \in DOMAIN agents, HostCall(a) PROVE Inv' /\ SeenConfined'
  BY <1>7, HostCallInv
<1>8. ASSUME NEW a \in DOMAIN agents, Grant(a) PROVE Inv' /\ SeenConfined'
  BY <1>8, GrantInv, NothingSeen DEF Grant, NoCall
<1>9. ASSUME NEW a \in DOMAIN agents, Terminate(a) PROVE Inv' /\ SeenConfined'
  BY <1>9, TerminateInv, NothingSeen DEF Terminate, NoCall
<1> QED
  BY <1>1, <1>2, <1>3, <1>4, <1>5, <1>6, <1>7, <1>8, <1>9 DEF AgentNext, agent_pid

LEMMA InvImplies == Inv => /\ AgentTypeOK
                           /\ IdMeansOneCapability
                           /\ SenderHadAuthority
                           /\ WriterHadAuthority
BY DEF Inv, CapsOK, AgentsOK, QueuesOK, FilesOK, AgentTypeOK, IdMeansOneCapability

-----------------------------------------------------------------------------
(* Queues that do not grow, and files that stay, ask for no capability. *)
LEMMA QueuesStay == ASSUME Inv, UNCHANGED endpoints PROVE SendsLive
<1>1. \A p \in DOMAIN endpoints : Len(endpoints[p].messages) \in Nat
  BY DEF Inv, QueuesOK
<1> QED
  BY <1>1 DEF SendsLive

LEMMA FilesStay == ASSUME UNCHANGED files PROVE WritesLive
BY DEF WritesLive

(* What an agent may send and write by a capability of its list. *)
LEMMA MaySend ==
  ASSUME NEW a, NEW p, can_send_to(agent_capabilities(a), p)
  PROVE  \E c \in Live(a) : AllowsSend(c, p)
BY DEF can_send_to, find_capability, validate_capability, Held, Live

LEMMA MayWrite ==
  ASSUME NEW a, NEW path, can_write_file(agent_capabilities(a), path)
  PROVE  \E c \in Live(a) : AllowsWrite(c, path)
BY DEF can_write_file, find_capability, validate_capability, Held, Live

(* send_message to a process that the sender may send to now, or to the    *)
(* supervisor.                                                             *)
LEMMA SendLive ==
  ASSUME Inv, NEW s, NEW r, NEW d, NEW caps, send_message(s, r, d, caps),
         r # KERNEL_SUPERVISOR_PID => \E c \in Live(s) : AllowsSend(c, r)
  PROVE  SendsLive
<1>1. CASE send_result(r, caps) # "Ok"
  BY <1>1, QueuesStay DEF send_message
<1>2. CASE send_result(r, caps) = "Ok"
  <2>1. PICK q : q = endpoints[r].messages
    OBVIOUS
  <2>2. PICK m : m = Message(s, d, caps)
    OBVIOUS
  <2>3. r \in DOMAIN endpoints /\ q \in Seq(Messages) /\ m.sender = s
    BY <1>2, <2>1, <2>2 DEF send_result, Inv, QueuesOK, Message
  <2>4. endpoints' = WithQueue(r, Append(q, m))
    BY <1>2, <2>1, <2>2 DEF send_message
  <2>5. Append(q, m)[Len(Append(q, m))] = m
    BY <2>3
  <2>6. ASSUME NEW p \in DOMAIN endpoints \ {KERNEL_SUPERVISOR_PID},
               Len(endpoints'[p].messages) > Len(endpoints[p].messages)
        PROVE  \E c \in Live(endpoints'[p].messages[Len(endpoints'[p].messages)].sender) :
                  AllowsSend(c, p)
    <3>1. CASE p = r
      <4>1. endpoints'[p].messages = Append(q, m)
        BY <2>3, <2>4, <3>1 DEF WithQueue
      <4> QED
        BY <2>3, <2>5, <2>6, <3>1, <4>1
    <3>2. CASE p # r
      <4>1. endpoints'[p] = endpoints[p] /\ Len(endpoints[p].messages) \in Nat
        BY <2>4, <3>2 DEF WithQueue, Inv, QueuesOK
      <4> QED
        BY <2>6, <4>1
    <3> QED
      BY <3>1, <3>2
  <2> QED
    BY <2>6 DEF SendsLive
<1> QED
  BY <1>1, <1>2

LEMMA WriteLive ==
  ASSUME Inv, NEW a \in DOMAIN agents, NEW path, NEW d, write_file(path, d, a),
         can_write_file(agent_capabilities(a), path)
  PROVE  WritesLive
<1>1. PICK f : f = AgentFile(path, d, a)
  OBVIOUS
<1>2. f.owner_pid = a /\ f.name = path
  BY <1>1 DEF AgentFile
<1>3. \/ files' = files
      \/ files' = [files EXCEPT ![FirstIndex(path)] = f]
      \/ files' = Append(files, f)
  BY <1>1 DEF write_file
<1>4. files \in Seq(VirtualFile)
  BY DEF Inv, FilesOK, VfsTypeOK
<1>5. \A i \in DOMAIN files' : \/ i \in DOMAIN files /\ files'[i] = files[i]
                               \/ files'[i] = f
  BY <1>3, <1>4
<1>6. \E c \in Live(a) : AllowsWrite(c, path)
  BY MayWrite
<1> QED
  BY <1>2, <1>5, <1>6 DEF WritesLive

LEMMA HostCallLive == ASSUME Inv, NEW a \in DOMAIN agents, HostCall(a) PROVE SendsLive /\ WritesLive
<1>1. ASSUME NEW t, NEW d, send_ipc(a, t, d) PROVE SendsLive /\ WritesLive
  <2>1. CASE send_ipc_code(a, t, d) # 0
    BY <1>1, <2>1, QueuesStay, FilesStay DEF send_ipc
  <2>2. CASE send_ipc_code(a, t, d) = 0
    <3>1. can_send_to(agent_capabilities(a), t)
      BY <2>2 DEF send_ipc_code
    <3>2. \E c \in Live(a) : AllowsSend(c, t)
      BY <3>1, MaySend
    <3>3. send_message(a, t, d, << >>) /\ UNCHANGED files
      BY <1>1, <2>2 DEF send_ipc
    <3> QED
      BY <3>2, <3>3, SendLive, FilesStay
  <2> QED
    BY <2>1, <2>2
<1>2. ASSUME NEW path, NEW d, file_write(a, path, d) PROVE SendsLive /\ WritesLive
  <2>1. CASE file_write_code(a, path, d) # 0
    BY <1>2, <2>1, QueuesStay, FilesStay DEF file_write
  <2>2. CASE file_write_code(a, path, d) = 0
    <3>1. can_write_file(agent_capabilities(a), path)
      BY <2>2 DEF file_write_code
    <3>2. write_file(path, d, a) /\ UNCHANGED endpoints
      BY <1>2, <2>2 DEF file_write
    <3> QED
      BY <3>1, <3>2, WriteLive, QueuesStay
  <2> QED
    BY <2>1, <2>2
<1>3. ASSUME NEW t, NEW detail, request_capability(a, t, detail) PROVE SendsLive /\ WritesLive
  <2>1. CASE Fetch(detail) # 0
    BY <1>3, <2>1, QueuesStay, FilesStay DEF request_capability, kernelVars
  <2>2. CASE Fetch(detail) = 0
    <3>1. send_message(a, KERNEL_SUPERVISOR_PID, RequestMessage(a, t, detail), << >>)
          /\ UNCHANGED files
      BY <1>3, <2>2 DEF request_capability
    <3> QED
      BY <3>1, SendLive, FilesStay
  <2> QED
    BY <2>1, <2>2
<1>4. \/ \E t, d : send_ipc(a, t, d)
      \/ \E path, d : file_write(a, path, d)
      \/ \E t, detail : request_capability(a, t, detail)
      \/ UNCHANGED <<endpoints, files>>
  BY ZenonT(60) DEF HostCall, PlainCall, debug_log, tcp_request, resolve_dns, file_read, file_list,
                    get_time, get_uptime_ms, kernelVars
<1> QED
  BY <1>1, <1>2, <1>3, <1>4, QueuesStay, FilesStay

(* A mailbox that is opened, or one that is read, has no new message. *)
LEMMA MailboxLive == ASSUME Inv, Open \/ Receive PROVE SendsLive /\ WritesLive
<1>1. \A p \in DOMAIN endpoints : endpoints[p].messages \in Seq(Messages)
  BY DEF Inv, QueuesOK
<1>2. CASE Open
  <2>1. \A p \in DOMAIN endpoints : endpoints'[p] = endpoints[p]
    BY <1>2 DEF Open, create_endpoint
  <2> QED
    BY <1>1, <1>2, <2>1, FilesStay DEF SendsLive, Open
<1>3. CASE Receive
  <2>1. PICK q : receive_message(q)
    BY <1>3 DEF Receive
  <2>2. \A p \in DOMAIN endpoints :
          \/ endpoints'[p].messages = endpoints[p].messages
          \/ endpoints[p].messages # << >> /\ endpoints'[p].messages = Tail(endpoints[p].messages)
    BY <2>1 DEF receive_message, Pending, WithQueue
  <2>3. ASSUME NEW p \in DOMAIN endpoints
        PROVE  ~(Len(endpoints'[p].messages) > Len(endpoints[p].messages))
    <3>1. PICK old : old = endpoints[p].messages
      OBVIOUS
    <3>2. PICK new : new = endpoints'[p].messages
      OBVIOUS
    <3>3. new = old \/ (old # << >> /\ new = Tail(old))
      BY <2>2, <3>1, <3>2, ZenonT(60)
    <3>4. old \in Seq(Messages)
      BY <1>1, <3>1
    <3>5. ~(Len(new) > Len(old))
      BY ONLY <3>3, <3>4, SMTT(60), Z3T(60)
    <3> QED
      BY <3>1, <3>2, <3>5, ZenonT(60)
  <2> QED
    BY <1>3, <2>3, FilesStay DEF SendsLive, Receive
<1> QED
  BY <1>2, <1>3

LEMMA NextLive == Inv /\ [AgentNext]_hostVars => [SendsLive /\ WritesLive]_hostVars
<1> SUFFICES ASSUME Inv, AgentNext PROVE SendsLive /\ WritesLive
  OBVIOUS
<1>1. CASE Open \/ Receive
  BY <1>1, MailboxLive
<1>2. ASSUME NEW a \in DOMAIN agents, HostCall(a) PROVE SendsLive /\ WritesLive
  BY <1>2, HostCallLive
<1>3. CASE UNCHANGED <<endpoints, files>>
  BY <1>3, QueuesStay, FilesStay
<1>4. \/ Open \/ Receive
      \/ \E a \in DOMAIN agents : HostCall(a)
      \/ UNCHANGED <<endpoints, files>>
  BY ZenonT(60) DEF AgentNext, agent_pid, Mint, Spawn, Revoke, Grant, Terminate
<1> QED
  BY <1>1, <1>2, <1>3, <1>4

-----------------------------------------------------------------------------
(* The kernel's tables keep their types, whatever agents call and whatever *)
(* the kernel creates, grants, revokes and terminates.                     *)
THEOREM TypeCorrect == AgentSpec => []AgentTypeOK
BY InitInv, NextInv, InvImplies, PTL DEF AgentSpec

(* An identifier means one capability for ever (capability.rs, task.rs).   *)
THEOREM IdentifiersAreStable == AgentSpec => []IdMeansOneCapability
BY InitInv, NextInv, InvImplies, PTL DEF AgentSpec

(* send_ipc: every message queued for an agent is from an agent that was   *)
(* granted a capability to send there.                                     *)
THEOREM SendersHadAuthority == AgentSpec => []SenderHadAuthority
BY InitInv, NextInv, InvImplies, PTL DEF AgentSpec

(* file_write: every agent file's owner was granted a capability to write  *)
(* that file.                                                              *)
THEOREM WritersHadAuthority == AgentSpec => []WriterHadAuthority
BY InitInv, NextInv, InvImplies, PTL DEF AgentSpec

(* file_read and file_list: an agent sees only names that it may read.     *)
THEOREM ReadersAreConfined == AgentSpec => []SeenConfined
BY InitInv, NextInv, PTL DEF AgentSpec

(* send_ipc and file_write: whatever was granted before, no message is     *)
(* queued and no file written without a capability that still resolves.    *)
THEOREM AuthorityIsLive == AgentSpec => LiveAuthority
BY InitInv, NextInv, NextLive, PTL DEF AgentSpec, LiveAuthority
=============================================================================
