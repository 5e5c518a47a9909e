-------------------------------- MODULE Kernel --------------------------------
(***************************************************************************)
(* main.rs: kernel_main from the point where the tables are initialised.   *)
(* The archive is mounted, the core agent is spawned with the capabilities *)
(* created for it, and the modules that the file system held at that       *)
(* moment are run one after the other, all of them as the core agent.      *)
(***************************************************************************)
EXTENDS HostCalls

CONSTANTS
  Archives,      \* what archive.tar may hold: sequences of names and data
  EmptyArchive,  \* an archive of no bytes at all
  MaxRequests    \* bound: modules request no more than MaxRequests capabilities

Image == [name : FileNames, data : FileData]

ASSUME KernelAssumption ==
  /\ Archives \subseteq Seq(Image)
  /\ EmptyArchive \notin Archives
  /\ MaxRequests \in Nat
  /\ 1 \in Owners

VARIABLES
  archive,    \* archive.tar, fixed when the kernel is built
  pc,         \* where kernel_main is
  boot_caps,  \* its locals cap_spawn and cap_net
  core,       \* its local core_agent
  todo,       \* the rest of its local files, a snapshot of list_files
  ran,        \* history: the name and the bytes of every module executed
  requests    \* history: the messages request_capability sent

mainVars == <<archive, pc, boot_caps, core, todo, ran, requests>>
vars == <<hostVars, mainVars>>

ends_with_wasm(name) == name # << >> /\ name[Len(name)] = ".wasm"

-----------------------------------------------------------------------------
(* initramfs::init, in one step here; module Initramfs has its loop. *)
Mount ==
  /\ pc = "mount"
  /\ IF archive = EmptyArchive
     THEN pc' = "panic" /\ UNCHANGED files
     ELSE /\ pc' = "cap_spawn"
          /\ files' = [i \in DOMAIN archive |->
                         SystemFile(archive[i].name, archive[i].data)]
  /\ UNCHANGED <<store, next_cap_id, agents, next_id, endpoints, ret, minted,
                 archive, boot_caps, core, todo, ran, requests>>

CreateBootCap(from, cap, to) ==
  /\ pc = from
  /\ mint(cap)
  /\ boot_caps' = Append(boot_caps, NewCapId)
  /\ pc' = to
  /\ UNCHANGED <<agents, next_id, endpoints, files, ret,
                 archive, core, todo, ran, requests>>

SpawnCore ==
  /\ pc = "spawn"
  /\ spawn_agent(boot_caps)
  /\ core' = NewAgentId
  /\ pc' = "list"
  /\ UNCHANGED <<store, next_cap_id, endpoints, files, ret, minted,
                 archive, boot_caps, todo, ran, requests>>

Snapshot ==
  /\ pc = "list"
  /\ todo' = list_files
  /\ pc' = "loop"
  /\ UNCHANGED <<hostVars, archive, boot_caps, core, ran, requests>>

\* mutant: the name stays in the list
NextFile_Keep ==
  /\ pc = "loop"
  /\ todo # << >>
  /\ pc' = IF ends_with_wasm(Head(todo)) /\ Exists(Head(todo)) THEN "run" ELSE pc
  /\ UNCHANGED <<hostVars, archive, boot_caps, core, todo, ran, requests>>

(* One iteration of the loop up to the call of execute_module: the file is *)
(* looked up again by the name in the snapshot.                            *)
NextFile ==
  /\ pc = "loop"
  /\ todo # << >>
  /\ todo' = Tail(todo)
  /\ IF ends_with_wasm(Head(todo)) /\ Exists(Head(todo))
     THEN /\ pc' = "run"
          /\ ran' = Append(ran, [name |-> Head(todo), data |-> open_file(Head(todo))])
     ELSE UNCHANGED <<pc, ran>>
  /\ UNCHANGED <<hostVars, archive, boot_caps, core, requests>>

\* mutant: the error of a module ends the loop over the files
AfterCall_TrapHalts(code) ==
  IF code = Trap THEN "halt" ELSE IF code = Panic THEN "panic" ELSE "run"

(* A trap makes execute_module return its error; a failed allocation ends  *)
(* in alloc_error_handler, which panics.                                   *)
AfterCall(code) ==
  IF code = Trap THEN "loop" ELSE IF code = Panic THEN "panic" ELSE "run"

ModuleCalls ==
  /\ pc = "run"
  /\ PlainCall(core)
  /\ pc' = AfterCall(ret'.code)
  /\ UNCHANGED <<archive, boot_caps, core, todo, ran, requests>>

ModuleRequests ==
  /\ pc = "run"
  /\ \E cap_type \in CapTypes, detail \in TextArgs :
       /\ Len(requests) < MaxRequests
       /\ request_capability(core, cap_type, detail)
       /\ requests' = IF Fetch(detail) = 0
                      THEN Append(requests, Message(core, RequestMessage(core, cap_type, detail), << >>))
                      ELSE requests
  /\ pc' = AfterCall(ret'.code)
  /\ UNCHANGED <<archive, boot_caps, core, todo, ran>>

(* execute_module returns: the module could not be compiled, instantiated  *)
(* or started, ran to its end, or trapped by itself.                       *)
ModuleEnds ==
  /\ pc = "run"
  /\ pc' = "loop"
  /\ UNCHANGED <<hostVars, archive, boot_caps, core, todo, ran, requests>>

Halt ==
  /\ pc = "loop"
  /\ todo = << >>
  /\ pc' = "halt"
  /\ UNCHANGED <<hostVars, archive, boot_caps, core, todo, ran, requests>>

(* loop { hlt() }, after the last module and in the panic handler. *)
Hlt == pc \in {"halt", "panic"} /\ UNCHANGED vars

-----------------------------------------------------------------------------
KernelInit ==
  /\ HostInit
  /\ archive \in Archives \cup {EmptyArchive}
  /\ pc = "mount"
  /\ boot_caps = << >>
  /\ core = 0
  /\ todo = << >>
  /\ ran = << >>
  /\ requests = << >>

KernelStep ==
  \/ Mount
  \/ CreateBootCap("cap_spawn", SpawnCap, "cap_net")
  \/ CreateBootCap("cap_net", NetworkCap, "spawn")
  \/ SpawnCore
  \/ Snapshot
  \/ NextFile
  \/ Halt

KernelNext == KernelStep \/ ModuleCalls \/ ModuleRequests \/ ModuleEnds \/ Hlt

(* The CPU runs kernel_main without end; whether a module ever returns is  *)
(* the module's affair.                                                    *)
KernelSpec == KernelInit /\ [][KernelNext]_vars /\ WF_vars(KernelStep)

-----------------------------------------------------------------------------
RequestMessages == [agent : Pids, cap_type : CapTypes, detail : Paths]

Messages == [sender : Pids, data : Payloads \cup RequestMessages,
             capabilities : Seq(Nat)]

(* The types of the kernel's tables and of kernel_main's locals. *)
KernelTypeOK ==
  /\ CapTypeOK
  /\ TaskTypeOK
  /\ VfsTypeOK
  /\ endpoints \in [{KERNEL_SUPERVISOR_PID} ->
                      [messages : Seq(Messages), max_messages : Nat \ {0}]]
  /\ pc \in {"mount", "cap_spawn", "cap_net", "spawn", "list", "loop", "run",
             "halt", "panic"}
  /\ boot_caps \in Seq(CapIds)
  /\ core \in {0, 1}
  /\ todo \in Seq(FileNames)
  /\ ran \in Seq(Image)
  /\ requests \in Seq(Messages)

Holdings == IF core = 0 THEN boot_caps ELSE agent_capabilities(core)

(* No capability leaks and none is shared: every capability ever created   *)
(* is live, and the core agent (kernel_main, before the agent exists)      *)
(* holds each of them exactly once, in the order of their creation.        *)
EveryCapabilityHeldOnce ==
  /\ DOMAIN store = 1 .. next_cap_id - 1
  /\ Holdings = [i \in 1 .. next_cap_id - 1 |-> i]

(* The first entry of that name in the archive, as open_file finds it. *)
ImageOf(name) ==
  archive[CHOOSE i \in DOMAIN archive :
            /\ archive[i].name = name
            /\ \A j \in 1 .. i - 1 : archive[j].name # name].data

(* The kernel runs the boot image and nothing else: every module executed  *)
(* is an entry of the archive with the archive's bytes, although earlier   *)
(* modules had file system capabilities of their choice, over the module's *)
(* own name too, and could create files with names that end in .wasm.      *)
RunsBootImage ==
  \A i \in DOMAIN ran :
    /\ \E j \in DOMAIN archive : archive[j].name = ran[i].name
    /\ ran[i].data = ImageOf(ran[i].name)

(* The modules among the first n entries of the archive were executed, and *)
(* nothing else: entry at[i] was the i-th to run.                          *)
ModulesRun(n) ==
  \E at \in [DOMAIN ran -> 1 .. n] :
    /\ \A i \in DOMAIN ran : ran[i].name = archive[at[i]].name
    /\ \A i, j \in DOMAIN ran : i < j => at[i] < at[j]
    /\ \A k \in 1 .. n : ends_with_wasm(archive[k].name) <=> \E i \in DOMAIN ran : at[i] = k

(* A kernel that comes to its halt loop has executed every module of the   *)
(* archive once, in the order of the archive: no module that traps, cannot *)
(* be started or takes what names it likes for its files keeps a later one *)
(* from running or has one run twice.                                      *)
EveryModuleRuns == pc = "halt" => ModulesRun(Len(archive))

(* The core agent's files are files it still may write: each has the core  *)
(* agent as its owner and lies under the prefix of a live capability.      *)
FilesUnderWritablePrefix ==
  \A i \in DOMAIN files :
    ~files[i].read_only =>
      /\ files[i].owner_pid = core
      /\ \E k \in DOMAIN agent_capabilities(core) :
           LET id == agent_capabilities(core)[k]
           IN validate_capability(id) /\ AllowsWrite(store[id], files[i].name)

(* The supervisor's mailbox, which nobody empties, holds the oldest of the *)
(* requests, in order: none is lost before the mailbox is full, none after *)
(* that replaces an older one, and send_ipc adds nothing to it.            *)
SupervisorHasOldest ==
  endpoints[KERNEL_SUPERVISOR_PID].messages
    = SubSeq(requests, 1, IF Len(requests) < SUPERVISOR_MAX THEN Len(requests)
                                                           ELSE SUPERVISOR_MAX)

(* kernel_main gets through the archive: if no module runs for ever, the   *)
(* kernel comes to its halt loop, or to that of the panic handler.         *)
KernelHalts == []<>(pc # "run") => <>(pc \in {"halt", "panic"})
=============================================================================
