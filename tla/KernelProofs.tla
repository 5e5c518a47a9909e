----------------------------- MODULE KernelProofs -----------------------------
(***************************************************************************)
(* Kernel, for any archive, any modules and any number of host calls.      *)
(***************************************************************************)
EXTENDS Kernel, SequenceTheorems, WellFoundedInduction, NaturalsInduction, TLAPS

(* A leaf gets a minute, and a second try, so that a slow machine checks it too. *)
USE SMTT(60), Z3T(60), ZenonT(60), SMTT(90), Z3T(90)

(* A set of positive numbers that is not empty has a least element. *)
LEMMA LeastIndex ==
  ASSUME NEW n \in Nat, NEW T \in SUBSET (1 .. n), T # {}
  PROVE  \E i \in T : \A j \in 1 .. i - 1 : j \notin T
<1>1. IsWellFoundedOn(OpToRel(<, Nat), Nat)
  BY NatLessThanWellFounded, ZenonT(60)
<1>2. T \subseteq Nat
  OBVIOUS
<1>3. PICK i \in T : \A j \in T : ~(<<j, i>> \in OpToRel(<, Nat))
  BY <1>1, <1>2, WFMin, ZenonT(60)
<1>4. \A j \in T : ~(j < i)
  BY <1>2, <1>3, ZenonT(60) DEF OpToRel
<1> QED
  BY <1>2, <1>4

(* The file that open_file and write_file find. *)
LEMMA FirstIndexFound ==
  ASSUME files \in Seq(VirtualFile), NEW n, Exists(n)
  PROVE  /\ FirstIndex(n) \in DOMAIN files
         /\ files[FirstIndex(n)].name = n
         /\ \A j \in 1 .. FirstIndex(n) - 1 : files[j].name # n
<1> DEFINE T == {i \in DOMAIN files : files[i].name = n}
<1>1. T # {} /\ T \in SUBSET (1 .. Len(files)) /\ Len(files) \in Nat
  BY DEF Exists
<1>2. PICK i \in T : \A j \in 1 .. i - 1 : j \notin T
  BY <1>1, LeastIndex, ZenonT(60)
<1>3. \A j \in 1 .. i - 1 : j \in DOMAIN files
  BY <1>1, <1>2
<1>4. \E k \in DOMAIN files : /\ files[k].name = n
                              /\ \A j \in 1 .. k - 1 : files[j].name # n
  BY <1>2, <1>3
<1> QED
  BY <1>4, ZenonT(60) DEF FirstIndex

(* The archive entry that ImageOf stands for. *)
LEMMA ImageFound ==
  ASSUME archive \in Seq(Image), NEW n,
         \E i \in DOMAIN archive : archive[i].name = n
  PROVE  \E i \in DOMAIN archive : /\ archive[i].name = n
                                   /\ \A j \in 1 .. i - 1 : archive[j].name # n
                                   /\ ImageOf(n) = archive[i].data
<1> DEFINE T == {i \in DOMAIN archive : archive[i].name = n}
<1>1. T # {} /\ T \in SUBSET (1 .. Len(archive)) /\ Len(archive) \in Nat
  OBVIOUS
<1>2. PICK i \in T : \A j \in 1 .. i - 1 : j \notin T
  BY <1>1, LeastIndex, ZenonT(60)
<1>3. \A j \in 1 .. i - 1 : j \in DOMAIN archive
  BY <1>1, <1>2
<1> DEFINE P(k) == /\ archive[k].name = n
                   /\ \A j \in 1 .. k - 1 : archive[j].name # n
           c == CHOOSE k \in DOMAIN archive : P(k)
<1>4. \E k \in DOMAIN archive : P(k)
  BY <1>2, <1>3
<1>5. c \in DOMAIN archive /\ P(c)
  BY <1>4, ZenonT(60)
<1>6. ImageOf(n) = archive[c].data
  BY DEF ImageOf
<1> QED
  BY <1>5, <1>6, ZenonT(60)

-----------------------------------------------------------------------------
(* The inductive invariant.  Where kernel_main is and whether the core     *)
(* agent exists; the capabilities; the file system, whose front is the     *)
(* archive; what was run and is left to run; the supervisor's mailbox.     *)
CoreOK ==
  \/ /\ core = 0 /\ agents = << >> /\ next_id = 1
     /\ pc \in {"mount", "cap_spawn", "cap_net", "spawn", "panic"}
  \/ /\ core = 1 /\ DOMAIN agents = {1} /\ next_id = 2
     /\ pc \in {"list", "loop", "run", "halt", "panic"}

NoProcessCap == \A id \in DOMAIN store : store[id].kind # "Process"

Mounted == archive # EmptyArchive /\ pc # "mount"

ImageMounted ==
  /\ Len(archive) <= Len(files)
  /\ \A i \in 1 .. Len(archive) : files[i] = SystemFile(archive[i].name, archive[i].data)
  /\ \A i \in Len(archive) + 1 .. Len(files) : ~files[i].read_only
  /\ pc \in {"cap_spawn", "cap_net", "spawn", "list"} => Len(files) = Len(archive)

InArchive(n) == \E j \in DOMAIN archive : archive[j].name = n

ImageOK ==
  /\ archive \in Archives \cup {EmptyArchive}
  /\ pc \notin {"mount", "panic"} => archive # EmptyArchive
  /\ core = 1 => archive # EmptyArchive
  /\ ~Mounted => files = << >> /\ todo = << >> /\ ran = << >>
  /\ Mounted => ImageMounted
  /\ \A i \in DOMAIN todo : InArchive(todo[i])

SupervisorOK ==
  /\ endpoints[KERNEL_SUPERVISOR_PID].max_messages = SUPERVISOR_MAX
  /\ SupervisorHasOldest

Inv == /\ KernelTypeOK
       /\ CoreOK
       /\ EveryCapabilityHeldOnce /\ NoProcessCap
       /\ ImageOK /\ RunsBootImage /\ FilesUnderWritablePrefix
       /\ SupervisorOK

LEMMA InitInv == KernelInit => Inv
<1> SUFFICES ASSUME KernelInit PROVE Inv
  OBVIOUS
<1> USE DEF KernelInit, HostInit, CapInit, TaskInit, EndpointsInit, VfsInit
<1>1. KernelTypeOK
  BY CapabilityAssumption, IpcAssumption, TaskAssumption
     DEF KernelTypeOK, CapTypeOK, CapIds, TaskTypeOK, VfsTypeOK, NewEndpoint
<1>2. CoreOK
  BY DEF CoreOK
<1>3. EveryCapabilityHeldOnce /\ NoProcessCap
  BY DEF EveryCapabilityHeldOnce, Holdings, NoProcessCap
<1>4. ImageOK /\ RunsBootImage /\ FilesUnderWritablePrefix
  BY DEF ImageOK, Mounted, RunsBootImage, FilesUnderWritablePrefix
<1>5. SupervisorOK
  BY IpcAssumption DEF SupervisorOK, SupervisorHasOldest, NewEndpoint, KERNEL_SUPERVISOR_PID
<1> QED
  BY <1>1, <1>2, <1>3, <1>4, <1>5 DEF Inv

(* A step that executes no module keeps the history as it is. *)
LEMMA KeepRan == ASSUME RunsBootImage, UNCHANGED <<archive, ran>> PROVE RunsBootImage'
<1>1. \A n : ImageOf(n)' = ImageOf(n)
  BY ZenonT(60) DEF ImageOf
<1> QED
  BY <1>1, ZenonT(60) DEF RunsBootImage

(* A step that changes no table, only where kernel_main is. *)
LEMMA MoveOn ==
  ASSUME Inv, UNCHANGED <<kernelVars, archive, boot_caps, core, todo, ran, requests>>,
         pc \in {"loop", "run"}, pc' \in {"loop", "run", "halt", "panic"}
  PROVE  Inv'
<1> USE DEF kernelVars, Inv
<1>1. KernelTypeOK'
  BY DEF KernelTypeOK, CapTypeOK, TaskTypeOK, VfsTypeOK
<1>2. CoreOK'
  BY DEF CoreOK
<1>3. EveryCapabilityHeldOnce' /\ NoProcessCap'
  BY DEF EveryCapabilityHeldOnce, Holdings, agent_capabilities, NoProcessCap
<1>4. ImageOK'
  BY DEF ImageOK, Mounted, ImageMounted, InArchive
<1>5. RunsBootImage'
  BY DEF RunsBootImage, ImageOf
<1>6. FilesUnderWritablePrefix'
  BY DEF FilesUnderWritablePrefix, agent_capabilities, validate_capability
<1>7. SupervisorOK'
  BY DEF SupervisorOK, SupervisorHasOldest
<1> QED
  BY <1>1, <1>2, <1>3, <1>4, <1>5, <1>6, <1>7

LEMMA MountInv == Inv /\ Mount => Inv'
<1> SUFFICES ASSUME Inv, Mount PROVE Inv'
  OBVIOUS
<1> USE DEF Inv
<1>0. /\ UNCHANGED <<store, next_cap_id, agents, next_id, endpoints, archive, boot_caps,
                     core, todo, ran, requests>>
      /\ pc = "mount" /\ core = 0
      /\ files = << >> /\ todo = << >> /\ ran = << >>
  BY DEF Mount, CoreOK, ImageOK, Mounted
<1>1. CASE archive = EmptyArchive
  <2>1. files' = << >> /\ pc' = "panic"
    BY <1>0, <1>1 DEF Mount
  <2>2. KernelTypeOK'
    BY <1>0, <2>1 DEF KernelTypeOK, CapTypeOK, TaskTypeOK, VfsTypeOK
  <2>3. CoreOK' /\ EveryCapabilityHeldOnce' /\ NoProcessCap' /\ SupervisorOK'
    BY <1>0, <2>1 DEF CoreOK, EveryCapabilityHeldOnce, Holdings, NoProcessCap,
                      SupervisorOK, SupervisorHasOldest
  <2>4. ImageOK' /\ RunsBootImage' /\ FilesUnderWritablePrefix'
    BY <1>0, <1>1, <2>1 DEF ImageOK, Mounted, RunsBootImage, FilesUnderWritablePrefix
  <2> QED
    BY <2>2, <2>3, <2>4
<1>2. CASE archive # EmptyArchive
  <2>1. /\ files' = [i \in DOMAIN archive |-> SystemFile(archive[i].name, archive[i].data)]
        /\ pc' = "cap_spawn"
    BY <1>0, <1>2 DEF Mount
  <2>2. archive \in Seq(Image)
    BY <1>2, KernelAssumption DEF ImageOK
  <2>3. /\ files' \in Seq(VirtualFile)
        /\ Len(files') = Len(archive)
        /\ \A i \in 1 .. Len(archive) : files'[i] = SystemFile(archive[i].name, archive[i].data)
    <3>1. ASSUME NEW i \in 1 .. Len(archive)
          PROVE  SystemFile(archive[i].name, archive[i].data) \in VirtualFile
      <4>1. archive[i] \in Image
        BY <2>2
      <4> QED
        BY <4>1 DEF SystemFile, VirtualFile, Image
    <3> QED
      BY <2>1, <2>2, <3>1
  <2>4. KernelTypeOK'
    BY <1>0, <2>1, <2>3 DEF KernelTypeOK, CapTypeOK, TaskTypeOK, VfsTypeOK
  <2>5. CoreOK' /\ EveryCapabilityHeldOnce' /\ NoProcessCap' /\ SupervisorOK'
    BY <1>0, <2>1 DEF CoreOK, EveryCapabilityHeldOnce, Holdings, NoProcessCap,
                      SupervisorOK, SupervisorHasOldest
  <2>6. ImageOK'
    BY <1>0, <1>2, <2>1, <2>2, <2>3 DEF ImageOK, Mounted, ImageMounted
  <2>7. FilesUnderWritablePrefix'
    <3>1. \A i \in DOMAIN files' : files'[i].read_only = TRUE
      <4>1. DOMAIN files' = 1 .. Len(archive)
        BY <2>1, <2>2
      <4> QED
        BY <4>1, <2>3 DEF SystemFile
    <3> QED
      BY <3>1 DEF FilesUnderWritablePrefix
  <2>8. RunsBootImage'
    BY <1>0 DEF RunsBootImage
  <2> QED
    BY <2>4, <2>5, <2>6, <2>7, <2>8
<1> QED
  BY <1>1, <1>2

LEMMA CreateBootCapInv ==
  ASSUME Inv, NEW cap \in {SpawnCap, NetworkCap},
         NEW from \in {"cap_spawn", "cap_net"}, NEW to \in {"cap_net", "spawn"},
         CreateBootCap(from, cap, to)
  PROVE  Inv'
<1> USE DEF Inv
<1>0. /\ UNCHANGED <<agents, next_id, endpoints, files, archive, core, todo, ran, requests>>
      /\ pc = from /\ pc' = to /\ core = 0
      /\ boot_caps' = Append(boot_caps, next_cap_id)
      /\ next_cap_id' = next_cap_id + 1
      /\ store' = [id \in DOMAIN store \cup {next_cap_id} |->
                     IF id = next_cap_id THEN cap ELSE store[id]]
  BY DEF CreateBootCap, CoreOK, mint, create_capability, NewCapId
<1>1. cap \in Capabilities /\ cap.kind # "Process"
  BY DEF SpawnCap, NetworkCap, Capabilities
<1>2. next_cap_id \in Nat \ {0} /\ boot_caps \in Seq(CapIds)
  BY DEF KernelTypeOK, CapTypeOK, CapIds
<1>3. CapTypeOK'
  BY <1>0, <1>1, <1>2 DEF KernelTypeOK, CapTypeOK, CapIds
<1>4. KernelTypeOK'
  BY <1>0, <1>2, <1>3 DEF KernelTypeOK, TaskTypeOK, VfsTypeOK, CapIds
<1>5. EveryCapabilityHeldOnce'
  <2>1. DOMAIN store' = 1 .. next_cap_id' - 1
    BY <1>0, <1>2 DEF EveryCapabilityHeldOnce
  <2>2. boot_caps = [i \in 1 .. next_cap_id - 1 |-> i] /\ Len(boot_caps) = next_cap_id - 1
    BY <1>0, <1>2 DEF EveryCapabilityHeldOnce, Holdings
  <2>3. boot_caps' = [i \in 1 .. next_cap_id' - 1 |-> i]
    BY <1>0, <1>2, <2>2 DEF CapIds
  <2> QED
    BY <1>0, <2>1, <2>3 DEF EveryCapabilityHeldOnce, Holdings
<1>6. NoProcessCap'
  BY <1>0, <1>1 DEF NoProcessCap
<1>7. CoreOK' /\ SupervisorOK' /\ RunsBootImage'
  <2>1. CoreOK' /\ SupervisorOK'
    BY <1>0 DEF CoreOK, SupervisorOK, SupervisorHasOldest
  <2> QED
    BY <1>0, <2>1, KeepRan
<1>8. ImageOK'
  BY <1>0 DEF ImageOK, Mounted, ImageMounted, InArchive
<1>9. FilesUnderWritablePrefix'
  BY <1>0 DEF FilesUnderWritablePrefix, CoreOK, agent_capabilities
<1> QED
  BY <1>4, <1>5, <1>6, <1>7, <1>8, <1>9

LEMMA SpawnCoreInv == Inv /\ SpawnCore => Inv'
<1> SUFFICES ASSUME Inv, SpawnCore PROVE Inv'
  OBVIOUS
<1> USE DEF Inv
<1>0. /\ UNCHANGED <<store, next_cap_id, endpoints, files, archive, boot_caps, todo, ran, requests>>
      /\ pc = "spawn" /\ pc' = "list" /\ core = 0 /\ core' = 1
      /\ agents = << >> /\ next_id = 1 /\ next_id' = 2 /\ next_id <= MaxAgents
      /\ agents' = [a \in {1} |-> [capabilities |-> boot_caps, state |-> "Running"]]
  BY DEF SpawnCore, CoreOK, spawn_agent, NewAgentId
<1>1. KernelTypeOK'
  <2>1. boot_caps \in Seq(Nat)
    BY DEF KernelTypeOK, CapIds
  <2>2. TaskTypeOK'
    BY <1>0, <2>1, TaskAssumption DEF TaskTypeOK, AgentState
  <2> QED
    BY <1>0, <2>2 DEF KernelTypeOK, CapTypeOK, VfsTypeOK
<1>2. CoreOK' /\ NoProcessCap' /\ SupervisorOK' /\ RunsBootImage'
  BY <1>0, SMTT(60), Z3T(60) DEF CoreOK, NoProcessCap, SupervisorOK, SupervisorHasOldest, RunsBootImage, ImageOf
<1>3. EveryCapabilityHeldOnce'
  BY <1>0, ZenonT(60) DEF EveryCapabilityHeldOnce, Holdings, agent_capabilities
<1>4. ImageOK'
  BY <1>0 DEF ImageOK, Mounted, ImageMounted, InArchive
<1>5. FilesUnderWritablePrefix'
  <2>1. \A i \in DOMAIN files : files[i].read_only
    <3>1. archive \in Seq(Image)
      BY <1>0, KernelAssumption DEF ImageOK
    <3>2. files \in Seq(VirtualFile) /\ Len(files) = Len(archive)
      BY <1>0 DEF KernelTypeOK, VfsTypeOK, ImageOK, Mounted, ImageMounted
    <3>3. \A i \in 1 .. Len(archive) : files[i] = SystemFile(archive[i].name, archive[i].data)
      BY <1>0 DEF ImageOK, Mounted, ImageMounted
    <3>4. DOMAIN files = 1 .. Len(archive)
      BY <3>1, <3>2
    <3> QED
      BY <3>3, <3>4 DEF SystemFile
  <2> QED
    BY <1>0, <2>1 DEF FilesUnderWritablePrefix
<1> QED
  BY <1>1, <1>2, <1>3, <1>4, <1>5

LEMMA SnapshotInv == Inv /\ Snapshot => Inv'
<1> SUFFICES ASSUME Inv, Snapshot PROVE Inv'
  OBVIOUS
<1> USE DEF Inv
<1>0. /\ UNCHANGED <<kernelVars, archive, boot_caps, core, ran, requests>>
      /\ pc = "list" /\ pc' = "loop" /\ core = 1
      /\ todo' = [i \in DOMAIN files |-> files[i].name]
  BY DEF Snapshot, CoreOK, hostVars, list_files
<1>1. files \in Seq(VirtualFile) /\ archive \in Seq(Image) /\ Len(files) = Len(archive)
  BY <1>0, KernelAssumption DEF KernelTypeOK, VfsTypeOK, ImageOK, Mounted, ImageMounted
<1>2. \A i \in 1 .. Len(archive) : files[i] = SystemFile(archive[i].name, archive[i].data)
  BY <1>0 DEF ImageOK, Mounted, ImageMounted
<1>3. todo' \in Seq(FileNames)
  <2>1. \A i \in DOMAIN files : files[i].name \in FileNames
    <3> SUFFICES ASSUME NEW i \in DOMAIN files PROVE files[i].name \in FileNames
      OBVIOUS
    <3>1. files[i] \in VirtualFile
      BY <1>1
    <3> QED
      BY <3>1 DEF VirtualFile
  <2> QED
    BY <1>0, <1>1, <2>1
<1>4. \A i \in DOMAIN todo' : InArchive(todo'[i])
  <2>1. DOMAIN files = 1 .. Len(archive) /\ DOMAIN archive = 1 .. Len(archive)
    BY <1>1
  <2>2. \A i \in 1 .. Len(archive) : todo'[i] = archive[i].name
    <3> SUFFICES ASSUME NEW i \in 1 .. Len(archive) PROVE todo'[i] = archive[i].name
      OBVIOUS
    <3>1. files[i].name = archive[i].name
      <4>1. files[i] = SystemFile(archive[i].name, archive[i].data)
        BY <1>2, ZenonT(60)
      <4>2. SystemFile(archive[i].name, archive[i].data).name = archive[i].name
        BY ZenonT(60) DEF SystemFile
      <4> QED
        BY <4>1, <4>2, ZenonT(60)
    <3>2. todo'[i] = files[i].name
      BY <1>0, <2>1, ZenonT(60)
    <3> QED
      BY <3>1, <3>2
  <2> QED
    BY <1>0, <2>1, <2>2 DEF InArchive
<1>5. KernelTypeOK'
  BY <1>0, <1>3 DEF kernelVars, KernelTypeOK, CapTypeOK, TaskTypeOK, VfsTypeOK
<1>6. CoreOK' /\ EveryCapabilityHeldOnce' /\ NoProcessCap' /\ SupervisorOK'
  BY <1>0 DEF kernelVars, CoreOK, EveryCapabilityHeldOnce, Holdings, agent_capabilities,
              NoProcessCap, SupervisorOK, SupervisorHasOldest
<1>7. ImageOK'
  BY <1>0, <1>4 DEF kernelVars, ImageOK, Mounted, ImageMounted, InArchive
<1>8. RunsBootImage' /\ FilesUnderWritablePrefix'
  BY <1>0, SMTT(60), Z3T(60) DEF kernelVars, RunsBootImage, ImageOf, FilesUnderWritablePrefix,
              agent_capabilities, validate_capability
<1> QED
  BY <1>5, <1>6, <1>7, <1>8

(* open_file finds the archive's bytes for a name of the archive. *)
LEMMA OpensImage ==
  ASSUME Inv, Mounted, NEW n, InArchive(n)
  PROVE  Exists(n) /\ open_file(n) = ImageOf(n) /\ ImageOf(n) \in FileData
<1>1. archive \in Seq(Image) /\ files \in Seq(VirtualFile)
  BY KernelAssumption DEF Inv, ImageOK, Mounted, KernelTypeOK, VfsTypeOK
<1>2. /\ Len(archive) <= Len(files)
      /\ \A i \in 1 .. Len(archive) : files[i] = SystemFile(archive[i].name, archive[i].data)
  BY DEF Inv, ImageOK, ImageMounted
<1>a. ASSUME NEW i \in 1 .. Len(archive)
      PROVE  files[i].name = archive[i].name /\ files[i].data = archive[i].data
  <2>1. files[i] = [name |-> archive[i].name, data |-> archive[i].data, owner_pid |-> 0,
                    read_only |-> TRUE]
    BY <1>2 DEF SystemFile
  <2> QED
    BY <2>1
<1>3. PICK k \in DOMAIN archive : /\ archive[k].name = n
                                  /\ \A j \in 1 .. k - 1 : archive[j].name # n
                                  /\ ImageOf(n) = archive[k].data
  BY <1>1, ImageFound DEF InArchive
<1>b. ImageOf(n) = archive[k].data
  BY <1>3
<1>4. k \in 1 .. Len(archive) /\ k \in DOMAIN files /\ files[k].name = n /\ files[k].data = archive[k].data
  <2>1. k \in 1 .. Len(archive) /\ k \in DOMAIN files
    BY <1>1, <1>2
  <2> QED
    BY <1>a, <1>3, <2>1
<1>5. Exists(n)
  BY <1>4 DEF Exists
<1> DEFINE f == FirstIndex(n)
<1>6. /\ f \in DOMAIN files
      /\ files[f].name = n
      /\ \A j \in 1 .. f - 1 : files[j].name # n
  BY <1>1, <1>5, FirstIndexFound
<1> HIDE DEF f
<1>7. f = k
  <2>1. f \in Nat \ {0} /\ k \in Nat \ {0}
    BY <1>1, <1>4, <1>6
  <2>2. ~(k < f)
    BY <1>4, <1>6, <2>1
  <2>3. ~(f < k)
    <3> SUFFICES ASSUME f < k PROVE FALSE
      OBVIOUS
    <3>1. f \in 1 .. Len(archive) /\ f \in 1 .. k - 1
      BY <1>1, <1>4, <2>1
    <3>2. files[f].name = archive[f].name
      BY <1>a, <3>1
    <3> QED
      BY <1>3, <1>6, <3>1, <3>2
  <2> QED
    BY <2>1, <2>2, <2>3
<1>8. open_file(n) = ImageOf(n)
  <2>1. open_file(n) = files[f].data
    BY <1>5 DEF open_file, f
  <2>2. files[f].data = archive[k].data
    BY <1>4, <1>7
  <2> QED
    BY <1>b, <2>1, <2>2
<1>9. archive[k].data \in FileData
  <2>1. archive[k] \in Image
    BY <1>1, <1>4
  <2> QED
    BY <2>1 DEF Image
<1> QED
  BY <1>b, <1>5, <1>8, <1>9

LEMMA NextFileInv == Inv /\ NextFile => Inv'
<1> SUFFICES ASSUME Inv, NextFile PROVE Inv'
  OBVIOUS
<1> USE DEF Inv
<1> DEFINE n == Head(todo)
<1>0. /\ UNCHANGED <<kernelVars, archive, boot_caps, core, requests>>
      /\ pc = "loop" /\ core = 1
      /\ todo # << >> /\ todo' = Tail(todo)
  BY DEF NextFile, CoreOK, hostVars
<1>1. /\ n \in FileNames /\ InArchive(n)
      /\ todo' \in Seq(FileNames)
      /\ \A i \in DOMAIN todo' : InArchive(todo'[i])
  <2>1. todo \in Seq(FileNames) /\ todo # << >> /\ \A i \in DOMAIN todo : InArchive(todo[i])
    BY <1>0 DEF KernelTypeOK, ImageOK
  <2>2. n = todo[1] /\ 1 \in DOMAIN todo /\ Tail(todo) \in Seq(FileNames)
    BY <2>1
  <2>3. ASSUME NEW i \in DOMAIN Tail(todo)
        PROVE  Tail(todo)[i] = todo[i + 1] /\ i + 1 \in DOMAIN todo
    BY <2>1
  <2>4. n \in FileNames
    BY <2>1, <2>2
  <2>5. \A i \in DOMAIN Tail(todo) : InArchive(Tail(todo)[i])
    BY <2>1, <2>3
  <2> HIDE DEF n
  <2> QED
    BY <1>0, <2>1, <2>2, <2>4, <2>5
<1>2. Exists(n) /\ open_file(n) = ImageOf(n) /\ ImageOf(n) \in FileData
  <2>1. Mounted
    BY <1>0 DEF ImageOK, Mounted
  <2> QED
    BY <1>1, <2>1, OpensImage
<1> DEFINE m == [name |-> n, data |-> ImageOf(n)]
<1>3. /\ pc' \in {"loop", "run"}
      /\ ran' = ran \/ ran' = Append(ran, m)
  BY <1>0, <1>2 DEF NextFile
<1>4. m \in Image /\ m.name = n /\ m.data = ImageOf(n)
  BY <1>1, <1>2 DEF Image
<1>5. ran' \in Seq(Image) /\ RunsBootImage'
  <2>0. ran \in Seq(Image) /\ archive' = archive /\ \A x : ImageOf(x)' = ImageOf(x)
    BY <1>0 DEF KernelTypeOK, ImageOf
  <2>1. ASSUME NEW i \in DOMAIN ran'
        PROVE  \/ i \in DOMAIN ran /\ ran'[i] = ran[i]
               \/ ran'[i] = m
    <3> HIDE DEF m
    <3> QED
      BY <1>3, <1>4, <2>0
  <2>2. ran' \in Seq(Image)
    <3> HIDE DEF m
    <3> QED
      BY <1>3, <1>4, <2>0
  <2>3. ASSUME NEW i \in DOMAIN ran'
        PROVE  /\ \E j \in DOMAIN archive : archive[j].name = ran'[i].name
               /\ ran'[i].data = ImageOf(ran'[i].name)
    <3>1. CASE i \in DOMAIN ran /\ ran'[i] = ran[i]
      BY <3>1 DEF RunsBootImage
    <3>2. CASE ran'[i] = m
      <4> HIDE DEF m, n
      <4> QED
        BY <1>1, <1>4, <3>2 DEF InArchive
    <3> QED
      BY <2>1, <3>1, <3>2
  <2>4. RunsBootImage'
    BY <2>0, <2>3 DEF RunsBootImage
  <2> QED
    BY <2>2, <2>4
<1> HIDE DEF m, n
<1>6. KernelTypeOK'
  BY <1>0, <1>1, <1>3, <1>5 DEF kernelVars, KernelTypeOK, CapTypeOK, TaskTypeOK, VfsTypeOK
<1>7. CoreOK' /\ EveryCapabilityHeldOnce' /\ NoProcessCap' /\ SupervisorOK'
  BY <1>0, <1>3 DEF kernelVars, CoreOK, EveryCapabilityHeldOnce, Holdings, agent_capabilities,
                    NoProcessCap, SupervisorOK, SupervisorHasOldest
<1>8. ImageOK'
  BY <1>0, <1>1, <1>3 DEF kernelVars, ImageOK, Mounted, ImageMounted, InArchive
<1>9. FilesUnderWritablePrefix'
  BY <1>0, ZenonT(60) DEF kernelVars, FilesUnderWritablePrefix, agent_capabilities, validate_capability
<1> QED
  BY <1>5, <1>6, <1>7, <1>8, <1>9

-----------------------------------------------------------------------------
(* The host calls.  A file that may be written is not one of the archive,  *)
(* because those are found first and are read-only.                        *)
LEMMA WriteEffect ==
  ASSUME Inv, Mounted, core = 1, NEW n \in FileNames, NEW d \in FileData,
         write_file_ok(n), write_file(n, d, core)
  PROVE  /\ files' \in Seq(VirtualFile)
         /\ Len(files) <= Len(files')
         /\ \A i \in DOMAIN files' : \/ i \in DOMAIN files /\ files'[i] = files[i]
                                     \/ i > Len(archive) /\ files'[i] = AgentFile(n, d, 1)
<1> DEFINE g == AgentFile(n, d, 1)
           f == FirstIndex(n)
<1>1. /\ archive \in Seq(Image) /\ files \in Seq(VirtualFile)
      /\ Len(archive) \in Nat /\ Len(files) \in Nat /\ Len(archive) <= Len(files)
  BY KernelAssumption DEF Inv, ImageOK, ImageMounted, Mounted, KernelTypeOK, VfsTypeOK
<1>2. g \in VirtualFile
  BY KernelAssumption DEF AgentFile, VirtualFile
<1>3. \A i \in 1 .. Len(archive) : files[i].read_only
  <2>1. \A i \in 1 .. Len(archive) : files[i] = SystemFile(archive[i].name, archive[i].data)
    BY DEF Inv, ImageOK, ImageMounted
  <2>2. ASSUME NEW i \in 1 .. Len(archive) PROVE files[i].read_only
    <3>1. files[i] = [name |-> archive[i].name, data |-> archive[i].data, owner_pid |-> 0,
                      read_only |-> TRUE]
      BY <2>1 DEF SystemFile
    <3> QED
      BY <3>1
  <2> QED
    BY <2>2
<1>4. CASE Exists(n)
  <2>1. f \in DOMAIN files /\ ~files[f].read_only
    BY <1>1, <1>4, FirstIndexFound DEF write_file_ok
  <2>2. files' = [files EXCEPT ![f] = g]
    BY <1>4 DEF write_file
  <2> HIDE DEF f, g
  <2>3. f \in 1 .. Len(files) /\ ~(f \in 1 .. Len(archive))
    BY <1>1, <1>3, <2>1
  <2>4. f > Len(archive)
    BY <1>1, <2>3
  <2>5. files' \in Seq(VirtualFile) /\ Len(files') = Len(files)
    BY <1>1, <1>2, <2>1, <2>2
  <2>6. \A i \in DOMAIN files' : \/ i \in DOMAIN files /\ files'[i] = files[i]
                                 \/ i > Len(archive) /\ files'[i] = g
    BY <1>1, <2>2, <2>4
  <2> QED
    BY <1>1, <2>5, <2>6, SMTT(60), Z3T(60) DEF g
<1>5. CASE ~Exists(n)
  <2>1. files' = Append(files, g)
    BY <1>5 DEF write_file
  <2> HIDE DEF g
  <2>2. files' \in Seq(VirtualFile) /\ Len(files') = Len(files) + 1
    BY <1>1, <1>2, <2>1
  <2>3. \A i \in DOMAIN files' : \/ i \in DOMAIN files /\ files'[i] = files[i]
                                 \/ i > Len(archive) /\ files'[i] = g
    BY <1>1, <1>2, <2>1
  <2> QED
    BY <1>1, <2>2, <2>3, SMTT(60), Z3T(60) DEF g
<1> QED
  BY <1>4, <1>5

LEMMA WriteInv ==
  ASSUME Inv, pc = "run", pc' \in {"loop", "run", "panic"},
         UNCHANGED <<store, next_cap_id, agents, next_id, endpoints,
                     archive, boot_caps, core, todo, ran, requests>>,
         NEW n \in FileNames, NEW d \in FileData,
         can_write_file(agent_capabilities(core), n),
         write_file_ok(n), write_file(n, d, core)
  PROVE  Inv'
<1> USE DEF Inv
<1>0. Mounted /\ core = 1
  BY DEF CoreOK, ImageOK, Mounted
<1> DEFINE g == AgentFile(n, d, 1)
<1>1. /\ files' \in Seq(VirtualFile)
      /\ Len(files) <= Len(files')
      /\ \A i \in DOMAIN files' : \/ i \in DOMAIN files /\ files'[i] = files[i]
                                  \/ i > Len(archive) /\ files'[i] = g
  BY <1>0, WriteEffect
<1>2. g.name = n /\ g.owner_pid = 1 /\ g.read_only = FALSE
  BY DEF AgentFile
<1> HIDE DEF g
<1>3. KernelTypeOK'
  BY <1>1 DEF KernelTypeOK, CapTypeOK, TaskTypeOK, VfsTypeOK
<1>4. CoreOK' /\ EveryCapabilityHeldOnce' /\ NoProcessCap' /\ SupervisorOK' /\ RunsBootImage'
  <2>1. CoreOK' /\ SupervisorOK'
    BY DEF CoreOK, SupervisorOK, SupervisorHasOldest
  <2>2. EveryCapabilityHeldOnce' /\ NoProcessCap'
    BY DEF EveryCapabilityHeldOnce, Holdings, agent_capabilities, NoProcessCap
  <2> QED
    BY <2>1, <2>2, KeepRan
<1>5. ImageOK'
  <2>0. /\ archive \in Seq(Image) /\ files \in Seq(VirtualFile)
        /\ Len(archive) <= Len(files)
        /\ \A i \in 1 .. Len(archive) : files[i] = SystemFile(archive[i].name, archive[i].data)
        /\ \A i \in Len(archive) + 1 .. Len(files) : ~files[i].read_only
    BY <1>0, KernelAssumption DEF ImageOK, ImageMounted, Mounted, KernelTypeOK, VfsTypeOK
  <2>1. Len(archive) \in Nat /\ Len(files) \in Nat /\ Len(files') \in Nat
    BY <1>1, <2>0, LenProperties, ZenonT(60)
  <2>2. Len(archive) <= Len(files')
    <3>1. Len(archive) <= Len(files) /\ Len(files) <= Len(files')
      BY <1>1, <2>0, ZenonT(60)
    <3> QED
      BY <2>1, <3>1
  <2>3. \A i \in 1 .. Len(archive) : files'[i] = files[i]
    <3> SUFFICES ASSUME NEW i \in 1 .. Len(archive) PROVE files'[i] = files[i]
      OBVIOUS
    <3>1. i \in 1 .. Len(files') /\ ~(i > Len(archive))
      BY <2>1, <2>2
    <3>2. DOMAIN files' = 1 .. Len(files')
      BY <1>1, LenProperties, ZenonT(60)
    <3> QED
      BY <1>1, <3>1, <3>2, ZenonT(60)
  <2>4. \A i \in Len(archive) + 1 .. Len(files') : ~files'[i].read_only
    <3> SUFFICES ASSUME NEW i \in Len(archive) + 1 .. Len(files') PROVE ~files'[i].read_only
      OBVIOUS
    <3>1. i \in DOMAIN files'
      BY <1>1, <2>1, SMTT(60), Z3T(60)
    <3>2. CASE i \in DOMAIN files /\ files'[i] = files[i]
      <4>1. i \in Len(archive) + 1 .. Len(files)
        <5>1. DOMAIN files = 1 .. Len(files)
          BY <2>0, LenProperties, ZenonT(60)
        <5>2. i \in 1 .. Len(files)
          BY <3>2, <5>1, ZenonT(60)
        <5> QED
          BY <2>1, <5>2
      <4> QED
        BY <2>0, <3>2, <4>1
    <3>3. CASE files'[i] = g
      BY <1>2, <3>3
    <3> QED
      BY <1>1, <3>1, <3>2, <3>3
  <2>5. ImageMounted'
    BY <2>0, <2>2, <2>3, <2>4 DEF ImageMounted
  <2> QED
    BY <1>0, <2>5 DEF ImageOK, Mounted, InArchive
<1>6. FilesUnderWritablePrefix'
  <2>1. /\ agent_capabilities(core)' = agent_capabilities(core)
        /\ \A id : validate_capability(id)' = validate_capability(id)
        /\ store' = store /\ core' = core
    BY ZenonT(60) DEF agent_capabilities, validate_capability
  <2> DEFINE W(x) == \E k \in DOMAIN agent_capabilities(core) :
                        LET id == agent_capabilities(core)[k]
                        IN validate_capability(id) /\ AllowsWrite(store[id], x)
  <2>2. W(n)
    BY ZenonT(60) DEF can_write_file, find_capability
  <2>3. ASSUME NEW i \in DOMAIN files', ~files'[i].read_only
        PROVE  files'[i].owner_pid = core /\ W(files'[i].name)
    <3>1. CASE i \in DOMAIN files /\ files'[i] = files[i]
      BY <2>3, <3>1, ZenonT(60) DEF FilesUnderWritablePrefix
    <3>2. CASE files'[i] = g
      <4> HIDE DEF W
      <4> QED
        BY <1>0, <1>2, <2>2, <3>2
    <3> QED
      BY <1>1, <3>1, <3>2, ZenonT(60)
  <2> QED
    BY <2>1, <2>3, ZenonT(60) DEF FilesUnderWritablePrefix
<1> QED
  BY <1>3, <1>4, <1>5, <1>6

LEMMA ModuleCallsInv == Inv /\ ModuleCalls => Inv'
<1> SUFFICES ASSUME Inv, ModuleCalls PROVE Inv'
  OBVIOUS
<1>0. /\ pc = "run" /\ pc' \in {"loop", "run", "panic"} /\ PlainCall(core)
      /\ UNCHANGED <<archive, boot_caps, core, todo, ran, requests>>
  BY DEF ModuleCalls, AfterCall
<1>1. CASE UNCHANGED kernelVars
  BY <1>0, <1>1, MoveOn
<1>2. ASSUME NEW target, NEW data, send_ipc(core, target, data)
      PROVE  UNCHANGED kernelVars
  <2>1. ~can_send_to(agent_capabilities(core), target)
    BY DEF Inv, NoProcessCap, can_send_to, find_capability, AllowsSend, validate_capability
  <2>2. send_ipc_code(core, target, data) # 0
    BY <2>1 DEF send_ipc_code
  <2> QED
    BY <1>2, <2>2 DEF send_ipc, kernelVars
<1>3. ASSUME NEW path \in FileNames \cup BadArgs, NEW data \in ByteArgs(FileData),
             file_write(core, path, data)
      PROVE  Inv'
  <2>1. CASE file_write_code(core, path, data) # 0
    <3>1. UNCHANGED kernelVars
      BY <1>3, <2>1 DEF file_write, kernelVars
    <3> QED
      BY <1>1, <3>1
  <2>2. CASE file_write_code(core, path, data) = 0
    <3>1. /\ FetchText(path) = 0 /\ Fetch(data) = 0
          /\ can_write_file(agent_capabilities(core), path) /\ write_file_ok(path)
      BY <2>2 DEF file_write_code
    <3>2. path \in FileNames /\ data \in FileData
      BY <3>1, HostCallsAssumption DEF FetchText, Fetch, Trap, Panic, ByteArgs
    <3>3. /\ write_file(path, data, core)
          /\ UNCHANGED <<store, next_cap_id, agents, next_id, endpoints>>
      BY <1>3, <2>2 DEF file_write
    <3> QED
      BY <1>0, <3>1, <3>2, <3>3, WriteInv
  <2> QED
    BY <2>1, <2>2
<1>4. \/ UNCHANGED kernelVars
      \/ \E target, data : send_ipc(core, target, data)
      \/ \E path \in FileNames \cup BadArgs, data \in ByteArgs(FileData) :
           file_write(core, path, data)
  BY <1>0, ZenonT(60) DEF PlainCall, debug_log, tcp_request, resolve_dns, file_read, file_list,
                           get_time, get_uptime_ms
<1> QED
  BY <1>1, <1>2, <1>3, <1>4

-----------------------------------------------------------------------------
(* request_capability: the supervisor's mailbox. *)
LEMMA MailboxEffect ==
  ASSUME Inv, NEW m \in Messages, NEW a, NEW data, m = Message(a, data, << >>),
         send_message(a, KERNEL_SUPERVISOR_PID, data, << >>),
         requests' = Append(requests, m)
  PROVE  /\ SupervisorOK'
         /\ endpoints' \in [{KERNEL_SUPERVISOR_PID} ->
                              [messages : Seq(Messages), max_messages : Nat \ {0}]]
<1> DEFINE e == endpoints[KERNEL_SUPERVISOR_PID]
           q == endpoints[KERNEL_SUPERVISOR_PID].messages
<1>1. /\ DOMAIN endpoints = {KERNEL_SUPERVISOR_PID}
      /\ e \in [messages : Seq(Messages), max_messages : Nat \ {0}]
      /\ e.max_messages = SUPERVISOR_MAX
      /\ requests \in Seq(Messages)
  BY DEF Inv, KernelTypeOK, SupervisorOK
<1>2. q \in Seq(Messages) /\ SUPERVISOR_MAX \in Nat \ {0}
  BY <1>1
<1>3. q = SubSeq(requests, 1, IF Len(requests) < SUPERVISOR_MAX THEN Len(requests)
                                                               ELSE SUPERVISOR_MAX)
  BY DEF Inv, SupervisorOK, SupervisorHasOldest
<1>4. Full(KERNEL_SUPERVISOR_PID) <=> Len(q) >= SUPERVISOR_MAX
  BY <1>1 DEF Full
<1>5. send_result(KERNEL_SUPERVISOR_PID, << >>) = "Ok" <=> ~(Len(q) >= SUPERVISOR_MAX)
  BY <1>1, <1>4, SMTT(60), Z3T(60) DEF send_result, AllValid
<1>6. CASE Len(requests) < SUPERVISOR_MAX
  <2>1. q = requests
    <3> HIDE DEF q
    <3> QED
      BY <1>1, <1>2, <1>3, <1>6
  <2>2. ~(Len(q) >= SUPERVISOR_MAX)
    BY <1>1, <1>2, <1>6, <2>1, SMTT(60), Z3T(60)
  <2>3. endpoints' = WithQueue(KERNEL_SUPERVISOR_PID, Append(q, m))
    BY <1>5, <2>2 DEF send_message
  <2>4. endpoints' = [p \in {KERNEL_SUPERVISOR_PID} |->
                        [messages |-> Append(q, m), max_messages |-> SUPERVISOR_MAX]]
    BY <1>1, <2>3 DEF WithQueue
  <2>5. Append(q, m) \in Seq(Messages)
    <3> HIDE DEF q
    <3> QED
      BY <1>2
  <2>6. requests' = SubSeq(requests', 1, IF Len(requests') < SUPERVISOR_MAX
                                         THEN Len(requests') ELSE SUPERVISOR_MAX)
    <3>1. requests' \in Seq(Messages) /\ Len(requests') = Len(requests) + 1
      BY <1>1
    <3>2. (IF Len(requests') < SUPERVISOR_MAX THEN Len(requests') ELSE SUPERVISOR_MAX)
            = Len(requests')
      BY <1>1, <1>2, <1>6, <3>1, SMTT(60), Z3T(60)
    <3>3. SubSeq(requests', 1, Len(requests')) = requests'
      BY <3>1
    <3> QED
      BY <3>2, <3>3
  <2> HIDE DEF q, e
  <2> QED
    BY <1>2, <2>1, <2>4, <2>5, <2>6, ZenonT(60) DEF SupervisorOK, SupervisorHasOldest
<1>7. CASE ~(Len(requests) < SUPERVISOR_MAX)
  <2> HIDE DEF q, e
  <2>1. Len(q) = SUPERVISOR_MAX
    BY <1>1, <1>2, <1>3, <1>7
  <2>2. endpoints' = endpoints
    BY <1>2, <1>5, <2>1 DEF send_message
  <2>3. requests' \in Seq(Messages) /\ Len(requests') = Len(requests) + 1
    BY <1>1
  <2>4. SubSeq(requests', 1, SUPERVISOR_MAX) = SubSeq(requests, 1, SUPERVISOR_MAX)
    BY <1>1, <1>2, <1>7, <2>3
  <2>5. q = SubSeq(requests', 1, IF Len(requests') < SUPERVISOR_MAX
                                 THEN Len(requests') ELSE SUPERVISOR_MAX)
    BY <1>1, <1>2, <1>3, <1>7, <2>3, <2>4
  <2> QED
    BY <2>2, <2>5 DEF Inv, KernelTypeOK, SupervisorOK, SupervisorHasOldest, q
<1> QED
  BY <1>6, <1>7, ZenonT(60)

(* request_capability: the capability it creates for the core agent. *)
LEMMA GrantEffect ==
  ASSUME Inv, core = 1, core' = core, files' = files, next_id' = next_id,
         NEW cap \in Capabilities, cap.kind # "Process",
         create_capability(cap), grant_capability_to_agent(core, NewCapId)
  PROVE  /\ CapTypeOK' /\ TaskTypeOK' /\ DOMAIN agents' = DOMAIN agents
         /\ EveryCapabilityHeldOnce' /\ NoProcessCap' /\ FilesUnderWritablePrefix'
<1> DEFINE h == agents[1].capabilities
<1>0. /\ next_cap_id' = next_cap_id + 1
      /\ store' = [id \in DOMAIN store \cup {next_cap_id} |->
                     IF id = next_cap_id THEN cap ELSE store[id]]
      /\ agents' = [b \in DOMAIN agents |->
                      IF b = 1
                      THEN [capabilities |-> Append(agents[b].capabilities, next_cap_id),
                            state |-> agents[b].state]
                      ELSE agents[b]]
  BY DEF create_capability, grant_capability_to_agent, NewCapId
<1>1. next_cap_id \in Nat \ {0} /\ 1 \in DOMAIN agents
  BY DEF Inv, CoreOK, KernelTypeOK, CapTypeOK, CapIds
<1>2. CapTypeOK' /\ NoProcessCap'
  BY <1>0, <1>1, SMTT(60), Z3T(60) DEF Inv, KernelTypeOK, CapTypeOK, CapIds, NoProcessCap
<1>3. agents \in [DOMAIN agents -> [capabilities : Seq(Nat), state : AgentState]]
  BY DEF Inv, KernelTypeOK, TaskTypeOK
<1>4. agents[1] \in [capabilities : Seq(Nat), state : AgentState]
  BY <1>1, <1>3
<1>5. h \in Seq(Nat) /\ agents[1].state \in AgentState
  BY <1>4
<1>6. Append(h, next_cap_id) \in Seq(Nat)
  <2> HIDE DEF h
  <2> QED
    BY <1>1, <1>5
<1>7. TaskTypeOK' /\ DOMAIN agents' = DOMAIN agents
  <2>1. agents' \in [DOMAIN agents -> [capabilities : Seq(Nat), state : AgentState]]
    BY <1>0, <1>3, <1>5, <1>6
  <2> QED
    BY <1>0, <2>1 DEF Inv, KernelTypeOK, TaskTypeOK
<1>8. agent_capabilities(1) = h /\ agent_capabilities(1)' = Append(h, next_cap_id)
  BY <1>0, <1>1 DEF agent_capabilities
<1>9. h = [i \in 1 .. next_cap_id - 1 |-> i] /\ DOMAIN store = 1 .. next_cap_id - 1
  <2>1. Holdings = h
    BY <1>1 DEF Holdings, agent_capabilities
  <2> QED
    BY <2>1, ZenonT(60) DEF Inv, EveryCapabilityHeldOnce
<1> HIDE DEF h
<1>10. EveryCapabilityHeldOnce'
  <2>1. Len(h) = next_cap_id - 1
    BY <1>1, <1>5, <1>9
  <2>2. Append(h, next_cap_id) = [i \in 1 .. next_cap_id |-> i]
    BY <1>1, <1>5, <1>9, <2>1
  <2>3. DOMAIN store' = 1 .. next_cap_id
    BY <1>0, <1>1, <1>9, SMTT(60), Z3T(60)
  <2>4. next_cap_id' - 1 = next_cap_id
    <3>1. next_cap_id' = next_cap_id + 1
      BY <1>0
    <3> QED
      BY <1>1, <3>1
  <2> QED
    BY <1>8, <2>2, <2>3, <2>4 DEF EveryCapabilityHeldOnce, Holdings
<1>11. FilesUnderWritablePrefix'
  <2>1. ASSUME NEW i \in DOMAIN files, ~files[i].read_only
        PROVE  /\ files[i].owner_pid = 1
               /\ \E k \in DOMAIN Append(h, next_cap_id) :
                    LET id == Append(h, next_cap_id)[k]
                    IN id \in DOMAIN store' /\ AllowsWrite(store'[id], files[i].name)
    <3>1. PICK k \in DOMAIN h : /\ h[k] \in DOMAIN store
                                /\ AllowsWrite(store[h[k]], files[i].name)
      BY <1>8, <2>1 DEF Inv, FilesUnderWritablePrefix, validate_capability
    <3>2. k \in DOMAIN Append(h, next_cap_id) /\ Append(h, next_cap_id)[k] = h[k]
      BY <1>1, <1>5, <3>1, SMTT(60), Z3T(60)
    <3>3. h[k] \in DOMAIN store' /\ store'[h[k]] = store[h[k]]
      <4>1. h[k] \in 1 .. next_cap_id - 1
        BY <3>1, <1>9
      <4>2. h[k] # next_cap_id
        BY <1>1, <4>1
      <4> QED
        BY <1>0, <3>1, <4>2, ZenonT(60)
    <3>4. files[i].owner_pid = 1
      BY <2>1 DEF Inv, FilesUnderWritablePrefix
    <3> QED
      BY <3>1, <3>2, <3>3, <3>4
  <2> QED
    BY <1>8, <2>1 DEF FilesUnderWritablePrefix, validate_capability
<1> QED
  BY <1>2, <1>7, <1>10, <1>11

LEMMA ModuleRequestsInv == Inv /\ ModuleRequests => Inv'
<1> SUFFICES ASSUME Inv, ModuleRequests PROVE Inv'
  OBVIOUS
<1>0. /\ pc = "run" /\ pc' \in {"loop", "run", "panic"} /\ core = 1
      /\ UNCHANGED <<archive, boot_caps, core, todo, ran>>
  BY DEF ModuleRequests, AfterCall, Inv, CoreOK
<1>1. PICK cap_type \in CapTypes, detail \in TextArgs :
        /\ request_capability(core, cap_type, detail)
        /\ requests' = IF Fetch(detail) = 0
                       THEN Append(requests, Message(core, RequestMessage(core, cap_type, detail), << >>))
                       ELSE requests
  BY DEF ModuleRequests
<1>2. CASE Fetch(detail) # 0
  <2>1. UNCHANGED <<kernelVars, requests>>
    BY <1>1, <1>2 DEF request_capability
  <2> QED
    BY <1>0, <2>1, MoveOn
<1>3. CASE Fetch(detail) = 0
  <2> DEFINE m == Message(core, RequestMessage(core, cap_type, detail), << >>)
             cap == Requested(cap_type, detail)
  <2>1. DetailStr(detail) \in Paths
    BY <1>3, HostCallsAssumption DEF TextArgs, DetailStr, Fetch, Trap, Panic
  <2>2. core \in Pids
    BY <1>0, KernelAssumption, HostCallsAssumption
  <2>3. m \in Messages
    <3>1. RequestMessage(core, cap_type, detail) \in RequestMessages
      BY <2>1, <2>2 DEF RequestMessage, RequestMessages
    <3>2. << >> \in Seq(Nat)
      OBVIOUS
    <3> QED
      BY <2>2, <3>1, <3>2 DEF Message, Messages
  <2>4. cap \in Capabilities /\ cap.kind # "Process"
    BY <2>1, HostCallsAssumption
       DEF Requested, Capabilities, NetworkCap, SpawnCap, FileSystemCap
  <2>5. /\ send_message(core, KERNEL_SUPERVISOR_PID, RequestMessage(core, cap_type, detail), << >>)
        /\ requests' = Append(requests, m)
        /\ files' = files
        /\ \/ create_capability(cap) /\ grant_capability_to_agent(core, NewCapId)
           \/ UNCHANGED <<store, next_cap_id, agents, next_id>>
    BY <1>1, <1>3 DEF request_capability, mint
  <2>6. /\ SupervisorOK'
        /\ endpoints' \in [{KERNEL_SUPERVISOR_PID} ->
                             [messages : Seq(Messages), max_messages : Nat \ {0}]]
    <3> HIDE DEF m
    <3>1. m = Message(core, RequestMessage(core, cap_type, detail), << >>)
      BY DEF m
    <3> QED
      BY <2>3, <2>5, <3>1, MailboxEffect, ZenonT(60)
  <2>7. requests' \in Seq(Messages)
    <3> HIDE DEF m
    <3> QED
      BY <2>3, <2>5 DEF Inv, KernelTypeOK
  <2>8. /\ CapTypeOK' /\ TaskTypeOK' /\ DOMAIN agents' = DOMAIN agents /\ next_id' = next_id
        /\ EveryCapabilityHeldOnce' /\ NoProcessCap' /\ FilesUnderWritablePrefix'
    <3>1. CASE create_capability(cap) /\ grant_capability_to_agent(core, NewCapId)
      <4>1. next_id' = next_id
        BY <3>1, ZenonT(60) DEF grant_capability_to_agent
      <4> HIDE DEF cap
      <4> QED
        BY <1>0, <2>4, <2>5, <3>1, <4>1, GrantEffect
    <3>2. CASE UNCHANGED <<store, next_cap_id, agents, next_id>>
      BY <1>0, <2>5, <3>2, ZenonT(60)
         DEF Inv, KernelTypeOK, CapTypeOK, TaskTypeOK, EveryCapabilityHeldOnce, Holdings,
             agent_capabilities, NoProcessCap, FilesUnderWritablePrefix, validate_capability
    <3> QED
      BY <2>5, <3>1, <3>2
  <2> HIDE DEF m, cap
  <2>9. KernelTypeOK'
    BY <1>0, <2>5, <2>6, <2>7, <2>8, ZenonT(60) DEF Inv, KernelTypeOK, VfsTypeOK
  <2>10. CoreOK'
    BY <1>0, <2>8 DEF Inv, CoreOK
  <2>11. ImageOK' /\ RunsBootImage'
    <3>1. ImageOK'
      BY <1>0, <2>5 DEF Inv, ImageOK, Mounted, ImageMounted, InArchive
    <3> QED
      BY <1>0, <3>1, KeepRan DEF Inv
  <2> QED
    BY <2>6, <2>8, <2>9, <2>10, <2>11 DEF Inv
<1> QED
  BY <1>2, <1>3

-----------------------------------------------------------------------------
LEMMA StutterInv == Inv /\ UNCHANGED vars => Inv'
<1> SUFFICES ASSUME Inv, UNCHANGED vars PROVE Inv'
  OBVIOUS
<1> USE DEF vars, hostVars, kernelVars, mainVars, Inv
<1>1. KernelTypeOK'
  BY DEF KernelTypeOK, CapTypeOK, TaskTypeOK, VfsTypeOK
<1>2. CoreOK' /\ EveryCapabilityHeldOnce' /\ NoProcessCap' /\ SupervisorOK'
  BY ZenonT(60) DEF CoreOK, EveryCapabilityHeldOnce, Holdings, agent_capabilities, NoProcessCap,
         SupervisorOK, SupervisorHasOldest
<1>3. ImageOK' /\ RunsBootImage'
  <2>1. ImageOK'
    BY DEF ImageOK, Mounted, ImageMounted, InArchive
  <2> QED
    BY <2>1, KeepRan
<1>4. FilesUnderWritablePrefix'
  BY ZenonT(60) DEF FilesUnderWritablePrefix, agent_capabilities, validate_capability
<1> QED
  BY <1>1, <1>2, <1>3, <1>4

LEMMA NextInv == Inv /\ [KernelNext]_vars => Inv'
<1> SUFFICES ASSUME Inv, [KernelNext]_vars PROVE Inv'
  OBVIOUS
<1>1. CASE Mount
  BY <1>1, MountInv
<1>2. CASE CreateBootCap("cap_spawn", SpawnCap, "cap_net")
  BY <1>2, CreateBootCapInv
<1>3. CASE CreateBootCap("cap_net", NetworkCap, "spawn")
  BY <1>3, CreateBootCapInv
<1>4. CASE SpawnCore
  BY <1>4, SpawnCoreInv
<1>5. CASE Snapshot
  BY <1>5, SnapshotInv
<1>6. CASE NextFile
  BY <1>6, NextFileInv
<1>7. CASE Halt
  <2>1. /\ UNCHANGED <<kernelVars, archive, boot_caps, core, todo, ran, requests>>
        /\ pc = "loop" /\ pc' = "halt"
    BY <1>7 DEF Halt, hostVars
  <2> QED
    BY <2>1, MoveOn
<1>8. CASE ModuleCalls
  BY <1>8, ModuleCallsInv
<1>9. CASE ModuleRequests
  BY <1>9, ModuleRequestsInv
<1>10. CASE ModuleEnds
  <2>1. /\ UNCHANGED <<kernelVars, archive, boot_caps, core, todo, ran, requests>>
        /\ pc = "run" /\ pc' = "loop"
    BY <1>10 DEF ModuleEnds, hostVars
  <2> QED
    BY <2>1, MoveOn
<1>11. CASE Hlt
  BY <1>11, StutterInv DEF Hlt
<1>12. CASE UNCHANGED vars
  BY <1>12, StutterInv
<1> QED
  BY <1>1, <1>2, <1>3, <1>4, <1>5, <1>6, <1>7, <1>8, <1>9, <1>10, <1>11, <1>12
     DEF KernelNext, KernelStep

-----------------------------------------------------------------------------
(* How far kernel_main is through the archive.  What is left of its        *)
(* snapshot are the names of the last entries, and the modules among the   *)
(* entries before them are what was run.                                   *)
Behind == Len(archive) - Len(todo)

Rest == /\ Len(todo) <= Len(archive)
        /\ \A i \in 1 .. Len(todo) : todo[i] = archive[Behind + i].name

Progress ==
  /\ pc \in {"mount", "cap_spawn", "cap_net", "spawn", "list"} => ran = << >>
  /\ pc \in {"loop", "run", "halt"} => Rest /\ ModulesRun(Behind)
  /\ pc = "halt" => todo = << >>

LEMMA KeepModules ==
  ASSUME UNCHANGED <<archive, ran>>, NEW n PROVE ModulesRun(n)' = ModulesRun(n)
BY ZenonT(60) DEF ModulesRun

(* A step that leaves the snapshot and the modules that were run. *)
LEMMA KeepProgress ==
  ASSUME Progress, UNCHANGED <<archive, todo, ran>>,
         \/ pc' = "panic"
         \/ pc \in {"loop", "run"} /\ pc' \in {"loop", "run"}
         \/ pc \in {"mount", "cap_spawn", "cap_net", "spawn"}
            /\ pc' \in {"cap_spawn", "cap_net", "spawn", "list"}
         \/ pc = "loop" /\ todo = << >> /\ pc' = "halt"
         \/ pc' = pc
  PROVE  Progress'
<1>1. Behind' = Behind /\ Rest' = Rest
  BY ZenonT(60) DEF Behind, Rest
<1>2. ModulesRun(Behind)' = ModulesRun(Behind)
  BY <1>1, ZenonT(60) DEF ModulesRun
<1> QED
  BY <1>1, <1>2 DEF Progress

(* Nothing was run yet: the snapshot is the whole archive. *)
LEMMA SnapshotProgress == ASSUME Inv, Progress, Snapshot PROVE Progress'
<1>1. /\ pc = "list" /\ pc' = "loop" /\ ran = << >> /\ UNCHANGED <<archive, ran, files>>
      /\ todo' = [i \in DOMAIN files |-> files[i].name]
  BY DEF Snapshot, Progress, list_files, hostVars, kernelVars
<1>2. files \in Seq(VirtualFile) /\ archive \in Seq(Image) /\ Len(files) = Len(archive)
  BY <1>1, KernelAssumption DEF Inv, KernelTypeOK, VfsTypeOK, ImageOK, Mounted, ImageMounted
<1>3. PICK n \in Nat : n = Len(archive) /\ DOMAIN files = 1 .. n
  BY <1>2
<1>4. \A i \in 1 .. n : files[i].name = archive[i].name
  <2> SUFFICES ASSUME NEW i \in 1 .. n PROVE files[i].name = archive[i].name
    OBVIOUS
  <2>1. files[i] = SystemFile(archive[i].name, archive[i].data)
    BY <1>1, <1>3 DEF Inv, ImageOK, Mounted, ImageMounted
  <2> QED
    BY <2>1 DEF SystemFile
<1>5. Len(todo') = n /\ \A i \in 1 .. n : todo'[i] = archive[i].name
  BY <1>1, <1>2, <1>3, <1>4
<1>6. Behind' = 0 /\ Rest'
  <2>1. Behind' = 0
    BY <1>1, <1>3, <1>5 DEF Behind
  <2> QED
    BY <1>1, <1>3, <1>5, <2>1 DEF Rest
<1>7. ModulesRun(0)'
  <2>1. ran' = << >> /\ DOMAIN ran' = {}
    BY <1>1
  <2>2. PICK at : at = [i \in DOMAIN ran' |-> 0]
    BY ZenonT(60)
  <2>3. at \in [DOMAIN ran' -> 1 .. 0]
    BY <2>1, <2>2, ZenonT(60)
  <2>4. \A k \in 1 .. 0 : FALSE
    OBVIOUS
  <2> QED
    BY <2>1, <2>3, <2>4, ZenonT(60) DEF ModulesRun
<1> QED
  BY <1>1, <1>6, <1>7 DEF Progress

(* The next entry of the archive is passed: a module that is run, or a     *)
(* file that is none.                                                      *)
LEMMA PassModule ==
  ASSUME NEW b \in Nat, ModulesRun(b), ran \in Seq(Image), NEW m, archive' = archive,
         ran' = Append(ran, m), m \in Image, m.name = archive[b + 1].name,
         ends_with_wasm(archive[b + 1].name)
  PROVE  ModulesRun(b + 1)'
<1>1. PICK at \in [DOMAIN ran -> 1 .. b] :
        /\ \A i \in DOMAIN ran : ran[i].name = archive[at[i]].name
        /\ \A i, j \in DOMAIN ran : i < j => at[i] < at[j]
        /\ \A k \in 1 .. b : ends_with_wasm(archive[k].name) <=> \E i \in DOMAIN ran : at[i] = k
  BY ZenonT(60) DEF ModulesRun
<1>2. PICK c \in Nat : c = b + 1
  OBVIOUS
<1>3. PICK l \in Nat : l = Len(ran) + 1 /\ l \notin DOMAIN ran /\ DOMAIN ran = 1 .. l - 1
  OBVIOUS
<1>4. /\ DOMAIN ran' = DOMAIN ran \cup {l}
      /\ ran'[l] = m
      /\ \A i \in DOMAIN ran : ran'[i] = ran[i]
  BY <1>3
<1>5. PICK to : to = [i \in DOMAIN ran' |-> IF i = l THEN c ELSE at[i]]
  BY ZenonT(60)
<1>6. /\ to[l] = c
      /\ \A i \in DOMAIN ran : to[i] = at[i] /\ at[i] \in 1 .. b
  BY <1>3, <1>4, <1>5, ZenonT(60)
<1>7. to \in [DOMAIN ran' -> 1 .. c]
  <2>1. 1 .. b \subseteq 1 .. c /\ c \in 1 .. c
    BY <1>2
  <2>2. \A i \in DOMAIN ran' : to[i] \in 1 .. c
    BY <1>4, <1>6, <2>1, ZenonT(60)
  <2> QED
    BY <1>5, <2>2, ZenonT(60)
<1>8. \A i \in DOMAIN ran' : ran'[i].name = archive[to[i]].name
  BY <1>1, <1>2, <1>4, <1>6, ZenonT(60)
<1>9. \A i, j \in DOMAIN ran' : i < j => to[i] < to[j]
  <2> SUFFICES ASSUME NEW i \in DOMAIN ran', NEW j \in DOMAIN ran', i < j PROVE to[i] < to[j]
    OBVIOUS
  <2>1. i \in DOMAIN ran /\ (j \in DOMAIN ran \/ j = l)
    BY <1>3, <1>4
  <2>2. CASE j = l
    BY <1>2, <1>6, <2>1, <2>2
  <2>3. CASE j \in DOMAIN ran
    BY <1>1, <1>6, <2>1, <2>3, ZenonT(60)
  <2> QED
    BY <2>1, <2>2, <2>3
<1>10. ASSUME NEW k \in 1 .. c
       PROVE  ends_with_wasm(archive[k].name) <=> \E i \in DOMAIN ran' : to[i] = k
  <2>1. CASE k = c
    BY <1>2, <1>4, <1>6, <2>1, ZenonT(60)
  <2>2. CASE k # c
    <3>1. k \in 1 .. b
      BY <1>2, <2>2
    <3>2. (\E i \in DOMAIN ran' : to[i] = k) <=> \E i \in DOMAIN ran : at[i] = k
      BY <1>4, <1>6, <2>2, ZenonT(60)
    <3> QED
      BY <1>1, <3>1, <3>2, ZenonT(60)
  <2> QED
    BY <2>1, <2>2
<1>11. ModulesRun(c)'
  BY <1>7, <1>8, <1>9, <1>10, ZenonT(60) DEF ModulesRun
<1> QED
  BY <1>2, <1>11

LEMMA PassOther ==
  ASSUME NEW b \in Nat, ModulesRun(b), UNCHANGED <<archive, ran>>,
         ~ends_with_wasm(archive[b + 1].name)
  PROVE  ModulesRun(b + 1)'
<1>1. PICK at \in [DOMAIN ran -> 1 .. b] :
        /\ \A i \in DOMAIN ran : ran[i].name = archive[at[i]].name
        /\ \A i, j \in DOMAIN ran : i < j => at[i] < at[j]
        /\ \A k \in 1 .. b : ends_with_wasm(archive[k].name) <=> \E i \in DOMAIN ran : at[i] = k
  BY ZenonT(60) DEF ModulesRun
<1>2. PICK c \in Nat : c = b + 1
  OBVIOUS
<1>3. 1 .. b \subseteq 1 .. c /\ c \notin 1 .. b /\ \A k \in 1 .. c : k = c \/ k \in 1 .. b
  BY <1>2
<1>4. at \in [DOMAIN ran -> 1 .. c] /\ \A i \in DOMAIN ran : at[i] # c
  <2>1. \A i \in DOMAIN ran : at[i] \in 1 .. b
    BY <1>1, ZenonT(60)
  <2>2. \A i \in DOMAIN ran : at[i] \in 1 .. c /\ at[i] # c
    BY <1>3, <2>1, ZenonT(60)
  <2>3. at = [i \in DOMAIN ran |-> at[i]]
    BY <1>1, ZenonT(60)
  <2> QED
    BY <2>2, <2>3, ZenonT(60)
<1>5. \A k \in 1 .. c : ends_with_wasm(archive[k].name) <=> \E i \in DOMAIN ran : at[i] = k
  BY <1>1, <1>2, <1>3, <1>4, ZenonT(60)
<1>6. ModulesRun(c)
  BY <1>1, <1>4, <1>5, ZenonT(60) DEF ModulesRun
<1>7. ModulesRun(c)'
  BY <1>6, KeepModules, ZenonT(60)
<1> QED
  BY <1>2, <1>7

LEMMA NextFileProgress == ASSUME Inv, Progress, NextFile PROVE Progress'
<1>1. /\ pc = "loop" /\ pc' \in {"loop", "run"} /\ archive' = archive
      /\ todo # << >> /\ todo' = Tail(todo)
  BY DEF NextFile
<1>2. todo \in Seq(FileNames) /\ archive \in Seq(Image) /\ ran \in Seq(Image) /\ Mounted
  BY <1>1, KernelAssumption DEF Inv, KernelTypeOK, ImageOK, Mounted
<1>3. Rest /\ ModulesRun(Behind)
  BY <1>1 DEF Progress
<1>4. PICK b \in Nat : b = Behind
  <2>1. Len(todo) \in Nat /\ Len(archive) \in Nat
    BY <1>2, LenProperties, ZenonT(60)
  <2>2. Len(todo) <= Len(archive)
    BY <1>3, ZenonT(60) DEF Rest
  <2>3. Behind \in Nat
    BY <2>1, <2>2 DEF Behind
  <2> QED
    BY <2>3, ZenonT(60)
<1>5. /\ Len(todo) \in Nat /\ Len(todo) >= 1 /\ Len(todo) <= Len(archive)
      /\ Len(todo') = Len(todo) - 1
      /\ \A i \in 1 .. Len(todo') : i + 1 \in 1 .. Len(todo) /\ todo'[i] = todo[i + 1]
  BY <1>1, <1>2, <1>3 DEF Rest
<1>6. Behind' = b + 1
  BY <1>1, <1>2, <1>4, <1>5 DEF Behind
<1>7. \A i \in 1 .. Len(todo) : todo[i] = archive[b + i].name
  BY <1>3, <1>4 DEF Rest
<1>8. Rest'
  <2>1. Len(todo') <= Len(archive')
    BY <1>1, <1>2, <1>5
  <2>2. ASSUME NEW i \in 1 .. Len(todo') PROVE todo'[i] = archive'[Behind' + i].name
    <3>1. todo'[i] = archive[b + (i + 1)].name
      BY <1>5, <1>7
    <3>2. b + (i + 1) = Behind' + i
      BY <1>2, <1>5, <1>6
    <3> QED
      BY <1>1, <3>1, <3>2
  <2> QED
    BY <2>1, <2>2 DEF Rest
<1>9. PICK n : n = Head(todo)
  OBVIOUS
<1>10. n = archive[b + 1].name /\ n \in FileNames /\ InArchive(n)
  <2>1. 1 \in 1 .. Len(todo) /\ n = todo[1] /\ 1 \in DOMAIN todo
    BY <1>1, <1>2, <1>5, <1>9
  <2>2. InArchive(n)
    BY <2>1 DEF Inv, ImageOK
  <2> QED
    BY <1>2, <1>7, <2>1, <2>2
<1>11. Exists(n) /\ open_file(n) = ImageOf(n) /\ ImageOf(n) \in FileData
  BY <1>2, <1>10, OpensImage
<1>12. ModulesRun(b + 1)'
  <2>1. CASE ends_with_wasm(n)
    <3>1. PICK m : m = [name |-> n, data |-> ImageOf(n)]
      BY ZenonT(60)
    <3>2. m \in Image /\ m.name = n
      BY <1>10, <1>11, <3>1 DEF Image
    <3>3. ran' = Append(ran, m)
      BY <1>9, <1>11, <2>1, <3>1 DEF NextFile
    <3>4. ModulesRun(b)
      BY <1>3, <1>4, ZenonT(60)
    <3>5. m.name = archive[b + 1].name /\ ends_with_wasm(archive[b + 1].name)
      BY <1>10, <2>1, <3>2, ZenonT(60)
    <3> QED
      BY <1>1, <1>2, <3>2, <3>3, <3>4, <3>5, PassModule, ZenonT(60)
  <2>2. CASE ~ends_with_wasm(n)
    <3>1. ran' = ran
      BY <1>9, <2>2 DEF NextFile
    <3> QED
      BY <1>1, <1>3, <1>4, <1>10, <2>2, <3>1, PassOther, ZenonT(60)
  <2> QED
    BY <2>1, <2>2
<1>13. ModulesRun(Behind)'
  <2>1. \A x : x = Behind' => (ModulesRun(x)' <=> ModulesRun(Behind)')
    BY ZenonT(60) DEF ModulesRun
  <2> QED
    BY <1>6, <1>12, <2>1
<1> QED
  BY <1>1, <1>8, <1>13 DEF Progress

LEMMA NextProgress == Inv /\ Progress /\ [KernelNext]_vars => Progress'
<1> SUFFICES ASSUME Inv, Progress, [KernelNext]_vars PROVE Progress'
  OBVIOUS
<1>1. CASE Snapshot
  BY <1>1, SnapshotProgress
<1>2. CASE NextFile
  BY <1>2, NextFileProgress
<1>3. CASE ModuleCalls \/ ModuleRequests \/ ModuleEnds
  <2>1. /\ pc = "run" /\ pc' \in {"loop", "run", "panic"}
        /\ UNCHANGED <<archive, todo, ran>>
    BY <1>3, ZenonT(60) DEF ModuleCalls, ModuleRequests, ModuleEnds, AfterCall
  <2> QED
    BY <2>1, KeepProgress
<1>4. CASE Mount \/ SpawnCore
  <2>1. /\ pc \in {"mount", "spawn"} /\ pc' \in {"panic", "cap_spawn", "list"}
        /\ UNCHANGED <<archive, todo, ran>>
    BY <1>4 DEF Mount, SpawnCore
  <2> QED
    BY <2>1, KeepProgress
<1>5. CASE CreateBootCap("cap_spawn", SpawnCap, "cap_net") \/ CreateBootCap("cap_net", NetworkCap, "spawn")
  <2>1. /\ pc \in {"cap_spawn", "cap_net"} /\ pc' \in {"cap_net", "spawn"}
        /\ UNCHANGED <<archive, todo, ran>>
    BY <1>5 DEF CreateBootCap
  <2> QED
    BY <2>1, KeepProgress
<1>6. CASE Halt
  BY <1>6, KeepProgress DEF Halt
<1>7. CASE Hlt \/ UNCHANGED vars
  <2>1. UNCHANGED <<archive, todo, ran, pc>>
    BY <1>7 DEF Hlt, vars, mainVars
  <2> QED
    BY <2>1, KeepProgress
<1> QED
  BY <1>1, <1>2, <1>3, <1>4, <1>5, <1>6, <1>7, ZenonT(60) DEF KernelNext, KernelStep

LEMMA InitProgress == KernelInit => Progress
BY DEF KernelInit, Progress

LEMMA Invariance == KernelSpec => []Inv
BY InitInv, NextInv, PTL DEF KernelSpec

(* The types of the kernel's tables and of kernel_main's locals. *)
THEOREM TypeCorrect == KernelSpec => []KernelTypeOK
<1>1. Inv => KernelTypeOK
  BY DEF Inv
<1> QED
  BY <1>1, Invariance, PTL

(* Whatever the archive and however many capabilities and files its        *)
(* modules ask for, execute_module is only given the archive's bytes.      *)
THEOREM BootImageOnly == KernelSpec => []RunsBootImage
<1>1. Inv => RunsBootImage
  BY DEF Inv
<1> QED
  BY <1>1, Invariance, PTL

(* Whatever modules call, and whether they trap or return, a kernel that   *)
(* comes to its halt loop has run the archive's modules, all and in order. *)
THEOREM AllModulesRun == KernelSpec => []EveryModuleRuns
<1>1. Inv /\ Progress => EveryModuleRuns
  <2> SUFFICES ASSUME Inv, Progress, pc = "halt" PROVE ModulesRun(Len(archive))
    BY DEF EveryModuleRuns
  <2>1. ModulesRun(Behind) /\ todo = << >> /\ archive \in Seq(Image)
    BY KernelAssumption DEF Progress, Inv, ImageOK
  <2>2. Behind = Len(archive)
    BY <2>1 DEF Behind
  <2> QED
    BY <2>1, <2>2
<1> QED
  BY <1>1, Invariance, InitProgress, NextProgress, PTL DEF KernelSpec

(* The boot sequence and request_capability leak no capability and hand    *)
(* none out twice.                                                         *)
THEOREM NoCapabilityLeaks == KernelSpec => []EveryCapabilityHeldOnce
<1>1. Inv => EveryCapabilityHeldOnce
  BY DEF Inv
<1> QED
  BY <1>1, Invariance, PTL

(* file_write leaves no file that its owner has no permission to write.    *)
THEOREM FilesStayWritable == KernelSpec => []FilesUnderWritablePrefix
<1>1. Inv => FilesUnderWritablePrefix
  BY DEF Inv
<1> QED
  BY <1>1, Invariance, PTL

(* The supervisor's mailbox holds the oldest requests, for every capacity. *)
THEOREM SupervisorKeepsOldest == KernelSpec => []SupervisorHasOldest
<1>1. Inv => SupervisorHasOldest
  BY DEF Inv, SupervisorOK
<1> QED
  BY <1>1, Invariance, PTL
=============================================================================
