-------------------------------- MODULE NeDriver --------------------------------
(***************************************************************************)
(* The Nitro Enclaves kernel driver (drivers/virt/nitro_enclaves): the CPU *)
(* pool set by the ne_cpus parameter, the life of an enclave file from     *)
(* NE_CREATE_VM to its release, and the worker that turns out-of-band      *)
(* events into hang-ups. Three locks serialise them: the list mutex, one   *)
(* mutex per enclave and the mutex of the pool, which no step holds across *)
(* another. The requests to the PCI device are the hypervisor's answers.   *)
(***************************************************************************)
EXTENDS Naturals, Sequences, FiniteSets

CONSTANTS
  Enclave,     \* enclave files that may be created
  Cpu,         \* CPU numbers of the parent VM, 0 among them
  Siblings,    \* topology_sibling_cpumask
  Node,        \* cpu_to_node
  NrCores,     \* nr_parent_vm_cores of a pool that is set up
  CpuLists,    \* values written to ne_cpus
  BootList,    \* the value of ne_cpus when the module was loaded
  MinMem,      \* NE_MIN_ENCLAVE_MEM_SIZE, in memory regions
  Faults       \* which of FaultKind happen

FaultKind == {"request", "timeout", "param", "copy"}

ASSUME DriverAssumption ==
  /\ Cpu \subseteq Nat /\ 0 \in Cpu
  /\ Siblings \in [Cpu -> SUBSET Cpu]
  /\ \A c \in Cpu : c \in Siblings[c] /\ \A d \in Siblings[c] : Siblings[d] = Siblings[c]
  /\ NrCores \in Nat /\ MinMem \in Nat
  /\ BootList \subseteq Cpu /\ CpuLists \subseteq SUBSET Cpu
  /\ Faults \subseteq FaultKind
  /\ "free" \notin Enclave /\ "create" \notin Enclave /\ "work" \notin Enclave

CoreId == 1..NrCores
Core == [CoreId -> SUBSET Cpu]

VARIABLES
  online,      \* CPUs the parent VM runs on
  poolSet,     \* ne_cpu_pool.nr_parent_vm_cores # 0
  avail,       \* ne_cpu_pool.avail_threads_per_core
  param,       \* the writer of ne_cpus
  list,        \* enclaves_list, newest first
  listMutex,   \* who holds enclaves_list_mutex
  info,        \* who holds each enclave_info_mutex
  file,        \* the enclave file: "none", "open", "closed", "gone" or "leaked"
  state,       \* ne_enclave.state
  nrCores,     \* ne_enclave.nr_parent_vm_cores
  cores,       \* ne_enclave.threads_per_core
  vcpus,       \* ne_enclave.vcpu_ids
  mem,         \* ne_enclave.nr_mem_regions, up to MinMem
  hasEvent,    \* ne_enclave.has_event
  hv,          \* the slot: "none", "idle", "running", "exited"
  pending,     \* notify_work is queued
  work,        \* enclaves the worker has still to look at
  reply        \* the state in the worker's cmd_reply

cpuVars == <<online, poolSet, avail, param>>
encVars == <<file, state, nrCores, cores, vcpus, mem, hasEvent, hv>>
workVars == <<pending, work, reply>>
vars == <<cpuVars, list, listMutex, info, encVars, workVars>>

TypeOK ==
  /\ online \subseteq Cpu /\ poolSet \in BOOLEAN /\ avail \in Core
  /\ param \in {"idle", "checked", "torn", "copy"}
  /\ list \in Seq(Enclave)
  /\ listMutex \in {"free", "create", "work"} \cup Enclave
  /\ info \in [Enclave -> {"free", "start", "release", "stopped"}]
  /\ file \in [Enclave -> {"none", "open", "closed", "gone", "leaked"}]
  /\ state \in [Enclave -> {"init", "running", "stopped"}]
  /\ nrCores \in [Enclave -> {0, NrCores}]
  /\ cores \in [Enclave -> Core]
  /\ vcpus \in [Enclave -> SUBSET Cpu]
  /\ mem \in [Enclave -> 0..MinMem]
  /\ hasEvent \in [Enclave -> BOOLEAN]
  /\ hv \in [Enclave -> {"none", "idle", "running", "exited"}]
  /\ pending \in BOOLEAN /\ work \in Seq(Enclave)
  /\ reply \in {"init", "running", "stopped"}

NoCore == [i \in CoreId |-> {}]

(* The threads an enclave took from the pool. *)
Held(e) == UNION {cores[e][i] : i \in CoreId}

Happens(fault) == fault \in Faults

--------------------------------------------------------------------------------
(* The CPU pool *)

Lead(c) == CHOOSE d \in Siblings[c] : \A x \in Siblings[c] : d <= x

(* The pool's array is filled core by core, in the order of the list.           *)
CoreIndex(cpus, c) == Cardinality({Lead(d) : d \in {x \in cpus : Lead(x) <= Lead(c)}})

(* Mutant: a list need not name whole cores. *)
PartialCores(cpus) ==
  /\ cpus # {}
  /\ \A c, d \in cpus : Node[c] = Node[d]
  /\ cpus \cap Siblings[0] = {}

(* The checks of ne_setup_cpu_pool on the list itself: one NUMA node, not CPU 0 *)
(* nor its siblings, and whole cores.                                           *)
PoolShape(cpus) ==
  /\ cpus # {}
  /\ \A c, d \in cpus : Node[c] = Node[d]
  /\ cpus \cap Siblings[0] = {}
  /\ \A c \in cpus : Siblings[c] \subseteq cpus

(* The CPUs of the list have to be online.                                      *)
ValidPool(cpus) == cpus \subseteq online /\ PoolShape(cpus)

ASSUME BootListAssumption == BootList = {} \/ PoolShape(BootList)

Split(cpus) == [i \in CoreId |-> {c \in cpus : CoreIndex(cpus, c) = i}]

(* ne_set_kernel_param: no enclave may exist, but the list is unlocked again    *)
(* before the pool is changed.                                                  *)
CheckEnclavesCreated ==
  /\ Happens("param")
  /\ param = "idle" /\ listMutex = "free" /\ list = <<>>
  /\ param' = "checked"
  /\ UNCHANGED <<online, poolSet, avail, list, listMutex, info, encVars, workVars>>

(* ne_teardown_cpu_pool: the CPUs still in the pool go back online.             *)
TeardownCpuPool ==
  /\ online' = online \cup UNION {avail[i] : i \in CoreId}
  /\ avail' = NoCore /\ poolSet' = FALSE
  /\ UNCHANGED <<list, listMutex, info, encVars, workVars>>

TeardownForNewPool == param = "checked" /\ param' = "torn" /\ TeardownCpuPool

(* ne_setup_cpu_pool: a list that fails a check, or a CPU that cannot be taken  *)
(* offline, leaves no pool.                                                     *)
SetupCpuPool ==
  /\ param = "torn"
  /\ \E cpus \in CpuLists :
       \/ /\ ValidPool(cpus)
          /\ avail' = Split(cpus) /\ poolSet' = TRUE
          /\ online' = online \ cpus
          /\ param' = "copy"
       \/ param' = "idle" /\ UNCHANGED <<online, avail, poolSet>>
  /\ UNCHANGED <<list, listMutex, info, encVars, workVars>>

(* param_set_copystring keeps the value, or fails and the pool is torn down.    *)
CopyParam ==
  /\ param = "copy" /\ param' = "idle"
  /\ UNCHANGED <<online, poolSet, avail, list, listMutex, info, encVars, workVars>>

CopyParamFails == param = "copy" /\ param' = "idle" /\ TeardownCpuPool

Parameter ==
  CheckEnclavesCreated \/ TeardownForNewPool \/ SetupCpuPool \/ CopyParam \/ CopyParamFails

Init ==
  /\ online = Cpu \ BootList
  /\ poolSet = (BootList # {})
  /\ avail = Split(BootList)
  /\ param = "idle" /\ list = <<>> /\ listMutex = "free"
  /\ info = [e \in Enclave |-> "free"] /\ file = [e \in Enclave |-> "none"]
  /\ state = [e \in Enclave |-> "init"]
  /\ nrCores = [e \in Enclave |-> 0] /\ cores = [e \in Enclave |-> NoCore]
  /\ vcpus = [e \in Enclave |-> {}] /\ mem = [e \in Enclave |-> 0]
  /\ hasEvent = [e \in Enclave |-> FALSE] /\ hv = [e \in Enclave |-> "none"]
  /\ pending = FALSE /\ work = <<>> /\ reply = "init"

--------------------------------------------------------------------------------
(* NE_CREATE_VM *)

(* Under the list mutex, a pool with a core left is looked for first ...        *)
LockForCreate ==
  /\ listMutex = "free" /\ \E e \in Enclave : file[e] = "none"
  /\ \E i \in CoreId : avail[i] # {}
  /\ listMutex' = "create"
  /\ UNCHANGED <<cpuVars, list, info, encVars, workVars>>

(* ... and the pool's dimensions are read afterwards. A slot number that cannot *)
(* be copied to the caller closes the new file at once.                         *)
CreateVm(e) ==
  /\ listMutex = "create" /\ file[e] = "none"
  /\ nrCores' = [nrCores EXCEPT ![e] = IF poolSet THEN NrCores ELSE 0]
  /\ \/ file' = [file EXCEPT ![e] = "open"]
     \/ Happens("copy") /\ file' = [file EXCEPT ![e] = "closed"]
  /\ hv' = [hv EXCEPT ![e] = "idle"]
  /\ list' = <<e>> \o list
  /\ listMutex' = "free"
  /\ UNCHANGED <<cpuVars, info, state, cores, vcpus, mem, hasEvent, workVars>>

(* SLOT_ALLOC, or an allocation before it, fails.                               *)
CreateVmFails ==
  /\ Happens("request")
  /\ listMutex = "create" /\ listMutex' = "free"
  /\ UNCHANGED <<cpuVars, list, info, encVars, workVars>>

--------------------------------------------------------------------------------
(* The ioctls of an enclave file, under the enclave's mutex *)

(* Every ioctl needs the enclave in its initial state.                          *)
Ioctl(e) == file[e] = "open" /\ info[e] = "free" /\ state[e] = "init"

(* Mutant: the core is copied and stays in the pool. *)
CopyCore(e, i) ==
  /\ cores' = [cores EXCEPT ![e][i] = @ \cup avail[i]]
  /\ UNCHANGED avail

(* ne_set_enclave_threads_per_core: a whole core moves to the enclave.          *)
TakeCore(e, i) ==
  /\ cores' = [cores EXCEPT ![e][i] = @ \cup avail[i]]
  /\ avail' = [avail EXCEPT ![i] = {}]

(* NE_ADD_VCPU. The caller names the CPU, or leaves the choice to the driver,   *)
(* which prefers threads the enclave already has; either way the CPU is a       *)
(* thread the enclave holds and does not use, or comes with its core from the   *)
(* pool. When SLOT_ADD_VCPU fails the core stays with the enclave.              *)
AddVcpu(e) ==
  /\ Ioctl(e) /\ nrCores[e] > 0
  /\ \E c \in Cpu \ vcpus[e] :
       /\ \/ c \in Held(e) /\ UNCHANGED <<cores, avail>>
          \/ c \notin Held(e) /\ poolSet /\ \E i \in CoreId : c \in avail[i] /\ TakeCore(e, i)
       /\ \/ vcpus' = [vcpus EXCEPT ![e] = @ \cup {c}]
          \/ Happens("request") /\ UNCHANGED vcpus
  /\ UNCHANGED <<online, poolSet, param, list, listMutex, info, file, state, nrCores, mem,
                 hasEvent, hv, workVars>>

(* NE_SET_USER_MEMORY_REGION adds one region; what lies above MinMem is not     *)
(* told apart (NeMemory has the pages).                                         *)
SetUserMemoryRegion(e) ==
  /\ Ioctl(e) /\ mem[e] < MinMem
  /\ mem' = [mem EXCEPT ![e] = @ + 1]
  /\ UNCHANGED <<cpuVars, list, listMutex, info, file, state, nrCores, cores, vcpus, hasEvent,
                 hv, workVars>>

(* Mutant: an enclave may start on part of a core. *)
StartsOnAnyThreads(e) == mem[e] >= MinMem /\ mem[e] > 0 /\ vcpus[e] # {}

(* ne_start_enclave_ioctl: memory, vCPUs, and every thread of every core.       *)
MayStart(e) == mem[e] >= MinMem /\ mem[e] > 0 /\ vcpus[e] # {} /\ Held(e) \subseteq vcpus[e]

(* NE_START_ENCLAVE: the hypervisor starts the enclave while the ioctl holds    *)
(* the enclave's mutex ...                                                      *)
RequestStart(e) ==
  /\ Ioctl(e) /\ MayStart(e) /\ hv[e] = "idle"
  /\ info' = [info EXCEPT ![e] = "start"]
  /\ hv' = [hv EXCEPT ![e] = "running"]
  /\ UNCHANGED <<cpuVars, list, listMutex, file, state, nrCores, cores, vcpus, mem, hasEvent,
                 workVars>>

(* ... and the state follows with the reply.                                    *)
StartReply(e) ==
  /\ info[e] = "start"
  /\ state' = [state EXCEPT ![e] = "running"]
  /\ info' = [info EXCEPT ![e] = "free"]
  /\ UNCHANGED <<cpuVars, list, listMutex, file, nrCores, cores, vcpus, mem, hasEvent, hv,
                 workVars>>

--------------------------------------------------------------------------------
(* Out-of-band events *)

(* The enclave exits by itself; the interrupt queues notify_work, which stays   *)
(* queued once however often that happens.                                      *)
EnclaveExits(e) ==
  /\ hv[e] = "running"
  /\ hv' = [hv EXCEPT ![e] = "exited"]
  /\ pending' = TRUE
  /\ UNCHANGED <<cpuVars, list, listMutex, info, file, state, nrCores, cores, vcpus, mem,
                 hasEvent, work, reply>>

(* ne_event_work_handler starts: it is no longer queued, and its cmd_reply is   *)
(* zero, which is NE_STATE_INIT.                                                *)
WorkStarts ==
  /\ pending /\ listMutex = "free"
  /\ pending' = FALSE /\ listMutex' = "work"
  /\ work' = list /\ reply' = "init"
  /\ UNCHANGED <<cpuVars, list, info, encVars>>

(* Mutant: the worker does not wait for the enclave's mutex. *)
LooksWithoutLock(e) == TRUE

CanLook(e) == info[e] = "free"

(* One enclave of the list. SLOT_INFO tells whether it still runs; without an   *)
(* answer in time cmd_reply keeps what it held, and is used all the same.       *)
NotifyEnclave ==
  /\ listMutex = "work" /\ work # <<>> /\ CanLook(Head(work))
  /\ LET e == Head(work) IN
       /\ \/ state[e] # "running" /\ UNCHANGED <<reply, state, hasEvent>>
          \/ /\ state[e] = "running"
             /\ \/ reply' = IF hv[e] = "running" THEN "running" ELSE "stopped"
                \/ Happens("timeout") /\ UNCHANGED reply
             /\ state' = [state EXCEPT ![e] = reply']
             /\ hasEvent' = [hasEvent EXCEPT ![e] = @ \/ reply' # "running"]
  /\ work' = Tail(work)
  /\ UNCHANGED <<cpuVars, list, listMutex, info, file, nrCores, cores, vcpus, mem, hv, pending>>

WorkEnds ==
  /\ listMutex = "work" /\ work = <<>> /\ listMutex' = "free"
  /\ UNCHANGED <<cpuVars, list, info, encVars, workVars>>

Worker == WorkStarts \/ NotifyEnclave \/ WorkEnds

--------------------------------------------------------------------------------
(* ne_enclave_release *)

(* The last descriptor of the file is closed; no ioctl is in progress then.     *)
Close(e) ==
  /\ file[e] = "open" /\ info[e] # "start"
  /\ file' = [file EXCEPT ![e] = "closed"]
  /\ UNCHANGED <<cpuVars, list, listMutex, info, state, nrCores, cores, vcpus, mem, hasEvent, hv,
                 workVars>>

(* Mutant: the mutex of the enclave is taken before the one of the list. *)
LockInfoFirst(e) ==
  /\ file[e] = "closed" /\ listMutex # e
  /\ IF info[e] = "free"
     THEN info' = [info EXCEPT ![e] = "release"] /\ UNCHANGED listMutex
     ELSE info[e] = "release" /\ listMutex = "free" /\ listMutex' = e /\ UNCHANGED info
  /\ UNCHANGED <<cpuVars, list, encVars, workVars>>

(* The list mutex first, then the enclave's.                                    *)
LockForRelease(e) ==
  /\ file[e] = "closed" /\ info[e] = "free"
  /\ IF listMutex = e
     THEN info' = [info EXCEPT ![e] = "release"] /\ UNCHANGED listMutex
     ELSE listMutex = "free" /\ listMutex' = e /\ UNCHANGED info
  /\ UNCHANGED <<cpuVars, list, encVars, workVars>>

(* Mutant: ENCLAVE_STOP is never sent. *)
NeverNeedsStop(e) == FALSE

NeedsStop(e) == state[e] \notin {"init", "stopped"}

(* ENCLAVE_STOP; an enclave that exited meanwhile is stopped already.           *)
StopEnclave(e) ==
  /\ listMutex = e /\ info[e] = "release" /\ NeedsStop(e)
  /\ hv' = [hv EXCEPT ![e] = "exited"]
  /\ info' = [info EXCEPT ![e] = "stopped"]
  /\ UNCHANGED <<cpuVars, list, listMutex, file, state, nrCores, cores, vcpus, mem, hasEvent,
                 workVars>>

ReadyToFree(e) == listMutex = e /\ (info[e] = "stopped" \/ (info[e] = "release" /\ ~NeedsStop(e)))

(* Mutant: the threads stay with the enclave that is gone. *)
ReturnNothing(e) == UNCHANGED <<avail, cores>>

(* ne_enclave_remove_all_vcpu_id_entries. When the pool was torn down meanwhile *)
(* its masks are gone, and the threads end up in none.                          *)
ReturnCores(e) ==
  /\ avail' = IF poolSet THEN [i \in CoreId |-> avail[i] \cup cores[e][i]] ELSE avail
  /\ cores' = [cores EXCEPT ![e] = NoCore]

(* ne_pci_dev_remove_enclave_entry *)
RemoveEntry(e) ==
  \/ \E k \in 1..Len(list) :
       list[k] = e /\ list' = SubSeq(list, 1, k - 1) \o SubSeq(list, k + 1, Len(list))
  \/ (\A k \in 1..Len(list) : list[k] # e) /\ UNCHANGED list

(* SLOT_FREE; the entry leaves the list, its memory and its threads return.     *)
FreeSlot(e) ==
  /\ ReadyToFree(e)
  /\ hv' = [hv EXCEPT ![e] = "none"]
  /\ RemoveEntry(e)
  /\ ReturnCores(e)
  /\ vcpus' = [vcpus EXCEPT ![e] = {}] /\ mem' = [mem EXCEPT ![e] = 0]
  /\ file' = [file EXCEPT ![e] = "gone"]
  /\ info' = [info EXCEPT ![e] = "free"] /\ listMutex' = "free"
  /\ UNCHANGED <<online, poolSet, param, state, nrCores, hasEvent, workVars>>

(* Either request fails: the enclave stays in the list with all it has.         *)
ReleaseFails(e) ==
  /\ Happens("request")
  /\ listMutex = e /\ info[e] \in {"release", "stopped"}
  /\ file' = [file EXCEPT ![e] = "leaked"]
  /\ info' = [info EXCEPT ![e] = "free"] /\ listMutex' = "free"
  /\ UNCHANGED <<cpuVars, list, state, nrCores, cores, vcpus, mem, hasEvent, hv, workVars>>

--------------------------------------------------------------------------------
Finish(e) == StopEnclave(e) \/ FreeSlot(e) \/ ReleaseFails(e)

EnclaveStep(e) ==
  \/ CreateVm(e) \/ AddVcpu(e) \/ SetUserMemoryRegion(e) \/ RequestStart(e) \/ StartReply(e)
  \/ EnclaveExits(e) \/ Close(e) \/ LockForRelease(e) \/ Finish(e)

(* Nothing is left to do. *)
Rest ==
  /\ \A e \in Enclave : file[e] \in {"none", "gone", "leaked"}
  /\ listMutex = "free" /\ ~pending /\ param = "idle"
  /\ UNCHANGED vars

Next ==
  \/ Parameter \/ LockForCreate \/ CreateVmFails \/ Worker \/ Rest
  \/ \E e \in Enclave : EnclaveStep(e)

Spec == Init /\ [][Next]_vars

(* A request to the device ends by its reply or its timeout, the worker is      *)
(* scheduled, and a waiter for a mutex is not overtaken for ever.               *)
Fairness ==
  /\ WF_vars(CreateVmFails \/ \E e \in Enclave : CreateVm(e))
  /\ SF_vars(WorkStarts) /\ WF_vars(NotifyEnclave \/ WorkEnds)
  /\ \A e \in Enclave : WF_vars(StartReply(e)) /\ SF_vars(LockForRelease(e)) /\ WF_vars(Finish(e))

FairSpec == Spec /\ Fairness

--------------------------------------------------------------------------------
(* Properties *)

(* A CPU is in one place: online, in one mask of the pool, or in one core of    *)
(* one enclave; whatever is added, released or failing, and even when the pool  *)
(* is replaced under an enclave.                                                *)
NoCpuShared ==
  /\ \A i \in CoreId : avail[i] \cap online = {}
  /\ \A i, j \in CoreId : i # j => avail[i] \cap avail[j] = {}
  /\ \A e \in Enclave, i \in CoreId :
       /\ cores[e][i] \cap online = {}
       /\ \A j \in CoreId : cores[e][i] \cap avail[j] = {}
       /\ \A f \in Enclave, j \in CoreId :
            <<e, i>> # <<f, j>> => cores[e][i] \cap cores[f][j] = {}

(* A physical core is never divided between the parent VM and the pool or an    *)
(* enclave, and the core of CPU 0 stays with the parent VM.                     *)
WholeCores ==
  /\ \A c \in online : Siblings[c] \subseteq online
  /\ \A i \in CoreId : \A c \in avail[i] : Siblings[c] \subseteq avail[i]
  /\ \A e \in Enclave, i \in CoreId : \A c \in cores[e][i] : Siblings[c] \subseteq cores[e][i]
  /\ Siblings[0] \subseteq online

(* An enclave in state NE_STATE_RUNNING uses every sibling of each of its       *)
(* vCPUs, and none of them is used by another enclave.                          *)
RunsOnWholeCores ==
  \A e \in Enclave : state[e] = "running" /\ file[e] # "gone" =>
    /\ vcpus[e] # {}
    /\ \A c \in vcpus[e] : Siblings[c] \subseteq vcpus[e]
    /\ \A f \in Enclave \ {e} : vcpus[e] \cap vcpus[f] = {}

(* No CPU is lost: while ne_cpus is not rewritten every CPU is online, in the   *)
(* pool or held by an enclave that still has its slot.                          *)
NoCpuLost ==
  Cpu = online \cup (UNION {avail[i] : i \in CoreId})
               \cup (UNION {Held(e) : e \in {f \in Enclave : hv[f] # "none"}})

(* The slot of an enclave is freed only after the enclave stopped running.      *)
FreedOnlyWhenStopped == [][\A e \in Enclave : hv[e] = "running" => hv'[e] # "none"]_vars

(* An enclave that exits by itself hangs its descriptor up, unless it is closed *)
(* first: no order of interrupt, worker, start and release loses the event.     *)
ExitIsReported ==
  \A e \in Enclave : hv[e] = "exited" /\ file[e] = "open" ~> hasEvent[e] \/ file[e] # "open"

(* Closing the last descriptor always comes to an end: the two mutexes of the   *)
(* release never block the worker and the release on each other.                *)
ReleaseCompletes == \A e \in Enclave : file[e] = "closed" ~> file[e] \in {"gone", "leaked"}

================================================================================
