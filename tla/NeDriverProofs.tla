----------------------------- MODULE NeDriverProofs -----------------------------
(***************************************************************************)
(* Proofs about NeDriver, for any number of enclaves, any topology, any    *)
(* lists written to ne_cpus and any faults.                                *)
(***************************************************************************)
EXTENDS NeDriver, SequenceTheorems, TLAPS

(* What the proofs need of the variables' types. *)
CpuTypeOK ==
  /\ online \subseteq Cpu /\ avail \in Core
  /\ cores \in [Enclave -> Core]

(* Split puts the CPUs of a list into disjoint masks, siblings together.        *)
LEMMA SplitParts ==
  ASSUME NEW cpus \in SUBSET Cpu, \A c \in cpus : Siblings[c] \subseteq cpus
  PROVE  /\ Split(cpus) \in Core
         /\ \A i \in CoreId : Split(cpus)[i] \subseteq cpus
         /\ \A i, j \in CoreId : i # j => Split(cpus)[i] \cap Split(cpus)[j] = {}
         /\ \A i \in CoreId : \A c \in Split(cpus)[i] : Siblings[c] \subseteq Split(cpus)[i]
<1>1. \A i \in CoreId : Split(cpus)[i] = {c \in cpus : CoreIndex(cpus, c) = i}
  BY DEF Split
<1>2. ASSUME NEW c \in cpus, NEW d \in Siblings[c]
      PROVE  CoreIndex(cpus, d) = CoreIndex(cpus, c)
  <2>1. Siblings[d] = Siblings[c]
    BY DriverAssumption
  <2>2. Lead(d) = Lead(c)
    BY <2>1 DEF Lead
  <2> QED
    BY <2>2 DEF CoreIndex
<1>3. Split(cpus) \in Core
  BY DEF Split, Core
<1>4. \A i \in CoreId : \A c \in Split(cpus)[i] : Siblings[c] \subseteq Split(cpus)[i]
  BY <1>1, <1>2
<1> QED
  BY <1>1, <1>3, <1>4

(* The inductive invariant: no CPU in two places, no core divided.              *)
CpuInv == CpuTypeOK /\ NoCpuShared /\ WholeCores

(* The pool of the boot parameter divides no core.                              *)
LEMMA InitCpuInv == Init => CpuInv
<1> SUFFICES ASSUME Init PROVE CpuInv
  OBVIOUS
<1>1. BootList \subseteq Cpu /\ \A c \in BootList : Siblings[c] \subseteq BootList
  BY DriverAssumption, BootListAssumption DEF PoolShape
<1>2. /\ avail \in Core
      /\ \A i \in CoreId : avail[i] \subseteq BootList
      /\ \A i, j \in CoreId : i # j => avail[i] \cap avail[j] = {}
      /\ \A i \in CoreId : \A c \in avail[i] : Siblings[c] \subseteq avail[i]
  BY <1>1, SplitParts DEF Init
<1>3. online = Cpu \ BootList
  BY DEF Init
<1>4. \A e \in Enclave, i \in CoreId : cores[e][i] = {}
  BY DEF Init, NoCore
<1>5. cores \in [Enclave -> Core]
  BY DEF Init, NoCore, Core
<1>6. NoCpuShared
  BY <1>2, <1>3, <1>4 DEF NoCpuShared
<1>7. ASSUME NEW c \in online PROVE Siblings[c] \subseteq online
  BY <1>1, <1>3, DriverAssumption, Zenon
<1>8. Siblings[0] \subseteq online
  BY <1>1, <1>3, DriverAssumption, BootListAssumption, Zenon DEF PoolShape
<1> QED
  BY <1>2, <1>3, <1>4, <1>5, <1>6, <1>7, <1>8 DEF CpuInv, CpuTypeOK, WholeCores

(* ne_teardown_cpu_pool *)
LEMMA TeardownCpuInv == CpuInv /\ TeardownCpuPool => CpuInv'
<1> SUFFICES ASSUME CpuInv, TeardownCpuPool PROVE CpuInv'
  OBVIOUS
<1>1. /\ online' = online \cup (UNION {avail[i] : i \in CoreId})
      /\ avail' \in Core /\ \A i \in CoreId : avail'[i] = {}
      /\ cores' = cores
  BY DEF TeardownCpuPool, NoCore, Core, encVars
<1>2. CpuTypeOK'
  BY <1>1 DEF CpuInv, CpuTypeOK, Core
<1>3. NoCpuShared'
  BY <1>1 DEF CpuInv, NoCpuShared
<1>4. WholeCores'
  BY <1>1 DEF CpuInv, WholeCores
<1> QED
  BY <1>2, <1>3, <1>4 DEF CpuInv

(* ne_setup_cpu_pool *)
LEMMA SetupCpuInv == CpuInv /\ SetupCpuPool => CpuInv'
<1> SUFFICES ASSUME CpuInv, SetupCpuPool PROVE CpuInv'
  OBVIOUS
<1>1. cores' = cores
  BY DEF SetupCpuPool, encVars
<1>2. CASE UNCHANGED <<online, avail>>
  BY <1>1, <1>2 DEF CpuInv, CpuTypeOK, NoCpuShared, WholeCores
<1>3. ASSUME NEW cpus \in CpuLists, ValidPool(cpus), avail' = Split(cpus), online' = online \ cpus
      PROVE  CpuInv'
  <2>1. /\ cpus \subseteq Cpu /\ cpus \subseteq online /\ cpus \cap Siblings[0] = {}
        /\ \A c \in cpus : Siblings[c] \subseteq cpus
    BY <1>3, DriverAssumption DEF ValidPool, PoolShape
  <2>2. /\ avail' \in Core
        /\ \A i \in CoreId : avail'[i] \subseteq cpus
        /\ \A i, j \in CoreId : i # j => avail'[i] \cap avail'[j] = {}
        /\ \A i \in CoreId : \A c \in avail'[i] : Siblings[c] \subseteq avail'[i]
    BY <1>3, <2>1, SplitParts
  <2>3. CpuTypeOK'
    BY <1>1, <1>3, <2>2 DEF CpuInv, CpuTypeOK
  <2>4. NoCpuShared'
    BY <1>1, <1>3, <2>1, <2>2 DEF CpuInv, NoCpuShared
  <2>5. ASSUME NEW c \in online' PROVE Siblings[c] \subseteq online'
    <3>1. Siblings[c] \subseteq online /\ c \in Cpu /\ c \notin cpus
      BY <1>3 DEF CpuInv, WholeCores, CpuTypeOK
    <3>2. ASSUME NEW d \in Siblings[c], d \in cpus PROVE FALSE
      BY <2>1, <3>1, <3>2, DriverAssumption
    <3> QED
      BY <1>3, <3>1, <3>2
  <2>6. Siblings[0] \subseteq online'
    BY <1>3, <2>1 DEF CpuInv, WholeCores
  <2> QED
    BY <1>1, <2>2, <2>3, <2>4, <2>5, <2>6 DEF CpuInv, WholeCores
<1> QED
  BY <1>2, <1>3 DEF SetupCpuPool

(* NE_ADD_VCPU *)
LEMMA AddVcpuCpuInv ==
  ASSUME NEW e \in Enclave, CpuInv, AddVcpu(e)
  PROVE  CpuInv'
<1>1. online' = online
  BY DEF AddVcpu
<1>2. CASE UNCHANGED <<cores, avail>>
  BY <1>1, <1>2 DEF CpuInv, CpuTypeOK, NoCpuShared, WholeCores
<1>3. ASSUME NEW i \in CoreId, TakeCore(e, i) PROVE CpuInv'
  <2>1. /\ avail' \in Core /\ avail'[i] = {}
        /\ \A j \in CoreId : j # i => avail'[j] = avail[j]
    BY <1>3 DEF TakeCore, CpuInv, CpuTypeOK, Core
  <2>2. /\ cores' \in [Enclave -> Core]
        /\ cores'[e][i] = cores[e][i] \cup avail[i]
        /\ \A f \in Enclave, j \in CoreId : <<f, j>> # <<e, i>> => cores'[f][j] = cores[f][j]
    BY <1>3 DEF TakeCore, CpuInv, CpuTypeOK, Core
  <2>3. NoCpuShared'
    BY <1>1, <2>1, <2>2 DEF CpuInv, NoCpuShared
  <2>4. WholeCores'
    BY <1>1, <2>1, <2>2 DEF CpuInv, WholeCores
  <2> QED
    BY <1>1, <2>1, <2>2, <2>3, <2>4 DEF CpuInv, CpuTypeOK
<1> QED
  BY <1>2, <1>3 DEF AddVcpu

(* ne_enclave_remove_all_vcpu_id_entries *)
LEMMA FreeSlotCpuInv ==
  ASSUME NEW e \in Enclave, CpuInv, FreeSlot(e)
  PROVE  CpuInv'
<1>1. online' = online
  BY DEF FreeSlot
<1>2. /\ avail' \in Core
      /\ \A i \in CoreId : avail'[i] = avail[i] \cup cores[e][i] \/ avail'[i] = avail[i]
  BY DEF FreeSlot, ReturnCores, CpuInv, CpuTypeOK, Core
<1>3. /\ cores' \in [Enclave -> Core]
      /\ \A i \in CoreId : cores'[e][i] = {}
      /\ \A f \in Enclave : f # e => cores'[f] = cores[f]
  BY DEF FreeSlot, ReturnCores, NoCore, CpuInv, CpuTypeOK, Core
<1>4. NoCpuShared'
  BY <1>1, <1>2, <1>3 DEF CpuInv, NoCpuShared
<1>5. WholeCores'
  BY <1>1, <1>2, <1>3 DEF CpuInv, WholeCores
<1> QED
  BY <1>1, <1>2, <1>3, <1>4, <1>5 DEF CpuInv, CpuTypeOK


(* Every step moves whole cores and duplicates no CPU.                          *)
LEMMA NextCpuInv == CpuInv /\ [Next]_vars => CpuInv'
<1> SUFFICES ASSUME CpuInv, [Next]_vars PROVE CpuInv'
  OBVIOUS
<1>0. ASSUME UNCHANGED <<online, avail, cores>> PROVE CpuInv'
  BY <1>0 DEF CpuInv, CpuTypeOK, NoCpuShared, WholeCores
<1>1. CASE Parameter
  <2>1. CASE CheckEnclavesCreated \/ CopyParam
    BY <1>0, <2>1 DEF CheckEnclavesCreated, CopyParam, encVars
  <2>2. CASE TeardownForNewPool \/ CopyParamFails
    BY <2>2, TeardownCpuInv DEF TeardownForNewPool, CopyParamFails
  <2>3. CASE SetupCpuPool
    BY <2>3, SetupCpuInv
  <2> QED
    BY <1>1, <2>1, <2>2, <2>3 DEF Parameter
<1>2. CASE LockForCreate \/ CreateVmFails
  BY <1>0, <1>2 DEF LockForCreate, CreateVmFails, cpuVars, encVars
<1>3. CASE Worker
  BY <1>0, <1>3 DEF Worker, WorkStarts, NotifyEnclave, WorkEnds, cpuVars, encVars
<1>4. ASSUME NEW e \in Enclave, EnclaveStep(e) PROVE CpuInv'
  <2>1. CASE CreateVm(e) \/ SetUserMemoryRegion(e) \/ RequestStart(e) \/ StartReply(e)
    BY <1>0, <2>1 DEF CreateVm, SetUserMemoryRegion, RequestStart, StartReply, cpuVars
  <2>2. CASE EnclaveExits(e) \/ Close(e) \/ LockForRelease(e) \/ StopEnclave(e) \/ ReleaseFails(e)
    BY <1>0, <2>2
    DEF EnclaveExits, Close, LockForRelease, StopEnclave, ReleaseFails, cpuVars, encVars
  <2>3. CASE AddVcpu(e)
    BY <2>3, AddVcpuCpuInv
  <2>4. CASE FreeSlot(e)
    BY <2>4, FreeSlotCpuInv
  <2> QED
    BY <1>4, <2>1, <2>2, <2>3, <2>4 DEF EnclaveStep, Finish
<1>5. CASE Rest \/ UNCHANGED vars
  BY <1>0, <1>5 DEF Rest, vars, cpuVars, encVars
<1> QED
  BY <1>1, <1>2, <1>3, <1>4, <1>5 DEF Next

(* No CPU is ever in two places (the parent VM, a mask of the pool, a core of   *)
(* an enclave), whatever is added, released, failing or rewritten.              *)
THEOREM CpusNeverShared == Spec => []NoCpuShared
<1>1. CpuInv => NoCpuShared
  BY DEF CpuInv
<1> QED
  BY <1>1, InitCpuInv, NextCpuInv, PTL DEF Spec

(* No core is ever divided, and the parent VM keeps the core of CPU 0.          *)
THEOREM CoresNeverDivided == Spec => []WholeCores
<1>1. CpuInv => WholeCores
  BY DEF CpuInv
<1> QED
  BY <1>1, InitCpuInv, NextCpuInv, PTL DEF Spec

--------------------------------------------------------------------------------
(* What start-up adds: an enclave starts only on all the threads it holds, and  *)
(* nothing is added to it afterwards.                                           *)

StartInv ==
  \A e \in Enclave :
    /\ vcpus[e] \subseteq Held(e)
    /\ file[e] \in {"none", "gone"} => info[e] = "free"
    /\ file[e] = "none" => state[e] = "init"
    /\ info[e] = "start" => file[e] = "open" /\ state[e] = "init"
    /\ (info[e] = "start" \/ (state[e] = "running" /\ file[e] # "gone"))
         => vcpus[e] # {} /\ Held(e) \subseteq vcpus[e]

(* The type invariant holds of every behaviour.                                 *)
LEMMA InitTypeOK == Init => TypeOK
<1> SUFFICES ASSUME Init PROVE TypeOK
  OBVIOUS
<1>1. online \subseteq Cpu /\ avail \in Core /\ cores \in [Enclave -> Core]
  BY InitCpuInv DEF CpuInv, CpuTypeOK
<1>2. list \in Seq(Enclave) /\ work \in Seq(Enclave)
  BY DEF Init
<1> QED
  BY <1>1, <1>2, DriverAssumption DEF Init, TypeOK

(* Every step keeps the types.                                                  *)
LEMMA NextTypeOK == TypeOK /\ [Next]_vars => TypeOK'
<1> SUFFICES ASSUME TypeOK, [Next]_vars PROVE TypeOK'
  OBVIOUS
<1> USE DEF TypeOK
<1>1. CASE Parameter
  <2>1. CASE CheckEnclavesCreated \/ CopyParam
    BY <2>1 DEF CheckEnclavesCreated, CopyParam, encVars, workVars
  <2>2. CASE TeardownForNewPool \/ CopyParamFails
    <3>1. online' \subseteq Cpu /\ avail' \in Core
      BY <2>2 DEF TeardownForNewPool, CopyParamFails, TeardownCpuPool, NoCore, Core
    <3> QED
      BY <2>2, <3>1, Zenon DEF TeardownForNewPool, CopyParamFails, TeardownCpuPool, encVars, workVars
  <2>3. CASE SetupCpuPool
    <3>1. online' \subseteq Cpu /\ avail' \in Core /\ poolSet' \in BOOLEAN
          /\ param' \in {"copy", "idle"}
      <4>1. ASSUME NEW cpus \in CpuLists PROVE Split(cpus) \in Core
        BY DriverAssumption, Zenon DEF Split, Core
      <4> QED
        BY <2>3, <4>1, Zenon DEF SetupCpuPool
    <3> QED
      BY <2>3, <3>1 DEF SetupCpuPool, encVars, workVars
  <2> QED
    BY <1>1, <2>1, <2>2, <2>3 DEF Parameter
<1>2. CASE LockForCreate \/ CreateVmFails
  BY Zenon, <1>2 DEF LockForCreate, CreateVmFails, cpuVars, encVars, workVars
<1>3. CASE Worker
  <2>1. CASE WorkStarts \/ WorkEnds
    BY <2>1, Zenon DEF WorkStarts, WorkEnds, cpuVars, encVars, workVars
  <2>2. CASE NotifyEnclave
    <3>1. work # <<>> /\ work' = Tail(work) /\ Head(work) \in Enclave /\ work' \in Seq(Enclave)
      BY <2>2 DEF NotifyEnclave
    <3>2. reply' \in {"init", "running", "stopped"}
      BY <2>2 DEF NotifyEnclave
    <3>3. state' \in [Enclave -> {"init", "running", "stopped"}]
      <4>1. state' = state \/ state' = [state EXCEPT ![Head(work)] = reply']
        BY <2>2 DEF NotifyEnclave
      <4> QED
        BY <3>1, <3>2, <4>1, Zenon
    <3>4. hasEvent' \in [Enclave -> BOOLEAN]
      <4>1. \/ hasEvent' = hasEvent
            \/ hasEvent' = [hasEvent EXCEPT ![Head(work)] = @ \/ reply' # "running"]
        BY <2>2 DEF NotifyEnclave
      <4>2. (hasEvent[Head(work)] \/ reply' # "running") \in BOOLEAN
        OBVIOUS
      <4> QED
        BY <3>1, <4>1, <4>2, Zenon
    <3> QED
      BY <2>2, <3>1, <3>2, <3>3, <3>4 DEF NotifyEnclave, cpuVars
  <2> QED
    BY <1>3, <2>1, <2>2 DEF Worker
<1>4. ASSUME NEW e \in Enclave, EnclaveStep(e) PROVE TypeOK'
  <2>1. CASE CreateVm(e)
    <3>1. list' \in Seq(Enclave)
      BY <2>1 DEF CreateVm
    <3> QED
      BY <2>1, <3>1, Zenon DEF CreateVm, cpuVars, workVars
  <2>2. CASE AddVcpu(e)
    <3>1. cores' \in [Enclave -> Core] /\ avail' \in Core
      <4>1. CASE UNCHANGED <<cores, avail>>
        BY <4>1
      <4>2. ASSUME NEW i \in CoreId, TakeCore(e, i) PROVE cores' \in [Enclave -> Core] /\ avail' \in Core
        BY <4>2 DEF TakeCore, Core
      <4> QED
        BY Zenon, <2>2, <4>1, <4>2 DEF AddVcpu
    <3>2. vcpus' \in [Enclave -> SUBSET Cpu]
      <4>1. PICK c \in Cpu : vcpus' = [vcpus EXCEPT ![e] = @ \cup {c}] \/ UNCHANGED vcpus
        BY <2>2, Zenon DEF AddVcpu
      <4>2. vcpus[e] \cup {c} \in SUBSET Cpu /\ vcpus \in [Enclave -> SUBSET Cpu]
        OBVIOUS
      <4> HIDE DEF TypeOK
      <4>3. CASE vcpus' = [vcpus EXCEPT ![e] = @ \cup {c}]
        BY <4>2, <4>3
      <4> QED
        BY <4>1, <4>2, <4>3
    <3> QED
      BY Zenon, <2>2, <3>1, <3>2 DEF AddVcpu, workVars
  <2>3. CASE SetUserMemoryRegion(e)
    BY <2>3, DriverAssumption DEF SetUserMemoryRegion, cpuVars, workVars
  <2>4. CASE RequestStart(e) \/ StartReply(e) \/ EnclaveExits(e) \/ Close(e)
    BY <2>4, ZenonT(30) DEF RequestStart, StartReply, EnclaveExits, Close, cpuVars, workVars
  <2>5. CASE LockForRelease(e)
    BY <2>5 DEF LockForRelease, cpuVars, encVars, workVars
  <2>6. CASE StopEnclave(e) \/ ReleaseFails(e)
    BY <2>6, Zenon DEF StopEnclave, ReleaseFails, cpuVars, workVars
  <2>7. CASE FreeSlot(e)
    <3>1. cores' \in [Enclave -> Core] /\ avail' \in Core
      BY <2>7 DEF FreeSlot, ReturnCores, NoCore, Core
    <3>2. list' \in Seq(Enclave)
      <4>1. CASE list' = list
        BY <4>1
      <4>2. ASSUME NEW k \in 1..Len(list),
                   list' = SubSeq(list, 1, k - 1) \o SubSeq(list, k + 1, Len(list))
            PROVE  list' \in Seq(Enclave)
        <5>1. SubSeq(list, 1, k - 1) \in Seq(Enclave)
          BY SubSeqProperties
        <5>2. SubSeq(list, k + 1, Len(list)) \in Seq(Enclave)
          BY SubSeqProperties
        <5> QED
          BY <4>2, <5>1, <5>2, ConcatProperties
      <4> QED
        BY <2>7, <4>1, <4>2, Zenon DEF FreeSlot, RemoveEntry
    <3>3. mem' \in [Enclave -> 0..MinMem]
      BY <2>7, DriverAssumption DEF FreeSlot
    <3> QED
      BY <2>7, <3>1, <3>2, <3>3 DEF FreeSlot, workVars
  <2> QED
    BY Zenon, <1>4, <2>1, <2>2, <2>3, <2>4, <2>5, <2>6, <2>7 DEF EnclaveStep, Finish
<1>5. CASE Rest \/ UNCHANGED vars
  BY <1>5 DEF Rest, vars, cpuVars, encVars, workVars
<1> QED
  BY Zenon, <1>1, <1>2, <1>3, <1>4, <1>5 DEF Next

(* Every behaviour of the driver is well typed.                                 *)
THEOREM TypeCorrect == Spec => []TypeOK
  BY InitTypeOK, NextTypeOK, PTL DEF Spec

(* StartInv holds at the start, and no step breaks it.                          *)
LEMMA InitStartInv == Init => StartInv
  BY DEF Init, StartInv, Held, NoCore

(* Every step keeps what NE_START_ENCLAVE checked.                              *)
LEMMA NextStartInv == TypeOK /\ StartInv /\ [Next]_vars => StartInv'
<1> SUFFICES ASSUME TypeOK, StartInv, [Next]_vars PROVE StartInv'
  OBVIOUS
<1>0. /\ info \in [Enclave -> {"free", "start", "release", "stopped"}]
      /\ file \in [Enclave -> {"none", "open", "closed", "gone", "leaked"}]
      /\ state \in [Enclave -> {"init", "running", "stopped"}]
      /\ vcpus \in [Enclave -> SUBSET Cpu] /\ cores \in [Enclave -> Core]
  BY DEF TypeOK
<1>1. CASE Parameter
  <2>1. UNCHANGED <<vcpus, cores, file, info, state>>
    BY Zenon, <1>1 DEF Parameter, CheckEnclavesCreated, CopyParam, TeardownForNewPool, CopyParamFails, TeardownCpuPool,
                SetupCpuPool, encVars
  <2> QED
    BY <2>1 DEF StartInv, Held
<1>2. CASE LockForCreate \/ CreateVmFails \/ WorkStarts \/ WorkEnds \/ Rest \/ UNCHANGED vars
  <2>1. UNCHANGED <<vcpus, cores, file, info, state>>
    BY Zenon, <1>2 DEF LockForCreate, CreateVmFails, WorkStarts, WorkEnds, Rest, vars, encVars
  <2> QED
    BY <2>1 DEF StartInv, Held
<1>3. CASE NotifyEnclave
  <2>1. PICK e \in Enclave : /\ UNCHANGED <<vcpus, cores, file, info>>
                             /\ \/ UNCHANGED state
                                \/ state[e] = "running" /\ state' = [state EXCEPT ![e] = reply']
                             /\ info[e] # "start"
    <3>1. Head(work) \in Enclave
      BY <1>3 DEF TypeOK, NotifyEnclave
    <3> QED
      BY <1>3, <3>1 DEF NotifyEnclave, CanLook
  <2> QED
    BY <1>0, <2>1 DEF StartInv, Held
<1>4. ASSUME NEW e \in Enclave, EnclaveStep(e) PROVE StartInv'
  <2>1. CASE CreateVm(e)
    <3>1. /\ UNCHANGED <<vcpus, cores, info, state>> /\ info[e] = "free" /\ state[e] = "init"
          /\ file'[e] \in {"open", "closed"} /\ \A f \in Enclave \ {e} : file'[f] = file[f]
      BY <1>0, <2>1 DEF StartInv, CreateVm
    <3> QED
      BY <3>1 DEF StartInv, Held
  <2>9. CASE SetUserMemoryRegion(e) \/ EnclaveExits(e)
    <3>1. UNCHANGED <<vcpus, cores, file, info, state>>
      BY <2>9 DEF SetUserMemoryRegion, EnclaveExits
    <3> QED
      BY <3>1 DEF StartInv, Held
  <2>2. CASE AddVcpu(e)
    <3>1. PICK c \in Cpu : \/ vcpus' = [vcpus EXCEPT ![e] = @ \cup {c}] /\ c \in Held(e)'
                           \/ vcpus' = vcpus
      <4>1. PICK c \in Cpu \ vcpus[e] :
              /\ \/ c \in Held(e) /\ UNCHANGED cores
                 \/ \E i \in CoreId : c \in avail[i] /\ TakeCore(e, i)
              /\ vcpus' = [vcpus EXCEPT ![e] = @ \cup {c}] \/ vcpus' = vcpus
        BY Zenon, <2>2 DEF AddVcpu
      <4>2. c \in Held(e)'
        BY <1>0, <4>1 DEF Held, TakeCore, Core
      <4> QED
        BY <4>1, <4>2
    <3>2. \A f \in Enclave : Held(f) \subseteq Held(f)' /\ (f # e => Held(f)' = Held(f))
      <4>1. cores' = cores \/ \E i \in CoreId : TakeCore(e, i)
        BY <2>2 DEF AddVcpu
      <4> QED
        BY <1>0, <4>1 DEF Held, TakeCore, Core
    <3>3. info[e] = "free" /\ state[e] = "init" /\ UNCHANGED <<info, state, file>>
      BY <2>2 DEF AddVcpu, Ioctl
    <3>4. vcpus'[e] \subseteq Held(e)'
      BY <1>0, <3>1, <3>2 DEF StartInv
    <3>5. \A f \in Enclave \ {e} : vcpus'[f] = vcpus[f]
      BY <1>0, <3>1
    <3> QED
      BY Zenon, <3>2, <3>3, <3>4, <3>5 DEF StartInv
  <2>3. CASE RequestStart(e) \/ StartReply(e)
    BY <1>0, <2>3 DEF StartInv, Held, RequestStart, StartReply, Ioctl, MayStart
  <2>4. CASE Close(e)
    BY <1>0, <2>4 DEF StartInv, Held, Close
  <2>5. CASE LockForRelease(e)
    BY <1>0, <2>5 DEF StartInv, Held, LockForRelease, encVars
  <2>6. CASE StopEnclave(e)
    BY <1>0, <2>6 DEF StartInv, Held, StopEnclave
  <2>7. CASE ReleaseFails(e)
    BY <1>0, <2>7 DEF StartInv, Held, ReleaseFails
  <2>8. CASE FreeSlot(e)
    <3>1. \A f \in Enclave \ {e} : /\ vcpus'[f] = vcpus[f] /\ Held(f)' = Held(f) /\ file'[f] = file[f]
                                  /\ info'[f] = info[f] /\ state'[f] = state[f]
      BY Zenon, <1>0, <2>8 DEF FreeSlot, ReturnCores, Held
    <3>2. vcpus'[e] = {} /\ file'[e] = "gone" /\ info'[e] = "free" /\ state' = state
      BY <1>0, <2>8 DEF FreeSlot
    <3> QED
      BY <3>1, <3>2 DEF StartInv
  <2> QED
    BY <1>4, <2>1, <2>2, <2>3, <2>4, <2>5, <2>6, <2>7, <2>8, <2>9 DEF EnclaveStep, Finish
<1> QED
  BY <1>1, <1>2, <1>3, <1>4 DEF Next, Worker

(* NE_START_ENCLAVE only starts an enclave that has vCPUs, uses whole cores and *)
(* shares none of them: the check it makes stays true until the file is gone.   *)
THEOREM StartsOnWholeCores == Spec => []RunsOnWholeCores
<1>1. TypeOK /\ CpuInv /\ StartInv => RunsOnWholeCores
  <2> SUFFICES ASSUME TypeOK, CpuInv, StartInv, NEW e \in Enclave, state[e] = "running", file[e] # "gone"
               PROVE  /\ vcpus[e] # {}
                      /\ \A c \in vcpus[e] : Siblings[c] \subseteq vcpus[e]
                      /\ \A f \in Enclave \ {e} : vcpus[e] \cap vcpus[f] = {}
    BY DEF RunsOnWholeCores
  <2>1. vcpus[e] # {} /\ vcpus[e] = Held(e)
    BY Zenon DEF StartInv
  <2>2. \A f \in Enclave : vcpus[f] \subseteq Held(f)
    BY DEF StartInv
  <2>3. \A c \in Held(e) : Siblings[c] \subseteq Held(e)
    BY DEF CpuInv, WholeCores, Held
  <2>4. \A f \in Enclave \ {e} : Held(e) \cap Held(f) = {}
    BY DEF CpuInv, NoCpuShared, Held
  <2> QED
    BY <2>1, <2>2, <2>3, <2>4
<1> QED
  BY <1>1, InitTypeOK, NextTypeOK, InitCpuInv, NextCpuInv, InitStartInv, NextStartInv, PTL DEF Spec

--------------------------------------------------------------------------------
(* An enclave the hypervisor runs is one the driver knows to run, or is about   *)
(* to: its start is not answered yet. ENCLAVE_STOP leaves it stopped.           *)
StopInv ==
  \A e \in Enclave : /\ hv[e] = "running" => info[e] = "start" \/ state[e] = "running"
                     /\ info[e] = "stopped" => hv[e] # "running"

(* While SLOT_INFO is answered, no step loses track of a running enclave.       *)
LEMMA NextStopInv ==
  ASSUME "timeout" \notin Faults, TypeOK, StopInv, [Next]_vars
  PROVE  StopInv' /\ \A e \in Enclave : hv[e] = "running" => hv'[e] # "none"
<1>0. /\ info \in [Enclave -> {"free", "start", "release", "stopped"}]
      /\ state \in [Enclave -> {"init", "running", "stopped"}]
      /\ hv \in [Enclave -> {"none", "idle", "running", "exited"}]
  BY DEF TypeOK
<1>1. CASE Parameter \/ LockForCreate \/ CreateVmFails \/ WorkStarts \/ WorkEnds \/ Rest \/ UNCHANGED vars
  <2>1. UNCHANGED <<hv, info, state>>
    BY Zenon, <1>1 DEF Parameter, CheckEnclavesCreated, CopyParam, TeardownForNewPool, CopyParamFails, TeardownCpuPool,
                SetupCpuPool, LockForCreate, CreateVmFails, WorkStarts, WorkEnds, Rest, vars, encVars
  <2> QED
    BY <1>0, <2>1 DEF StopInv
<1>2. CASE NotifyEnclave
  <2>1. Head(work) \in Enclave
    BY <1>2 DEF TypeOK, NotifyEnclave
  <2>2. UNCHANGED <<hv, info>>
    BY <1>2 DEF NotifyEnclave
  <2>3. \/ UNCHANGED state
        \/ /\ state' = [state EXCEPT ![Head(work)] = reply']
           /\ reply' = IF hv[Head(work)] = "running" THEN "running" ELSE "stopped"
    BY <1>2 DEF NotifyEnclave, Happens
  <2> QED
    BY <1>0, <2>1, <2>2, <2>3 DEF StopInv
<1>3. ASSUME NEW e \in Enclave, EnclaveStep(e)
      PROVE  StopInv' /\ \A f \in Enclave : hv[f] = "running" => hv'[f] # "none"
  <2>1. CASE CreateVm(e)
    BY <1>0, <2>1 DEF StopInv, CreateVm
  <2>2. CASE AddVcpu(e) \/ SetUserMemoryRegion(e) \/ Close(e)
    <3>1. UNCHANGED <<hv, info, state>>
      BY Zenon, <2>2 DEF AddVcpu, SetUserMemoryRegion, Close
    <3> QED
      BY <1>0, <3>1 DEF StopInv
  <2>3. CASE RequestStart(e) \/ StartReply(e)
    BY <1>0, <2>3 DEF StopInv, RequestStart, StartReply, Ioctl
  <2>4. CASE EnclaveExits(e)
    BY <1>0, <2>4 DEF StopInv, EnclaveExits
  <2>5. CASE LockForRelease(e)
    BY Zenon, <1>0, <2>5 DEF StopInv, LockForRelease, encVars
  <2>6. CASE StopEnclave(e)
    BY <1>0, <2>6 DEF StopInv, StopEnclave
  <2>7. CASE FreeSlot(e)
    <3>1. hv[e] # "running"
      BY <1>0, <2>7 DEF StopInv, FreeSlot, ReadyToFree, NeedsStop
    <3> QED
      BY <1>0, <2>7, <3>1 DEF StopInv, FreeSlot
  <2>8. CASE ReleaseFails(e)
    BY <1>0, <2>8 DEF StopInv, ReleaseFails
  <2> QED
    BY Zenon, <1>3, <2>1, <2>2, <2>3, <2>4, <2>5, <2>6, <2>7, <2>8 DEF EnclaveStep, Finish
<1> QED
  BY <1>1, <1>2, <1>3 DEF Next, Worker

(* As long as SLOT_INFO is answered in time, ne_enclave_release frees the slot  *)
(* of no running enclave, whatever starts, exits and worker come in between.    *)
THEOREM SlotsFreedWhenStopped ==
  ASSUME "timeout" \notin Faults
  PROVE  Spec => FreedOnlyWhenStopped
<1>1. Init => StopInv
  BY DEF Init, StopInv
<1>2. TypeOK /\ StopInv /\ [Next]_vars => StopInv'
  BY NextStopInv
<1>3. TypeOK /\ StopInv /\ [Next]_vars => [\A e \in Enclave : hv[e] = "running" => hv'[e] # "none"]_vars
  BY NextStopInv
<1> QED
  BY <1>1, <1>2, <1>3, InitTypeOK, NextTypeOK, PTL DEF Spec, FreedOnlyWhenStopped

--------------------------------------------------------------------------------
(* Every CPU has a place, an enclave without a slot holds none, and the masks   *)
(* of the pool stay where threads were taken from.                              *)
PlaceInv ==
  /\ param = "idle"
  /\ \A c \in Cpu : \/ c \in online
                    \/ \E i \in CoreId : c \in avail[i]
                    \/ \E e \in Enclave, i \in CoreId : c \in cores[e][i]
  /\ \A e \in Enclave, i \in CoreId : cores[e][i] # {} => poolSet /\ hv[e] # "none"
  /\ \A e \in Enclave : file[e] = "open" => hv[e] # "none"

(* While ne_cpus is not written, no step leaves a CPU without a place.          *)
LEMMA NextPlaceInv ==
  ASSUME "param" \notin Faults, TypeOK, PlaceInv, [Next]_vars
  PROVE  PlaceInv'
<1>0. /\ avail \in Core /\ cores \in [Enclave -> Core]
      /\ file \in [Enclave -> {"none", "open", "closed", "gone", "leaked"}]
      /\ hv \in [Enclave -> {"none", "idle", "running", "exited"}]
  BY DEF TypeOK
<1>1. CASE Parameter
  BY <1>1 DEF PlaceInv, Parameter, CheckEnclavesCreated, CopyParam, TeardownForNewPool, CopyParamFails,
              SetupCpuPool, Happens
<1>2. CASE LockForCreate \/ CreateVmFails \/ Worker \/ Rest \/ UNCHANGED vars
  <2>1. UNCHANGED <<cpuVars, cores, file, hv>>
    BY Zenon, <1>2 DEF LockForCreate, CreateVmFails, Worker, WorkStarts, NotifyEnclave, WorkEnds, Rest, vars, encVars
  <2> QED
    BY Zenon, <2>1 DEF PlaceInv, cpuVars
<1>3. ASSUME NEW e \in Enclave, EnclaveStep(e) PROVE PlaceInv'
  <2>1. CASE CreateVm(e) \/ SetUserMemoryRegion(e) \/ RequestStart(e) \/ StartReply(e) \/ EnclaveExits(e)
             \/ Close(e) \/ LockForRelease(e) \/ StopEnclave(e) \/ ReleaseFails(e)
    <3>1. UNCHANGED <<cpuVars, cores>>
      BY <2>1, Zenon DEF CreateVm, SetUserMemoryRegion, RequestStart, StartReply, EnclaveExits, Close,
                         LockForRelease, StopEnclave, ReleaseFails, encVars
    <3>2. \A f \in Enclave : hv[f] # "none" => hv'[f] # "none"
      <4>1. UNCHANGED hv \/ \E v \in {"idle", "running", "exited"} : hv' = [hv EXCEPT ![e] = v]
        BY <2>1, Zenon DEF CreateVm, SetUserMemoryRegion, RequestStart, StartReply, EnclaveExits, Close,
                           LockForRelease, StopEnclave, ReleaseFails, encVars
      <4> QED
        BY <1>0, <4>1
    <3>3. \A f \in Enclave : file'[f] = "open" => file[f] = "open" \/ hv'[f] # "none"
      <4>1. CASE CreateVm(e)
        BY <1>0, <4>1 DEF CreateVm
      <4>2. CASE ~CreateVm(e)
        <5>1. UNCHANGED file \/ \E v \in {"closed", "leaked"} : file' = [file EXCEPT ![e] = v]
          BY <2>1, <4>2, Zenon DEF SetUserMemoryRegion, RequestStart, StartReply, EnclaveExits, Close,
                                   LockForRelease, StopEnclave, ReleaseFails, encVars
        <5> QED
          BY <1>0, <5>1
      <4> QED
        BY <4>1, <4>2
    <3> QED
      BY Zenon, <3>1, <3>2, <3>3 DEF PlaceInv, cpuVars
  <2>2. CASE AddVcpu(e)
    <3>1. UNCHANGED <<online, poolSet, param, file, hv>> /\ file[e] = "open"
      BY Zenon, <2>2 DEF AddVcpu, Ioctl
    <3>2. CASE UNCHANGED <<cores, avail>>
      BY Zenon, <3>1, <3>2 DEF PlaceInv
    <3>3. ASSUME NEW i \in CoreId, poolSet, TakeCore(e, i) PROVE PlaceInv'
      <4>1. /\ cores'[e][i] = cores[e][i] \cup avail[i]
            /\ \A f \in Enclave, j \in CoreId : <<f, j>> # <<e, i>> => cores'[f][j] = cores[f][j]
            /\ \A j \in CoreId \ {i} : avail'[j] = avail[j]
        BY <1>0, <3>3 DEF TakeCore, Core
      <4> QED
        BY <3>1, <3>3, <4>1 DEF PlaceInv
    <3> QED
      BY Zenon, <2>2, <3>2, <3>3 DEF AddVcpu
  <2>3. CASE FreeSlot(e)
    <3>1. UNCHANGED <<online, poolSet, param>> /\ file'[e] = "gone"
          /\ \A f \in Enclave \ {e} : file'[f] = file[f] /\ hv'[f] = hv[f] /\ cores'[f] = cores[f]
      BY <1>0, <2>3 DEF FreeSlot, ReturnCores
    <3>2. \A i \in CoreId : cores'[e][i] = {}
      BY <1>0, <2>3 DEF FreeSlot, ReturnCores, NoCore
    <3>3. \A i \in CoreId : avail'[i] = avail[i] \cup cores[e][i]
      BY <1>0, <2>3 DEF FreeSlot, ReturnCores, PlaceInv, Core
    <3> QED
      BY <3>1, <3>2, <3>3 DEF PlaceInv
  <2> QED
    BY <1>3, <2>1, <2>2, <2>3 DEF EnclaveStep, Finish
<1> QED
  BY <1>1, <1>2, <1>3 DEF Next

(* While ne_cpus is not written, every CPU the driver took offline is in the    *)
(* pool or with an enclave that has its slot, through every failed and retried  *)
(* request; the pool of the boot parameter has to fit the array of its cores.   *)
THEOREM CpusAreNeverLost ==
  ASSUME "param" \notin Faults, \A c \in BootList : CoreIndex(BootList, c) \in CoreId
  PROVE  Spec => []NoCpuLost
<1>1. Init => PlaceInv
  <2> SUFFICES ASSUME Init PROVE PlaceInv
    OBVIOUS
  <2>1. \A c \in BootList : \E i \in CoreId : c \in avail[i]
    BY DEF Init, Split
  <2>2. \A e \in Enclave, i \in CoreId : cores[e][i] = {}
    BY DEF Init, NoCore
  <2> QED
    BY Zenon, <2>1, <2>2 DEF Init, PlaceInv
<1>2. TypeOK /\ PlaceInv /\ [Next]_vars => PlaceInv'
  BY NextPlaceInv
<1>3. TypeOK /\ PlaceInv => NoCpuLost
  <2> SUFFICES ASSUME TypeOK, PlaceInv PROVE NoCpuLost
    OBVIOUS
  <2> DEFINE Places == online \cup (UNION {avail[i] : i \in CoreId})
                              \cup (UNION {Held(e) : e \in {f \in Enclave : hv[f] # "none"}})
  <2>1. Places \subseteq Cpu
    BY DEF TypeOK, Core, Held
  <2>2. Cpu \subseteq Places
    BY DEF PlaceInv, Held
  <2> QED
    BY <2>1, <2>2 DEF NoCpuLost
<1> QED
  BY <1>1, <1>2, <1>3, InitTypeOK, NextTypeOK, PTL DEF Spec

================================================================================
