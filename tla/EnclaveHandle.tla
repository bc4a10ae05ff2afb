----------------------------- MODULE EnclaveHandle -----------------------------
(***************************************************************************)
(* The resources behind one enclave (src/enclave_proc/resource_manager.rs):*)
(* the driver's descriptor, the huge pages, the image, the CPUs and the    *)
(* CID, from the arguments of run-enclave to the last destructor, with     *)
(* every place at which run-enclave may fail and with the terminate        *)
(* threads that share the handle. Other launches compete for huge pages,   *)
(* and the image file may be written again meanwhile.                      *)
(***************************************************************************)
EXTENDS EnclaveResources

CONSTANTS
  Args,        \* arguments of run-enclave: [cid, mem, list, count]
  PoolFiles,   \* contents of the CPU pool file
  CpuSets,     \* CPUs the driver can still give
  FreePages,   \* free huge pages per size, as on HugePages
  EifSizes,    \* sizes of the image file
  MinMem,      \* NE_MIN_ENCLAVE_MEM_SIZE, checked by the driver
  Thread       \* terminate threads that may be started

ASSUME HandleAssumption ==
  /\ Args \subseteq [cid : BOOLEAN, mem : Nat, list : Seq(Nat), count : Nat]
  /\ FreePages \subseteq [DOMAIN HugePages -> Nat]
  /\ EifSizes \subseteq Nat /\ MinMem \in Nat

(* The driver's smallest memory leaves room for the offset, and four times the  *)
(* size of a file does not wrap.                                                *)
ASSUME RatioAssumption == 3 * MinMem >= 4 * Offset /\ \A n \in EifSizes : 4 * n < W64

(* CPU 0 has to remain available to the parent: the driver refuses a pool with  *)
(* it.                                                                          *)
ASSUME PoolAssumption == \A f \in PoolFiles : 0 \notin Range(GetCpuInfo(f))

VARIABLES
  args, poolFile,
  eif,         \* size of the image file
  rewritten,   \* the image file was written again during the launch
  freePages, freeCpus,
  pc,          \* the thread that runs the enclave
  idx, needed, \* locals of allocate
  pages,       \* every page mapped so far: "mapped" or "unmapped"
  held,        \* resource_allocator.mem_regions
  image,       \* where the bytes of the image file were written
  donated,     \* pages given to the driver
  cpuIds,      \* EnclaveHandle.cpu_ids
  timeout,     \* poll_timeout of create_enclave
  desc,        \* the enclave descriptor: "none", "open", "closed"
  vm,          \* the enclave in the driver: "none", "init", "running", "freed"
  cid,         \* EnclaveHandle.enclave_cid: "none", "set", "zero"
  state,       \* EnclaveHandle.state
  tpc,         \* the terminate threads
  clone        \* the pages of the allocator each of them cloned

given   == <<args, poolFile>>
file    == <<eif, rewritten>>
memory  == <<freePages, idx, needed, pages, held>>
launch  == <<image, donated, freeCpus, cpuIds, timeout>>
owned   == <<desc, vm, cid, state>>
threads == <<tpc, clone>>
vars    == <<given, file, memory, launch, owned, threads, pc>>

NoCid == cid \in {"none", "zero"}

PagesOf(regions) == {regions[i].page : i \in DOMAIN regions}

Init ==
  /\ args \in Args /\ poolFile \in PoolFiles
  /\ eif \in EifSizes /\ rewritten = FALSE
  /\ freePages \in FreePages /\ freeCpus \in CpuSets
  /\ pc = "config" /\ idx = 1 /\ needed = 0
  /\ pages = <<>> /\ held = <<>> /\ image = {} /\ donated = {} /\ cpuIds = <<>> /\ timeout = 0
  /\ desc = "none" /\ vm = "none" /\ cid = (IF args.cid THEN "set" ELSE "none") /\ state = "Empty"
  /\ tpc = [t \in Thread |-> "idle"] /\ clone = [t \in Thread |-> {}]

(* MemoryRegion::free on every region of an allocator. *)
Munmap(gone) == pages' = [p \in DOMAIN pages |-> IF p \in gone THEN "unmapped" ELSE pages[p]]

(* close(enc_fd): the driver stops the enclave and takes its resources back.   *)
ReleaseDescriptor == desc' = "closed" /\ vm' = "freed"

--------------------------------------------------------------------------------
(* run_enclaves *)

Goto(from, to) == pc = from /\ pc' = to /\ UNCHANGED threads

Step(from, to) == Goto(from, to) /\ UNCHANGED <<memory, launch, owned>>

(* Every fallible call on the way leaves run_enclaves with an error.           *)
Fail ==
  /\ \E p \in {"verify", "load", "donate", "cpus", "bind", "start", "report"} : Step(p, "unwind")
  /\ UNCHANGED file

(* CpuInfo::new and get_cpu_config *)
GetCpuConfig ==
  /\ Step("config", IF CpuConfigOK(args, poolFile) THEN "new" ELSE "failed")
  /\ UNCHANGED file

(* EnclaveHandle::new up to NE_CREATE_VM, which may fail as well.               *)
NewFails == Step("new", "failed") /\ UNCHANGED file

(* NE_CREATE_VM; ResourceAllocator::new refuses to allocate nothing, and then   *)
(* nobody owns the descriptor.                                                  *)
NewHandle ==
  /\ EnoughForImage(eif, args.mem)
  /\ Goto("new", IF RequestedMem(args.mem) = 0 THEN "failed" ELSE "verify")
  /\ desc' = "open" /\ vm' = "init"
  /\ UNCHANGED <<file, memory, launch, cid, state>>

(* PcrSignatureChecker::from_eif cannot read an empty file.                     *)
VerifySignature ==
  /\ eif > 0
  /\ Goto("verify", "large")
  /\ needed' = Signed(RequestedMem(args.mem), W64)
  /\ UNCHANGED <<file, freePages, idx, pages, held, launch, owned>>

(* MemoryRegion::new: one huge page of size HugePages[idx]                      *)
MapPage ==
  /\ freePages[idx] > 0
  /\ freePages' = [freePages EXCEPT ![idx] = @ - 1]
  /\ pages' = Append(pages, "mapped")
  /\ held' = Append(held, [page |-> Len(pages) + 1, size |-> HugePages[idx]])
  /\ needed' = needed - HugePages[idx]

(* allocate, first loop: larger pages first, as long as they fit.               *)
AllocateLarge ==
  /\ idx \in DOMAIN HugePages /\ needed >= HugePages[idx] /\ MapPage
  /\ Goto("large", "large")
  /\ UNCHANGED <<file, idx, launch, owned>>

NextSmaller ==
  /\ idx \in DOMAIN HugePages /\ (needed < HugePages[idx] \/ freePages[idx] = 0)
  /\ idx' = idx + 1
  /\ Goto("large", "large")
  /\ UNCHANGED <<file, freePages, needed, pages, held, launch, owned>>

SecondLoop ==
  /\ idx \notin DOMAIN HugePages
  /\ idx' = Len(HugePages)
  /\ Goto("large", "small")
  /\ UNCHANGED <<file, freePages, needed, pages, held, launch, owned>>

(* Second loop: smaller pages first, until nothing more is needed.              *)
AllocateSmall ==
  /\ idx \in DOMAIN HugePages /\ needed > 0 /\ MapPage
  /\ Goto("small", "small")
  /\ UNCHANGED <<file, idx, launch, owned>>

NextLarger ==
  /\ idx \in DOMAIN HugePages /\ needed > 0 /\ freePages[idx] = 0
  /\ idx' = idx - 1
  /\ Goto("small", "small")
  /\ UNCHANGED <<file, freePages, needed, pages, held, launch, owned>>

OutOfMemory == idx = 0 /\ needed > 0 /\ Step("small", "unwind") /\ UNCHANGED file

(* The regions that are not needed are unmapped.                                *)
Trim ==
  /\ needed <= 0
  /\ Goto("small", "check")
  /\ held' = KeepNeeded(held, Signed(RequestedMem(args.mem), W64))
  /\ Munmap(PagesOf(held) \ PagesOf(held'))
  /\ UNCHANGED <<file, freePages, idx, needed, launch, owned>>

(* Another launch on this instance maps a huge page.                            *)
OtherLaunch ==
  /\ pc \in {"large", "small"}
  /\ \E i \in DOMAIN freePages :
       freePages[i] > 0 /\ freePages' = [freePages EXCEPT ![i] = @ - 1]
  /\ UNCHANGED <<pc, file, idx, needed, pages, held, launch, owned, threads>>

(* init_memory compares what was allocated with what was requested, in MiB.     *)
CheckAllocated ==
  /\ Step("check", IF SizeOf(held) \div MiB < RequestedMem(args.mem) \div MiB THEN "unwind" ELSE "load")
  /\ UNCHANGED file

(* NE_GET_IMAGE_LOAD_INFO and write_eif_to_regions                              *)
LoadImage ==
  /\ Goto("load", "donate")
  /\ image' = WriteEif(held, eif)
  /\ UNCHANGED <<file, memory, donated, freeCpus, cpuIds, timeout, owned>>

(* NE_SET_USER_MEMORY_REGION, region by region                                  *)
Donate ==
  /\ Cardinality(donated) < Len(held)
  /\ Goto("donate", "donate")
  /\ donated' = donated \cup {held[Cardinality(donated) + 1].page}
  /\ UNCHANGED <<file, memory, image, freeCpus, cpuIds, timeout, owned>>

AllDonated == donated = PagesOf(held) /\ Step("donate", "cpus") /\ UNCHANGED file

(* init_single_cpu: NE_ADD_VCPU gives the CPU asked for, or any for 0.          *)
InitSingleCpu ==
  LET asked == CpuRequests(args)[Len(cpuIds) + 1]
  IN  /\ Len(cpuIds) < Len(CpuRequests(args))
      /\ Goto("cpus", "cpus")
      /\ \E c \in freeCpus :
           /\ asked \in {0, c}
           /\ freeCpus' = freeCpus \ {c}
           /\ cpuIds' = Append(cpuIds, c)
      /\ UNCHANGED <<file, memory, image, donated, timeout, owned>>

AllCpus == Len(cpuIds) = Len(CpuRequests(args)) /\ Step("cpus", "bind") /\ UNCHANGED file

(* The heartbeat's port is taken while another enclave boots.                   *)
BindHeartbeat == Step("bind", "start") /\ UNCHANGED file

(* NE_START_ENCLAVE; the message to the CLI that follows may fail.              *)
Start ==
  /\ SizeOf(held) >= MinMem /\ cpuIds # <<>>
  /\ vm' = "running"
  /\ pc = "start" /\ pc' \in {"size", "unwind"}
  /\ UNCHANGED <<file, memory, launch, desc, cid, state, threads>>

(* The size of the image file is read again for the time-out.                   *)
SetTimeout ==
  /\ Goto("size", "boot")
  /\ timeout' = CalculateNecessaryTimeout(eif)
  /\ UNCHANGED <<file, memory, image, donated, freeCpus, cpuIds, owned>>

(* enclave_ready: the enclave connects to the heartbeat's port ...              *)
HeartbeatConnects == Step("boot", "beat") /\ UNCHANGED file

(* ... its byte arrives, is answered, and the CID becomes known ...             *)
BootSucceeds ==
  /\ Goto("beat", "report")
  /\ cid' = "set"
  /\ UNCHANGED <<file, memory, launch, desc, vm, state>>

(* Mutant: the regions are released and the descriptor is kept. *)
TerminateKeepsDescriptor ==
  IF NoCid
  THEN UNCHANGED <<desc, vm, cid, held, pages>>
  ELSE /\ UNCHANGED <<desc, vm>>
       /\ Munmap(PagesOf(held)) /\ held' = <<>>
       /\ cid' = "zero"

(* EnclaveHandle::terminate_enclave: only a handle that knows its CID releases  *)
(* the descriptor, then the memory, and clears itself.                          *)
TerminateEnclave ==
  IF NoCid
  THEN UNCHANGED <<desc, vm, cid, held, pages>>
  ELSE /\ ReleaseDescriptor
       /\ Munmap(PagesOf(held)) /\ held' = <<>>
       /\ cid' = "zero"

(* ... or polling, accepting or reading fails, or poll returns after its        *)
(* time-out, and terminate_enclave_error is called.                             *)
BootFails(from) ==
  /\ Goto(from, "unwind")
  /\ TerminateEnclave
  /\ UNCHANGED <<file, freePages, idx, needed, launch, state>>

PollTimeout == timeout >= 0 /\ BootFails("boot")

BeatFails == BootFails("beat")

(* The description reaches the CLI; EnclaveState becomes Running.               *)
Report ==
  /\ Goto("report", "serve")
  /\ state' = "Running"
  /\ UNCHANGED <<file, memory, launch, desc, vm, cid>>

(* EnclaveHandle::drop terminates an enclave it still owns; then the allocator, *)
(* a field of the handle, unmaps every address it holds.                        *)
DropHandle ==
  /\ held' = <<>>
  /\ Munmap(PagesOf(held))
  /\ IF NoCid THEN UNCHANGED <<desc, vm, cid>> ELSE ReleaseDescriptor /\ cid' = "zero"

(* A failed run drops the manager before the error is reported.                 *)
Unwind ==
  /\ Goto("unwind", "failed")
  /\ DropHandle
  /\ UNCHANGED <<file, freePages, idx, needed, launch, state>>

(* Another command writes the image file again, which truncates it first.       *)
Rewrite ==
  /\ ~rewritten /\ pc \notin {"config", "serve", "drop", "unwind", "failed", "end", "gone"}
  /\ rewritten' = TRUE
  /\ eif' \in (EifSizes \cup {0}) \ {eif}
  /\ UNCHANGED <<pc, memory, launch, owned, threads>>

--------------------------------------------------------------------------------
(* The running enclave: terminate threads, then the end of the event loop       *)

Move(t, from, to) == tpc[t] = from /\ tpc' = [tpc EXCEPT ![t] = to]

(* A Terminate command; the event loop serves others meanwhile.                 *)
Spawn(t) ==
  /\ pc = "serve"
  /\ Move(t, "idle", "state")
  /\ UNCHANGED <<pages, owned, clone>>

(* Mutant: the state is left alone until the end. *)
SetNothing(t) == Move(t, "state", "get") /\ UNCHANGED <<pages, owned, clone>>

SetTerminating(t) ==
  /\ Move(t, "state", "get")
  /\ state' = "Terminating"
  /\ UNCHANGED <<pages, desc, vm, cid, clone>>

GetTerminationResources(t) ==
  /\ Move(t, "get", "close")
  /\ clone' = [clone EXCEPT ![t] = PagesOf(held)]
  /\ UNCHANGED <<pages, owned>>

(* A failing close drops the clone, which unmaps its regions all the same.      *)
CloseDescriptor(t) ==
  /\ \/ desc = "open" /\ Move(t, "close", "free") /\ ReleaseDescriptor /\ UNCHANGED <<pages, clone>>
     \/ /\ desc # "open" /\ Move(t, "close", "done")
        /\ Munmap(clone[t]) /\ clone' = [clone EXCEPT ![t] = {}]
        /\ UNCHANGED <<desc, vm>>
  /\ UNCHANGED <<cid, state>>

(* Mutant: the memory is not freed. *)
FreeNothing(t) == Move(t, "free", "clear") /\ UNCHANGED <<pages, owned, clone>>

FreeClone(t) ==
  /\ Move(t, "free", "clear")
  /\ Munmap(clone[t]) /\ clone' = [clone EXCEPT ![t] = {}]
  /\ UNCHANGED owned

(* EnclaveHandle::clear leaves the handle's own allocator as it is.             *)
Clear(t) ==
  /\ Move(t, "clear", "empty")
  /\ cid' = "zero"
  /\ UNCHANGED <<pages, desc, vm, state, clone>>

SetEmpty(t) ==
  /\ Move(t, "empty", "done")
  /\ state' = "Empty"
  /\ UNCHANGED <<pages, desc, vm, cid, clone>>

TerminateThread(t) ==
  /\ \/ Spawn(t) \/ SetTerminating(t) \/ GetTerminationResources(t) \/ CloseDescriptor(t)
     \/ FreeClone(t) \/ Clear(t) \/ SetEmpty(t)
  /\ UNCHANGED <<pc, file, freePages, idx, needed, held, launch>>

(* The event loop ends: after a termination, a signal or a hang-up.             *)
LeaveLoop == Step("serve", "drop") /\ UNCHANGED file

(* The last reference to the handle is dropped.                                 *)
DropManager ==
  /\ \A t \in Thread : tpc[t] \in {"idle", "done"}
  /\ Goto("drop", "end")
  /\ DropHandle
  /\ UNCHANGED <<file, freePages, idx, needed, launch, state>>

(* The enclave process exits after a failed run as after a served one; the      *)
(* kernel closes what it left open.                                             *)
ExitProcess ==
  /\ pc \in {"failed", "end"} /\ pc' = "gone"
  /\ IF desc = "open" THEN ReleaseDescriptor ELSE UNCHANGED <<desc, vm>>
  /\ Munmap(DOMAIN pages)
  /\ UNCHANGED <<file, freePages, idx, needed, held, launch, cid, state, threads>>

Rest == pc = "gone" /\ UNCHANGED <<pc, file, memory, launch, owned, threads>>

Allocate ==
  \/ AllocateLarge \/ NextSmaller \/ SecondLoop \/ AllocateSmall \/ NextLarger \/ OutOfMemory
  \/ Trim \/ CheckAllocated

Boot == SetTimeout \/ HeartbeatConnects \/ BootSucceeds \/ PollTimeout \/ BeatFails

Next ==
  /\ \/ GetCpuConfig \/ NewFails \/ NewHandle \/ VerifySignature \/ Fail \/ Allocate
     \/ LoadImage \/ Donate \/ AllDonated \/ InitSingleCpu \/ AllCpus \/ BindHeartbeat \/ Start
     \/ Boot \/ Report \/ Unwind \/ OtherLaunch \/ Rewrite
     \/ LeaveLoop \/ DropManager \/ ExitProcess \/ Rest
     \/ \E t \in Thread : TerminateThread(t)
  /\ UNCHANGED given

(* poll returns once its time-out is over, if it has one.                       *)
Spec == Init /\ [][Next]_vars /\ WF_vars(PollTimeout /\ UNCHANGED given)

--------------------------------------------------------------------------------
(* Properties *)

(* A handle that was cleared has given everything back: the descriptor is       *)
(* closed and no page is mapped any more, whichever of the termination paths    *)
(* (thread, failed boot, destructor) cleared it. Every path out of run-enclave, *)
(* failed or served, unmaps all that allocate mapped.                           *)
ClearedMeansReleased ==
  /\ cid = "zero" => desc = "closed" /\ \A p \in DOMAIN pages : pages[p] # "mapped"
  /\ pc \in {"failed", "end"} => \A p \in DOMAIN pages : pages[p] # "mapped"

(* describe-enclaves copies state, CID and memory under one lock: an enclave    *)
(* reported as RUNNING still has its descriptor, its CID and all its memory,    *)
(* even while terminate threads are at work.                                    *)
RunningIsIntact ==
  state = "Running" /\ pc \notin {"end", "gone"}
    => /\ desc = "open" /\ cid = "set" /\ donated = PagesOf(held)
       /\ \A p \in donated : pages[p] = "mapped"

(* Memory an enclave runs in is unmapped only after the descriptor is closed.   *)
(* It holds when the CID is known from the start.                               *)
UnmapAfterStop ==
  [][args.cid /\ (\E p \in donated : pages[p] = "mapped" /\ pages'[p] = "unmapped")
       => desc' = "closed"]_vars

(* allocate gives up only when no huge page of any size is left, whatever other *)
(* launches take meanwhile; what it keeps covers the request, also when the     *)
(* request does not fit a signed integer, and would not without any one of its  *)
(* regions.                                                                     *)
AllocationIsTight ==
  /\ pc = "small" /\ idx = 0 => \A i \in DOMAIN freePages : freePages[i] = 0
  /\ pc \in {"load", "donate", "cpus", "bind", "start", "size", "boot", "beat", "report", "serve"}
       => /\ SizeOf(held) >= RequestedMem(args.mem)
          /\ \A i \in DOMAIN held : SizeOf(held) - held[i].size < RequestedMem(args.mem)

(* An enclave is started only with its whole image in its memory, every byte at *)
(* its place. write_eif_to_regions does not say so when the regions end early:  *)
(* the ratio checked by EnclaveHandle::new and the driver's smallest memory     *)
(* together rule it out, as long as the file stays as it was.                   *)
ImageInPlace ==
  vm = "running" /\ ~rewritten => image = {<<k, Offset + k>> : k \in 0..eif - 1}

(* An enclave runs on the very CPUs that were listed, in that order, or on as   *)
(* many different ones as were counted. The driver takes 0 for "any CPU", so a  *)
(* listed 0 must not reach it.                                                  *)
CpusAsRequested ==
  vm = "running" => /\ args.list # <<>> => cpuIds = args.list
                    /\ args.list = <<>> => Cardinality(Range(cpuIds)) = args.count

(* The wait for the boot heartbeat ends, for every size of the image file,      *)
(* unless the file is emptied while the enclave is launched.                    *)
BootWaitEnds == pc = "boot" /\ ~rewritten ~> pc # "boot"

================================================================================
