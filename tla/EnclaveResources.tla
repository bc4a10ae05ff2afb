--------------------------- MODULE EnclaveResources ---------------------------
(***************************************************************************)
(* The computations of a launch: how much memory is asked for, which huge  *)
(* pages are kept, where the bytes of the image go, which CPUs are asked   *)
(* for and how long the boot may take (src/enclave_proc/resource_manager.rs*)
(* and src/enclave_proc/cpu_info.rs). Sizes are in small units and machine *)
(* integers in few bits, so that the edges of both can be reached.         *)
(***************************************************************************)
EXTENDS Integers, Sequences, FiniteSets, FiniteSetsExt, Functions

CONSTANTS
  W64, W32,      \* 2^64 and 2^32, scaled
  MiB,           \* 1 << 20, scaled
  TimeoutBlock,  \* 6 * GiB, scaled
  MinuteMs,      \* TIMEOUT_MINUTE_MS, scaled
  HugePages,     \* the sizes of HUGE_PAGE_MAP, in descending order
  Offset         \* memory_offset of NE_GET_IMAGE_LOAD_INFO

ASSUME ResourceAssumption ==
  /\ HugePages \in Seq(Nat) /\ Offset \in Nat
  /\ W64 \in Nat \ {0} /\ MiB \in Nat \ {0} /\ W64 % MiB = 0

(* `as i64`, `as i32`: two's complement *)
Signed(n, w) == IF n % w >= w \div 2 THEN (n % w) - w ELSE n % w

Saturate(n, w) == IF n >= w \div 2 THEN w \div 2 - 1 ELSE IF n < -(w \div 2) THEN -(w \div 2) ELSE n

(* memory_mib << 20 on u64 *)
RequestedMem(mib) == (mib * MiB) % W64

(* Mutant: the image may fill the memory. *)
ImageFitsMemory(eifSize, mib) == eifSize <= RequestedMem(mib)

(* ENCLAVE_MEMORY_EIF_SIZE_RATIO: memory for four times the image is asked for. *)
EnoughForImage(eifSize, mib) == (4 * eifSize) % W64 <= RequestedMem(mib)

SizeOf(regions) ==
  LET sum[n \in 0..Len(regions)] == IF n = 0 THEN 0 ELSE sum[n - 1] + regions[n].size
  IN  sum[Len(regions)]

(* As many of the regions, from the first one on, as cover what is needed.      *)
Cover(regions, needed) ==
  SubSeq(regions, 1,
         Min({n \in 0..Len(regions) : n = Len(regions) \/ SizeOf(SubSeq(regions, 1, n)) >= needed}))

(* A stable sort: a region comes after the larger ones and after those of its   *)
(* size that were before it.                                                    *)
Rank(regions, i) ==
  Cardinality({j \in DOMAIN regions : \/ regions[j].size > regions[i].size
                                      \/ regions[j].size = regions[i].size /\ j <= i})

LargestFirst(regions) ==
  [k \in 1..Len(regions) |-> regions[CHOOSE i \in DOMAIN regions : Rank(regions, i) = k]]

(* Mutant: the regions are kept in the order they were mapped in. *)
KeepUnsorted(regions, needed) == Cover(regions, needed)

(* The end of allocate: larger regions first, and of these only as many as      *)
(* cover what is needed.                                                        *)
KeepNeeded(regions, needed) == Cover(LargestFirst(regions), needed)

(* One turn of the loop of write_eif_to_regions. The file is read on from where *)
(* the turn before stopped; <<k, a>> says that byte k of it went to address a.  *)
FillRegion(w, size, fileSize) ==
  LET regionOffset == Max({0, Offset - w.total})
      fileOffset   == Max({0, w.total - Offset})
      n            == Min({size - regionOffset, fileSize - fileOffset})
  IN  IF w.total >= fileSize + Offset \/ w.total + size <= Offset
      THEN [w EXCEPT !.total = @ + size]
      ELSE [total  |-> w.total + size,
            cursor |-> w.cursor + n,
            image  |-> w.image \cup {<<w.cursor + k, w.total + regionOffset + k>> : k \in 0..n - 1}]

WriteEif(regions, fileSize) ==
  LET written[n \in 0..Len(regions)] ==
        IF n = 0 THEN [total |-> 0, cursor |-> 0, image |-> {}]
                 ELSE FillRegion(written[n - 1], regions[n].size, fileSize)
  IN  written[Len(regions)].image

(* Mutant: the product wraps. *)
WrappingTimeout(eifSize) ==
  Signed(Signed(1 + ((eifSize - 1) % W64) \div TimeoutBlock, W32) * MinuteMs, W32)

(* calculate_necessary_timeout; poll takes a negative result for "no limit".    *)
CalculateNecessaryTimeout(eifSize) ==
  Saturate(Signed(1 + ((eifSize - 1) % W64) \div TimeoutBlock, W32) * MinuteMs, W32)

--------------------------------------------------------------------------------
(* CPUs *)

(* parse_cpu_pool_line: an entry of the pool file is one CPU, an interval of    *)
(* CPUs or malformed; an interval that runs backwards is empty.                 *)
PoolEntryOK(entry) == Len(entry) \in {1, 2}

PoolEntry(entry) == [i \in 1..Max({0, entry[Len(entry)] - entry[1] + 1}) |-> entry[1] + i - 1]

GetCpuInfo(file) ==
  LET cpus[n \in 0..Len(file)] == IF n = 0 THEN <<>> ELSE cpus[n - 1] \o PoolEntry(file[n])
  IN  cpus[Len(file)]

(* Mutant: only duplicates are looked for. *)
NoDuplicates(ids, pool) == Cardinality(Range(ids)) = Len(ids)

CheckCpuIds(ids, pool) == Cardinality(Range(ids)) = Len(ids) /\ Range(ids) \subseteq Range(pool)

(* get_cpu_config: a list is preferred to a count. NE_ADD_VCPU is then called   *)
(* with each CPU of the list, or as often as counted with 0 for "any".          *)
CpuConfigOK(args, file) ==
  /\ \A i \in DOMAIN file : PoolEntryOK(file[i])
  /\ IF args.list # <<>> THEN CheckCpuIds(args.list, GetCpuInfo(file))
                         ELSE args.count <= Len(GetCpuInfo(file))

CpuRequests(args) == IF args.list # <<>> THEN args.list ELSE [i \in 1..args.count |-> 0]
================================================================================
