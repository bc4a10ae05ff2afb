-------------------------------- MODULE NeMemory --------------------------------
(***************************************************************************)
(* The memory of one enclave in the kernel driver: NE_SET_USER_MEMORY_     *)
(* REGION pins the huge pages behind a range of user addresses, merges     *)
(* those that are physically contiguous and adds the ranges to the slot,   *)
(* and the release of the enclave file unpins what is on the list. Sizes   *)
(* and addresses are multiples of NE_MIN_MEM_REGION_SIZE; the mutex of the *)
(* enclave makes each call atomic, though not all or nothing.              *)
(***************************************************************************)
EXTENDS Naturals, Sequences, FiniteSets, Functions

CONSTANTS
  Addr,        \* user addresses
  Page,        \* the user address at which each mapped page starts
  Size,        \* page_size
  Phys,        \* page_to_phys
  Usable,      \* pages that are huge and of the enclave's NUMA node
  RegionSize,  \* sizes user space asks for, 0 among them
  MaxRegions,  \* max_mem_regions
  MaxCalls     \* bound on the number of ioctls

Units(p) == Phys[p]..(Phys[p] + Size[p] - 1)

ASSUME MemoryAssumption ==
  /\ Addr \subseteq Nat /\ Page \subseteq Addr /\ Usable \subseteq Page
  /\ RegionSize \subseteq Nat /\ MaxRegions \in Nat /\ MaxCalls \in Nat
  /\ Size \in [Page -> Nat \ {0}] /\ Phys \in [Page -> Nat]
  /\ \A p, q \in Page : p # q => Units(p) \cap Units(q) = {} /\ ~(p < q /\ q < p + Size[p])

VARIABLES
  calls,       \* ioctls so far
  open,        \* the enclave file is open
  entries,     \* mem_regions_list, oldest first
  refs,        \* references of the driver on each page
  slot,        \* what the device was told to add: physical ranges, in order
  memSize,     \* ne_enclave.mem_size
  nrRegions    \* ne_enclave.nr_mem_regions

vars == <<calls, open, entries, refs, slot, memSize, nrRegions>>

Init ==
  /\ calls = 0 /\ open = TRUE /\ entries = <<>> /\ refs = [p \in Page |-> 0]
  /\ slot = <<>> /\ memSize = 0 /\ nrRegions = 0

Length(r) == r.end - r.start + 1

(* The sum of a sequence of numbers.                                            *)
Sum(s) ==
  LET f[n \in 0..Len(s)] == IF n = 0 THEN 0 ELSE f[n - 1] + s[n]
  IN  f[Len(s)]

Lengths(ranges) == [i \in 1..Len(ranges) |-> Length(ranges[i])]

Sizes(pages) == [i \in 1..Len(pages) |-> Size[pages[i]]]

(* The page get_user_pages returns for an address.                              *)
Behind(a) == {p \in Page : p <= a /\ a < p + Size[p]}

(* ne_sanity_check_user_mem_region: the range meets no region already set.      *)
UserRegionFree(addr, size) ==
  \A i \in DOMAIN entries :
    /\ ~(entries[i].addr <= addr /\ addr < entries[i].addr + entries[i].size)
    /\ ~(addr <= entries[i].addr /\ addr + size > entries[i].addr)

(* ne_sanity_check_user_mem_region_page: a huge page of the right node; the     *)
(* size of a tail page is 4 KiB, not a multiple of 2 MiB.                       *)
SanePage(p, a) == p \in Usable /\ a = p

(* Mutant: a contiguous page replaces the range it should extend. *)
MergeReplacing(ranges, p) ==
  LET page == [start |-> Phys[p], end |-> Phys[p] + Size[p] - 1]
  IN  IF ranges # <<>> /\ ranges[Len(ranges)].end + 1 = page.start
      THEN [ranges EXCEPT ![Len(ranges)] = page]
      ELSE Append(ranges, page)

(* ne_merge_phys_contig_memory_regions                                          *)
Merge(ranges, p) ==
  LET page == [start |-> Phys[p], end |-> Phys[p] + Size[p] - 1]
  IN  IF ranges # <<>> /\ ranges[Len(ranges)].end + 1 = page.start
      THEN [ranges EXCEPT ![Len(ranges)].end = page.end]
      ELSE Append(ranges, page)

(* One turn of the loop over the pages of a region. A page that get_user_pages  *)
(* returned and a check refused is not counted in nr_pages: "stray" keeps it.   *)
NextPage(s, addr, size) ==
  LET a == addr + s.len
  IN  IF Len(s.pages) = size \/ Behind(a) = {}
      THEN [s EXCEPT !.end = "failed"]
      ELSE LET p == CHOOSE q \in Page : q \in Behind(a)
           IN  IF ~SanePage(p, a)
               THEN [s EXCEPT !.end = "failed", !.stray = {p}]
               ELSE [pages |-> Append(s.pages, p), ranges |-> Merge(s.ranges, p),
                     len |-> s.len + Size[p], stray |-> {},
                     end |-> IF s.len + Size[p] < size THEN "no" ELSE "done"]

NothingWalked == [pages |-> <<>>, ranges |-> <<>>, len |-> 0, stray |-> {}, end |-> "no"]

Turn(s, addr, size) == IF s.end = "no" THEN NextPage(s, addr, size) ELSE s

(* The loop, which ends because every turn adds a page or fails.                *)
Walk(addr, size) ==
  LET f[n \in 0..(size + 1)] == IF n = 0 THEN NothingWalked ELSE Turn(f[n - 1], addr, size)
  IN  f[size + 1]

Pin(pages) == refs' = [p \in Page |-> IF p \in pages THEN refs[p] + 1 ELSE refs[p]]

FitsSlot(ranges) == nrRegions + Len(ranges) <= MaxRegions

(* A region that is refused puts its pages again, except the stray one.         *)
RefuseRegion(addr, size) ==
  /\ LET s == Walk(addr, size)
     IN  \/ ~UserRegionFree(addr, size) /\ UNCHANGED refs
         \/ UserRegionFree(addr, size) /\ s.end = "failed" /\ Pin(s.stray)
         \/ UserRegionFree(addr, size) /\ s.end = "done" /\ ~FitsSlot(s.ranges) /\ UNCHANGED refs
  /\ UNCHANGED <<entries, slot, memSize, nrRegions>>

(* Mutant: the pages are put when a request fails. *)
AddRegionPutting(addr, size) ==
  LET s == Walk(addr, size)
  IN  /\ UserRegionFree(addr, size) /\ s.end = "done" /\ FitsSlot(s.ranges)
      /\ \E n \in 0..Len(s.ranges) :
           LET added == SubSeq(s.ranges, 1, n)
           IN  /\ slot' = slot \o added
               /\ memSize' = memSize + Sum(Lengths(added))
               /\ nrRegions' = nrRegions + n
               /\ IF n = Len(s.ranges)
                  THEN Pin(Range(s.pages)) /\ entries' = Append(entries, [addr |-> addr, size |-> size, pages |-> s.pages])
                  ELSE UNCHANGED <<refs, entries>>

(* Mutant: mem_size grows by the size user space gave. *)
AddRegionAsAsked(addr, size) ==
  LET s == Walk(addr, size)
  IN  /\ UserRegionFree(addr, size) /\ s.end = "done" /\ FitsSlot(s.ranges)
      /\ Pin(Range(s.pages))
      /\ entries' = Append(entries, [addr |-> addr, size |-> size, pages |-> s.pages])
      /\ slot' = slot \o s.ranges
      /\ memSize' = memSize + size
      /\ nrRegions' = nrRegions + Len(s.ranges)

(* A region that passes is listed with its pages pinned; then its ranges are    *)
(* added to the slot until one of the requests fails.                           *)
AddRegion(addr, size) ==
  LET s == Walk(addr, size)
  IN  /\ UserRegionFree(addr, size) /\ s.end = "done" /\ FitsSlot(s.ranges)
      /\ Pin(Range(s.pages))
      /\ entries' = Append(entries, [addr |-> addr, size |-> size, pages |-> s.pages])
      /\ \E n \in 0..Len(s.ranges) :
           LET added == SubSeq(s.ranges, 1, n)
           IN  /\ slot' = slot \o added
               /\ memSize' = memSize + Sum(Lengths(added))
               /\ nrRegions' = nrRegions + n

SetUserMemoryRegion ==
  /\ open /\ calls < MaxCalls /\ calls' = calls + 1
  /\ \E addr \in Addr, size \in RegionSize : RefuseRegion(addr, size) \/ AddRegion(addr, size)
  /\ UNCHANGED open

(* Mutant: the first page of each region is forgotten. *)
PutButFirst ==
  refs' = [p \in Page |-> refs[p] - Cardinality({i \in DOMAIN entries : p \in Range(Tail(entries[i].pages))})]

(* ne_enclave_remove_all_mem_region_entries                                     *)
PutAll ==
  refs' = [p \in Page |-> refs[p] - Cardinality({i \in DOMAIN entries : p \in Range(entries[i].pages)})]

(* ne_enclave_release, after the slot was freed                                 *)
Release ==
  /\ open /\ open' = FALSE
  /\ PutAll /\ entries' = <<>> /\ slot' = <<>>
  /\ UNCHANGED <<calls, memSize, nrRegions>>

Gone == ~open /\ UNCHANGED vars

Next == SetUserMemoryRegion \/ Release \/ Gone

Spec == Init /\ [][Next]_vars

--------------------------------------------------------------------------------
(* Properties *)

Donated(i) == slot[i].start..slot[i].end

(* Memory the device may give to the enclave stays pinned, even when the        *)
(* request for a later range of the same region failed.                         *)
DonatedIsPinned ==
  \A i \in DOMAIN slot : \A u \in Donated(i) : \E p \in Page : u \in Units(p) /\ refs[p] > 0

(* mem_size, which NE_START_ENCLAVE compares with the minimum, is the memory    *)
(* the device was told of, also after a request failed half way.                *)
SizeIsDonated == open => memSize = Cardinality(UNION {Donated(i) : i \in DOMAIN slot})

(* Merging neither loses nor invents memory: a region all of whose requests     *)
(* succeed adds exactly its pages, and no less than user space asked for.       *)
AddsItsPages ==
  [][Len(entries') > Len(entries) =>
       LET new == entries'[Len(entries')]
           sum == Sum(Sizes(new.pages))
       IN  /\ memSize' <= memSize + sum /\ new.size <= sum
           /\ nrRegions' - nrRegions = Len(Walk(new.addr, new.size).ranges) => memSize' = memSize + sum]_vars

(* The release unpins every page a region had. Only a page that a check refused *)
(* can stay pinned: an unusable one, or one named by an address inside it.      *)
ReleaseUnpins == ~open => \A p \in Page : p \in Usable /\ Size[p] = 1 => refs[p] = 0

================================================================================
