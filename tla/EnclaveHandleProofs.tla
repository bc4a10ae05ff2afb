-------------------------- MODULE EnclaveHandleProofs --------------------------
(***************************************************************************)
(* Proofs about EnclaveHandle: any arguments, pages, images, pools and     *)
(* number of terminate threads.                                            *)
(***************************************************************************)
EXTENDS EnclaveHandle, FiniteSetTheorems, SequenceTheorems, WellFoundedInduction, TLAPS

Region == [page : Nat, size : Nat]

--------------------------------------------------------------------------------
(* The regions that allocate keeps *)

(* A non-empty set of numbers has a least one.                                  *)
LEMMA LeastIsMember ==
  ASSUME NEW S \in SUBSET Nat, S # {}
  PROVE  Min(S) \in S
<1> DEFINE R == {ss \in Nat \X Nat : ss[1] < ss[2]}
<1>1. IsWellFoundedOn(R, Nat)
  BY NatLessThanWellFounded, Zenon DEF OpToRel
<1> HIDE DEF R
<1>2. PICK x \in S : \A y \in S : ~(<<y, x>> \in R)
  BY Zenon, <1>1, WFMin
<1>3. \A y \in S : x =< y
  <2> SUFFICES ASSUME NEW y \in S PROVE ~(y < x)
    OBVIOUS
  <2> DEFINE ss == <<y, x>>
  <2>1. ss \in Nat \X Nat /\ ss[1] = y /\ ss[2] = x
    OBVIOUS
  <2>2. ~(ss \in R)
    BY <1>2
  <2> QED
    BY <2>1, <2>2 DEF R
<1> QED
  BY Zenon, <1>3 DEF Min

(* No member of the set is less.                                                *)
LEMMA LeastIsLeast ==
  ASSUME NEW S \in SUBSET Nat, NEW y \in S
  PROVE  Min(S) <= y
<1> DEFINE R == {ss \in Nat \X Nat : ss[1] < ss[2]}
<1>1. IsWellFoundedOn(R, Nat)
  BY NatLessThanWellFounded, Zenon DEF OpToRel
<1>2. \A a, b \in Nat : a < b => <<a, b>> \in R
  OBVIOUS
<1> HIDE DEF R
<1>3. PICK x \in S : \A z \in S : ~(<<z, x>> \in R)
  BY Zenon, <1>1, WFMin
<1>4. \A z \in S : x <= z
  <2> SUFFICES ASSUME NEW z \in S PROVE x <= z
    OBVIOUS
  <2>1. ~(z < x)
    BY Zenon, <1>2, <1>3
  <2> QED
    BY <2>1
<1> QED
  BY Zenon, <1>4 DEF Min

(* Cover keeps a beginning of the regions.                                      *)
LEMMA CoverKeeps ==
  ASSUME NEW regions \in Seq(Region), NEW n
  PROVE  /\ Cover(regions, n) \in Seq(Region)
         /\ PagesOf(Cover(regions, n)) \subseteq PagesOf(regions)
<1> DEFINE S == {m \in 0..Len(regions) : m = Len(regions) \/ SizeOf(SubSeq(regions, 1, m)) >= n}
           k == Min(S)
<1>1. Len(regions) \in S /\ S \in SUBSET Nat
  OBVIOUS
<1>2. k \in S
  BY <1>1, LeastIsMember
<1>3. k \in 0..Len(regions)
  BY <1>2
<1> HIDE DEF k, S
<1>4. /\ SubSeq(regions, 1, k) \in Seq(Region) /\ Len(SubSeq(regions, 1, k)) = k
      /\ \A i \in 1..k : SubSeq(regions, 1, k)[i] = regions[i]
  BY <1>3
<1>5. Cover(regions, n) = SubSeq(regions, 1, k)
  BY DEF Cover, k, S
<1> QED
  BY <1>3, <1>4, <1>5 DEF PagesOf

(* The ranks of the regions are the numbers from 1 on: sorting loses none.      *)
LEMMA RanksAreOnto ==
  ASSUME NEW regions \in Seq(Region)
  PROVE  \A k \in 1..Len(regions) : \E i \in DOMAIN regions : Rank(regions, i) = k
<1> DEFINE D == 1..Len(regions)
           Before(i) == {j \in D : \/ regions[j].size > regions[i].size
                                   \/ regions[j].size = regions[i].size /\ j <= i}
           f == [i \in D |-> Cardinality(Before(i))]
<1>1. D = DOMAIN regions /\ Len(regions) \in Nat /\ \A i \in D : regions[i].size \in Nat
  <2>1. D = DOMAIN regions /\ Len(regions) \in Nat /\ \A i \in D : regions[i] \in Region
    OBVIOUS
  <2> QED
    BY <2>1 DEF Region
<1>2. IsFiniteSet(D) /\ Cardinality(D) = Len(regions)
  <2>1. ASSUME NEW n \in Nat PROVE IsFiniteSet(1..n) /\ Cardinality(1..n) = n
    BY FS_Interval
  <2> QED
    BY <1>1, <2>1
<1>3. \A i \in D : Before(i) \in SUBSET D /\ i \in Before(i)
  BY <1>1
<1>4. \A i, j \in D : i # j =>
        \/ Before(i) \subseteq Before(j) /\ j \notin Before(i)
        \/ Before(j) \subseteq Before(i) /\ i \notin Before(j)
  <2> SUFFICES ASSUME NEW i \in D, NEW j \in D, i # j
               PROVE  \/ Before(i) \subseteq Before(j) /\ j \notin Before(i)
                      \/ Before(j) \subseteq Before(i) /\ i \notin Before(j)
    OBVIOUS
  <2>1. CASE regions[i].size > regions[j].size
    BY <1>1, <2>1
  <2>2. CASE regions[j].size > regions[i].size
    BY <1>1, <2>2
  <2>3. CASE regions[i].size = regions[j].size
    BY <1>1, <2>3
  <2> QED
    BY <1>1, <2>1, <2>2, <2>3
<1> HIDE DEF Before, D
<1>5. \A i \in D : IsFiniteSet(Before(i)) /\ Cardinality(Before(i)) \in D
  <2> SUFFICES ASSUME NEW i \in D PROVE IsFiniteSet(Before(i)) /\ Cardinality(Before(i)) \in D
    OBVIOUS
  <2>1. Before(i) \in SUBSET D /\ Before(i) # {}
    BY <1>3
  <2>2. IsFiniteSet(Before(i)) /\ Cardinality(Before(i)) <= Len(regions)
    BY <1>2, <2>1, FS_Subset
  <2>3. Cardinality(Before(i)) \in Nat /\ Cardinality(Before(i)) # 0
    BY <2>1, <2>2, FS_CardinalityType, FS_EmptySet
  <2> QED
    BY <1>1, <2>2, <2>3 DEF D
<1>6. \A i, j \in D : f[i] = f[j] => i = j
  <2> SUFFICES ASSUME NEW i \in D, NEW j \in D, i # j PROVE f[i] # f[j]
    OBVIOUS
  <2>1. CASE Before(i) \subseteq Before(j) /\ j \notin Before(i)
    <3>1. Before(i) \in SUBSET Before(j) /\ Before(i) # Before(j)
      BY <1>3, <2>1
    <3> QED
      BY <1>5, <3>1, FS_Subset
  <2>2. CASE Before(j) \subseteq Before(i) /\ i \notin Before(j)
    <3>1. Before(j) \in SUBSET Before(i) /\ Before(i) # Before(j)
      BY <1>3, <2>2
    <3> QED
      BY <1>5, <3>1, FS_Subset
  <2> QED
    BY <1>4, <2>1, <2>2
<1>7. f \in [D -> D]
  BY <1>5
<1> HIDE DEF f
<1>8. f \in Injection(D, D)
  BY <1>6, <1>7 DEF Injection, IsInjective
<1>9. f \in Surjection(D, D)
  BY <1>2, <1>8, FS_Injection
<1>10. \A k \in D : \E i \in D : f[i] = k
  BY <1>9 DEF Surjection
<1>11. \A i \in D : f[i] = Rank(regions, i)
  BY <1>1 DEF f, Rank, Before
<1> QED
  BY Zenon, <1>1, <1>10, <1>11 DEF D

(* Sorting gives regions that were there.                                       *)
LEMMA SortKeeps ==
  ASSUME NEW regions \in Seq(Region)
  PROVE  /\ LargestFirst(regions) \in Seq(Region)
         /\ PagesOf(LargestFirst(regions)) \subseteq PagesOf(regions)
<1> DEFINE at(k) == CHOOSE i \in DOMAIN regions : Rank(regions, i) = k
<1>1. \A k \in 1..Len(regions) : at(k) \in DOMAIN regions
  BY RanksAreOnto
<1> HIDE DEF at
<1>2. LargestFirst(regions) = [k \in 1..Len(regions) |-> regions[at(k)]]
  BY DEF LargestFirst, at
<1>3. \A k \in 1..Len(regions) : regions[at(k)] \in Region
  BY <1>1
<1> QED
  BY <1>1, <1>2, <1>3 DEF PagesOf

(* What allocate keeps, it had mapped.                                          *)
LEMMA KeepNeededKeeps ==
  ASSUME NEW regions \in Seq(Region), NEW n
  PROVE  /\ KeepNeeded(regions, n) \in Seq(Region)
         /\ PagesOf(KeepNeeded(regions, n)) \subseteq PagesOf(regions)
BY CoverKeeps, SortKeeps DEF KeepNeeded

--------------------------------------------------------------------------------
(* The inductive invariant *)

Launching == {"verify", "large", "small", "check", "load", "donate", "cpus", "bind", "start",
              "size", "boot", "beat", "report"}

Complete == {"cpus", "bind", "start", "size", "boot", "beat", "report"}

Served == {"serve", "drop"}

NothingMapped == \A p \in DOMAIN pages : pages[p] # "mapped"

(* What the proofs need of the variables' types.                                *)
HandleTypeOK ==
  /\ pages \in Seq({"mapped", "unmapped"}) /\ held \in Seq(Region)
  /\ tpc \in [Thread -> {"idle", "state", "get", "close", "free", "clear", "empty", "done"}]
  /\ clone = [t \in Thread |-> clone[t]]
  /\ IsFiniteSet(donated) /\ donated \subseteq DOMAIN pages
  /\ pc \in Launching \cup Served \cup {"config", "new", "unwind", "failed", "end", "gone"}

(* Every page that is mapped is in the allocator, and nothing is mapped before  *)
(* the allocation or after the destructors.                                     *)
MappedIsHeld ==
  /\ \A p \in DOMAIN pages : pages[p] = "mapped" => p \in PagesOf(held)
  /\ pc \in {"config", "new", "verify"} => pages = <<>> /\ held = <<>> /\ donated = {}
  /\ pc \in {"failed", "end", "gone"} => NothingMapped

HeldIsMapped == \A p \in PagesOf(held) : p \in DOMAIN pages /\ pages[p] = "mapped"

(* Until the handle serves, it owns an open descriptor and what it mapped; no   *)
(* thread has been started.                                                     *)
LaunchIsIntact ==
  pc \in Launching =>
    /\ desc = "open" /\ cid # "zero" /\ HeldIsMapped
    /\ pc \in {"verify", "large", "small", "check", "load"} => donated = {}
    /\ pc \in Complete => donated = PagesOf(held)
    /\ pc = "report" => cid = "set"
    /\ \A t \in Thread : tpc[t] = "idle"

(* ... and so it stays until a terminate thread has set the state.              *)
ServedIsIntact ==
  /\ pc \in {"config", "new", "unwind", "failed"} => state # "Running" /\ \A t \in Thread : tpc[t] = "idle"
  /\ pc \in Launching => state # "Running"
  /\ pc \in Served => desc \in {"open", "closed"} /\ cid # "none"
  /\ pc \in Served /\ state = "Running"
       => /\ desc = "open" /\ cid = "set" /\ donated = PagesOf(held) /\ HeldIsMapped
          /\ \A t \in Thread : tpc[t] \in {"idle", "state"}

(* Every thread has cloned the whole allocator, and goes on after the           *)
(* descriptor was closed.                                                       *)
ThreadKnows(t) ==
  /\ tpc[t] \notin {"idle", "done"} => pc \in Served
  /\ tpc[t] \in {"close", "free"} => clone[t] = PagesOf(held)
  /\ tpc[t] \in {"free", "clear", "empty"} => desc = "closed"
  /\ tpc[t] \in {"clear", "empty"} => NothingMapped

(* A cleared handle, and a CID chosen by the user.                              *)
CidTells ==
  /\ cid = "zero" => desc = "closed" /\ NothingMapped
  /\ pc \in {"config", "new"} => cid # "zero"
  /\ args.cid => cid # "none"

HandleInv ==
  /\ HandleTypeOK /\ MappedIsHeld /\ LaunchIsIntact /\ ServedIsIntact /\ CidTells
  /\ \A t \in Thread : ThreadKnows(t)

(* Nothing is mapped and nothing runs at the beginning.                         *)
LEMMA HandleInvInit == Init => HandleInv
<1> SUFFICES ASSUME Init PROVE HandleInv
  OBVIOUS
<1> USE DEF Init
<1>1. HandleTypeOK
  BY FS_EmptySet DEF HandleTypeOK
<1>2. MappedIsHeld /\ CidTells
  BY DEF MappedIsHeld, CidTells, NothingMapped
<1>3. LaunchIsIntact /\ ServedIsIntact
  BY DEF LaunchIsIntact, ServedIsIntact, Launching, Served
<1>4. \A t \in Thread : ThreadKnows(t)
  BY DEF ThreadKnows
<1> QED
  BY <1>1, <1>2, <1>3, <1>4 DEF HandleInv

--------------------------------------------------------------------------------
(* Steps of the launch *)

Same == UNCHANGED <<args, pages, held, donated, desc, cid, state, tpc, clone>>

(* A step that only goes on within the launch keeps the invariant.              *)
LEMMA GoOnInv ==
  ASSUME HandleInv, Same, pc \in Launching, pc' \in Launching \ {"verify"},
         pc' \in {"large", "small", "check", "load"} => donated = {},
         pc' \in Complete => donated = PagesOf(held),
         pc' = "report" => cid = "set"
  PROVE  HandleInv'
<1> USE DEF HandleInv, Same
<1>1. HandleTypeOK' /\ CidTells'
  BY DEF HandleTypeOK, CidTells, NothingMapped, Launching
<1>2. MappedIsHeld'
  BY DEF MappedIsHeld, NothingMapped, Launching
<1>3. LaunchIsIntact'
  BY DEF LaunchIsIntact, HeldIsMapped
<1>4. ServedIsIntact'
  BY DEF ServedIsIntact, Launching, Served
<1>5. \A t \in Thread : ThreadKnows(t)'
  BY DEF ThreadKnows, LaunchIsIntact
<1> QED
  BY <1>1, <1>2, <1>3, <1>4, <1>5

(* A launch that fails leaves things as they are for the destructors.           *)
LEMMA GiveUpInv ==
  ASSUME HandleInv, Same, pc \in Launching, pc' = "unwind"
  PROVE  HandleInv'
<1> USE DEF HandleInv, Same
<1>1. HandleTypeOK' /\ CidTells'
  BY DEF HandleTypeOK, CidTells, NothingMapped
<1>2. MappedIsHeld'
  BY DEF MappedIsHeld
<1>3. LaunchIsIntact' /\ ServedIsIntact'
  BY DEF LaunchIsIntact, ServedIsIntact, Launching, Served
<1>4. \A t \in Thread : ThreadKnows(t)'
  BY DEF ThreadKnows, LaunchIsIntact
<1> QED
  BY <1>1, <1>2, <1>3, <1>4

(* A step that changes nothing of all this keeps the invariant.                 *)
LEMMA SameInv ==
  ASSUME HandleInv, Same, pc' = pc
  PROVE  HandleInv'
BY DEF HandleInv, Same, HandleTypeOK, MappedIsHeld, NothingMapped, LaunchIsIntact, HeldIsMapped,
       ServedIsIntact, CidTells, ThreadKnows

(* The steps before the memory is allocated.                                    *)
LEMMA BeginInv ==
  ASSUME HandleInv, GetCpuConfig \/ NewFails \/ NewHandle, UNCHANGED given
  PROVE  HandleInv'
<1> USE DEF HandleInv
<1>1. /\ UNCHANGED <<args, pages, held, donated, cid, state, tpc, clone>>
      /\ pc \in {"config", "new"} /\ pc' \in {"new", "failed", "verify"}
      /\ pc' = "verify" => desc' = "open"
  BY DEF GetCpuConfig, NewFails, NewHandle, Step, Goto, given, memory, launch, owned, threads
<1>2. HandleTypeOK' /\ CidTells'
  BY <1>1 DEF HandleTypeOK, CidTells, NothingMapped, Launching
<1>3. pages = <<>> /\ held = <<>> /\ donated = {}
  BY <1>1 DEF MappedIsHeld
<1>4. MappedIsHeld'
  BY <1>1, <1>3 DEF MappedIsHeld, NothingMapped
<1>5. LaunchIsIntact'
  BY <1>1, <1>3 DEF LaunchIsIntact, ServedIsIntact, CidTells, HeldIsMapped, PagesOf, Launching, Complete
<1>6. ServedIsIntact'
  BY <1>1 DEF ServedIsIntact, Launching, Served
<1>7. \A t \in Thread : ThreadKnows(t)'
  BY <1>1 DEF ThreadKnows, ServedIsIntact
<1> QED
  BY <1>2, <1>4, <1>5, <1>6, <1>7

(* A page that is mapped goes into the allocator.                               *)
LEMMA MapPageInv ==
  ASSUME HandleInv, MapPage, idx \in DOMAIN HugePages, pc \in {"large", "small"}, pc' = pc,
         UNCHANGED <<args, donated, desc, cid, state, tpc, clone>>
  PROVE  HandleInv'
<1> USE DEF HandleInv
<1> DEFINE new == [page |-> Len(pages) + 1, size |-> HugePages[idx]]
<1>1. Len(pages) \in Nat /\ new \in Region /\ new.page = Len(pages) + 1
  BY ResourceAssumption DEF HandleTypeOK, Region
<1>2. pages' = Append(pages, "mapped") /\ held' = Append(held, new)
  BY DEF MapPage
<1> HIDE DEF new
<1>3. /\ pages' \in Seq({"mapped", "unmapped"}) /\ DOMAIN pages' = 1..Len(pages) + 1
      /\ \A p \in DOMAIN pages : p \in DOMAIN pages' /\ pages'[p] = pages[p]
      /\ pages'[Len(pages) + 1] = "mapped" /\ DOMAIN pages = 1..Len(pages)
  BY <1>2 DEF HandleTypeOK
<1>4. /\ held' \in Seq(Region) /\ DOMAIN held' = DOMAIN held \cup {Len(held) + 1}
      /\ \A i \in DOMAIN held : held'[i] = held[i]
      /\ held'[Len(held) + 1] = new
  BY <1>1, <1>2 DEF HandleTypeOK
<1>5. PagesOf(held') = PagesOf(held) \cup {Len(pages) + 1}
  BY <1>1, <1>4 DEF PagesOf
<1>6. HandleTypeOK'
  BY <1>3, <1>4 DEF HandleTypeOK
<1>7. MappedIsHeld'
  <2>1. ASSUME NEW p \in DOMAIN pages', pages'[p] = "mapped" PROVE p \in PagesOf(held')
    <3>1. p \in DOMAIN pages \/ p = Len(pages) + 1
      BY <1>1, <1>3
    <3> QED
      BY <1>3, <1>5, <2>1, <3>1 DEF MappedIsHeld
  <2> QED
    BY <2>1 DEF MappedIsHeld
<1>8. HeldIsMapped'
  <2>1. HeldIsMapped
    BY DEF LaunchIsIntact, Launching
  <2>2. ASSUME NEW p \in PagesOf(held') PROVE p \in DOMAIN pages' /\ pages'[p] = "mapped"
    <3>1. CASE p \in PagesOf(held)
      BY <1>3, <2>1, <3>1 DEF HeldIsMapped
    <3>2. CASE p = Len(pages) + 1
      BY <1>1, <1>3, <3>2
    <3> QED
      BY <1>5, <2>2, <3>1, <3>2
  <2> QED
    BY <2>2 DEF HeldIsMapped
<1>9. LaunchIsIntact' /\ ServedIsIntact'
  BY <1>8 DEF LaunchIsIntact, ServedIsIntact, Launching, Complete, Served
<1>10. CidTells' /\ \A t \in Thread : ThreadKnows(t)'
  BY DEF CidTells, LaunchIsIntact, ThreadKnows, Launching
<1> QED
  BY <1>6, <1>7, <1>9, <1>10

(* What unmapping does to the pages.                                            *)
LEMMA Unmapped ==
  ASSUME HandleTypeOK, NEW gone, Munmap(gone)
  PROVE  /\ pages' \in Seq({"mapped", "unmapped"}) /\ DOMAIN pages' = DOMAIN pages
         /\ \A p \in DOMAIN pages : pages'[p] = IF p \in gone THEN "unmapped" ELSE pages[p]
<1> DEFINE n == Len(pages)
<1>1. n \in Nat /\ DOMAIN pages = 1..n /\ \A p \in 1..n : pages[p] \in {"mapped", "unmapped"}
  BY DEF HandleTypeOK
<1>2. pages' = [p \in 1..n |-> IF p \in gone THEN "unmapped" ELSE pages[p]]
  BY <1>1 DEF Munmap
<1> HIDE DEF n
<1>3. pages' \in [1..n -> {"mapped", "unmapped"}]
  BY <1>1, <1>2
<1>4. pages' \in Seq({"mapped", "unmapped"})
  BY <1>1, <1>3, SeqDef
<1> QED
  BY <1>1, <1>2, <1>4

(* Unmapping what the allocator holds unmaps everything.                        *)
LEMMA AllUnmapped ==
  ASSUME HandleTypeOK, MappedIsHeld, Munmap(PagesOf(held))
  PROVE  NothingMapped'
BY Unmapped DEF MappedIsHeld, NothingMapped

(* Once nothing is mapped, nothing is.                                          *)
LEMMA StaysUnmapped ==
  ASSUME HandleTypeOK, NothingMapped, NEW gone, Munmap(gone)
  PROVE  NothingMapped'
BY Unmapped DEF NothingMapped

(* The allocator is trimmed before anything is donated.                         *)
LEMMA TrimInv ==
  ASSUME HandleInv, Trim, UNCHANGED given
  PROVE  HandleInv'
<1> USE DEF HandleInv
<1>1. /\ UNCHANGED <<args, donated, desc, cid, state, tpc, clone>> /\ pc = "small" /\ pc' = "check"
      /\ held' = KeepNeeded(held, Signed(RequestedMem(args.mem), W64))
      /\ Munmap(PagesOf(held) \ PagesOf(held'))
  BY DEF Trim, Goto, given, launch, owned, threads
<1>2. held' \in Seq(Region) /\ PagesOf(held') \subseteq PagesOf(held)
  BY <1>1, KeepNeededKeeps DEF HandleTypeOK
<1>3. /\ pages' \in Seq({"mapped", "unmapped"}) /\ DOMAIN pages' = DOMAIN pages
      /\ \A p \in DOMAIN pages :
           pages'[p] = IF p \in PagesOf(held) \ PagesOf(held') THEN "unmapped" ELSE pages[p]
  BY <1>1, Unmapped
<1>4. HandleTypeOK'
  BY <1>1, <1>2, <1>3 DEF HandleTypeOK, Launching
<1>5. MappedIsHeld'
  BY <1>1, <1>3 DEF MappedIsHeld
<1>6. HeldIsMapped /\ donated = {} /\ cid # "zero"
  BY <1>1 DEF LaunchIsIntact, Launching
<1>7. HeldIsMapped'
  BY <1>2, <1>3, <1>6 DEF HeldIsMapped
<1>8. LaunchIsIntact' /\ ServedIsIntact'
  BY <1>1, <1>7 DEF LaunchIsIntact, ServedIsIntact, Launching, Complete, Served
<1>9. CidTells' /\ \A t \in Thread : ThreadKnows(t)'
  BY Zenon, <1>1, <1>6 DEF CidTells, LaunchIsIntact, ThreadKnows, Launching
<1> QED
  BY <1>4, <1>5, <1>8, <1>9

(* The steps of allocate and what is done with its memory until the boot.       *)
LEMMA LaunchInv ==
  ASSUME HandleInv, UNCHANGED given,
         \/ VerifySignature \/ Fail \/ Allocate \/ LoadImage \/ Donate \/ AllDonated
         \/ InitSingleCpu \/ AllCpus \/ BindHeartbeat \/ Start \/ SetTimeout \/ HeartbeatConnects
         \/ BootSucceeds \/ OtherLaunch \/ Rewrite
  PROVE  HandleInv'
<1> USE DEF given, memory, launch, owned, threads, Step, Goto
<1>0. pc \in Launching =>
        /\ pc \in {"verify", "large", "small", "check", "load"} => donated = {}
        /\ pc \in Complete => donated = PagesOf(held)
  BY DEF HandleInv, LaunchIsIntact
<1>1. CASE VerifySignature
  BY <1>0, <1>1, GoOnInv DEF VerifySignature, Same, Launching, Complete
<1>2. CASE Fail
  BY <1>2, GiveUpInv DEF Fail, Same, Launching
<1>3. CASE AllocateLarge
  BY <1>3, MapPageInv DEF AllocateLarge
<1>4. CASE AllocateSmall
  BY <1>4, MapPageInv DEF AllocateSmall
<1>5. CASE NextSmaller \/ SecondLoop \/ NextLarger
  BY Zenon, <1>0, <1>5, GoOnInv DEF NextSmaller, SecondLoop, NextLarger, Same, Launching, Complete
<1>6. CASE OutOfMemory
  BY <1>6, GiveUpInv DEF OutOfMemory, Same, Launching
<1>7. CASE Trim
  BY <1>7, TrimInv
<1>8. CASE CheckAllocated
  <2>1. pc = "check" /\ pc' \in {"unwind", "load"} /\ Same
    BY <1>8 DEF CheckAllocated, Same
  <2> QED
    BY <1>0, <2>1, GoOnInv, GiveUpInv DEF Launching, Complete
<1>9. CASE LoadImage
  BY <1>0, <1>9, GoOnInv DEF LoadImage, Same, Launching, Complete
<1>10. CASE Donate
  <2>1. UNCHANGED <<args, pages, held, desc, cid, state, tpc, clone, pc>> /\ pc = "donate"
    BY <1>10 DEF Donate
  <2>2. MappedIsHeld' /\ CidTells' /\ \A t \in Thread : ThreadKnows(t)'
    BY Zenon, <2>1 DEF HandleInv, MappedIsHeld, NothingMapped, CidTells, ThreadKnows
  <2>3. LaunchIsIntact' /\ ServedIsIntact'
    BY Zenon, <2>1 DEF HandleInv, LaunchIsIntact, ServedIsIntact, HeldIsMapped, Launching, Complete, Served
  <2>4. HandleTypeOK'
    <3>1. HandleTypeOK /\ HeldIsMapped
      BY <2>1 DEF HandleInv, LaunchIsIntact, Launching
    <3>2. Cardinality(donated) \in Nat /\ Cardinality(donated) < Len(held)
      BY Zenon, <1>10, <3>1, FS_CardinalityType DEF Donate, HandleTypeOK
    <3>3. PICK i \in DOMAIN held : donated' = donated \cup {held[i].page}
      <4>1. Cardinality(donated) + 1 \in DOMAIN held
        BY <3>1, <3>2 DEF HandleTypeOK
      <4> QED
        BY <1>10, <4>1 DEF Donate
    <3>4. held[i].page \in DOMAIN pages
      BY <3>1 DEF HeldIsMapped, PagesOf
    <3>5. IsFiniteSet(donated') /\ donated' \subseteq DOMAIN pages
      BY Zenon, <3>1, <3>3, <3>4, FS_AddElement DEF HandleTypeOK
    <3> QED
      BY <2>1, <3>1, <3>5 DEF HandleTypeOK
  <2> QED
    BY <2>2, <2>3, <2>4 DEF HandleInv
<1>11. CASE AllDonated
  BY <1>11, GoOnInv DEF AllDonated, Same, Launching, Complete
<1>12. CASE InitSingleCpu
  BY Zenon, <1>0, <1>12, GoOnInv DEF InitSingleCpu, Same, Launching, Complete
<1>13. CASE AllCpus \/ BindHeartbeat
  BY Zenon, <1>0, <1>13, GoOnInv DEF AllCpus, BindHeartbeat, Same, Launching, Complete
<1>14. CASE Start
  <2>1. pc = "start" /\ pc' \in {"size", "unwind"} /\ Same
    BY <1>14 DEF Start, Same
  <2> QED
    BY <1>0, <2>1, GoOnInv, GiveUpInv DEF Launching, Complete
<1>15. CASE SetTimeout \/ HeartbeatConnects
  BY Zenon, <1>0, <1>15, GoOnInv DEF SetTimeout, HeartbeatConnects, Same, Launching, Complete
<1>16. CASE BootSucceeds
  <2>1. /\ UNCHANGED <<args, pages, held, donated, desc, state, tpc, clone>>
        /\ pc = "beat" /\ pc' = "report" /\ cid' = "set"
    BY <1>16 DEF BootSucceeds
  <2>2. HandleTypeOK' /\ MappedIsHeld' /\ CidTells'
    BY <2>1 DEF HandleInv, HandleTypeOK, MappedIsHeld, CidTells, Launching
  <2>3. LaunchIsIntact' /\ ServedIsIntact'
    BY Zenon, <2>1 DEF HandleInv, LaunchIsIntact, ServedIsIntact, HeldIsMapped, Launching, Complete, Served
  <2>4. \A t \in Thread : ThreadKnows(t)'
    BY Zenon, <2>1 DEF HandleInv, LaunchIsIntact, ThreadKnows, Launching
  <2> QED
    BY <2>2, <2>3, <2>4 DEF HandleInv
<1>17. CASE OtherLaunch \/ Rewrite
  BY Zenon, <1>17, SameInv DEF OtherLaunch, Rewrite, Same
<1> QED
  BY <1>1, <1>2, <1>3, <1>4, <1>5, <1>6, <1>7, <1>8, <1>9, <1>10, <1>11, <1>12, <1>13, <1>14,
     <1>15, <1>16, <1>17 DEF Allocate

--------------------------------------------------------------------------------
(* The end of the launch, the service and the destructors *)

(* terminate_enclave after a failed boot.                                       *)
LEMMA BootFailsInv ==
  ASSUME HandleInv, UNCHANGED given, PollTimeout \/ BeatFails
  PROVE  HandleInv'
<1> USE DEF HandleInv
<1>1. /\ UNCHANGED <<args, donated, state, tpc, clone>>
      /\ pc \in {"boot", "beat"} /\ pc' = "unwind" /\ TerminateEnclave
  BY DEF PollTimeout, BeatFails, BootFails, Goto, given, launch, threads
<1>2. CASE NoCid
  <2>1. UNCHANGED <<desc, cid, held, pages>>
    BY <1>1, <1>2 DEF TerminateEnclave
  <2> QED
    BY <1>1, <2>1, GiveUpInv DEF Same, Launching
<1>3. CASE ~NoCid
  <2>1. /\ desc' = "closed" /\ cid' = "zero" /\ held' = <<>> /\ Munmap(PagesOf(held))
    BY <1>1, <1>3 DEF TerminateEnclave, ReleaseDescriptor
  <2>2. NothingMapped'
    BY <2>1, AllUnmapped
  <2>3. pages' \in Seq({"mapped", "unmapped"}) /\ DOMAIN pages' = DOMAIN pages
    BY <2>1, Unmapped
  <2>4. HandleTypeOK' /\ MappedIsHeld' /\ CidTells'
    BY <1>1, <2>1, <2>2, <2>3 DEF HandleTypeOK, MappedIsHeld, CidTells, NothingMapped
  <2>5. LaunchIsIntact' /\ ServedIsIntact' /\ \A t \in Thread : ThreadKnows(t)'
    BY Zenon, <1>1 DEF LaunchIsIntact, ServedIsIntact, ThreadKnows, Launching, Served
  <2> QED
    BY <2>4, <2>5
<1> QED
  BY <1>2, <1>3

(* The handle begins to serve, and stops.                                       *)
LEMMA ServeInv ==
  ASSUME HandleInv, UNCHANGED given, Report \/ LeaveLoop
  PROVE  HandleInv'
<1> USE DEF HandleInv
<1>1. /\ UNCHANGED <<args, pages, held, donated, desc, cid, tpc, clone>>
      /\ \/ pc = "report" /\ pc' = "serve" /\ state' = "Running"
         \/ pc = "serve" /\ pc' = "drop" /\ state' = state
  BY DEF Report, LeaveLoop, Step, Goto, given, memory, launch, owned, threads
<1>2. HandleTypeOK' /\ MappedIsHeld' /\ CidTells'
  BY <1>1 DEF HandleTypeOK, MappedIsHeld, CidTells, NothingMapped, Served
<1>3. LaunchIsIntact'
  BY <1>1 DEF LaunchIsIntact, Launching
<1>4. ServedIsIntact'
  BY <1>1 DEF LaunchIsIntact, ServedIsIntact, HeldIsMapped, Launching, Complete, Served
<1>5. \A t \in Thread : ThreadKnows(t)'
  BY <1>1 DEF LaunchIsIntact, ThreadKnows, NothingMapped, Launching, Served
<1> QED
  BY <1>2, <1>3, <1>4, <1>5

(* The destructors, and the end of the process.                                 *)
LEMMA DropInv ==
  ASSUME HandleInv, UNCHANGED given, Unwind \/ DropManager \/ ExitProcess
  PROVE  HandleInv'
<1> USE DEF HandleInv
<1>1. /\ UNCHANGED <<args, donated, state, tpc, clone>> /\ pc' \in {"failed", "end", "gone"}
      /\ pc \in {"unwind", "drop", "failed", "end"}
      /\ pc' = "failed" <=> pc = "unwind"
      /\ pc = "drop" => \A t \in Thread : tpc[t] \in {"idle", "done"}
  BY DEF Unwind, DropManager, ExitProcess, Goto, given, launch, threads
<1>2. /\ pages' \in Seq({"mapped", "unmapped"}) /\ DOMAIN pages' = DOMAIN pages
      /\ held' \in Seq(Region)
      /\ NothingMapped' /\ cid' \in {cid, "zero"}
      /\ cid' = "zero" => desc' = "closed"
  <2>1. CASE Unwind \/ DropManager
    <3>1. DropHandle
      BY <2>1 DEF Unwind, DropManager
    <3>2. /\ NothingMapped' /\ held' = <<>>
          /\ pages' \in Seq({"mapped", "unmapped"}) /\ DOMAIN pages' = DOMAIN pages
      BY Zenon, <3>1, AllUnmapped, Unmapped DEF DropHandle
    <3>3. cid' \in {cid, "zero"} /\ (cid' = "zero" => desc' = "closed")
      BY <3>1 DEF DropHandle, ReleaseDescriptor, CidTells, NoCid
    <3> QED
      BY <3>2, <3>3
  <2>2. CASE ExitProcess
    <3>1. Munmap(DOMAIN pages) /\ UNCHANGED <<held, cid>> /\ (desc' = desc \/ desc' = "closed")
      BY <2>2 DEF ExitProcess, ReleaseDescriptor
    <3>2. /\ NothingMapped'
          /\ pages' \in Seq({"mapped", "unmapped"}) /\ DOMAIN pages' = DOMAIN pages
      BY <3>1, Unmapped DEF NothingMapped
    <3> QED
      BY <3>1, <3>2 DEF HandleTypeOK, CidTells
  <2> QED
    BY <2>1, <2>2
<1>3. HandleTypeOK'
  BY <1>1, <1>2 DEF HandleTypeOK
<1>4. MappedIsHeld' /\ CidTells'
  BY <1>1, <1>2 DEF MappedIsHeld, CidTells, NothingMapped
<1>5. LaunchIsIntact' /\ ServedIsIntact'
  BY <1>1 DEF LaunchIsIntact, ServedIsIntact, Launching, Served
<1>6. \A t \in Thread : tpc[t] \in {"idle", "done"}
  BY <1>1 DEF ServedIsIntact, ThreadKnows, HandleTypeOK, Served
<1>7. \A t \in Thread : ThreadKnows(t)'
  BY Zenon, <1>1, <1>6 DEF ThreadKnows
<1> QED
  BY <1>3, <1>4, <1>5, <1>7

--------------------------------------------------------------------------------
(* The terminate threads *)

(* A thread that only moves on, or sets the state, keeps the invariant.         *)
LEMMA ThreadMoveInv ==
  ASSUME HandleInv, NEW t \in Thread, pc \in Served,
         UNCHANGED <<args, pc, pages, held, donated, desc, clone>>,
         cid' = cid \/ (cid' = "zero" /\ tpc[t] = "clear"),
         NEW to \in {"state", "get", "empty", "done"}, tpc' = [tpc EXCEPT ![t] = to],
         to = "empty" => tpc[t] = "clear",
         to = "state" => state' = state /\ tpc[t] = "idle",
         to # "state" => state' # "Running"
  PROVE  HandleInv'
<1> USE DEF HandleInv
<1>1. HandleTypeOK' /\ MappedIsHeld'
  BY DEF HandleTypeOK, MappedIsHeld, NothingMapped
<1>2. \A u \in Thread : u # t => tpc'[u] = tpc[u]
  BY DEF HandleTypeOK
<1>3. tpc'[t] = to
  BY DEF HandleTypeOK
<1>4. ThreadKnows(t)
  OBVIOUS
<1>5. CidTells'
  BY Zenon, <1>4 DEF CidTells, ThreadKnows, NothingMapped, Served
<1>6. LaunchIsIntact'
  BY DEF LaunchIsIntact, Launching, Served
<1>7. ServedIsIntact'
  BY Zenon, <1>2, <1>3, <1>4 DEF ServedIsIntact, ThreadKnows, HeldIsMapped, Launching, Served
<1>8. \A u \in Thread : ThreadKnows(u)'
  BY Zenon, <1>2, <1>3 DEF ThreadKnows, NothingMapped
<1> QED
  BY <1>1, <1>5, <1>6, <1>7, <1>8

(* A thread that releases something keeps the invariant.                        *)
LEMMA ThreadReleaseInv ==
  ASSUME HandleInv, NEW t \in Thread, CloseDescriptor(t) \/ FreeClone(t),
         UNCHANGED <<args, pc, held, donated>>
  PROVE  HandleInv'
<1> USE DEF HandleInv, Move
<1>1. ThreadKnows(t) /\ tpc[t] \in {"close", "free"}
  BY DEF CloseDescriptor, FreeClone
<1>2. pc \in Served /\ clone[t] = PagesOf(held) /\ state # "Running"
  BY Zenon, <1>1 DEF ThreadKnows, ServedIsIntact
<1>3. UNCHANGED <<cid, state>> /\ desc' = "closed"
  BY Zenon, <1>1, <1>2 DEF CloseDescriptor, FreeClone, ReleaseDescriptor, owned, ThreadKnows, ServedIsIntact
<1>4. /\ pages' \in Seq({"mapped", "unmapped"}) /\ DOMAIN pages' = DOMAIN pages
      /\ NothingMapped => NothingMapped'
      /\ \A p \in DOMAIN pages : pages'[p] = "mapped" => pages[p] = "mapped"
  <2>1. CASE UNCHANGED pages
    BY <2>1 DEF HandleTypeOK, NothingMapped
  <2>2. CASE Munmap(clone[t])
    BY <2>2, Unmapped DEF NothingMapped
  <2> QED
    BY <2>1, <2>2 DEF CloseDescriptor, FreeClone
<1>5. PICK to \in {"free", "done", "clear"} :
        /\ tpc' = [tpc EXCEPT ![t] = to]
        /\ to = "clear" => NothingMapped'
        /\ to = "free" => UNCHANGED clone
  <2>1. CASE CloseDescriptor(t)
    BY <2>1 DEF CloseDescriptor
  <2>2. CASE FreeClone(t)
    <3>1. NothingMapped'
      BY <1>2, <2>2, AllUnmapped DEF FreeClone
    <3> QED
      BY <2>2, <3>1 DEF FreeClone
  <2> QED
    BY <2>1, <2>2
<1>6. clone' = [u \in Thread |-> clone'[u]] /\ \A u \in Thread : u # t => clone'[u] = clone[u]
  <2>1. clone' = clone \/ clone' = [clone EXCEPT ![t] = {}]
    BY DEF CloseDescriptor, FreeClone
  <2> QED
    BY <2>1 DEF HandleTypeOK
<1>7. tpc'[t] = to /\ \A u \in Thread : u # t => tpc'[u] = tpc[u]
  BY <1>5 DEF HandleTypeOK
<1>8. HandleTypeOK'
  BY Zenon, <1>4, <1>5, <1>6 DEF HandleTypeOK
<1>9. MappedIsHeld'
  BY Zenon, <1>2, <1>4 DEF MappedIsHeld, NothingMapped, Served
<1>10. LaunchIsIntact' /\ CidTells'
  BY Zenon, <1>2, <1>3, <1>4 DEF LaunchIsIntact, CidTells, Launching, Served
<1>11. ServedIsIntact'
  BY Zenon, <1>2, <1>3 DEF ServedIsIntact, Launching, Served
<1>12. ASSUME NEW u \in Thread PROVE ThreadKnows(u)'
  <2>1. CASE u = t
    BY Zenon, <1>1, <1>2, <1>3, <1>5, <1>7, <2>1 DEF ThreadKnows
  <2>2. CASE u # t
    BY Zenon, <1>3, <1>4, <1>6, <1>7, <2>2 DEF ThreadKnows
  <2> QED
    BY <2>1, <2>2
<1> QED
  BY <1>8, <1>9, <1>10, <1>11, <1>12

(* A thread that clones the allocator clones all of it.                         *)
LEMMA ThreadClonesInv ==
  ASSUME HandleInv, NEW t \in Thread, GetTerminationResources(t),
         UNCHANGED <<args, pc, held, donated>>
  PROVE  HandleInv'
<1> USE DEF HandleInv
<1>1. /\ UNCHANGED <<pages, desc, cid, state>> /\ tpc[t] = "get"
      /\ tpc' = [tpc EXCEPT ![t] = "close"] /\ clone' = [clone EXCEPT ![t] = PagesOf(held)]
  BY DEF GetTerminationResources, Move, owned
<1>2. pc \in Served /\ state # "Running"
  BY <1>1 DEF ThreadKnows, ServedIsIntact
<1>3. /\ tpc'[t] = "close" /\ \A u \in Thread : u # t => tpc'[u] = tpc[u]
  BY <1>1 DEF HandleTypeOK
<1>4. /\ clone'[t] = PagesOf(held) /\ \A u \in Thread : u # t => clone'[u] = clone[u]
      /\ clone' = [u \in Thread |-> clone'[u]]
  BY Zenon, <1>1 DEF HandleTypeOK
<1>5. HandleTypeOK' /\ MappedIsHeld' /\ CidTells'
  BY Zenon, <1>1, <1>4 DEF HandleTypeOK, MappedIsHeld, CidTells, NothingMapped
<1>6. LaunchIsIntact' /\ ServedIsIntact'
  BY Zenon, <1>1, <1>2 DEF LaunchIsIntact, ServedIsIntact, Launching, Served
<1>7. \A u \in Thread : ThreadKnows(u)'
  BY Zenon, <1>1, <1>2, <1>3, <1>4 DEF ThreadKnows, NothingMapped
<1> QED
  BY <1>5, <1>6, <1>7

(* A step of a terminate thread keeps the invariant.                            *)
LEMMA TerminateThreadInv ==
  ASSUME HandleInv, NEW t \in Thread, TerminateThread(t), UNCHANGED given
  PROVE  HandleInv'
<1>0. UNCHANGED <<args, pc, held, donated>> /\ ThreadKnows(t)
  BY DEF HandleInv, TerminateThread, given, launch
<1>1. CASE Spawn(t)
  <2> DEFINE to == "state"
  <2>1. /\ pc \in Served /\ UNCHANGED <<pages, desc, cid, state, clone>>
        /\ tpc[t] = "idle" /\ tpc' = [tpc EXCEPT ![t] = to]
    BY <1>1 DEF Spawn, Move, owned, Served
  <2> QED
    BY Zenon, <1>0, <2>1, ThreadMoveInv
<1>2. CASE SetTerminating(t)
  <2> DEFINE to == "get"
  <2>1. /\ pc \in Served /\ UNCHANGED <<pages, desc, cid, clone>> /\ state' # "Running"
        /\ tpc' = [tpc EXCEPT ![t] = to]
    BY <1>0, <1>2 DEF SetTerminating, Move, ThreadKnows
  <2> QED
    BY Zenon, <1>0, <2>1, ThreadMoveInv
<1>3. CASE GetTerminationResources(t)
  BY <1>0, <1>3, ThreadClonesInv
<1>4. CASE CloseDescriptor(t) \/ FreeClone(t)
  BY <1>0, <1>4, ThreadReleaseInv
<1>5. CASE Clear(t)
  <2> DEFINE to == "empty"
  <2>1. /\ pc \in Served /\ UNCHANGED <<pages, desc, clone>> /\ cid' = "zero" /\ tpc[t] = "clear"
        /\ tpc' = [tpc EXCEPT ![t] = to] /\ state' = state
    BY <1>0, <1>5 DEF Clear, Move, ThreadKnows
  <2>2. state' # "Running"
    BY <2>1 DEF HandleInv, ServedIsIntact
  <2> QED
    BY Zenon, <1>0, <2>1, <2>2, ThreadMoveInv
<1>6. CASE SetEmpty(t)
  <2> DEFINE to == "done"
  <2>1. /\ pc \in Served /\ UNCHANGED <<pages, desc, cid, clone>> /\ state' # "Running"
        /\ tpc' = [tpc EXCEPT ![t] = to]
    BY <1>0, <1>6 DEF SetEmpty, Move, ThreadKnows
  <2> QED
    BY Zenon, <1>0, <2>1, ThreadMoveInv
<1> QED
  BY <1>1, <1>2, <1>3, <1>4, <1>5, <1>6 DEF TerminateThread

(* The invariant is inductive.                                                  *)
LEMMA HandleInvNext == HandleInv /\ [Next]_vars => HandleInv'
<1> SUFFICES ASSUME HandleInv, [Next]_vars PROVE HandleInv'
  OBVIOUS
<1>1. CASE UNCHANGED vars
  BY <1>1, SameInv DEF vars, Same, given, file, memory, launch, owned, threads
<1>2. CASE Next
  <2>1. UNCHANGED given
    BY <1>2 DEF Next
  <2>2. CASE GetCpuConfig \/ NewFails \/ NewHandle
    BY <2>1, <2>2, BeginInv
  <2>3. CASE \/ VerifySignature \/ Fail \/ Allocate \/ LoadImage \/ Donate \/ AllDonated
             \/ InitSingleCpu \/ AllCpus \/ BindHeartbeat \/ Start \/ SetTimeout
             \/ HeartbeatConnects \/ BootSucceeds \/ OtherLaunch \/ Rewrite
    BY <2>1, <2>3, LaunchInv
  <2>4. CASE PollTimeout \/ BeatFails
    BY <2>1, <2>4, BootFailsInv
  <2>5. CASE Report \/ LeaveLoop
    BY <2>1, <2>5, ServeInv
  <2>6. CASE Unwind \/ DropManager \/ ExitProcess
    BY <2>1, <2>6, DropInv
  <2>7. CASE Rest
    BY <2>1, <2>7, SameInv DEF Rest, Same, given, memory, launch, owned, threads
  <2>8. CASE \E t \in Thread : TerminateThread(t)
    BY <2>1, <2>8, TerminateThreadInv
  <2> QED
    BY <1>2, <2>2, <2>3, <2>4, <2>5, <2>6, <2>7, <2>8 DEF Next, Boot
<1> QED
  BY <1>1, <1>2

--------------------------------------------------------------------------------
(* What follows *)

(* For any arguments, pages and number of terminate threads, a handle that was  *)
(* cleared has given everything back, and so has every path out of run-enclave. *)
THEOREM HandleReleases == Spec => []ClearedMeansReleased
<1>1. HandleInv => ClearedMeansReleased
  BY DEF HandleInv, CidTells, MappedIsHeld, NothingMapped, ClearedMeansReleased
<1> QED
  BY <1>1, HandleInvInit, HandleInvNext, PTL DEF Spec

(* For any arguments, pages and number of terminate threads, an enclave that    *)
(* describe-enclaves reports as RUNNING has its descriptor, CID and memory.     *)
THEOREM RunningStaysIntact == Spec => []RunningIsIntact
<1>1. ASSUME HandleInv, state = "Running", pc \notin {"end", "gone"} PROVE pc \in Served
  BY <1>1 DEF HandleInv, HandleTypeOK, ServedIsIntact
<1>2. HandleInv => RunningIsIntact
  BY <1>1 DEF HandleInv, ServedIsIntact, HeldIsMapped, RunningIsIntact
<1> QED
  BY <1>2, HandleInvInit, HandleInvNext, PTL DEF Spec

(* Pages are unmapped only while the descriptor is closed, by any step, if the  *)
(* CID is known from the start.                                                 *)
LEMMA StopsFirst ==
  ASSUME HandleInv, Next, args.cid,
         NEW p \in donated, pages[p] = "mapped", pages'[p] = "unmapped"
  PROVE  desc' = "closed"
<1>0. p \in DOMAIN pages
  BY DEF HandleInv, HandleTypeOK
<1>1. ~NothingMapped
  BY Zenon, <1>0 DEF NothingMapped
<1>2. ~NoCid
  BY <1>1 DEF HandleInv, CidTells, NoCid
<1>3. pages' # pages
  OBVIOUS
<1>4. CASE AllocateLarge \/ AllocateSmall
  <2>1. pages' = Append(pages, "mapped")
    BY Zenon, <1>4 DEF AllocateLarge, AllocateSmall, MapPage
  <2>2. pages'[p] = pages[p]
    BY <1>0, <2>1 DEF HandleInv, HandleTypeOK
  <2> QED
    BY <2>2
<1>5. CASE Trim
  BY Zenon, <1>5 DEF Trim, Goto, HandleInv, LaunchIsIntact, Launching
<1>6. CASE PollTimeout \/ BeatFails
  BY <1>2, <1>6 DEF PollTimeout, BeatFails, BootFails, TerminateEnclave, ReleaseDescriptor
<1>7. CASE Unwind \/ DropManager
  BY Zenon, <1>2, <1>7 DEF Unwind, DropManager, DropHandle, ReleaseDescriptor
<1>8. CASE ExitProcess
  BY <1>1, <1>8 DEF ExitProcess, HandleInv, MappedIsHeld
<1>9. ASSUME NEW t \in Thread, TerminateThread(t) PROVE desc' = "closed"
  <2>1. ThreadKnows(t)
    BY DEF HandleInv
  <2>2. CASE CloseDescriptor(t)
    <3>1. desc \in {"open", "closed"}
      BY Zenon, <2>1, <2>2 DEF CloseDescriptor, Move, ThreadKnows, HandleInv, ServedIsIntact
    <3> QED
      BY <2>2, <3>1 DEF CloseDescriptor, ReleaseDescriptor
  <2>3. CASE FreeClone(t)
    BY Zenon, <2>1, <2>3 DEF FreeClone, Move, ThreadKnows, owned
  <2> QED
    BY Zenon, <1>3, <1>9, <2>2, <2>3 DEF TerminateThread, Spawn, SetTerminating, GetTerminationResources,
                                  Clear, SetEmpty
<1> QED
  <2>1. CASE \/ GetCpuConfig \/ NewFails \/ NewHandle \/ VerifySignature \/ Fail \/ NextSmaller
             \/ SecondLoop \/ NextLarger \/ OutOfMemory \/ CheckAllocated \/ OtherLaunch
    BY Zenon, <1>3, <2>1 DEF GetCpuConfig, NewFails, NewHandle, VerifySignature, Fail, NextSmaller,
         SecondLoop, NextLarger, OutOfMemory, CheckAllocated, OtherLaunch, Step, Goto, memory
  <2>2. CASE \/ LoadImage \/ Donate \/ AllDonated \/ InitSingleCpu \/ AllCpus \/ BindHeartbeat
             \/ Start \/ SetTimeout \/ HeartbeatConnects \/ BootSucceeds \/ Report \/ Rewrite
             \/ LeaveLoop \/ Rest
    BY Zenon, <1>3, <2>2 DEF LoadImage, Donate, AllDonated, InitSingleCpu, AllCpus, BindHeartbeat, Start,
         SetTimeout, HeartbeatConnects, BootSucceeds, Report, Rewrite, LeaveLoop, Rest, Step, Goto,
         memory
  <2> QED
    BY Zenon, <1>4, <1>5, <1>6, <1>7, <1>8, <1>9, <2>1, <2>2 DEF Next, Allocate, Boot

(* For any arguments and any number of terminate threads, the memory of an      *)
(* enclave is unmapped only after its descriptor was closed, if the CID is      *)
(* known from the start.                                                        *)
THEOREM StopsBeforeUnmap == Spec => UnmapAfterStop
<1>1. HandleInv /\ [Next]_vars
        => [args.cid /\ (\E p \in donated : pages[p] = "mapped" /\ pages'[p] = "unmapped")
              => desc' = "closed"]_vars
  BY StopsFirst
<1> QED
  BY <1>1, HandleInvInit, HandleInvNext, PTL DEF Spec, UnmapAfterStop

--------------------------------------------------------------------------------
(* The size of regions *)

(* A set that has 0 and the successor of what it has holds every number.        *)
LEMMA Induction ==
  ASSUME NEW S, 0 \in S, \A n \in Nat : n \in S => n + 1 \in S
  PROVE  \A n \in Nat : n \in S
<1> DEFINE R == {ss \in Nat \X Nat : ss[1] < ss[2]}
           T == Nat \ S
<1>1. IsWellFoundedOn(R, Nat)
  BY NatLessThanWellFounded, Zenon DEF OpToRel
<1>2. \A x, y \in Nat : x < y => <<x, y>> \in R
  OBVIOUS
<1> HIDE DEF R
<1> SUFFICES ASSUME T # {} PROVE FALSE
  OBVIOUS
<1>3. PICK x \in T : \A y \in T : ~(<<y, x>> \in R)
  BY Zenon, <1>1, WFMin
<1>4. x - 1 \in Nat /\ x - 1 < x /\ (x - 1) + 1 = x
  BY <1>3
<1>5. x - 1 \notin T
  BY Zenon, <1>2, <1>3, <1>4
<1> QED
  BY <1>3, <1>4, <1>5

(* The sizes of the first regions, added up, exist ...                          *)
LEMMA SumExists ==
  ASSUME NEW s, NEW k \in Nat
  PROVE  \E g : g = [n \in 0..k |-> IF n = 0 THEN 0 ELSE g[n - 1] + s[n].size]
<1> DEFINE Def(g, m) == [n \in 0..m |-> IF n = 0 THEN 0 ELSE g[n - 1] + s[n].size]
           S == {m \in Nat : \E g : g = Def(g, m)}
<1>1. 0 \in S
  <2> DEFINE g == [n \in 0..0 |-> 0]
  <2>1. g = Def(g, 0)
    OBVIOUS
  <2> HIDE DEF Def, g
  <2> QED
    BY Zenon, <2>1
<1>2. ASSUME NEW m \in Nat, m \in S PROVE m + 1 \in S
  <2>1. PICK g : g = Def(g, m)
    BY <1>2
  <2> DEFINE h == [n \in 0..m + 1 |-> IF n = m + 1 THEN g[m] + s[m + 1].size ELSE g[n]]
  <2>2. ASSUME NEW n \in 0..m + 1 PROVE h[n] = IF n = 0 THEN 0 ELSE h[n - 1] + s[n].size
    <3>1. CASE n = m + 1
      BY <3>1
    <3>2. CASE n # m + 1
      BY <2>1, <3>2
    <3> QED
      BY <3>1, <3>2
  <2>3. h = Def(h, m + 1) /\ m + 1 \in Nat
    BY <2>2
  <2> HIDE DEF Def, h
  <2> QED
    BY Zenon, <2>3
<1> HIDE DEF S
<1>3. \A m \in Nat : m \in S
  BY Zenon, <1>1, <1>2, Induction
<1> QED
  BY Zenon, <1>3 DEF S

(* The sizes added up, region by region.                                        *)
IsSum(f, regions) ==
  /\ f \in [0..Len(regions) -> Nat] /\ f[0] = 0
  /\ \A n \in 1..Len(regions) : f[n] = f[n - 1] + regions[n].size

(* ... and end with what SizeOf computes.                                       *)
LEMMA SizeIsSum ==
  ASSUME NEW regions \in Seq(Region)
  PROVE  \E f : IsSum(f, regions) /\ SizeOf(regions) = f[Len(regions)]
<1> DEFINE f == CHOOSE g : g = [n \in 0..Len(regions) |-> IF n = 0 THEN 0 ELSE g[n - 1] + regions[n].size]
<1>1. SizeOf(regions) = f[Len(regions)]
  BY Zenon DEF SizeOf
<1>a. Len(regions) \in Nat /\ 0 \in 0..Len(regions) /\ \A n \in 1..Len(regions) : n \in 0..Len(regions) /\ n # 0
  OBVIOUS
<1>2. f = [n \in 0..Len(regions) |-> IF n = 0 THEN 0 ELSE f[n - 1] + regions[n].size]
  BY Zenon, <1>a, SumExists
<1> HIDE DEF f
<1>3. f[0] = 0 /\ \A n \in 1..Len(regions) : f[n] = f[n - 1] + regions[n].size
  BY Zenon, <1>a, <1>2
<1> DEFINE S == {n \in Nat : n <= Len(regions) => f[n] \in Nat}
<1>4. \A n \in Nat : n \in S
  <2>1. 0 \in S
    BY <1>3
  <2>2. ASSUME NEW n \in Nat, n \in S PROVE n + 1 \in S
    <3> SUFFICES ASSUME n + 1 <= Len(regions) PROVE f[n + 1] \in Nat
      OBVIOUS
    <3>1. f[n] \in Nat /\ n + 1 \in 1..Len(regions) /\ (n + 1) - 1 = n
      BY <1>a, <2>2
    <3>2. f[n + 1] = f[n] + regions[n + 1].size
      BY Zenon, <1>3, <3>1
    <3>3. regions[n + 1] \in Region
      BY <3>1
    <3>4. regions[n + 1].size \in Nat
      BY <3>3 DEF Region
    <3> QED
      BY <3>1, <3>2, <3>4
  <2> HIDE DEF S
  <2> QED
    BY Zenon, <2>1, <2>2, Induction
<1>5. \A n \in 0..Len(regions) : f[n] \in Nat
  BY <1>4
<1>6. f \in [0..Len(regions) -> Nat]
  <2>1. DOMAIN f = 0..Len(regions) /\ f = [n \in 0..Len(regions) |-> f[n]]
    BY Zenon, <1>2
  <2> QED
    BY Zenon, <1>5, <2>1
<1> QED
  BY Zenon, <1>1, <1>3, <1>6 DEF IsSum

(* Two sums agree as far as the regions do.                                     *)
LEMMA SumsAgree ==
  ASSUME NEW r \in Seq(Region), NEW q \in Seq(Region), NEW f, NEW g, IsSum(f, r), IsSum(g, q),
         Len(q) <= Len(r), \A i \in 1..Len(q) : q[i] = r[i]
  PROVE  g[Len(q)] = f[Len(q)]
<1> DEFINE S == {n \in Nat : n <= Len(q) => g[n] = f[n]}
<1>1. \A n \in Nat : n \in S
  <2>1. 0 \in S
    BY Zenon DEF IsSum
  <2>2. ASSUME NEW n \in Nat, n \in S PROVE n + 1 \in S
    <3> SUFFICES ASSUME n + 1 <= Len(q) PROVE g[n + 1] = f[n + 1]
      OBVIOUS
    <3>1. n <= Len(q) /\ n + 1 \in 1..Len(q) /\ n + 1 \in 1..Len(r) /\ (n + 1) - 1 = n
      OBVIOUS
    <3>2. g[n] = f[n] /\ q[n + 1] = r[n + 1]
      BY Zenon, <2>2, <3>1
    <3>3. g[n + 1] = g[n] + q[n + 1].size /\ f[n + 1] = f[n] + r[n + 1].size
      BY Zenon, <3>1 DEF IsSum
    <3> QED
      BY Zenon, <3>2, <3>3
  <2> HIDE DEF S
  <2> QED
    BY Zenon, <2>1, <2>2, Induction
<1>2. Len(q) \in Nat /\ Len(q) <= Len(q)
  OBVIOUS
<1> QED
  BY Zenon, <1>1, <1>2

(* The first regions and their size.                                            *)
IsPrefix(r, f, m) ==
  /\ SubSeq(r, 1, m) \in Seq(Region) /\ Len(SubSeq(r, 1, m)) = m
  /\ \A i \in 1..m : SubSeq(r, 1, m)[i] = r[i] /\ i \in 1..Len(r)
  /\ SizeOf(SubSeq(r, 1, m)) = f[m]

(* It is the sum of that many.                                                  *)
LEMMA PrefixSize ==
  ASSUME NEW r \in Seq(Region), NEW f, IsSum(f, r), NEW m \in 0..Len(r)
  PROVE  IsPrefix(r, f, m)
<1> DEFINE q == SubSeq(r, 1, m)
<1>1. q \in Seq(Region) /\ Len(q) = m /\ Len(q) <= Len(r) /\ \A i \in 1..m : q[i] = r[i] /\ i \in 1..Len(r)
  OBVIOUS
<1> HIDE DEF q
<1>2. PICK g : IsSum(g, q) /\ SizeOf(q) = g[Len(q)]
  BY Zenon, <1>1, SizeIsSum
<1>3. \A i \in 1..Len(q) : q[i] = r[i]
  BY Zenon, <1>1
<1>4. g[Len(q)] = f[Len(q)]
  BY <1>1, <1>2, <1>3, SumsAgree
<1> QED
  BY Zenon, <1>1, <1>2, <1>4 DEF q, IsPrefix

(* Numbers are compared one way or the other.                                   *)
LEMMA NotLess ==
  \A a, b \in Nat : ~(b > a) => a >= b
  OBVIOUS

(* Of two regions the larger one ranks first.                                   *)
LEMMA LargerRanksFirst ==
  ASSUME NEW regions \in Seq(Region), NEW i \in DOMAIN regions, NEW j \in DOMAIN regions,
         regions[j].size > regions[i].size
  PROVE  Rank(regions, j) < Rank(regions, i)
<1> DEFINE Before(k) == {l \in DOMAIN regions : \/ regions[l].size > regions[k].size
                                                \/ regions[l].size = regions[k].size /\ l <= k}
<1>1. DOMAIN regions = 1..Len(regions) /\ Len(regions) \in Int /\ 1 \in Int /\ i <= i
  OBVIOUS
<1>2. \A l \in DOMAIN regions : regions[l].size \in Nat
  <2>1. \A l \in DOMAIN regions : regions[l] \in Region
    OBVIOUS
  <2> QED
    BY <2>1 DEF Region
<1>3. IsFiniteSet(DOMAIN regions)
  BY Zenon, <1>1, FS_Interval
<1>4. Before(i) \in SUBSET (DOMAIN regions) /\ i \in Before(i)
  BY Zenon, <1>1
<1>5. i \notin Before(j)
  BY <1>2
<1>6. Before(j) \in SUBSET Before(i)
  <2> SUFFICES ASSUME NEW l \in DOMAIN regions,
                      regions[l].size > regions[j].size \/ regions[l].size = regions[j].size
               PROVE  regions[l].size > regions[i].size
    BY Zenon
  <2> QED
    BY <1>2
<1> HIDE DEF Before
<1>7. IsFiniteSet(Before(i))
  BY Zenon, <1>3, <1>4, FS_Subset
<1>8. IsFiniteSet(Before(j)) /\ Cardinality(Before(j)) <= Cardinality(Before(i))
      /\ Cardinality(Before(j)) # Cardinality(Before(i))
  BY Zenon, <1>4, <1>5, <1>6, <1>7, FS_Subset
<1>9. Cardinality(Before(i)) \in Nat /\ Cardinality(Before(j)) \in Nat
  BY Zenon, <1>7, <1>8, FS_CardinalityType
<1>10. Cardinality(Before(j)) < Cardinality(Before(i))
  BY <1>8, <1>9
<1> QED
  BY Zenon, <1>10 DEF Rank, Before

(* Sorting puts the larger regions first.                                       *)
LEMMA SortedBySize ==
  ASSUME NEW regions \in Seq(Region), NEW k \in 1..Len(regions), NEW l \in 1..Len(regions), k < l
  PROVE  LargestFirst(regions)[k].size >= LargestFirst(regions)[l].size
<1> DEFINE at(n) == CHOOSE i \in DOMAIN regions : Rank(regions, i) = n
<1>1. \A n \in 1..Len(regions) : at(n) \in DOMAIN regions /\ Rank(regions, at(n)) = n
  BY Zenon, RanksAreOnto
<1> HIDE DEF at
<1>2. LargestFirst(regions)[k] = regions[at(k)] /\ LargestFirst(regions)[l] = regions[at(l)]
  BY Zenon DEF LargestFirst, at
<1>3. regions[at(k)] \in Region /\ regions[at(l)] \in Region
  BY <1>1
<1>4. regions[at(k)].size \in Nat /\ regions[at(l)].size \in Nat
  <2>1. \A x \in Region : x.size \in Nat
    BY DEF Region
  <2> QED
    BY Zenon, <1>3, <2>1
<1>5. ~(l < k)
  OBVIOUS
<1>6. ~(regions[at(l)].size > regions[at(k)].size)
  BY Zenon, <1>1, <1>5, LargerRanksFirst
<1> QED
  BY Zenon, <1>2, <1>4, <1>6, NotLess

(* What Cover keeps, of regions that are sorted, is too little without any one. *)
LEMMA CoverIsTight ==
  ASSUME NEW r \in Seq(Region), NEW n \in Int, \A k, l \in 1..Len(r) : k < l => r[k].size >= r[l].size
  PROVE  \A i \in DOMAIN Cover(r, n) : SizeOf(Cover(r, n)) - Cover(r, n)[i].size < n
<1> DEFINE S == {m \in 0..Len(r) : m = Len(r) \/ SizeOf(SubSeq(r, 1, m)) >= n}
           k == Min(S)
           c == SubSeq(r, 1, k)
<1>1. Len(r) \in S /\ S \in SUBSET Nat
  OBVIOUS
<1>2. k \in S /\ \A m \in S : k <= m
  BY Zenon, <1>1, LeastIsMember, LeastIsLeast
<1>3. k \in 0..Len(r)
  BY <1>2
<1>4. Cover(r, n) = c
  BY Zenon DEF Cover
<1>5. PICK f : IsSum(f, r)
  BY Zenon, SizeIsSum
<1> HIDE DEF k, S
<1>6. /\ c \in Seq(Region) /\ Len(c) = k /\ SizeOf(c) = f[k]
      /\ \A i \in 1..k : c[i] = r[i] /\ i \in 1..Len(r)
  <2>1. IsPrefix(r, f, k)
    BY Zenon, <1>3, <1>5, PrefixSize
  <2> QED
    BY Zenon, <2>1 DEF IsPrefix
<1> HIDE DEF c
<1> SUFFICES ASSUME NEW i \in DOMAIN c PROVE SizeOf(c) - c[i].size < n
  BY Zenon, <1>4
<1>7. i \in 1..k /\ k > 0 /\ k \in 1..Len(r) /\ k - 1 \in 0..Len(r) /\ k - 1 # Len(r) /\ ~(k <= k - 1) /\ (i < k \/ i = k)
  BY <1>3, <1>6
<1>8. c[i] = r[i] /\ r[i] \in Region /\ r[k] \in Region
  BY <1>6, <1>7
<1>9. r[i].size \in Nat /\ r[k].size \in Nat
  BY <1>8 DEF Region
<1>10. r[i].size >= r[k].size
  <2>1. CASE i < k
    BY Zenon, <1>6, <1>7, <2>1
  <2>2. CASE i = k
    BY <1>9, <2>2
  <2> QED
    BY Zenon, <1>7, <2>1, <2>2
<1>11. f[k] = f[k - 1] + r[k].size /\ f[k - 1] \in Nat
  BY Zenon, <1>5, <1>7 DEF IsSum
<1>12. ~(f[k - 1] >= n)
  <2>1. k - 1 \notin S
    BY Zenon, <1>2, <1>7
  <2>2. SizeOf(SubSeq(r, 1, k - 1)) = f[k - 1]
    <3>1. IsPrefix(r, f, k - 1)
      BY Zenon, <1>5, <1>7, PrefixSize
    <3> QED
      BY Zenon, <3>1 DEF IsPrefix
  <2> QED
    BY Zenon, <1>7, <2>1, <2>2 DEF S
<1> DEFINE x == f[k - 1]
           y == r[k].size
           z == r[i].size
<1>13. x \in Nat /\ y \in Nat /\ z \in Nat /\ z >= y /\ ~(x >= n) /\ SizeOf(c) = x + y /\ c[i].size = z
  BY Zenon, <1>6, <1>8, <1>9, <1>10, <1>11, <1>12
<1> HIDE DEF x, y, z
<1>14. (x + y) - z < n
  BY <1>13
<1> QED
  BY Zenon, <1>13, <1>14

(* What allocate keeps is too little without any one of its regions.            *)
LEMMA KeepNeededIsTight ==
  ASSUME NEW regions \in Seq(Region), NEW n \in Int
  PROVE  \A i \in DOMAIN KeepNeeded(regions, n) :
           SizeOf(KeepNeeded(regions, n)) - KeepNeeded(regions, n)[i].size < n
<1> DEFINE r == LargestFirst(regions)
<1>1. r \in Seq(Region)
  BY Zenon, SortKeeps
<1>2. Len(r) = Len(regions)
  BY DEF LargestFirst
<1>3. \A k, l \in 1..Len(r) : k < l => r[k].size >= r[l].size
  BY Zenon, <1>2, SortedBySize
<1> HIDE DEF r
<1>4. \A i \in DOMAIN Cover(r, n) : SizeOf(Cover(r, n)) - Cover(r, n)[i].size < n
  BY Zenon, <1>1, <1>3, CoverIsTight
<1> QED
  BY Zenon, <1>4 DEF KeepNeeded, r

--------------------------------------------------------------------------------
(* How much memory is asked for *)

(* Division with remainder.                                                     *)
LEMMA Division ==
  ASSUME NEW a \in Nat, NEW b \in Nat \ {0}
  PROVE  a \div b \in Nat /\ a % b \in Nat /\ a % b < b /\ a = b * (a \div b) + (a % b)
  OBVIOUS

(* The remainder of a multiple, by a multiple.                                  *)
LEMMA RestOfMultiple ==
  ASSUME NEW m \in Nat, NEW b \in Nat, NEW k \in Nat, NEW q \in Nat, NEW r \in Nat,
         m * b = (b * k) * q + r
  PROVE  r = (m - k * q) * b /\ m - k * q \in Int
  OBVIOUS

(* What is asked for is a whole number of MiB, also after a wrap.               *)
LEMMA RequestedIsWhole ==
  ASSUME NEW mib \in Nat
  PROVE  /\ RequestedMem(mib) \in Nat /\ RequestedMem(mib) < W64
         /\ \E c \in Int : RequestedMem(mib) = c * MiB
<1> DEFINE k == W64 \div MiB
           a == mib * MiB
           q == a \div W64
           r == a % W64
<1>1. W64 \in Nat \ {0} /\ MiB \in Nat \ {0} /\ W64 \in Nat /\ MiB \in Nat /\ W64 % MiB = 0 /\ a \in Nat
  BY ResourceAssumption
<1>2. RequestedMem(mib) = r
  BY Zenon DEF RequestedMem
<1>3. k \in Nat /\ W64 = MiB * k + 0
  BY Zenon, <1>1, Division
<1>4. q \in Nat /\ r \in Nat /\ r < W64 /\ a = W64 * q + r
  BY Zenon, <1>1, Division
<1> HIDE DEF k, q, r
<1>5. W64 = MiB * k
  BY <1>1, <1>3
<1>6. mib * MiB = (MiB * k) * q + r
  BY Zenon, <1>4, <1>5
<1>7. r = (mib - k * q) * MiB /\ mib - k * q \in Int
  BY <1>1, <1>3, <1>4, <1>6, RestOfMultiple
<1> QED
  BY Zenon, <1>2, <1>4, <1>7

(* Comparing whole MiB is comparing bytes, when one side is whole.              *)
LEMMA CompareInMiB ==
  ASSUME NEW s \in Nat, NEW c \in Int, NEW b \in Nat \ {0}, c * b \in Nat, ~(s \div b < (c * b) \div b)
  PROVE  s >= c * b
<1>1. c \in Nat /\ (c * b) \div b = c
  OBVIOUS
<1>2. s \div b >= c
  BY <1>1
<1> QED
  BY <1>1, <1>2

(* As a signed integer, a size is itself or negative.                           *)
LEMMA SignedIsLess ==
  ASSUME NEW n \in Nat, n < W64
  PROVE  Signed(n, W64) \in Int /\ Signed(n, W64) <= n
<1>1. W64 \in Nat \ {0}
  BY ResourceAssumption
<1>2. n % W64 = n
  BY <1>1
<1> QED
  BY <1>1, <1>2 DEF Signed

(* The smaller and the larger of two numbers.                                   *)
LEMMA OfTwo ==
  ASSUME NEW a \in Int, NEW b \in Int
  PROVE  Min({a, b}) = (IF a <= b THEN a ELSE b) /\ Max({a, b}) = (IF a <= b THEN b ELSE a)
<1>1. CASE a <= b
  <2>1. \A x \in {a, b} : (\A y \in {a, b} : x <= y) <=> x = a
    BY <1>1
  <2>2. \A x \in {a, b} : (\A y \in {a, b} : x >= y) <=> x = b
    BY <1>1
  <2>3. Min({a, b}) = a
    BY Zenon, <2>1 DEF Min
  <2>4. Max({a, b}) = b
    BY Zenon, <2>2 DEF Max
  <2> QED
    BY Zenon, <1>1, <2>3, <2>4
<1>2. CASE ~(a <= b)
  <2>1. \A x \in {a, b} : (\A y \in {a, b} : x <= y) <=> x = b
    BY <1>2
  <2>2. \A x \in {a, b} : (\A y \in {a, b} : x >= y) <=> x = a
    BY <1>2
  <2>3. Min({a, b}) = b
    BY Zenon, <2>1 DEF Min
  <2>4. Max({a, b}) = a
    BY Zenon, <2>2 DEF Max
  <2> QED
    BY Zenon, <1>2, <2>3, <2>4
<1> QED
  BY Zenon, <1>1, <1>2

--------------------------------------------------------------------------------
(* Where the bytes of the image go *)

(* The bytes of a file of size n that fit into t bytes of memory.               *)
Copied(t, n) == IF t <= Offset THEN 0 ELSE IF t - Offset >= n THEN n ELSE t - Offset

(* The first bytes of the file, each at its place.                              *)
Whole(n) == {<<k, Offset + k>> : k \in 0..n - 1}

(* What the loop has done after t bytes of memory.                              *)
Filled(t, n) == [total |-> t, cursor |-> Copied(t, n), image |-> Whole(Copied(t, n))]

(* More bytes, at the places that follow.                                       *)
LEMMA WholeGrows ==
  ASSUME NEW c \in Nat, NEW m \in Nat
  PROVE  Whole(c) \cup {<<c + k, Offset + c + k>> : k \in 0..m - 1} = Whole(c + m)
<1> DEFINE More == {<<c + k, Offset + c + k>> : k \in 0..m - 1}
<1>0. Offset \in Nat
  BY ResourceAssumption
<1>1. Whole(c) \subseteq Whole(c + m)
  <2>1. \A k \in 0..c - 1 : k \in 0..(c + m) - 1
    OBVIOUS
  <2> QED
    BY Zenon, <2>1 DEF Whole
<1>2. More \subseteq Whole(c + m)
  <2> SUFFICES ASSUME NEW k \in 0..m - 1 PROVE <<c + k, Offset + c + k>> \in Whole(c + m)
    BY Zenon
  <2>1. c + k \in 0..(c + m) - 1 /\ Offset + (c + k) = Offset + c + k
    BY <1>0
  <2> QED
    BY Zenon, <2>1 DEF Whole
<1>3. Whole(c + m) \subseteq Whole(c) \cup More
  <2> SUFFICES ASSUME NEW k \in 0..(c + m) - 1 PROVE <<k, Offset + k>> \in Whole(c) \cup More
    BY Zenon DEF Whole
  <2>1. CASE k \in 0..c - 1
    BY Zenon, <2>1 DEF Whole
  <2>2. CASE k \notin 0..c - 1
    <3>1. k - c \in 0..m - 1 /\ c + (k - c) = k /\ Offset + c + (k - c) = Offset + k
      BY <1>0, <2>2
    <3> QED
      BY Zenon, <3>1
  <2> QED
    BY Zenon, <2>1, <2>2
<1> QED
  BY Zenon, <1>1, <1>2, <1>3

(* One turn of the loop.                                                        *)
LEMMA FillStep ==
  ASSUME NEW t \in Nat, NEW z \in Nat, NEW n \in Nat
  PROVE  FillRegion(Filled(t, n), z, n) = Filled(t + z, n)
<1> DEFINE w == Filled(t, n)
           c == Copied(t, n)
           ro == IF 0 <= Offset - t THEN Offset - t ELSE 0
           fo == IF 0 <= t - Offset THEN t - Offset ELSE 0
           m == IF z - ro <= n - fo THEN z - ro ELSE n - fo
<1>0. Offset \in Nat
  BY ResourceAssumption
<1>1. w.total = t /\ w.cursor = c /\ w.image = Whole(c)
  BY DEF Filled
<1>2. c \in Nat /\ ro \in Int /\ fo \in Int /\ z - ro \in Int /\ n - fo \in Int /\ Offset - t \in Int /\ t - Offset \in Int
  BY <1>0 DEF Copied
<1>3. CASE t >= n + Offset \/ t + z <= Offset
  <2>1. Copied(t + z, n) = c
    BY <1>0, <1>3 DEF Copied
  <2>2. FillRegion(w, z, n) = [w EXCEPT !.total = @ + z]
    BY Zenon, <1>1, <1>3 DEF FillRegion
  <2>3. [w EXCEPT !.total = @ + z] = [total |-> t + z, cursor |-> c, image |-> Whole(c)]
    BY DEF Filled
  <2> QED
    BY Zenon, <2>1, <2>2, <2>3 DEF Filled
<1>4. CASE ~(t >= n + Offset \/ t + z <= Offset)
  <2>1. m \in Nat /\ Copied(t + z, n) = c + m /\ t + ro = Offset + c
    BY <1>0, <1>4 DEF Copied
  <2>0. 0 \in Int
    OBVIOUS
  <2> HIDE DEF w, c
  <2>2. Max({0, Offset - w.total}) = ro /\ Max({0, w.total - Offset}) = fo
    <3>1. Max({0, Offset - t}) = ro
      BY Zenon, <1>2, <2>0, OfTwo
    <3>2. Max({0, t - Offset}) = fo
      BY Zenon, <1>2, <2>0, OfTwo
    <3> QED
      BY Zenon, <1>1, <3>1, <3>2
  <2> HIDE DEF ro, fo
  <2>3. Min({z - ro, n - fo}) = m
    BY Zenon, <1>2, OfTwo
  <2> HIDE DEF m
  <2>4. FillRegion(w, z, n)
          = [total  |-> w.total + z,
             cursor |-> w.cursor + m,
             image  |-> w.image \cup {<<w.cursor + k, w.total + ro + k>> : k \in 0..m - 1}]
    BY Zenon, <1>1, <1>4, <2>2, <2>3 DEF FillRegion
  <2>5. w.image \cup {<<w.cursor + k, w.total + ro + k>> : k \in 0..m - 1} = Whole(c + m)
    <3>1. w.image \cup {<<w.cursor + k, w.total + ro + k>> : k \in 0..m - 1}
            = Whole(c) \cup {<<c + k, Offset + c + k>> : k \in 0..m - 1}
      BY Zenon, <1>1, <2>1
    <3> QED
      BY Zenon, <1>2, <2>1, <3>1, WholeGrows
  <2>6. FillRegion(w, z, n) = [total |-> t + z, cursor |-> Copied(t + z, n), image |-> Whole(Copied(t + z, n))]
    BY Zenon, <1>1, <2>1, <2>4, <2>5
  <2> QED
    BY Zenon, <2>6 DEF Filled, w
<1> QED
  BY Zenon, <1>3, <1>4

(* The whole loop: as much of the file as fits, every byte at its place.        *)
LEMMA WriteFills ==
  ASSUME NEW regions \in Seq(Region), NEW n \in Nat
  PROVE  WriteEif(regions, n) = Whole(Copied(SizeOf(regions), n)) /\ SizeOf(regions) \in Nat
<1>1. PICK f : IsSum(f, regions) /\ SizeOf(regions) = f[Len(regions)]
  BY Zenon, SizeIsSum
<1> DEFINE Def(g) == [i \in 0..Len(regions) |->
                        IF i = 0 THEN [total |-> 0, cursor |-> 0, image |-> {}]
                                 ELSE FillRegion(g[i - 1], regions[i].size, n)]
           h == [i \in 0..Len(regions) |-> Filled(f[i], n)]
           written == CHOOSE g : g = Def(g)
<1>a. /\ Len(regions) \in Nat /\ 0 \in 0..Len(regions) /\ Len(regions) \in 0..Len(regions)
      /\ Len(regions) <= Len(regions)
      /\ \A i \in 0..Len(regions) : i # 0 => i \in 1..Len(regions) /\ i - 1 \in 0..Len(regions)
      /\ \A i \in 1..Len(regions) : i \in 0..Len(regions) /\ i # 0
  OBVIOUS
<1>b. \A i \in 1..Len(regions) : regions[i].size \in Nat
  <2>1. \A x \in Region : x.size \in Nat
    BY DEF Region
  <2>2. \A i \in 1..Len(regions) : regions[i] \in Region
    OBVIOUS
  <2> QED
    BY Zenon, <2>1, <2>2
<1>2. WriteEif(regions, n) = written[Len(regions)].image
  BY Zenon DEF WriteEif
<1>3. /\ f[0] = 0 /\ \A i \in 0..Len(regions) : f[i] \in Nat
      /\ \A i \in 1..Len(regions) : f[i] = f[i - 1] + regions[i].size
  BY Zenon, <1>1 DEF IsSum
<1>4. Filled(0, n) = [total |-> 0, cursor |-> 0, image |-> {}]
  <2>1. Copied(0, n) = 0
    BY ResourceAssumption DEF Copied
  <2>2. 0..0 - 1 = {}
    OBVIOUS
  <2>3. Whole(0) = {}
    BY Zenon, <2>2 DEF Whole
  <2> QED
    BY Zenon, <2>1, <2>3 DEF Filled
<1>5. \A i \in 1..Len(regions) : Filled(f[i], n) = FillRegion(Filled(f[i - 1], n), regions[i].size, n)
  <2> TAKE i \in 1..Len(regions)
  <2>1. i - 1 \in 0..Len(regions)
    BY Zenon, <1>a
  <2>2. f[i - 1] \in Nat /\ regions[i].size \in Nat /\ f[i] = f[i - 1] + regions[i].size
    BY Zenon, <1>b, <1>3, <2>1
  <2>3. FillRegion(Filled(f[i - 1], n), regions[i].size, n) = Filled(f[i - 1] + regions[i].size, n)
    BY Zenon, <2>2, FillStep
  <2> QED
    BY Zenon, <2>2, <2>3
<1>6. h = Def(h)
  <2>1. \A i \in 0..Len(regions) : h[i] = Filled(f[i], n)
    BY Zenon
  <2>2. ASSUME NEW i \in 0..Len(regions)
        PROVE  Filled(f[i], n) = IF i = 0 THEN [total |-> 0, cursor |-> 0, image |-> {}]
                                          ELSE FillRegion(h[i - 1], regions[i].size, n)
    <3>1. CASE i = 0
      BY Zenon, <1>3, <1>4, <3>1
    <3>2. CASE i # 0
      BY Zenon, <1>a, <1>5, <2>1, <3>2
    <3> QED
      BY Zenon, <3>1, <3>2
  <2> QED
    BY Zenon, <2>2
<1>7. written = Def(written)
  <2> HIDE DEF Def, h
  <2> QED
    BY Zenon, <1>6
<1> HIDE DEF written, h
<1>8. /\ written[0] = Filled(0, n)
      /\ \A i \in 1..Len(regions) : written[i] = FillRegion(written[i - 1], regions[i].size, n)
  BY Zenon, <1>a, <1>4, <1>7
<1> HIDE DEF Def
<1> DEFINE S == {i \in Nat : i <= Len(regions) => written[i] = Filled(f[i], n)}
<1>9. \A i \in Nat : i \in S
  <2>1. 0 \in S
    BY <1>3, <1>8
  <2>2. ASSUME NEW i \in Nat, i \in S PROVE i + 1 \in S
    <3> SUFFICES ASSUME i + 1 <= Len(regions) PROVE written[i + 1] = Filled(f[i + 1], n)
      OBVIOUS
    <3>1. i <= Len(regions) /\ i + 1 \in 1..Len(regions) /\ (i + 1) - 1 = i
      BY <1>a
    <3> QED
      BY Zenon, <1>5, <1>8, <2>2, <3>1
  <2> HIDE DEF S
  <2> QED
    BY Zenon, <2>1, <2>2, Induction
<1>10. written[Len(regions)] = Filled(SizeOf(regions), n) /\ SizeOf(regions) \in Nat
  BY Zenon, <1>a, <1>1, <1>3, <1>9
<1>11. Filled(SizeOf(regions), n).image = Whole(Copied(SizeOf(regions), n))
  BY DEF Filled
<1> QED
  BY Zenon, <1>2, <1>10, <1>11

--------------------------------------------------------------------------------
(* What was asked for *)

Cpus == UNION CpuSets

Covering == {"load", "donate", "cpus", "bind", "start", "size", "boot", "beat", "report", "serve"}

Written == {"donate", "cpus", "bind", "start"}

NotStarted == {"config", "new", "verify", "large", "small", "check", "load", "donate", "cpus", "bind", "start"}

Leaving == {"unwind", "failed", "drop", "end", "gone"}

(* The CPUs are given one by one, each as it was asked for and none twice, by a *)
(* process that has checked the list.                                           *)
CpuInv ==
  /\ args \in Args /\ poolFile \in PoolFiles /\ cpuIds \in Seq(Cpus) /\ freeCpus \subseteq Cpus
  /\ \A i \in 1..Len(cpuIds) :
       /\ i <= Len(CpuRequests(args)) /\ CpuRequests(args)[i] \in {0, cpuIds[i]}
       /\ cpuIds[i] \notin freeCpus
  /\ \A i, j \in 1..Len(cpuIds) : i # j => cpuIds[i] # cpuIds[j]
  /\ pc \in {"bind", "start"} \/ vm = "running" => Len(cpuIds) = Len(CpuRequests(args))
  /\ pc \in Launching \cup {"new"} \/ vm = "running" => CpuConfigOK(args, poolFile)
  /\ pc \in NotStarted => vm # "running"

(* What Trim keeps would not do without any one of its regions.                 *)
Tight == \A i \in DOMAIN held : SizeOf(held) - held[i].size < RequestedMem(args.mem)

(* The second loop has used up the smaller pages; what Trim leaves is tight and *)
(* what CheckAllocated lets pass is enough.                                     *)
PageInv ==
  /\ freePages \in [DOMAIN HugePages -> Nat]
  /\ pc = "small" => \A i \in DOMAIN HugePages : i > idx => freePages[i] = 0
  /\ pc \in Covering \cup {"check"} => Tight
  /\ pc \in Covering => SizeOf(held) >= RequestedMem(args.mem)

(* As long as the file is what it was when its size was checked.                *)
ImageInv ==
  ~rewritten => /\ eif \in EifSizes
                /\ pc \in Launching => EnoughForImage(eif, args.mem)
                /\ pc \in Written => image = WriteEif(held, eif)
                /\ vm = "running" => image = Whole(eif)

AskedInv == CpuInv /\ PageInv /\ ImageInv

(* Nothing has been given yet.                                                  *)
LEMMA AskedInit == Init => AskedInv
<1> SUFFICES ASSUME Init PROVE AskedInv
  BY Zenon
<1>1. CpuInv
  <2>1. cpuIds = <<>> /\ pc = "config" /\ vm = "none" /\ args \in Args /\ poolFile \in PoolFiles
        /\ freeCpus \in CpuSets
    BY Zenon DEF Init
  <2>2. Len(cpuIds) = 0 /\ cpuIds \in Seq(Cpus) /\ 1..Len(cpuIds) = {}
    BY <2>1
  <2>3. pc \notin Launching \cup {"new"} /\ pc \notin {"bind", "start"} /\ vm # "running"
    BY <2>1 DEF Launching
  <2> QED
    BY Zenon, <2>1, <2>2, <2>3 DEF CpuInv, Cpus
<1>2. PageInv
  <2>1. freePages \in FreePages /\ pc = "config"
    BY Zenon DEF Init
  <2>2. pc \notin Covering \cup {"check"} /\ pc # "small"
    BY <2>1 DEF Covering
  <2> QED
    BY Zenon, <2>1, <2>2, HandleAssumption DEF PageInv
<1>3. ImageInv
  <2>1. eif \in EifSizes /\ pc = "config" /\ vm = "none"
    BY Zenon DEF Init
  <2>2. pc \notin Launching /\ pc \notin Written /\ vm # "running"
    BY <2>1 DEF Launching, Written
  <2> QED
    BY Zenon, <2>1, <2>2 DEF ImageInv
<1> QED
  BY Zenon, <1>1, <1>2, <1>3 DEF AskedInv

(* A step that goes on with what was given.                                     *)
Follows ==
  \/ pc' = pc /\ idx' = idx
  \/ <<pc, pc'>> \in {<<"verify", "large">>, <<"donate", "cpus">>, <<"bind", "start">>, <<"size", "boot">>,
                      <<"boot", "beat">>, <<"beat", "report">>, <<"report", "serve">>}

(* A step that leaves what was given alone, goes on, or gives it up.            *)
Frame ==
  /\ UNCHANGED <<args, poolFile, eif, rewritten, freePages, image, freeCpus, cpuIds>>
  /\ vm' \in {vm, "freed"}
  /\ pc' \in Leaving \/ (held' = held /\ Follows)

(* Such a step enters no place of the launch without what has to be there.      *)
LEMMA FrameEnters ==
  ASSUME Frame
  PROVE  /\ pc' \in {"bind", "start"} => pc \in {"bind", "start"}
         /\ pc' \in Launching \cup {"new"} => pc \in Launching \cup {"new"}
         /\ pc' \in Launching => pc \in Launching
         /\ pc' \in Covering => pc \in Covering /\ held' = held
         /\ pc' \in Covering \cup {"check"} => pc \in Covering \cup {"check"} /\ held' = held
         /\ pc' \in Written => pc \in Written /\ held' = held
         /\ pc' = "small" => pc = "small" /\ idx' = idx
         /\ pc' \in NotStarted => pc \in NotStarted
         /\ vm' = "running" => vm = "running"
<1>1. vm' = "running" => vm = "running"
  BY DEF Frame
<1>2. CASE pc' \in Leaving
  BY <1>1, <1>2 DEF Leaving, Launching, Covering, Written, NotStarted
<1>3. CASE held' = held /\ pc' = pc /\ idx' = idx
  BY Zenon, <1>1, <1>3
<1>4. CASE held' = held /\ <<pc, pc'>> \in {<<"verify", "large">>, <<"donate", "cpus">>, <<"bind", "start">>, <<"size", "boot">>,
                      <<"boot", "beat">>, <<"beat", "report">>, <<"report", "serve">>}
  BY <1>1, <1>4 DEF Launching, Covering, Written, NotStarted
<1> QED
  BY Zenon, <1>2, <1>3, <1>4 DEF Frame, Follows

(* It keeps the invariant.                                                      *)
LEMMA FrameInv ==
  ASSUME AskedInv, Frame
  PROVE  AskedInv'
<1>0. CpuInv /\ PageInv /\ ImageInv
  BY Zenon DEF AskedInv
<1>1. UNCHANGED <<args, poolFile, eif, rewritten, freePages, image, freeCpus, cpuIds>>
  BY Zenon DEF Frame
<1>2. CpuInv'
  BY Zenon, <1>0, <1>1, FrameEnters DEF CpuInv
<1>3. PageInv'
  <2>1. Tight /\ held' = held => Tight'
    BY Zenon, <1>1 DEF Tight
  <2> QED
    BY Zenon, <1>0, <1>1, <2>1, FrameEnters DEF PageInv
<1>4. ImageInv'
  BY Zenon, <1>0, <1>1, FrameEnters DEF ImageInv
<1> QED
  BY Zenon, <1>2, <1>3, <1>4 DEF AskedInv

(* The steps of the launch that leave all this alone.                           *)
LEMMA LaunchFrame ==
  ASSUME \/ NewFails \/ VerifySignature \/ Fail \/ OutOfMemory \/ Donate \/ AllDonated \/ BindHeartbeat
         \/ Boot \/ Report,
         UNCHANGED given
  PROVE  Frame
<1>0. UNCHANGED <<args, poolFile>>
  BY Zenon DEF given
<1>1. CASE NewFails \/ Fail \/ OutOfMemory
  <2>1. UNCHANGED <<file, memory, launch, owned>> /\ pc' \in {"failed", "unwind"}
    BY Zenon, <1>1 DEF NewFails, Fail, OutOfMemory, Step, Goto
  <2> QED
    BY Zenon, <1>0, <2>1 DEF Frame, Leaving, file, memory, launch, owned
<1>2. CASE AllDonated \/ BindHeartbeat \/ HeartbeatConnects
  <2>1. UNCHANGED <<file, memory, launch, owned>>
        /\ <<pc, pc'>> \in {<<"donate", "cpus">>, <<"bind", "start">>, <<"boot", "beat">>}
    BY Zenon, <1>2 DEF AllDonated, BindHeartbeat, HeartbeatConnects, Step, Goto
  <2> QED
    BY Zenon, <1>0, <2>1 DEF Frame, Follows, file, memory, launch, owned
<1>3. CASE VerifySignature
  <2>1. UNCHANGED <<file, freePages, held, launch, owned>> /\ <<pc, pc'>> = <<"verify", "large">>
    BY Zenon, <1>3 DEF VerifySignature, Goto
  <2> QED
    BY Zenon, <1>0, <2>1 DEF Frame, Follows, file, launch, owned
<1>4. CASE Donate
  <2>1. UNCHANGED <<file, memory, image, freeCpus, cpuIds, owned>> /\ pc' = pc
    BY Zenon, <1>4 DEF Donate, Goto
  <2> QED
    BY Zenon, <1>0, <2>1 DEF Frame, Follows, file, memory, owned
<1>5. CASE SetTimeout
  <2>1. UNCHANGED <<file, memory, image, freeCpus, cpuIds, owned>> /\ <<pc, pc'>> = <<"size", "boot">>
    BY Zenon, <1>5 DEF SetTimeout, Goto
  <2> QED
    BY Zenon, <1>0, <2>1 DEF Frame, Follows, file, memory, owned
<1>6. CASE BootSucceeds \/ Report
  <2>1. UNCHANGED <<file, memory, launch, vm>> /\ <<pc, pc'>> \in {<<"beat", "report">>, <<"report", "serve">>}
    BY Zenon, <1>6 DEF BootSucceeds, Report, Goto
  <2> QED
    BY Zenon, <1>0, <2>1 DEF Frame, Follows, file, memory, launch
<1>7. CASE PollTimeout \/ BeatFails
  <2>1. UNCHANGED <<file, freePages, launch>> /\ pc' = "unwind" /\ TerminateEnclave
    BY Zenon, <1>7 DEF PollTimeout, BeatFails, BootFails, Goto
  <2>2. vm' \in {vm, "freed"}
    BY Zenon, <2>1 DEF TerminateEnclave, ReleaseDescriptor
  <2> QED
    BY Zenon, <1>0, <2>1, <2>2 DEF Frame, Leaving, file, launch
<1> QED
  BY Zenon, <1>1, <1>2, <1>3, <1>4, <1>5, <1>6, <1>7 DEF Boot

(* So do the steps after it, and those of the terminate threads.                *)
LEMMA LaterFrame ==
  ASSUME \/ Unwind \/ LeaveLoop \/ DropManager \/ ExitProcess \/ Rest \/ \E t \in Thread : TerminateThread(t),
         UNCHANGED given
  PROVE  Frame
<1>0. UNCHANGED <<args, poolFile>>
  BY Zenon DEF given
<1>1. CASE Unwind \/ DropManager
  <2>1. UNCHANGED <<file, freePages, launch>> /\ pc' \in {"failed", "end"} /\ DropHandle
    BY Zenon, <1>1 DEF Unwind, DropManager, Goto
  <2>2. vm' \in {vm, "freed"}
    BY Zenon, <2>1 DEF DropHandle, ReleaseDescriptor
  <2> QED
    BY Zenon, <1>0, <2>1, <2>2 DEF Frame, Leaving, file, launch
<1>2. CASE LeaveLoop
  <2>1. UNCHANGED <<file, memory, launch, owned>> /\ pc' = "drop"
    BY Zenon, <1>2 DEF LeaveLoop, Step, Goto
  <2> QED
    BY Zenon, <1>0, <2>1 DEF Frame, Leaving, file, memory, launch, owned
<1>3. CASE ExitProcess
  <2>1. UNCHANGED <<file, freePages, launch>> /\ pc' = "gone" /\ vm' \in {vm, "freed"}
    BY Zenon, <1>3 DEF ExitProcess, ReleaseDescriptor
  <2> QED
    BY Zenon, <1>0, <2>1 DEF Frame, Leaving, file, launch
<1>4. CASE Rest
  <2>1. UNCHANGED <<pc, file, memory, launch, owned>>
    BY Zenon, <1>4 DEF Rest
  <2> QED
    BY Zenon, <1>0, <2>1 DEF Frame, Follows, file, memory, launch, owned
<1>5. ASSUME NEW t \in Thread, TerminateThread(t) PROVE Frame
  <2>1. UNCHANGED <<pc, file, freePages, idx, held, launch>>
    BY Zenon, <1>5 DEF TerminateThread
  <2>2. vm' \in {vm, "freed"}
    BY Zenon, <1>5 DEF TerminateThread, Spawn, SetTerminating, GetTerminationResources, CloseDescriptor,
                       FreeClone, Clear, SetEmpty, ReleaseDescriptor, owned
  <2> QED
    BY Zenon, <1>0, <2>1, <2>2 DEF Frame, Follows, file, launch
<1> QED
  BY Zenon, <1>1, <1>2, <1>3, <1>4, <1>5

(* The launch begins with a configuration and a size that were checked.         *)
LEMMA BeginAsked ==
  ASSUME AskedInv, GetCpuConfig \/ NewHandle, UNCHANGED given
  PROVE  AskedInv'
<1>0. CpuInv /\ PageInv /\ ImageInv
  BY Zenon DEF AskedInv
<1>1. UNCHANGED <<args, poolFile, file, memory, launch>> /\ vm' \in {vm, "init"}
  BY Zenon DEF GetCpuConfig, NewHandle, Step, Goto, given, owned
<1>a. pc \in {"config", "new"} /\ pc \in NotStarted
  BY Zenon DEF GetCpuConfig, NewHandle, Step, Goto, NotStarted
<1>2. /\ pc' \in {"new", "failed", "verify"}
      /\ pc' # "failed" => CpuConfigOK(args, poolFile)
      /\ pc' = "verify" => EnoughForImage(eif, args.mem)
  <2>1. CASE GetCpuConfig
    <3>1. pc' = IF CpuConfigOK(args, poolFile) THEN "new" ELSE "failed"
      BY Zenon, <2>1 DEF GetCpuConfig, Step, Goto
    <3> QED
      BY <3>1
  <2>2. CASE NewHandle
    <3>1. pc = "new" /\ pc' \in {"failed", "verify"} /\ EnoughForImage(eif, args.mem)
      BY Zenon, <2>2 DEF NewHandle, Goto
    <3> QED
      BY Zenon, <1>0, <3>1 DEF CpuInv
  <2> QED
    BY Zenon, <2>1, <2>2
<1>3. /\ pc' \notin {"bind", "start"} /\ pc' \notin Covering \cup {"check"} /\ pc' # "small"
      /\ pc' \notin Written
      /\ pc' \in Launching => pc' = "verify"
      /\ pc' \in Launching \cup {"new"} => pc' # "failed"
      /\ vm' = "running" => vm = "running"
  BY <1>1, <1>2 DEF Covering, Written, Launching
<1>4. CpuInv'
  BY Zenon, <1>0, <1>1, <1>a, <1>2, <1>3 DEF CpuInv, launch
<1>5. PageInv'
  BY Zenon, <1>0, <1>1, <1>3 DEF PageInv, memory
<1>6. ImageInv'
  BY Zenon, <1>0, <1>1, <1>2, <1>3 DEF ImageInv, file, launch
<1> QED
  BY Zenon, <1>4, <1>5, <1>6 DEF AskedInv

(* The search for pages concerns neither the CPUs nor the image.                *)
LEMMA SearchAsked ==
  ASSUME CpuInv, ImageInv, UNCHANGED <<args, poolFile, file, launch, vm>>,
         pc \in {"large", "small", "check"}, pc' \in {"large", "small", "check", "load"}
  PROVE  CpuInv' /\ ImageInv'
<1>1. pc \in Launching /\ pc \in NotStarted /\ pc' \notin {"bind", "start"} /\ pc' \notin Written
  BY DEF Written, Launching, NotStarted
<1>2. CpuInv'
  BY Zenon, <1>1 DEF CpuInv, launch
<1>3. ImageInv'
  BY Zenon, <1>1 DEF ImageInv, file, launch
<1> QED
  BY Zenon, <1>2, <1>3

(* A page that is taken was free; none is given back.                           *)
LEMMA PageTaken ==
  ASSUME freePages \in [DOMAIN HugePages -> Nat],
         NEW i \in DOMAIN HugePages, freePages[i] > 0, freePages' = [freePages EXCEPT ![i] = @ - 1]
  PROVE  /\ freePages' \in [DOMAIN HugePages -> Nat]
         /\ \A j \in DOMAIN HugePages : freePages[j] = 0 => freePages'[j] = 0
<1>1. freePages[i] - 1 \in Nat /\ freePages[i] # 0
  OBVIOUS
<1> QED
  BY Zenon, <1>1

(* The two loops of allocate.                                                   *)
LEMMA LoopsAsked ==
  ASSUME AskedInv, UNCHANGED given,
         AllocateLarge \/ NextSmaller \/ SecondLoop \/ AllocateSmall \/ NextLarger \/ OtherLaunch
  PROVE  AskedInv'
<1>0. CpuInv /\ PageInv /\ ImageInv
  BY Zenon DEF AskedInv
<1>1. /\ UNCHANGED <<args, poolFile, file, launch, vm>>
      /\ pc \in {"large", "small"} /\ pc' \in {"large", "small"}
  BY Zenon DEF AllocateLarge, NextSmaller, SecondLoop, AllocateSmall, NextLarger, OtherLaunch, Goto, given, owned
<1>2. /\ pc \in {"large", "small", "check"} /\ pc' \in {"large", "small", "check", "load"}
      /\ pc' \notin Covering /\ pc' \notin Covering \cup {"check"}
  BY <1>1 DEF Covering
<1>3. CpuInv' /\ ImageInv'
  BY Zenon, <1>0, <1>1, <1>2, SearchAsked
<1>4. freePages' \in [DOMAIN HugePages -> Nat]
      /\ \A j \in DOMAIN HugePages : freePages[j] = 0 => freePages'[j] = 0
  <2>1. CASE \E i \in DOMAIN HugePages : freePages[i] > 0 /\ freePages' = [freePages EXCEPT ![i] = @ - 1]
    BY Zenon, <1>0, <2>1, PageTaken DEF PageInv
  <2>2. CASE UNCHANGED freePages
    BY Zenon, <1>0, <2>2 DEF PageInv
  <2>3. DOMAIN freePages = DOMAIN HugePages
    BY Zenon, <1>0 DEF PageInv
  <2> QED
    BY Zenon, <2>1, <2>2, <2>3
       DEF AllocateLarge, NextSmaller, SecondLoop, AllocateSmall, NextLarger, OtherLaunch, MapPage
<1>5. pc' = "small" => \A i \in DOMAIN HugePages : i > idx' => freePages'[i] = 0
  <2> SUFFICES ASSUME pc' = "small", NEW i \in DOMAIN HugePages, i > idx' PROVE freePages[i] = 0
    BY Zenon, <1>4
  <2>0. HugePages \in Seq(Nat)
    BY Zenon, ResourceAssumption
  <2>1. CASE SecondLoop
    <3>1. idx' = Len(HugePages)
      BY Zenon, <2>1 DEF SecondLoop
    <3> QED
      BY <2>0, <3>1
  <2>2. CASE NextLarger
    <3>1. pc = "small" /\ idx' = idx - 1 /\ freePages[idx] = 0 /\ idx \in DOMAIN HugePages
      BY Zenon, <2>2 DEF NextLarger, Goto
    <3>2. i = idx \/ i > idx
      BY <2>0, <3>1
    <3> QED
      BY Zenon, <1>0, <3>1, <3>2 DEF PageInv
  <2>3. CASE AllocateSmall \/ OtherLaunch
    <3>1. pc = "small" /\ idx' = idx
      BY Zenon, <2>3 DEF AllocateSmall, OtherLaunch, Goto
    <3> QED
      BY Zenon, <1>0, <3>1 DEF PageInv
  <2>4. ~AllocateLarge /\ ~NextSmaller
    BY Zenon DEF AllocateLarge, NextSmaller, Goto
  <2> QED
    BY Zenon, <2>1, <2>2, <2>3, <2>4
<1>6. PageInv'
  BY Zenon, <1>2, <1>4, <1>5 DEF PageInv
<1> QED
  BY Zenon, <1>3, <1>6 DEF AskedInv

(* What the arguments are.                                                      *)
LEMMA ArgsType ==
  ASSUME NEW a \in Args
  PROVE  a.mem \in Nat /\ a.list \in Seq(Nat) /\ a.count \in Nat
<1>1. a \in [cid : BOOLEAN, mem : Nat, list : Seq(Nat), count : Nat]
  BY Zenon, HandleAssumption
<1> QED
  BY <1>1

(* Sizes are numbers.                                                           *)
LEMMA SizesType ==
  ASSUME NEW regions \in Seq(Region)
  PROVE  SizeOf(regions) \in Nat /\ \A i \in DOMAIN regions : regions[i].size \in Nat
<1>1. SizeOf(regions) \in Nat
  BY Zenon, WriteFills
<1>2. \A i \in DOMAIN regions : regions[i] \in Region
  OBVIOUS
<1>3. \A x \in Region : x.size \in Nat
  BY DEF Region
<1> QED
  BY Zenon, <1>1, <1>2, <1>3

(* Regions that are not needed are given up: what is left is tight.             *)
LEMMA TrimAsked ==
  ASSUME HandleInv, AskedInv, Trim, UNCHANGED given
  PROVE  AskedInv'
<1> DEFINE R == RequestedMem(args.mem)
           r == KeepNeeded(held, Signed(R, W64))
<1>0. CpuInv /\ PageInv /\ ImageInv
  BY Zenon DEF AskedInv
<1>1. /\ UNCHANGED <<args, poolFile, file, launch, vm, freePages>>
      /\ pc = "small" /\ pc' = "check" /\ held' = r
  BY Zenon DEF Trim, Goto, given, owned
<1>2. /\ pc \in {"large", "small", "check"} /\ pc' \in {"large", "small", "check", "load"}
      /\ pc' # "small" /\ pc' \notin Covering
  BY <1>1 DEF Covering
<1>3. CpuInv' /\ ImageInv'
  BY Zenon, <1>0, <1>1, <1>2, SearchAsked
<1>4. R \in Nat /\ R < W64
  BY Zenon, <1>0, ArgsType, RequestedIsWhole DEF CpuInv
<1> HIDE DEF R
<1>5. Signed(R, W64) \in Int /\ Signed(R, W64) <= R
  BY Zenon, <1>4, SignedIsLess
<1>6. held \in Seq(Region)
  BY Zenon DEF HandleInv, HandleTypeOK
<1>7. r \in Seq(Region) /\ \A i \in DOMAIN r : SizeOf(r) - r[i].size < Signed(R, W64)
  BY Zenon, <1>5, <1>6, KeepNeededKeeps, KeepNeededIsTight
<1> HIDE DEF r
<1>8. SizeOf(r) \in Nat /\ \A i \in DOMAIN r : r[i].size \in Nat
  BY Zenon, <1>7, SizesType
<1> DEFINE S == SizeOf(r)
           z(i) == r[i].size
           N == Signed(R, W64)
<1>9. S \in Nat /\ \A i \in DOMAIN r : z(i) \in Nat /\ S - z(i) < N
  BY Zenon, <1>7, <1>8
<1>10. N \in Int /\ N <= R
  BY Zenon, <1>5
<1> HIDE DEF S, z, N
<1>11. \A i \in DOMAIN r : S - z(i) < R
  <2> TAKE i \in DOMAIN r
  <2>1. z(i) \in Nat /\ S - z(i) < N
    BY Zenon, <1>9
  <2> QED
    BY <1>4, <1>9, <1>10, <2>1
<1>12. Tight'
  BY Zenon, <1>1, <1>11 DEF Tight, S, z, R
<1>13. PageInv'
  BY Zenon, <1>0, <1>1, <1>2, <1>12 DEF PageInv
<1> QED
  BY Zenon, <1>3, <1>13 DEF AskedInv

(* Enough has been allocated, or the launch is given up.                        *)
LEMMA CheckAsked ==
  ASSUME HandleInv, AskedInv, CheckAllocated, UNCHANGED given
  PROVE  AskedInv'
<1> DEFINE R == RequestedMem(args.mem)
           S == SizeOf(held)
<1>0. CpuInv /\ PageInv /\ ImageInv
  BY Zenon DEF AskedInv
<1>1. /\ UNCHANGED <<args, poolFile, file, memory, launch, owned>>
      /\ pc = "check" /\ pc' = IF S \div MiB < R \div MiB THEN "unwind" ELSE "load"
  BY Zenon DEF CheckAllocated, Step, Goto, given
<1>2. CASE S \div MiB < R \div MiB
  <2>1. Frame
    BY Zenon, <1>1, <1>2 DEF Frame, Leaving, file, memory, launch, owned
  <2> QED
    BY Zenon, <2>1, FrameInv
<1>3. CASE ~(S \div MiB < R \div MiB)
  <2>1. pc' = "load"
    BY Zenon, <1>1, <1>3
  <2>2. /\ pc \in {"large", "small", "check"} /\ pc \in Covering \cup {"check"}
        /\ pc' \in {"large", "small", "check", "load"} /\ pc' # "small"
    BY <1>1, <2>1 DEF Covering
  <2>3. CpuInv' /\ ImageInv'
    BY Zenon, <1>0, <1>1, <2>2, SearchAsked DEF owned
  <2>4. S \in Nat
    BY Zenon, SizesType DEF HandleInv, HandleTypeOK
  <2>5. R \in Nat /\ \E c \in Int : R = c * MiB
    BY Zenon, <1>0, ArgsType, RequestedIsWhole DEF CpuInv
  <2> HIDE DEF R, S
  <2>6. PICK c \in Int : R = c * MiB
    BY Zenon, <2>5
  <2>7. MiB \in Nat \ {0} /\ c * MiB \in Nat /\ ~(S \div MiB < (c * MiB) \div MiB)
    BY Zenon, <1>3, <2>5, <2>6, ResourceAssumption
  <2>8. S >= c * MiB
    BY Zenon, <2>4, <2>7, CompareInMiB
  <2>9. (SizeOf(held) >= RequestedMem(args.mem))'
    BY Zenon, <1>1, <2>6, <2>8 DEF R, S, memory
  <2>10. Tight'
    BY Zenon, <1>0, <1>1, <2>2 DEF PageInv, Tight, memory
  <2>11. PageInv'
    BY Zenon, <1>0, <1>1, <2>2, <2>9, <2>10 DEF PageInv, memory
  <2> QED
    BY Zenon, <2>3, <2>11 DEF AskedInv
<1> QED
  BY Zenon, <1>2, <1>3

(* The image is written, by a launch that has enough memory.                    *)
LEMMA LoadAsked ==
  ASSUME AskedInv, LoadImage, UNCHANGED given
  PROVE  AskedInv'
<1>0. CpuInv /\ PageInv /\ ImageInv
  BY Zenon DEF AskedInv
<1>1. /\ UNCHANGED <<args, poolFile, file, memory, freeCpus, cpuIds, owned>>
      /\ pc = "load" /\ pc' = "donate" /\ image' = WriteEif(held, eif)
  BY Zenon DEF LoadImage, Goto, given
<1>2. /\ pc \in Launching /\ pc \in Covering /\ pc \in Covering \cup {"check"} /\ pc \in NotStarted
      /\ pc' \notin {"bind", "start"} /\ pc' # "small"
  BY <1>1 DEF Launching, Covering, NotStarted
<1>3. CpuInv' /\ vm # "running" /\ vm' = vm
  BY Zenon, <1>0, <1>1, <1>2 DEF CpuInv, owned
<1>4. Tight'
  BY Zenon, <1>0, <1>1, <1>2 DEF PageInv, Tight, memory
<1>5. PageInv'
  BY Zenon, <1>0, <1>1, <1>2, <1>4 DEF PageInv, memory
<1>6. ImageInv'
  BY Zenon, <1>0, <1>1, <1>2, <1>3 DEF ImageInv, file, memory
<1> QED
  BY Zenon, <1>3, <1>5, <1>6 DEF AskedInv

(* While the CPUs are added, the memory and the image stay.                     *)
LEMMA OnTheCpus ==
  ASSUME PageInv, ImageInv, UNCHANGED <<args, file, memory, image, vm>>,
         pc = "cpus", pc' \in {"cpus", "bind"}
  PROVE  PageInv' /\ ImageInv'
<1>1. /\ pc \in Launching /\ pc \in Covering /\ pc \in Covering \cup {"check"} /\ pc \in Written
      /\ pc' # "small"
  BY DEF Launching, Covering, Written
<1>2. Tight'
  BY Zenon, <1>1 DEF PageInv, Tight, memory
<1>3. PageInv'
  BY Zenon, <1>1, <1>2 DEF PageInv, memory
<1>4. ImageInv'
  BY Zenon, <1>1 DEF ImageInv, file, memory
<1> QED
  BY Zenon, <1>3, <1>4

(* One more CPU, as it was asked for and not given before.                      *)
LEMMA InitCpuAsked ==
  ASSUME AskedInv, InitSingleCpu, UNCHANGED given
  PROVE  AskedInv'
<1> DEFINE Asked == CpuRequests(args)
           n == Len(cpuIds)
<1>0. CpuInv /\ PageInv /\ ImageInv
  BY Zenon DEF AskedInv
<1>1. /\ UNCHANGED <<args, poolFile, file, memory, image, owned>> /\ n < Len(Asked)
      /\ pc = "cpus" /\ pc' = "cpus"
  BY Zenon DEF InitSingleCpu, Goto, given
<1>2. PICK c \in freeCpus : /\ Asked[n + 1] \in {0, c}
                            /\ freeCpus' = freeCpus \ {c} /\ cpuIds' = Append(cpuIds, c)
  BY Zenon DEF InitSingleCpu
<1>3. PageInv' /\ ImageInv'
  BY Zenon, <1>0, <1>1, OnTheCpus DEF owned
<1>4. pc \in Launching \cup {"new"} /\ pc \in NotStarted /\ pc' \notin {"bind", "start"}
  BY <1>1 DEF Launching, NotStarted
<1>5. /\ args \in Args /\ poolFile \in PoolFiles /\ cpuIds \in Seq(Cpus) /\ c \in Cpus /\ freeCpus \subseteq Cpus
      /\ vm # "running" /\ CpuConfigOK(args, poolFile)
  BY Zenon, <1>0, <1>4 DEF CpuInv
<1>6. /\ \A i \in 1..n : i <= Len(Asked) /\ Asked[i] \in {0, cpuIds[i]} /\ cpuIds[i] \notin freeCpus
      /\ \A i, j \in 1..n : i # j => cpuIds[i] # cpuIds[j]
  BY Zenon, <1>0 DEF CpuInv
<1>7. Len(Asked) \in Nat
  <2>1. args.list \in Seq(Nat) /\ args.count \in Nat
    BY Zenon, <1>5, ArgsType
  <2> QED
    BY <2>1 DEF CpuRequests
<1> HIDE DEF Asked
<1>8. /\ cpuIds' \in Seq(Cpus) /\ Len(cpuIds') = n + 1 /\ cpuIds'[n + 1] = c
      /\ \A i \in 1..n : cpuIds'[i] = cpuIds[i]
  BY <1>2, <1>5
<1>9. n \in Nat /\ n + 1 <= Len(Asked) /\ \A i \in 1..Len(cpuIds') : i \in 1..n \/ i = n + 1
  BY <1>1, <1>5, <1>7, <1>8
<1> HIDE DEF n
<1>10. \A i \in 1..Len(cpuIds') :
         i <= Len(Asked) /\ Asked[i] \in {0, cpuIds'[i]} /\ cpuIds'[i] \notin freeCpus'
  <2> TAKE i \in 1..Len(cpuIds')
  <2>1. CASE i \in 1..n
    BY Zenon, <1>2, <1>6, <1>8, <2>1
  <2>2. CASE i = n + 1
    BY Zenon, <1>2, <1>8, <1>9, <2>2
  <2> QED
    BY Zenon, <1>9, <2>1, <2>2
<1>11. \A i, j \in 1..Len(cpuIds') : i # j => cpuIds'[i] # cpuIds'[j]
  <2>1. \A i \in 1..n : cpuIds'[i] # c
    BY Zenon, <1>6, <1>8
  <2> SUFFICES ASSUME NEW i \in 1..Len(cpuIds'), NEW j \in 1..Len(cpuIds'), i # j
               PROVE  cpuIds'[i] # cpuIds'[j]
    BY Zenon
  <2>2. CASE i \in 1..n /\ j \in 1..n
    BY Zenon, <1>6, <1>8, <2>2
  <2>3. CASE i = n + 1 \/ j = n + 1
    BY Zenon, <1>8, <1>9, <2>1, <2>3
  <2> QED
    BY Zenon, <1>9, <2>2, <2>3
<1>12. CpuInv'
  <2>1. freeCpus' \subseteq Cpus
    BY Zenon, <1>2, <1>5
  <2> QED
    BY Zenon, <1>1, <1>4, <1>5, <1>8, <1>10, <1>11, <2>1 DEF CpuInv, Asked, owned
<1> QED
  BY Zenon, <1>3, <1>12 DEF AskedInv

(* All of them have been added.                                                 *)
LEMMA AllCpusAsked ==
  ASSUME AskedInv, AllCpus, UNCHANGED given
  PROVE  AskedInv'
<1>0. CpuInv /\ PageInv /\ ImageInv
  BY Zenon DEF AskedInv
<1>1. /\ UNCHANGED <<args, poolFile, file, memory, launch, owned>> /\ Len(cpuIds) = Len(CpuRequests(args))
      /\ pc = "cpus" /\ pc' = "bind"
  BY Zenon DEF AllCpus, Step, Goto, given
<1>2. PageInv' /\ ImageInv'
  BY Zenon, <1>0, <1>1, OnTheCpus DEF launch, owned
<1>3. pc \in Launching \cup {"new"} /\ pc \in NotStarted
  BY <1>1 DEF Launching, NotStarted
<1>4. CpuInv'
  BY Zenon, <1>0, <1>1, <1>3 DEF CpuInv, launch, owned
<1> QED
  BY Zenon, <1>2, <1>4 DEF AskedInv

(* The ratio and the smallest memory leave room for the image.                  *)
LEMMA RoomForImage ==
  ASSUME NEW n \in EifSizes, NEW mib \in Nat, NEW s \in Nat,
         EnoughForImage(n, mib), s >= RequestedMem(mib), s >= MinMem
  PROVE  n \in Nat /\ Copied(s, n) = n
<1> DEFINE R == RequestedMem(mib)
<1>1. n \in Nat /\ MinMem \in Nat /\ Offset \in Nat /\ W64 \in Nat \ {0}
  BY Zenon, HandleAssumption, ResourceAssumption
<1>2. 4 * n < W64 /\ 3 * MinMem >= 4 * Offset
  BY Zenon, RatioAssumption
<1>3. R \in Nat /\ (4 * n) % W64 <= R /\ s >= R
  BY Zenon, RequestedIsWhole DEF EnoughForImage
<1> HIDE DEF R
<1>4. (4 * n) % W64 = 4 * n
  BY <1>1, <1>2
<1>5. s - Offset >= n
  BY <1>1, <1>2, <1>3, <1>4
<1> QED
  BY <1>1, <1>5 DEF Copied

(* The enclave is started with what it needs.                                   *)
LEMMA StartAsked ==
  ASSUME HandleInv, AskedInv, Start, UNCHANGED given
  PROVE  AskedInv'
<1>0. CpuInv /\ PageInv /\ ImageInv
  BY Zenon DEF AskedInv
<1>1. /\ UNCHANGED <<args, poolFile, file, memory, launch>> /\ SizeOf(held) >= MinMem
      /\ pc = "start" /\ pc' \in {"size", "unwind"}
  BY Zenon DEF Start, given
<1>2. /\ pc \in Launching /\ pc \in Launching \cup {"new"} /\ pc \in Covering /\ pc \in Covering \cup {"check"}
      /\ pc \in Written /\ pc \in {"bind", "start"}
      /\ pc' \notin {"bind", "start"} /\ pc' # "small" /\ pc' \notin Written /\ pc' \notin NotStarted
  BY <1>1 DEF Launching, Covering, Written, NotStarted
<1>3. CpuInv'
  BY Zenon, <1>0, <1>1, <1>2 DEF CpuInv, launch
<1>4. Tight'
  BY Zenon, <1>0, <1>1, <1>2 DEF PageInv, Tight, memory
<1>5. PageInv'
  BY Zenon, <1>0, <1>1, <1>2, <1>4 DEF PageInv, memory
<1>6. ~rewritten => image = Whole(eif)
  <2> SUFFICES ASSUME ~rewritten PROVE image = Whole(eif)
    BY Zenon
  <2>1. eif \in EifSizes /\ EnoughForImage(eif, args.mem) /\ image = WriteEif(held, eif)
    BY Zenon, <1>0, <1>2 DEF ImageInv
  <2>2. args.mem \in Nat /\ SizeOf(held) \in Nat /\ SizeOf(held) >= RequestedMem(args.mem)
    BY Zenon, <1>0, <1>2, ArgsType, SizesType DEF CpuInv, PageInv, HandleInv, HandleTypeOK
  <2>3. eif \in Nat /\ Copied(SizeOf(held), eif) = eif
    BY Zenon, <1>1, <2>1, <2>2, RoomForImage
  <2>4. WriteEif(held, eif) = Whole(Copied(SizeOf(held), eif))
    BY Zenon, <2>3, WriteFills DEF HandleInv, HandleTypeOK
  <2> QED
    BY Zenon, <2>1, <2>3, <2>4
<1>7. ImageInv'
  BY Zenon, <1>0, <1>1, <1>2, <1>6 DEF ImageInv, file, memory, launch
<1> QED
  BY Zenon, <1>3, <1>5, <1>7 DEF AskedInv

(* Of an image file that is written again, nothing is claimed.                  *)
LEMMA RewriteAsked ==
  ASSUME AskedInv, Rewrite, UNCHANGED given
  PROVE  AskedInv'
<1>0. CpuInv /\ PageInv
  BY Zenon DEF AskedInv
<1>1. UNCHANGED <<args, poolFile, memory, launch, owned, pc>> /\ rewritten'
  BY Zenon DEF Rewrite, given
<1>2. CpuInv'
  BY Zenon, <1>0, <1>1 DEF CpuInv, launch, owned
<1>3. PageInv'
  BY Zenon, <1>0, <1>1 DEF PageInv, Tight, memory
<1>4. ImageInv'
  BY Zenon, <1>1 DEF ImageInv
<1> QED
  BY Zenon, <1>2, <1>3, <1>4 DEF AskedInv

(* Every step keeps the invariant.                                              *)
LEMMA AskedNext == HandleInv /\ AskedInv /\ [Next]_vars => AskedInv'
<1> SUFFICES ASSUME HandleInv, AskedInv, [Next]_vars PROVE AskedInv'
  BY Zenon
<1>1. CASE UNCHANGED vars
  <2>1. Frame
    BY Zenon, <1>1 DEF Frame, Follows, vars, given, file, memory, launch, owned
  <2> QED
    BY Zenon, <2>1, FrameInv
<1>2. CASE Next
  <2>0. UNCHANGED given
    BY Zenon, <1>2 DEF Next
  <2>1. CASE Frame
    BY Zenon, <2>1, FrameInv
  <2>2. CASE Trim \/ CheckAllocated \/ Start
    BY Zenon, <2>0, <2>2, TrimAsked, CheckAsked, StartAsked
  <2>3. CASE \/ GetCpuConfig \/ NewHandle \/ LoadImage \/ InitSingleCpu \/ AllCpus \/ Rewrite
    BY Zenon, <2>0, <2>3, BeginAsked, LoadAsked, InitCpuAsked, AllCpusAsked, RewriteAsked
  <2>4. CASE AllocateLarge \/ NextSmaller \/ SecondLoop \/ AllocateSmall \/ NextLarger \/ OtherLaunch
    BY Zenon, <2>0, <2>4, LoopsAsked
  <2> QED
    BY Zenon, <1>2, <2>0, <2>1, <2>2, <2>3, <2>4, LaunchFrame, LaterFrame DEF Next, Allocate
<1> QED
  BY Zenon, <1>1, <1>2

(* What was asked for, and all that is needed for it, as one invariant.         *)
THEOREM AskedInvariant == Spec => [](HandleInv /\ AskedInv)
<1>1. Init => HandleInv /\ AskedInv
  BY Zenon, HandleInvInit, AskedInit
<1>2. (HandleInv /\ AskedInv) /\ [Next]_vars => (HandleInv /\ AskedInv)'
  BY Zenon, HandleInvNext, AskedNext
<1> QED
  BY <1>1, <1>2, PTL DEF Spec

(* For any request, wrapped or negative when signed, and whatever other         *)
(* launches take: allocate gives up only when no huge page is left, and what it *)
(* keeps covers the request and would not without any one of its regions.       *)
THEOREM AllocationStaysTight == Spec => []AllocationIsTight
<1>1. AskedInv => AllocationIsTight
  <2> SUFFICES ASSUME AskedInv PROVE AllocationIsTight
    BY Zenon
  <2>0. PageInv
    BY Zenon DEF AskedInv
  <2>1. ASSUME pc = "small", idx = 0 PROVE \A i \in DOMAIN freePages : freePages[i] = 0
    <3>1. \A i \in DOMAIN HugePages : i > 0
      BY ResourceAssumption
    <3>2. DOMAIN freePages = DOMAIN HugePages
      BY Zenon, <2>0 DEF PageInv
    <3> QED
      BY Zenon, <2>0, <2>1, <3>1, <3>2 DEF PageInv
  <2>2. ASSUME pc \in Covering PROVE Tight /\ SizeOf(held) >= RequestedMem(args.mem)
    <3>1. pc \in Covering \cup {"check"}
      BY Zenon, <2>2
    <3> QED
      BY Zenon, <2>0, <2>2, <3>1 DEF PageInv
  <2> QED
    BY Zenon, <2>1, <2>2 DEF AllocationIsTight, Covering, Tight
<1> QED
  BY <1>1, AskedInvariant, PTL

(* For any pages, sizes and memory, an enclave is started only with its whole   *)
(* image in its memory, every byte at its place, if the file stayed as it was.  *)
THEOREM ImageIsInPlace == Spec => []ImageInPlace
<1>1. AskedInv => ImageInPlace
  BY Zenon DEF AskedInv, ImageInv, ImageInPlace, Whole
<1> QED
  BY <1>1, AskedInvariant, PTL

(* As many different CPUs as were added.                                        *)
LEMMA DifferentCpus ==
  ASSUME CpuInv
  PROVE  Cardinality(Range(cpuIds)) = Len(cpuIds)
<1> DEFINE D == 1..Len(cpuIds)
           T == Range(cpuIds)
<1>1. cpuIds \in [D -> T] /\ Len(cpuIds) \in Nat /\ DOMAIN cpuIds = D
  <2>1. cpuIds \in Seq(Cpus)
    BY Zenon DEF CpuInv
  <2> QED
    BY <2>1 DEF Range
<1>2. IsFiniteSet(D) /\ Cardinality(D) = Len(cpuIds)
  <2>1. ASSUME NEW n \in Nat PROVE IsFiniteSet(1..n) /\ Cardinality(1..n) = n
    BY FS_Interval
  <2> QED
    BY Zenon, <1>1, <2>1
<1>3. cpuIds \in Injection(D, T)
  BY Zenon, <1>1 DEF CpuInv, Injection, IsInjective
<1>4. cpuIds \in Surjection(D, T)
  BY Zenon, <1>1 DEF Surjection, Range
<1> HIDE DEF D, T
<1>5. Cardinality(T) = Cardinality(D)
  BY Zenon, <1>2, <1>3, <1>4, FS_Surjection
<1> QED
  BY Zenon, <1>2, <1>5 DEF T

(* For any lists, counts and pools, an enclave runs on the very CPUs that were  *)
(* listed, or on as many different ones as were counted.                        *)
THEOREM CpusStayAsRequested == Spec => []CpusAsRequested
<1>1. AskedInv => CpusAsRequested
  <2> SUFFICES ASSUME AskedInv, vm = "running"
               PROVE  /\ args.list # <<>> => cpuIds = args.list
                      /\ args.list = <<>> => Cardinality(Range(cpuIds)) = args.count
    BY Zenon DEF CpusAsRequested
  <2>0. CpuInv
    BY Zenon DEF AskedInv
  <2>1. /\ args.list \in Seq(Nat) /\ args.count \in Nat /\ cpuIds \in Seq(Cpus)
        /\ Len(cpuIds) = Len(CpuRequests(args)) /\ CpuConfigOK(args, poolFile) /\ poolFile \in PoolFiles
        /\ \A i \in 1..Len(cpuIds) : CpuRequests(args)[i] \in {0, cpuIds[i]}
    BY Zenon, <2>0, ArgsType DEF CpuInv
  <2>2. ASSUME args.list # <<>> PROVE cpuIds = args.list
    <3>1. CpuRequests(args) = args.list
      BY Zenon, <2>2 DEF CpuRequests
    <3>2. 0 \notin Range(args.list)
      BY Zenon, <2>1, <2>2, PoolAssumption DEF CpuConfigOK, CheckCpuIds
    <3>3. \A i \in 1..Len(args.list) : args.list[i] # 0
      <4>1. DOMAIN args.list = 1..Len(args.list)
        BY <2>1
      <4> QED
        BY Zenon, <3>2, <4>1 DEF Range
    <3>4. Len(cpuIds) = Len(args.list) /\ \A i \in 1..Len(cpuIds) : cpuIds[i] = args.list[i]
      BY Zenon, <2>1, <3>1, <3>3
    <3> QED
      BY <2>1, <3>4
  <2>3. ASSUME args.list = <<>> PROVE Cardinality(Range(cpuIds)) = args.count
    <3>1. CpuRequests(args) = [i \in 1..args.count |-> 0]
      BY Zenon, <2>3 DEF CpuRequests
    <3>2. Len(CpuRequests(args)) = args.count
      BY <2>1, <3>1
    <3> QED
      BY Zenon, <2>0, <2>1, <3>2, DifferentCpus
  <2> QED
    BY Zenon, <2>2, <2>3
<1> QED
  BY <1>1, AskedInvariant, PTL

================================================================================
