--------------------------------- MODULE VM ---------------------------------
(***************************************************************************)
(* The virtual-memory region manager of src/kernel/src/memory/vm.c.        *)
(*                                                                         *)
(* Every CPU runs at most one VM call at a time: vm_map_anon/vm_map_direct *)
(* (map_common), vm_unmap or vm_fault.  A call is split into steps exactly *)
(* at the points where it spins on a spinlock (the address-space lock of   *)
(* each address space, and g_free_regions_lock), because only there can    *)
(* another CPU's step come in between; vm_fault takes no lock at all and   *)
(* is split between its region lookup and its mapping.                     *)
(*                                                                         *)
(* Addresses are page numbers.  A region descriptor (vm_region_t) in a     *)
(* space's list is the record of its fields; the order of the list does    *)
(* not matter while regions are disjoint.  A descriptor on g_free_regions  *)
(* is the stale type_data it still holds (back_zeroed and                  *)
(* physical_address): map_common and the unmap split overwrite every other *)
(* field, but not always these.  Descriptor pages carved out of the global *)
(* space are counted in the ghost descPages.  The hardware page tables     *)
(* (arch_ptm_map/unmap) are hw[as][page]: 0 when not present, otherwise    *)
(* the physical page.  pmm_alloc_page hands out frames 1..MaxFrames in     *)
(* order; when they run out it returns NULL, which vm.c dereferences: the  *)
(* CPU faults in the kernel and halts ("panic").                           *)
(***************************************************************************)
EXTENDS Integers, SequencesExt

CONSTANTS
  CPUs,          \* the processors that call into VM
  ASes,          \* address spaces (vm_address_space_t)
  Global,        \* g_vm_global_address_space, a member of ASes
  Start, End,    \* [as -> page]: the bounds [start, end) of each space
  SlotsPerPage,  \* ARCH_PAGE_GRANULARITY / sizeof(vm_region_t)
  MaxFrames,     \* physical frames the PMM can hand to VM
  Anon, Direct,  \* VM_REGION_TYPE_ANON, VM_REGION_TYPE_DIRECT
  NoAS,          \* the NULL address_space of a zeroed descriptor
  MapCPUs,       \* the CPUs that call vm_map_* and vm_unmap
  FaultCPUs,     \* the CPUs that take page faults (vm_fault)
  MapASes,       \* spaces in which vm_map_* is called
  Hints,         \* hint arguments: [pg |-> page, off |-> unaligned?]
  Lengths,       \* length arguments, in pages
  FlagSets,      \* flags arguments: subsets of {FIXED, ZERO, NO_DEMAND}
  Types,         \* region types the calls map: vm_map_anon, vm_map_direct
  PhysBases,     \* physical_address arguments of vm_map_direct
  UnmapRanges,   \* vm_unmap arguments: [as, base, len]
  FaultPages,    \* addresses vm_fault is called with
  Boot           \* [base, len]: the heap region mapped at boot

ASSUME /\ Global \in ASes /\ SlotsPerPage >= 2 /\ MaxFrames \in Nat \ {0}
       /\ Boot.base > Start[Global] /\ Boot.base + Boot.len <= End[Global]

FIXED == "fixed"
ZERO == "zero"
NO_DEMAND == "no_demand"

\* Every page number that an address space bound or page 0 can name.
Pages == 0..(LET ends == {End[a] : a \in ASes} IN Max(ends))

\* The type_data of a zero-filled descriptor.
ZeroTD == [zero |-> FALSE, phys |-> 0]
TD(rec) == [zero |-> rec.zero, phys |-> rec.phys]

\* A region descriptor of the global space that describes a carved page.
DescRegion(p) == [as |-> Global, base |-> p, len |-> 1, type |-> Anon,
                  zero |-> FALSE, phys |-> 0]
NoRegion == [DescRegion(0) EXCEPT !.as = NoAS, !.len = 0]

\* The unused value of every field of an idle CPU's call.
Idle == [pc |-> "idle", as |-> NoAS, hint |-> 0, len |-> 0, flags |-> {},
         type |-> Anon, phys |-> 0, desc |-> <<>>, cont |-> "idle", frame |-> 0,
         lo |-> 0, hi |-> 0, cur |-> 0, r |-> NoRegion, n |-> 0]

Locks == ASes \cup {"free_regions"}
None == "none"

VARIABLES
  regions,   \* [as -> set of region records]: address_space->regions
  freeList,  \* sequence of stale type_data: g_free_regions
  hw,        \* [as -> [page -> physical page or 0]]: the page tables
  locks,     \* [lock -> CPU or None]: the spinlocks and their holders
  nextFrame, \* frames pmm_alloc_page has handed out so far
  descPages, \* ghost: the addresses of the carved descriptor pages
  op         \* [cpu -> record]: the VM call each CPU is executing

vars == <<regions, freeList, hw, locks, nextFrame, descPages, op>>

(***************************************************************************)
(* The address arithmetic macros of vm.c:10-13.                           *)
(***************************************************************************)
Seg(b, l) == b..(b + l - 1)
SegmentInBounds(as, b, l) == b >= Start[as] /\ b < End[as] /\ End[as] - b >= l
Intersects(b1, l1, b2, l2) == b1 < b2 + l2 /\ b2 < b1 + l1
RegionEnd(r) == r.base + r.len

\* find_space: the first address at or above the hint (or the start of the
\* space when the hint is out of bounds) whose segment is free and in
\* bounds.  Jumping to the end of an intersecting region never skips a free
\* segment, so the list walk finds the least such address; it gives up
\* (returns 0) at the end of the space and never wraps.
\* A mutant: only the first page of the segment is checked for overlap.
FreeFirstPage(as, x, l) == /\ SegmentInBounds(as, x, l)
                           /\ \A r \in regions[as] : ~Intersects(x, 1, r.base, r.len)
Free(as, x, l) == /\ SegmentInBounds(as, x, l)
                  /\ \A r \in regions[as] : ~Intersects(x, l, r.base, r.len)
FindSpace(as, a, l) ==
  LET a0 == IF SegmentInBounds(as, a, l) THEN a ELSE Start[as]
      C == {x \in a0..End[as] : Free(as, x, l)}
  IN IF C = {} THEN 0 ELSE Min(C)

\* addr_to_region: the regions of the space that cover the address (one,
\* while regions are disjoint; the list order would pick among several).
AddrToRegion(as, p) ==
  IF p >= Start[as] /\ p < End[as] THEN {r \in regions[as] : p \in Seg(r.base, r.len)}
  ELSE {}

\* The leaf region_map installs for page v of region rec when the
\* anonymous frames are handed out from frame f0 on.
Leaf(rec, v, p, f0) ==
  IF rec.type = Anon THEN f0 + (v - p) ELSE rec.phys + (v - rec.base)

Frames(rec, n) == IF rec.type = Anon THEN n ELSE 0

\* region_map(region, p, n): one pmm_alloc_page per page of an anonymous
\* region, then arch_ptm_map in region->address_space.  When the PMM runs
\* dry the NULL page is dereferenced: the pages mapped so far stay mapped.
RegionMapHw(rec, p, n) ==
  LET k == IF rec.type = Anon THEN Min({n, MaxFrames - nextFrame}) ELSE n
  IN [hw EXCEPT ![rec.as] = [v \in DOMAIN @ |->
        IF v \in Seg(p, k) THEN Leaf(rec, v, p, nextFrame + 1) ELSE @[v]]]
\* A mutant: the frame count is not capped when the PMM runs dry.
RegionMapFramesUnbounded(rec, n) == nextFrame + Frames(rec, n)
RegionMapFails(rec, n) == nextFrame + Frames(rec, n) > MaxFrames
RegionMapFrames(rec, n) == Min({MaxFrames, nextFrame + Frames(rec, n)})

\* region_unmap: arch_ptm_unmap of every page; the anonymous frames are
\* not given back to the PMM ("TODO: unmap phys mem").
\* A mutant: the last page of the run stays mapped.
RegionUnmapHwShort(as, p, n) ==
  [hw EXCEPT ![as] = [v \in DOMAIN @ |-> IF v \in Seg(p, n - 1) THEN 0 ELSE @[v]]]
RegionUnmapHw(as, p, n) ==
  [hw EXCEPT ![as] = [v \in DOMAIN @ |-> IF v \in Seg(p, n) THEN 0 ELSE @[v]]]

Panic(c) == op' = [op EXCEPT ![c].pc = "panic"]
Acquire(l, c) == locks[l] = None /\ locks' = [locks EXCEPT ![l] = c]
Release(l) == locks' = [locks EXCEPT ![l] = None]

(***************************************************************************)
(* The state after boot: vm_map_anon(global, heap, len, ZERO) on an empty  *)
(* global space carved the first descriptor page at the start of the space *)
(* (region[0] describes that page, region[1] the heap, the rest are free)  *)
(* and left the heap to be demand-paged.                                   *)
(***************************************************************************)
BootPage == Start[Global]
Init ==
  /\ regions = [a \in ASes |-> IF a = Global
                   THEN {DescRegion(BootPage),
                         [DescRegion(Boot.base) EXCEPT !.len = Boot.len, !.zero = TRUE]}
                   ELSE {}]
  /\ freeList = [i \in 1..(SlotsPerPage - 2) |-> ZeroTD]
  /\ hw = [a \in ASes |-> [p \in Pages |-> IF a = Global /\ p = BootPage THEN 1 ELSE 0]]
  /\ locks = [l \in Locks |-> None]
  /\ nextFrame = 1
  /\ descPages = {BootPage}
  /\ op = [c \in CPUs |-> Idle]

(***************************************************************************)
(* map_common up to region_alloc (vm.c:142-149).  An unaligned hint is     *)
(* rounded up; with VM_FLAG_FIXED it makes the call return NULL at once,   *)
(* touching nothing, so those calls are left out.                          *)
(***************************************************************************)
MapStart(c) ==
  /\ c \in MapCPUs
  /\ op[c].pc = "idle"
  /\ \E as \in MapASes, h \in Hints, l \in Lengths, t \in Types, fl \in FlagSets :
       \E ph \in (IF t = Direct THEN PhysBases ELSE {0}) :
         /\ ~(h.off /\ FIXED \in fl)
         /\ op' = [op EXCEPT ![c] = [Idle EXCEPT
                     !.pc = "ra_lock", !.cont = "map_lock", !.as = as,
                     !.hint = h.pg, !.lo = IF h.off THEN h.pg + 1 ELSE h.pg,
                     !.len = l, !.flags = fl, !.type = t, !.phys = ph]]
  /\ UNCHANGED <<regions, freeList, hw, locks, nextFrame, descPages>>

(***************************************************************************)
(* region_alloc (vm.c:76-102).  Under g_free_regions_lock, take the first  *)
(* free descriptor; if there is none, get a zeroed frame, and (taking the  *)
(* global lock unless the caller holds it) map it at                       *)
(* find_space(global, 0, page), make its slot 0 an anonymous one-page      *)
(* region of the global space and put the other slots on the free list,    *)
(* then take the first of them.  A failed find_space (0) is not checked:   *)
(* the page then goes to address 0.                                        *)
(***************************************************************************)
GlobalLockHeld(c) == op[c].cont = "unmap_trim" /\ op[c].as = Global

\* A mutant: the slot handed to the caller is also left on the free list.
CarveAll(c, frame) ==
  LET addr == FindSpace(Global, 0, 1) IN
  /\ hw' = [hw EXCEPT ![Global][addr] = frame]
  /\ regions' = [regions EXCEPT ![Global] = @ \cup {DescRegion(addr)}]
  /\ freeList' = [i \in 1..(SlotsPerPage - 1) |-> ZeroTD]
  /\ descPages' = descPages \cup {addr}
  /\ op' = [op EXCEPT ![c].desc = <<ZeroTD>>, ![c].pc = op[c].cont]

Carve(c, frame) ==
  LET addr == FindSpace(Global, 0, 1) IN
  /\ hw' = [hw EXCEPT ![Global][addr] = frame]
  /\ regions' = [regions EXCEPT ![Global] = @ \cup {DescRegion(addr)}]
  /\ freeList' = [i \in 1..(SlotsPerPage - 2) |-> ZeroTD]
  /\ descPages' = descPages \cup {addr}
  /\ op' = [op EXCEPT ![c].desc = <<ZeroTD>>, ![c].pc = op[c].cont]

RegionAllocLock(c) ==
  /\ op[c].pc = "ra_lock"
  /\ locks["free_regions"] = None
  /\ \/ /\ freeList # <<>>
        /\ op' = [op EXCEPT ![c].desc = <<Head(freeList)>>, ![c].pc = op[c].cont]
        /\ freeList' = Tail(freeList)
        /\ UNCHANGED <<regions, hw, locks, nextFrame, descPages>>
     \/ /\ freeList = <<>>
        /\ nextFrame = MaxFrames
        /\ Panic(c)
        /\ locks' = [locks EXCEPT !["free_regions"] = c]
        /\ UNCHANGED <<regions, freeList, hw, nextFrame, descPages>>
     \/ /\ freeList = <<>>
        /\ nextFrame < MaxFrames
        /\ nextFrame' = nextFrame + 1
        /\ IF GlobalLockHeld(c)
           THEN Carve(c, nextFrame + 1) /\ UNCHANGED locks
           ELSE /\ locks' = [locks EXCEPT !["free_regions"] = c]
                /\ op' = [op EXCEPT ![c].pc = "ra_carve", ![c].frame = nextFrame + 1]
                /\ UNCHANGED <<regions, freeList, hw, descPages>>

RegionAllocCarve(c) ==
  /\ op[c].pc = "ra_carve"
  /\ locks[Global] = None
  /\ Carve(c, op[c].frame)
  /\ Release("free_regions")
  /\ UNCHANGED nextFrame

(***************************************************************************)
(* map_common after region_alloc (vm.c:150-179): under the space's lock,   *)
(* find_space; on failure, or when FIXED did not get the hint, give the    *)
(* descriptor back (region_free, taking g_free_regions_lock inside the     *)
(* space's lock) and return NULL.  Otherwise fill in the descriptor (only  *)
(* the type_data field of its own type is written), map every page now if  *)
(* NO_DEMAND, and append it to the space's regions.                        *)
(***************************************************************************)
MapLock(c) ==
  LET o == op[c]
      addr == FindSpace(o.as, o.lo, o.len)
      td == Head(o.desc)
      rec == [as |-> o.as, base |-> addr, len |-> o.len, type |-> o.type,
              zero |-> IF o.type = Anon THEN ZERO \in o.flags ELSE td.zero,
              phys |-> IF o.type = Direct THEN o.phys ELSE td.phys]
      eager == NO_DEMAND \in o.flags
  IN /\ o.pc = "map_lock"
     /\ locks[o.as] = None
     /\ IF addr = 0 \/ (o.hint # addr /\ FIXED \in o.flags)
        THEN /\ locks' = [locks EXCEPT ![o.as] = c]
             /\ op' = [op EXCEPT ![c].pc = "map_fail"]
             /\ UNCHANGED <<regions, hw, nextFrame>>
        ELSE /\ hw' = IF eager THEN RegionMapHw(rec, addr, o.len) ELSE hw
             /\ nextFrame' = IF eager THEN RegionMapFrames(rec, o.len) ELSE nextFrame
             /\ IF eager /\ RegionMapFails(rec, o.len)
                THEN /\ locks' = [locks EXCEPT ![o.as] = c]
                     /\ Panic(c)
                     /\ UNCHANGED regions
                ELSE /\ regions' = [regions EXCEPT ![o.as] = @ \cup {rec}]
                     /\ op' = [op EXCEPT ![c] = Idle]
                     /\ UNCHANGED locks
     /\ UNCHANGED <<freeList, descPages>>

\* A mutant: the failure path returns without region_free.
MapFailLeak(c) ==
  /\ op[c].pc = "map_fail"
  /\ locks["free_regions"] = None
  /\ freeList' = freeList
  /\ Release(op[c].as)
  /\ op' = [op EXCEPT ![c] = Idle]
  /\ UNCHANGED <<regions, hw, nextFrame, descPages>>

\* A mutant: the failure path returns without releasing the space's lock.
MapFailKeepLock(c) ==
  /\ op[c].pc = "map_fail"
  /\ locks["free_regions"] = None
  /\ freeList' = freeList \o op[c].desc
  /\ op' = [op EXCEPT ![c] = Idle]
  /\ UNCHANGED <<regions, hw, locks, nextFrame, descPages>>

MapFail(c) ==
  /\ op[c].pc = "map_fail"
  /\ locks["free_regions"] = None
  /\ freeList' = freeList \o op[c].desc
  /\ Release(op[c].as)
  /\ op' = [op EXCEPT ![c] = Idle]
  /\ UNCHANGED <<regions, hw, nextFrame, descPages>>

(***************************************************************************)
(* vm_unmap (vm.c:190-235).  Under the space's lock, walk the range a page *)
(* at a time; for a page in a region, take the longest run inside both the *)
(* region and the range and region_unmap it.  If the region goes on past   *)
(* the run, region_alloc a successor (with the global lock already held    *)
(* when the space is the global one) that gets the space, base, length,   *)
(* type and, for DIRECT only, the type data; then the region is cut back   *)
(* to what precedes the run, or unlinked and region_free'd.  Callers unmap *)
(* what they mapped: none of them knows where the descriptor pages are.   *)
(***************************************************************************)
UnmapStart(c) ==
  /\ c \in MapCPUs
  /\ op[c].pc = "idle"
  /\ \E u \in UnmapRanges :
       /\ u.as = Global => Seg(u.base, u.len) \cap descPages = {}
       /\ Acquire(u.as, c)
       /\ op' = [op EXCEPT ![c] = [Idle EXCEPT !.pc = "unmap_loop", !.as = u.as,
                                   !.lo = u.base, !.hi = u.base + u.len,
                                   !.cur = u.base]]
  /\ UNCHANGED <<regions, freeList, hw, nextFrame, descPages>>

UnmapLoop(c) ==
  LET o == op[c] IN
  /\ o.pc = "unmap_loop"
  /\ \/ /\ o.cur >= o.hi
        /\ Release(o.as)
        /\ op' = [op EXCEPT ![c] = Idle]
        /\ UNCHANGED hw
     \/ /\ o.cur < o.hi
        /\ AddrToRegion(o.as, o.cur) = {}
        /\ op' = [op EXCEPT ![c].cur = o.cur + 1]
        /\ UNCHANGED <<hw, locks>>
     \/ /\ o.cur < o.hi
        /\ \E r \in AddrToRegion(o.as, o.cur) :
             LET n == Min({RegionEnd(r), o.hi}) - o.cur IN
             /\ hw' = RegionUnmapHw(o.as, o.cur, n)
             /\ op' = [op EXCEPT ![c].r = r, ![c].n = n, ![c].cont = "unmap_trim",
                         ![c].pc = IF RegionEnd(r) > o.cur + n
                                   THEN "ra_lock" ELSE "unmap_trim"]
        /\ UNCHANGED locks
  /\ UNCHANGED <<regions, freeList, nextFrame, descPages>>

\* A mutant: the successor of a split always becomes anonymous.
SuccessorAnon(r, next, td) ==
  [as |-> r.as, base |-> next, len |-> RegionEnd(r) - next, type |-> Anon,
   zero |-> td.zero, phys |-> td.phys]

\* The successor region_alloc'd for the part of r from next on: the space,
\* base, length and type are written; type_data only for DIRECT, so an
\* ANON successor keeps the stale back_zeroed of the reused descriptor.
Successor(r, next, td) ==
  [as |-> r.as, base |-> next, len |-> RegionEnd(r) - next, type |-> r.type,
   zero |-> td.zero, phys |-> IF r.type = Direct THEN r.phys ELSE td.phys]

\* A mutant: the region that precedes the unmapped run is kept whole.
TrimmedUncut(r, cur) == IF r.base < cur THEN {r} ELSE {}

\* What is left of r in the list: r cut back to [base, cur), or nothing.
Trimmed(r, cur) == IF r.base < cur THEN {[r EXCEPT !.len = cur - r.base]} ELSE {}

UnmapTrim(c) ==
  LET o == op[c]
      r == o.r
      next == o.cur + o.n
      cut == r.base < o.cur
  IN /\ o.pc = "unmap_trim"
     /\ cut \/ locks["free_regions"] = None
     /\ regions' = [regions EXCEPT ![o.as] =
                      (@ \ {r}) \cup {Successor(r, next, td) : td \in ToSet(o.desc)}
                               \cup Trimmed(r, o.cur)]
     /\ freeList' = IF cut THEN freeList ELSE Append(freeList, TD(r))
     /\ op' = [op EXCEPT ![c].cur = next, ![c].desc = <<>>, ![c].pc = "unmap_loop"]
     /\ UNCHANGED <<hw, locks, nextFrame, descPages>>

(***************************************************************************)
(* vm_fault (vm.c:237-254) for a NOT_PRESENT fault on a page the hardware  *)
(* found absent.  It looks the page up in the global space (the lookup in *)
(* the current process's space is a TODO), without any lock, and maps the  *)
(* one page with region_map.  Other fault kinds, and pages in no region,   *)
(* return false and change nothing.  Between the lookup and region_map     *)
(* the descriptor may be trimmed, or freed and reused, by a vm_unmap on    *)
(* another CPU: region_map then reads whatever the descriptor holds, which *)
(* is the old record (still on the free list) or a record now in use.      *)
(***************************************************************************)
FaultLookup(c) ==
  /\ c \in FaultCPUs
  /\ op[c].pc = "idle"
  /\ \E p \in FaultPages :
       /\ hw[Global][p] = 0
       /\ \E r \in AddrToRegion(Global, p) :
            op' = [op EXCEPT ![c] = [Idle EXCEPT !.pc = "fault_map", !.cur = p,
                                                 !.r = r]]
  /\ UNCHANGED <<regions, freeList, hw, locks, nextFrame, descPages>>

AllRegions == UNION {regions[a] : a \in ASes}
FaultDescriptor(c) ==
  IF op[c].r \in regions[Global] THEN {op[c].r} ELSE {op[c].r} \cup AllRegions

FaultMap(c) ==
  /\ op[c].pc = "fault_map"
  /\ \E rec \in FaultDescriptor(c) :
       /\ hw' = RegionMapHw(rec, op[c].cur, 1)
       /\ nextFrame' = RegionMapFrames(rec, 1)
       /\ IF RegionMapFails(rec, 1) THEN Panic(c) ELSE op' = [op EXCEPT ![c] = Idle]
  /\ UNCHANGED <<regions, freeList, locks, descPages>>

\* The steps of a call once it has started.
Step(c) ==
  \/ RegionAllocLock(c) \/ RegionAllocCarve(c) \/ MapLock(c) \/ MapFail(c)
  \/ UnmapLoop(c) \/ UnmapTrim(c) \/ FaultMap(c)

Next == \E c \in CPUs : MapStart(c) \/ UnmapStart(c) \/ FaultLookup(c) \/ Step(c)

\* A CPU that is in a VM call keeps executing it: weak fairness of its steps.
\* Nothing forces a CPU to make a call.
Spec == Init /\ [][Next]_vars /\ \A c \in CPUs : WF_vars(Step(c))

-----------------------------------------------------------------------------
(***************************************************************************)
(* Properties.                                                             *)
(***************************************************************************)
Rec == [as : ASes \cup {NoAS}, base : Pages, len : 0..Cardinality(Pages),
        type : {Anon, Direct}, zero : BOOLEAN, phys : Int]
PCs == {"idle", "ra_lock", "ra_carve", "map_lock", "map_fail", "unmap_loop",
        "unmap_trim", "fault_map", "panic"}

TypeOK ==
  /\ regions \in [ASes -> SUBSET Rec]
  /\ freeList \in Seq([zero : BOOLEAN, phys : Int])
  /\ hw \in [ASes -> [Pages -> Int]]
  /\ locks \in [Locks -> CPUs \cup {None}]
  /\ nextFrame \in 0..MaxFrames
  /\ descPages \subseteq Pages
  /\ \A c \in CPUs : op[c].pc \in PCs /\ Len(op[c].desc) <= 1 /\ op[c].r \in Rec

Halted == \E c \in CPUs : op[c].pc = "panic"

\* Spec 8, "VM disjointness": no two regions of one address space overlap,
\* across concurrent find_space, unmap splits and descriptor-page carving.
RegionsDisjoint ==
  \A a \in ASes : \A r1, r2 \in regions[a] :
    r1 # r2 => ~Intersects(r1.base, r1.len, r2.base, r2.len)

\* Every descriptor of every carved page is in exactly one place: a region
\* list, g_free_regions, or the hands of a CPU between region_alloc and its
\* use or region_free; and every carved page is still described by its own
\* slot 0.  A lost descriptor is a leak, one counted twice is two regions
\* (or a region and the free list) sharing one descriptor.
InHand == MapThenSumSet(LAMBDA c : Len(op[c].desc), CPUs)
DescriptorsAccounted ==
  /\ MapThenSumSet(LAMBDA a : Cardinality(regions[a]), ASes) + Len(freeList) + InHand
       = SlotsPerPage * Cardinality(descPages)
  /\ \A p \in descPages : DescRegion(p) \in regions[Global]

\* Every page present in a space's page table belongs to a region of that
\* space (until a CPU halts): vm_unmap clears the leaves of what it
\* removes, and vm_fault only maps pages of regions.
MappedInRegion ==
  Halted \/ \A a \in ASes, p \in Pages : hw[a][p] # 0 => AddrToRegion(a, p) # {}

\* Spinlocks are never held forever: whatever lock a CPU takes in a VM call
\* it eventually releases, unless some CPU has halted on a NULL page from
\* the PMM (panic halts that CPU with its locks held, and the others may
\* then spin on them for good).
LocksReleased ==
  \A c \in CPUs, l \in Locks : locks[l] = c ~> (locks[l] # c \/ Halted)

\* The lock a CPU is spinning on in its next step, if any.
Wants(c) ==
  LET o == op[c] IN
  CASE o.pc = "ra_lock" -> {"free_regions"}
    [] o.pc = "ra_carve" -> {Global}
    [] o.pc = "map_lock" -> {o.as}
    [] o.pc = "map_fail" -> {"free_regions"}
    [] o.pc = "unmap_trim" /\ o.r.base >= o.cur -> {"free_regions"}
    [] OTHER -> {}

\* The spec's lock order (address space, then PMM zone; the descriptor
\* free-list lock is a leaf): no two CPUs each spin on a lock the other holds.
NoLockCycle ==
  \A c, d \in CPUs :
    ~(c # d /\ \E l \in Wants(c) : locks[l] = d
            /\ \E m \in Wants(d) : locks[m] = c)

(***************************************************************************)
(* The abstract reservation state of each page, for the refinement of      *)
(* VMSpec: Unreserved, or what the region that covers it says about it.    *)
(***************************************************************************)
Unreserved == [t |-> "none", z |-> FALSE, pa |-> 0]
\* The page's region type only.
TypeView(r, p) == [Unreserved EXCEPT !.t = r.type]
\* Type, zero-fill of an anonymous page, physical page of a direct one.
BackingView(r, p) ==
  IF r.type = Anon THEN [t |-> Anon, z |-> r.zero, pa |-> 0]
  ELSE [t |-> Direct, z |-> FALSE, pa |-> r.phys + (p - r.base)]
Reserved(View(_, _)) ==
  [a \in ASes |-> [p \in Pages |->
     LET S == {r \in regions[a] : p \in Seg(r.base, r.len)} IN
     IF S = {} THEN Unreserved ELSE View(CHOOSE r \in S : TRUE, p)]]
\* The range of the vm_unmap a CPU is in, per space (hi is 0 outside one).
Unmapping ==
  [a \in ASes |-> UNION {Seg(op[c].lo, op[c].hi - op[c].lo) :
                          c \in {d \in CPUs : op[d].as = a /\ op[d].hi > op[d].lo}}]
=============================================================================
