----------------------------- MODULE PfaSystem ------------------------------
(***************************************************************************)
(* The page frame allocator from boot on: pfa_init reads what the boot     *)
(* loader reports, kmain reserves the file system module, and then clients *)
(* allocate and free.  A client frees only what it was given, once.        *)
(***************************************************************************)
EXTENDS Pfa

CONSTANTS BootInfos,  \* the reports of the boot loader to consider
          HIGH_MEM,   \* 1 MiB, where the upper memory of mem_upper begins
          MaxRun      \* longest run a client asks for

(***************************************************************************)
(* A boot report: flag mmap_valid and the memory map (a set of entries; an *)
(* entry's addr and len are 64-bit, so a region may pass the last          *)
(* address), flag mem_valid and the bytes of upper memory, and the byte    *)
(* ranges [start, end) of the kernel image, of the report itself, of its   *)
(* map table and of the file system module.                                *)
(*                                                                         *)
(* Assumed of them: a range the kernel reserves does not end in the last   *)
(* page, and no region of the map begins inside it (align_up would wrap).   *)
(***************************************************************************)
LastPage == ADDRESSES - PAGE_SIZE

RangeOK(r) == r.start \in 0 .. LastPage /\ r.end \in r.start .. LastPage

ASSUME BootAssumption ==
  /\ HIGH_MEM \in 0 .. LastPage
  /\ MaxRun \in Nat \ {0}
  /\ \A b \in BootInfos :
       /\ RangeOK(b.kernel) /\ RangeOK(b.info) /\ RangeOK(b.table)
       /\ RangeOK(b.module)
       /\ b.mem_upper \in Nat /\ HIGH_MEM + b.mem_upper < ADDRESSES
       /\ IsFiniteSet(b.mmap)
       /\ \A e \in b.mmap :
            /\ e.addr \in Nat /\ e.len \in Nat
            /\ e.addr <= LastPage \/ e.addr >= ADDRESSES

VARIABLES boot,    \* the boot report
          ready,   \* kmain has reserved the module
          held     \* the runs clients hold: records [base, n]

vars == <<pfaVars, boot, ready, held>>

Runs == [base : Frames, n : 1 .. MaxRun]

FramesOf(r) == Run(r.base, r.n)

TypeOK ==
  /\ PfaTypeOK
  /\ boot \in BootInfos
  /\ ready \in BOOLEAN
  /\ held \subseteq Runs

-----------------------------------------------------------------------------
\* The 64-bit end of a region, cut to 32 bits.
EntryEnd(e) ==
  IF e.addr + e.len > ADDRESSES THEN ADDRESSES - 1
  ELSE (e.addr + e.len) % ADDRESSES

EntryFrames(e) ==
  IF e.type = 1 /\ e.addr < ADDRESSES
    THEN RegionToFree(e.addr, EntryEnd(e)) ELSE {}

AvailableFrames(b) ==
  IF b.mmap_valid THEN UNION {EntryFrames(e) : e \in b.mmap}
  ELSE IF b.mem_valid
    THEN RegionToFree(HIGH_MEM, (HIGH_MEM + b.mem_upper) % ADDRESSES)
  ELSE {}

ReservedFrames(b) ==
  RegionToUse(0, PAGE_SIZE)
    \union RegionToUse(b.kernel.start, b.kernel.end)
    \union RegionToUse(b.info.start, b.info.end)
    \union (IF b.mmap_valid THEN RegionToUse(b.table.start, b.table.end) ELSE {})

\* Everything used; then the available regions are freed and the reserved
\* ones marked used again.
pfa_init(b) ==
  /\ frame_bitmap = (Frames \ AvailableFrames(b)) \union ReservedFrames(b)
  /\ used_frame_count =
       MAX_FRAMES - Cardinality(AvailableFrames(b))
         + Cardinality(ReservedFrames(b) \intersect AvailableFrames(b))

Init ==
  /\ boot \in BootInfos
  /\ pfa_init(boot)
  /\ ready = FALSE
  /\ held = {}

ReserveModule ==
  /\ ~ready
  /\ pfa_reserve(boot.module.start, boot.module.end)
  /\ ready' = TRUE
  /\ UNCHANGED <<boot, held>>

Alloc ==
  /\ ready
  /\ \/ \E f \in Frames :
          /\ pfa_alloc(f)
          /\ held' = held \union {[base |-> f, n |-> 1]}
     \/ NoFrameFree /\ UNCHANGED held
  /\ UNCHANGED <<boot, ready>>

AllocContiguous(n) ==
  /\ ready
  /\ \/ \E base \in Frames :
          /\ pfa_alloc_contiguous(base, n)
          /\ held' = held \union {[base |-> base, n |-> n]}
     \/ NoRunFree(n) /\ UNCHANGED held
  /\ UNCHANGED <<boot, ready>>

Release(r) ==
  /\ \/ r.n = 1 /\ pfa_free(r.base)
     \/ pfa_free_contiguous(r.base, r.n)
  /\ held' = held \ {r}
  /\ UNCHANGED <<boot, ready>>

Next ==
  \/ ReserveModule
  \/ Alloc
  \/ \E n \in 0 .. MaxRun : AllocContiguous(n)
  \/ \E r \in held : Release(r)

Spec == Init /\ [][Next]_vars

-----------------------------------------------------------------------------
\* No frame is given to two clients, and none a client holds is marked free.
NoDoubleAllocation ==
  /\ \A r \in held : FramesOf(r) \subseteq frame_bitmap
  /\ \A q, r \in held : q # r => FramesOf(q) \intersect FramesOf(r) = {}

\* The bytes of frame f.
Bytes(f) == f * PAGE_SIZE .. (f + 1) * PAGE_SIZE - 1

\* Frame f and the byte range r overlap.  An empty range strictly inside of f
\* counts: mark_region_used marks that frame too.
Touches(f, r) == r.start < (f + 1) * PAGE_SIZE /\ f * PAGE_SIZE < r.end

\* Every byte of a frame handed out is available memory, and none belongs to
\* frame zero, the kernel image, the boot report, its map table or the file
\* system: the rounding of mark_region_free and mark_region_used never leaks
\* a partial frame.
OnlyUsableMemory ==
  \A r \in held : \A f \in FramesOf(r) :
    /\ f # 0
    /\ \A a \in Bytes(f) :
         IF boot.mmap_valid
           THEN \E e \in boot.mmap :
                  e.type = 1 /\ e.addr <= a /\ a < e.addr + e.len
           ELSE HIGH_MEM <= a /\ a < HIGH_MEM + boot.mem_upper
    /\ ~Touches(f, boot.kernel)
    /\ ~Touches(f, boot.info)
    /\ ~Touches(f, boot.module)
    /\ boot.mmap_valid => ~Touches(f, boot.table)

\* Available memory is never lost, at boot or later: a whole frame of an
\* available region that touches nothing reserved is free or held.  Left out
\* are the two edges where pfa_init cuts the 64-bit end of a region: the last
\* frame of the address space, and a region that ends exactly there.
NoMemoryLost ==
  boot.mmap_valid =>
    \A e \in boot.mmap : \A f \in Frames \ {0, MAX_FRAMES - 1} :
      (/\ e.type = 1
       /\ \A a \in Bytes(f) : e.addr <= a /\ a < e.addr + e.len
       /\ e.addr + e.len # ADDRESSES
       /\ ~Touches(f, boot.kernel)
       /\ ~Touches(f, boot.info)
       /\ ~Touches(f, boot.table)
       /\ ready => ~Touches(f, boot.module))
      => f \in Free \/ \E r \in held : f \in FramesOf(r)
=============================================================================
