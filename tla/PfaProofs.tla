----------------------------- MODULE PfaProofs ------------------------------
(***************************************************************************)
(* The frame allocator.  PfaSystem: the counter is exact, no frame has two *)
(* owners, only usable memory is handed out and none is lost, for every    *)
(* size of memory and every boot report that BootAssumption admits.        *)
(* PfaScan: the loop of pfa_alloc_contiguous finds the lowest long enough  *)
(* run of free frames, for every bitmap and every request.                 *)
(***************************************************************************)
EXTENDS PfaSystem, PfaScan, FiniteSetTheorems, TLAPS

-----------------------------------------------------------------------------
(* Counting frames                                                         *)

\* A set of frames is finite.
LEMMA FiniteFrames ==
  ASSUME NEW S, S \subseteq Frames
  PROVE  IsFiniteSet(S) /\ Cardinality(S) \in Nat
<1>1. IsFiniteSet(Frames)
  BY FS_Interval, PfaAssumption DEF Frames
<1>2. IsFiniteSet(S)
  BY <1>1, FS_Subset
<1> QED BY <1>2, FS_CardinalityType

\* There are MAX_FRAMES frames.
LEMMA FramesCount == Cardinality(Frames) = MAX_FRAMES
<1>1. 0 \in Int /\ MAX_FRAMES - 1 \in Int
  BY PfaAssumption
<1>2. Cardinality(0 .. MAX_FRAMES - 1) =
        IF 0 > MAX_FRAMES - 1 THEN 0 ELSE MAX_FRAMES - 1 - 0 + 1
  BY <1>1, FS_Interval
<1> QED BY <1>2, PfaAssumption DEF Frames

\* A set of frames has at most MAX_FRAMES members.
LEMMA CountBound ==
  ASSUME NEW S, S \subseteq Frames
  PROVE  Cardinality(S) \in 0 .. MAX_FRAMES
<1>1. IsFiniteSet(Frames) /\ Cardinality(S) \in Nat
  BY FiniteFrames
<1>2. Cardinality(S) <= Cardinality(Frames)
  BY <1>1, FS_Subset
<1> QED BY <1>1, <1>2, FramesCount, PfaAssumption

\* mark_used keeps the counter exact, whatever was used before.
LEMMA MarkUsedCount ==
  ASSUME frame_bitmap \subseteq Frames, CountExact,
         NEW S, S \subseteq Frames, MarkUsed(S)
  PROVE  frame_bitmap' \subseteq Frames /\ used_frame_count' \in 0 .. MAX_FRAMES /\ CountExact'
<1>1. /\ IsFiniteSet(frame_bitmap) /\ Cardinality(frame_bitmap) \in Nat
      /\ IsFiniteSet(S \ frame_bitmap) /\ Cardinality(S \ frame_bitmap) \in Nat
  BY FiniteFrames
<1>2. Cardinality(frame_bitmap \cup (S \ frame_bitmap)) =
        Cardinality(frame_bitmap) + Cardinality(S \ frame_bitmap)
          - Cardinality(frame_bitmap \cap (S \ frame_bitmap))
  BY <1>1, FS_Union
<1>3. frame_bitmap \cap (S \ frame_bitmap) = {}
  OBVIOUS
<1>4. frame_bitmap \cup (S \ frame_bitmap) = frame_bitmap \union S
  OBVIOUS
<1>5. Cardinality({}) = 0
  BY FS_EmptySet
<1>6. frame_bitmap' \subseteq Frames
  BY DEF MarkUsed
<1>7. CountExact'
  <2>1. Cardinality(frame_bitmap \cap (S \ frame_bitmap)) = 0
    BY <1>3, <1>5, Zenon
  <2>2. Cardinality(frame_bitmap') = Cardinality(frame_bitmap \cup (S \ frame_bitmap))
    BY <1>4, Zenon DEF MarkUsed
  <2>3. Cardinality(frame_bitmap') = Cardinality(frame_bitmap) + Cardinality(S \ frame_bitmap)
    BY <1>1, <1>2, <2>1, <2>2
  <2> QED BY <2>3 DEF MarkUsed, CountExact
<1> QED BY <1>6, <1>7, CountBound DEF CountExact

\* So does mark_free.
LEMMA MarkFreeCount ==
  ASSUME frame_bitmap \subseteq Frames, CountExact,
         NEW S, MarkFree(S)
  PROVE  frame_bitmap' \subseteq Frames /\ used_frame_count' \in 0 .. MAX_FRAMES /\ CountExact'
<1>1. /\ IsFiniteSet(frame_bitmap) /\ Cardinality(frame_bitmap) \in Nat
      /\ Cardinality(S \intersect frame_bitmap) \in Nat
  BY FiniteFrames
<1>2. Cardinality(frame_bitmap \ S) =
        Cardinality(frame_bitmap) - Cardinality(frame_bitmap \cap S)
  BY <1>1, FS_Difference
<1>3. Cardinality(frame_bitmap \cap S) = Cardinality(S \intersect frame_bitmap)
  <2>1. frame_bitmap \cap S = S \intersect frame_bitmap
    OBVIOUS
  <2> QED BY <2>1, Zenon
<1>4. frame_bitmap' \subseteq Frames
  BY DEF MarkFree
<1>5. CountExact'
  BY <1>1, <1>2, <1>3 DEF MarkFree, CountExact
<1> QED BY <1>4, <1>5, CountBound DEF CountExact

-----------------------------------------------------------------------------
(* Address arithmetic stays within the frames.                             *)

\* The frame of an address has a bit, and align_down only lowers.
LEMMA FrameOfAddress ==
  ASSUME NEW v \in Nat, v < ADDRESSES
  PROVE  /\ v \div PAGE_SIZE \in 0 .. MAX_FRAMES - 1
         /\ align_down(v) \in 0 .. v
<1>1. v \div PAGE_SIZE \in Nat /\ v % PAGE_SIZE \in 0 .. PAGE_SIZE - 1
  BY PfaAssumption
<1>2. v = PAGE_SIZE * (v \div PAGE_SIZE) + (v % PAGE_SIZE)
  BY PfaAssumption
<1>3. ~(v \div PAGE_SIZE >= MAX_FRAMES)
  <2> SUFFICES ASSUME v \div PAGE_SIZE >= MAX_FRAMES PROVE FALSE
    OBVIOUS
  <2>1. PAGE_SIZE * (v \div PAGE_SIZE) >= PAGE_SIZE * MAX_FRAMES
    BY <1>1, PfaAssumption
  <2> QED BY <1>1, <1>2, <2>1, PfaAssumption DEF ADDRESSES
<1> QED BY <1>1, <1>2, <1>3, PfaAssumption DEF align_down

\* The frames between two addresses have bits.
LEMMA FramesBetweenFrames ==
  ASSUME NEW a \in Nat, NEW b \in Nat, a < ADDRESSES, b < ADDRESSES
  PROVE  FramesBetween(a, b) \subseteq Frames
<1>1. /\ a \div PAGE_SIZE \in 0 .. MAX_FRAMES - 1
      /\ b \div PAGE_SIZE \in 0 .. MAX_FRAMES - 1
  BY FrameOfAddress
<1> QED BY <1>1, PfaAssumption DEF FramesBetween, Frames

\* align_up yields an address, wrapped or not.
LEMMA AlignType ==
  ASSUME NEW v \in Nat
  PROVE  align_up(v) \in Nat /\ align_up(v) < ADDRESSES
<1> DEFINE w == (v + (PAGE_SIZE - 1)) % ADDRESSES
<1>1. ADDRESSES \in Nat /\ ADDRESSES > 0
  BY PfaAssumption DEF ADDRESSES
<1>2. w \in Nat /\ w < ADDRESSES
  BY <1>1, PfaAssumption
<1> HIDE DEF w
<1>3. align_down(w) \in 0 .. w
  BY <1>2, FrameOfAddress
<1> QED BY <1>1, <1>2, <1>3 DEF align_up, w

\* mark_region_used touches only bits of the bitmap.
LEMMA RegionToUseFrames ==
  ASSUME NEW a \in Nat, NEW b \in Nat, a < ADDRESSES
  PROVE  RegionToUse(a, b) \subseteq Frames
<1>1. align_down(a) \in Nat /\ align_down(a) < ADDRESSES
  <2>1. ADDRESSES \in Nat
    BY PfaAssumption DEF ADDRESSES
  <2> QED BY <2>1, FrameOfAddress
<1> QED BY <1>1, AlignType, FramesBetweenFrames DEF RegionToUse

\* mark_region_free touches only bits of the bitmap.
LEMMA RegionToFreeFrames ==
  ASSUME NEW a \in Nat, NEW b \in Nat, b < ADDRESSES
  PROVE  RegionToFree(a, b) \subseteq Frames
<1>1. align_down(b) \in Nat /\ align_down(b) < ADDRESSES
  <2>1. ADDRESSES \in Nat
    BY PfaAssumption DEF ADDRESSES
  <2> QED BY <2>1, FrameOfAddress
<1> QED BY <1>1, AlignType, FramesBetweenFrames DEF RegionToFree

-----------------------------------------------------------------------------
(* The allocator from boot on                                              *)

\* The inductive invariant.
PfaInv == TypeOK /\ CountExact /\ NoDoubleAllocation

\* The last page lies within the address space.
LEMMA Addresses == ADDRESSES \in Nat /\ LastPage \in Nat /\ LastPage < ADDRESSES
<1>1. ADDRESSES \in Nat /\ PAGE_SIZE \in Nat /\ PAGE_SIZE > 0
  BY PfaAssumption DEF ADDRESSES
<1>2. ADDRESSES >= PAGE_SIZE
  BY PfaAssumption DEF ADDRESSES
<1> QED BY <1>1, <1>2 DEF LastPage

\* pfa_init marks only bits of the bitmap used.
LEMMA BootReservesFrames ==
  ASSUME NEW b \in BootInfos
  PROVE  ReservedFrames(b) \subseteq Frames
<1>1. \A r \in {b.kernel, b.info, b.table} :
        r.start \in Nat /\ r.end \in Nat /\ r.start < ADDRESSES
  BY BootAssumption, Addresses DEF RangeOK
<1>2. 0 \in Nat /\ PAGE_SIZE \in Nat /\ 0 < ADDRESSES
  BY PfaAssumption, Addresses
<1>3. RegionToUse(0, PAGE_SIZE) \subseteq Frames
  BY <1>2, RegionToUseFrames
<1>4. /\ RegionToUse(b.kernel.start, b.kernel.end) \subseteq Frames
      /\ RegionToUse(b.info.start, b.info.end) \subseteq Frames
      /\ RegionToUse(b.table.start, b.table.end) \subseteq Frames
  BY <1>1, RegionToUseFrames
<1> QED BY <1>3, <1>4 DEF ReservedFrames

\* pfa_init marks only bits of the bitmap free.
LEMMA BootFreesFrames ==
  ASSUME NEW b \in BootInfos
  PROVE  AvailableFrames(b) \subseteq Frames
<1>1. ASSUME NEW e \in b.mmap
      PROVE  EntryFrames(e) \subseteq Frames
  <2>1. e.addr \in Nat /\ e.len \in Nat
    BY BootAssumption
  <2>2. EntryEnd(e) \in Nat /\ EntryEnd(e) < ADDRESSES
    BY <2>1, Addresses DEF EntryEnd
  <2> QED BY <2>1, <2>2, RegionToFreeFrames DEF EntryFrames
<1>2. RegionToFree(HIGH_MEM, (HIGH_MEM + b.mem_upper) % ADDRESSES) \subseteq Frames
  <2>1. HIGH_MEM \in Nat /\ b.mem_upper \in Nat
    BY BootAssumption, Addresses
  <2>2. /\ (HIGH_MEM + b.mem_upper) % ADDRESSES \in Nat
        /\ (HIGH_MEM + b.mem_upper) % ADDRESSES < ADDRESSES
    BY <2>1, Addresses
  <2> QED BY <2>1, <2>2, RegionToFreeFrames
<1> QED BY <1>1, <1>2 DEF AvailableFrames

\* The count that pfa_init ends with.
LEMMA InitialCount ==
  ASSUME NEW A, A \subseteq Frames, NEW R, R \subseteq Frames
  PROVE  Cardinality((Frames \ A) \union R) =
           MAX_FRAMES - Cardinality(A) + Cardinality(R \intersect A)
<1>1. /\ IsFiniteSet(Frames) /\ IsFiniteSet(Frames \ A) /\ IsFiniteSet(R)
      /\ Cardinality(A) \in Nat /\ Cardinality(R) \in Nat
      /\ Cardinality(R \cap A) \in Nat /\ Cardinality(Frames \ A) \in Nat
  BY FiniteFrames
<1>2. Cardinality(Frames \ A) = MAX_FRAMES - Cardinality(A)
  <2>1. Cardinality(Frames \ A) = Cardinality(Frames) - Cardinality(Frames \cap A)
    BY <1>1, FS_Difference
  <2>2. Frames \cap A = A
    OBVIOUS
  <2>3. Cardinality(Frames \cap A) = Cardinality(A)
    BY <2>2, Zenon
  <2> QED BY <2>1, <2>3, FramesCount
<1>3. Cardinality((Frames \ A) \cup R) =
        Cardinality(Frames \ A) + Cardinality(R) - Cardinality((Frames \ A) \cap R)
  BY <1>1, FS_Union
<1>4. Cardinality((Frames \ A) \cap R) = Cardinality(R) - Cardinality(R \cap A)
  <2>1. (Frames \ A) \cap R = R \ A
    OBVIOUS
  <2>2. Cardinality(R \ A) = Cardinality(R) - Cardinality(R \cap A)
    BY <1>1, FS_Difference
  <2>3. Cardinality((Frames \ A) \cap R) = Cardinality(R \ A)
    BY <2>1, Zenon
  <2> QED BY <2>2, <2>3
<1> QED BY <1>1, <1>2, <1>3, <1>4, PfaAssumption

\* pfa_init establishes the invariant.
LEMMA InitPfaInv == Init => PfaInv
<1> SUFFICES ASSUME Init PROVE PfaInv
  OBVIOUS
<1>1. /\ boot \in BootInfos /\ ready = FALSE /\ held = {}
      /\ frame_bitmap = (Frames \ AvailableFrames(boot)) \union ReservedFrames(boot)
      /\ used_frame_count =
           MAX_FRAMES - Cardinality(AvailableFrames(boot))
             + Cardinality(ReservedFrames(boot) \intersect AvailableFrames(boot))
  BY DEF Init, pfa_init
<1>2. AvailableFrames(boot) \subseteq Frames /\ ReservedFrames(boot) \subseteq Frames
  BY <1>1, BootReservesFrames, BootFreesFrames
<1>3. CountExact
  BY <1>1, <1>2, InitialCount DEF CountExact
<1>4. frame_bitmap \subseteq Frames
  BY <1>1, <1>2
<1>5. used_frame_count \in 0 .. MAX_FRAMES
  BY <1>3, <1>4, CountBound DEF CountExact
<1>6. TypeOK
  BY <1>1, <1>4, <1>5 DEF TypeOK, PfaTypeOK
<1>7. NoDoubleAllocation
  BY <1>1 DEF NoDoubleAllocation
<1> QED BY <1>3, <1>6, <1>7 DEF PfaInv
-----------------------------------------------------------------------------
(* One lemma for giving frames out and one for taking them back; the       *)
(* actions are instances of them.                                          *)

\* A run of free frames can be handed to a client.
LEMMA GiveRun ==
  ASSUME PfaInv, NEW r \in Runs, FramesOf(r) \subseteq Free,
         MarkUsed(FramesOf(r)), held' = held \union {r}, UNCHANGED <<boot, ready>>
  PROVE  PfaInv'
<1>1. frame_bitmap \subseteq Frames /\ CountExact /\ FramesOf(r) \subseteq Frames
  BY DEF PfaInv, TypeOK, PfaTypeOK, Free
<1>2. frame_bitmap' \subseteq Frames /\ used_frame_count' \in 0 .. MAX_FRAMES /\ CountExact'
  BY <1>1, MarkUsedCount
<1>3. held' \subseteq Runs
  BY DEF PfaInv, TypeOK
<1>4. TypeOK'
  BY <1>2, <1>3 DEF PfaInv, TypeOK, PfaTypeOK, Runs, Frames
<1>5. frame_bitmap' = frame_bitmap \union FramesOf(r)
  BY DEF MarkUsed
<1>6. \A q \in held : FramesOf(q) \subseteq frame_bitmap
  BY DEF PfaInv, NoDoubleAllocation
<1>7. \A q \in held : FramesOf(q) \intersect FramesOf(r) = {}
  BY <1>6 DEF Free
<1>8. \A q \in held' : FramesOf(q) \subseteq frame_bitmap'
  BY <1>5, <1>6
<1>9. \A p, q \in held' : p # q => FramesOf(p) \intersect FramesOf(q) = {}
  BY <1>7 DEF PfaInv, NoDoubleAllocation
<1>10. NoDoubleAllocation'
  BY <1>8, <1>9 DEF NoDoubleAllocation, FramesOf, Run
<1> QED BY <1>2, <1>4, <1>10 DEF PfaInv

\* A run that a client holds can be taken back.
LEMMA TakeRun ==
  ASSUME PfaInv, NEW r \in held, MarkFree(FramesOf(r) \intersect Frames),
         held' = held \ {r}, UNCHANGED <<boot, ready>>
  PROVE  PfaInv'
<1>1. frame_bitmap \subseteq Frames /\ CountExact
  BY DEF PfaInv, TypeOK, PfaTypeOK
<1>2. frame_bitmap' \subseteq Frames /\ used_frame_count' \in 0 .. MAX_FRAMES /\ CountExact'
  BY <1>1, MarkFreeCount
<1>3. held' \subseteq Runs
  BY DEF PfaInv, TypeOK
<1>4. TypeOK'
  BY <1>2, <1>3 DEF PfaInv, TypeOK, PfaTypeOK, Runs, Frames
<1>5. frame_bitmap' = frame_bitmap \ (FramesOf(r) \intersect Frames)
  BY DEF MarkFree
<1>6. \A p, q \in held : p # q => FramesOf(p) \intersect FramesOf(q) = {}
  BY DEF PfaInv, NoDoubleAllocation
<1>7. \A q \in held' : FramesOf(q) \subseteq frame_bitmap'
  BY <1>5, <1>6 DEF PfaInv, NoDoubleAllocation
<1>8. \A p, q \in held' : p # q => FramesOf(p) \intersect FramesOf(q) = {}
  BY <1>6
<1>9. NoDoubleAllocation'
  BY <1>7, <1>8 DEF NoDoubleAllocation, FramesOf, Run
<1> QED BY <1>2, <1>4, <1>9 DEF PfaInv

\* A step that changes neither the bitmap nor what clients hold.
LEMMA KeepRuns ==
  ASSUME PfaInv, UNCHANGED <<pfaVars, boot, ready, held>>
  PROVE  PfaInv'
BY DEF PfaInv, TypeOK, PfaTypeOK, CountExact, NoDoubleAllocation, FramesOf, Run,
       Runs, Frames, pfaVars

-----------------------------------------------------------------------------
(* The actions                                                             *)

\* kmain's pfa_reserve of the file system module keeps the invariant.
LEMMA ReserveModuleInv ==
  ASSUME PfaInv, ReserveModule
  PROVE  PfaInv'
<1> DEFINE S == RegionToUse(boot.module.start, boot.module.end)
<1>1. frame_bitmap \subseteq Frames /\ CountExact /\ boot \in BootInfos
  BY DEF PfaInv, TypeOK, PfaTypeOK
<1>2. /\ boot.module.start \in Nat /\ boot.module.end \in Nat
      /\ boot.module.start < ADDRESSES
  BY <1>1, BootAssumption, Addresses DEF RangeOK
<1>3. S \subseteq Frames
  BY <1>2, RegionToUseFrames
<1>4. MarkUsed(S) /\ UNCHANGED <<boot, held>> /\ ready' = TRUE
  BY DEF ReserveModule, pfa_reserve
<1> HIDE DEF S
<1>5. frame_bitmap' \subseteq Frames /\ used_frame_count' \in 0 .. MAX_FRAMES /\ CountExact'
  BY <1>1, <1>3, <1>4, MarkUsedCount
<1>6. TypeOK'
  BY <1>4, <1>5 DEF PfaInv, TypeOK, PfaTypeOK, Runs, Frames
<1>7. frame_bitmap \subseteq frame_bitmap'
  BY <1>4 DEF MarkUsed
<1>8. NoDoubleAllocation'
  BY <1>4, <1>7 DEF PfaInv, NoDoubleAllocation, FramesOf, Run
<1> QED BY <1>5, <1>6, <1>8 DEF PfaInv

\* pfa_alloc keeps it.
LEMMA AllocInv ==
  ASSUME PfaInv, Alloc
  PROVE  PfaInv'
<1>1. CASE NoFrameFree /\ UNCHANGED held
  BY <1>1, KeepRuns DEF NoFrameFree, Alloc
<1>2. ASSUME NEW f \in Frames, pfa_alloc(f),
             held' = held \union {[base |-> f, n |-> 1]}
      PROVE  PfaInv'
  <2> DEFINE r == [base |-> f, n |-> 1]
  <2>1. r \in Runs
    BY BootAssumption DEF Runs
  <2>2. FramesOf(r) = {f}
    BY DEF FramesOf, Run, Frames
  <2>3. f \in Free /\ MarkUsed({f}) /\ UNCHANGED <<boot, ready>>
    BY <1>2 DEF pfa_alloc, LowestFree, Alloc
  <2>4. FramesOf(r) \subseteq Free /\ MarkUsed(FramesOf(r))
    BY <2>2, <2>3, Zenon
  <2>5. held' = held \union {r}
    BY <1>2
  <2> HIDE DEF r
  <2> QED BY <2>1, <2>3, <2>4, <2>5, GiveRun
<1> QED BY <1>1, <1>2 DEF Alloc

\* pfa_alloc_contiguous keeps it.
LEMMA AllocContiguousInv ==
  ASSUME PfaInv, NEW n \in 0 .. MaxRun, AllocContiguous(n)
  PROVE  PfaInv'
<1>1. CASE NoRunFree(n) /\ UNCHANGED held
  BY <1>1, KeepRuns DEF NoRunFree, AllocContiguous
<1>2. ASSUME NEW base \in Frames, pfa_alloc_contiguous(base, n),
             held' = held \union {[base |-> base, n |-> n]}
      PROVE  PfaInv'
  <2> DEFINE r == [base |-> base, n |-> n]
  <2>1. r \in Runs
    BY <1>2, BootAssumption DEF Runs, pfa_alloc_contiguous
  <2>2. FramesOf(r) = Run(base, n)
    BY DEF FramesOf
  <2>3. /\ Run(base, n) \subseteq Free /\ MarkUsed(Run(base, n))
        /\ UNCHANGED <<boot, ready>>
    BY <1>2 DEF pfa_alloc_contiguous, FirstRun, AllocContiguous
  <2>4. FramesOf(r) \subseteq Free /\ MarkUsed(FramesOf(r))
    BY <2>2, <2>3, Zenon
  <2>5. held' = held \union {r}
    BY <1>2
  <2> HIDE DEF r
  <2> QED BY <2>1, <2>3, <2>4, <2>5, GiveRun
<1> QED BY <1>1, <1>2 DEF AllocContiguous

\* pfa_free and pfa_free_contiguous keep it.
LEMMA ReleaseInv ==
  ASSUME PfaInv, NEW r \in held, Release(r)
  PROVE  PfaInv'
<1>1. r \in Runs
  BY DEF PfaInv, TypeOK
<1>2. held' = held \ {r} /\ UNCHANGED <<boot, ready>>
  BY DEF Release
<1>3. MarkFree(FramesOf(r) \intersect Frames)
  <2>1. CASE pfa_free_contiguous(r.base, r.n)
    BY <2>1 DEF pfa_free_contiguous, FramesOf
  <2>2. CASE r.n = 1 /\ pfa_free(r.base)
    <3>1. FramesOf(r) = {r.base}
      BY <1>1, <2>2 DEF FramesOf, Run, Runs, Frames
    <3>2. MarkFree({r.base} \intersect Frames)
      BY <2>2 DEF pfa_free
    <3> QED BY <3>1, <3>2, Zenon
  <2> QED BY <2>1, <2>2 DEF Release
<1> QED BY <1>2, <1>3, TakeRun

-----------------------------------------------------------------------------
\* The invariant holds from boot on.
THEOREM PfaInvariance == Spec => []PfaInv
<1>1. PfaInv /\ [Next]_vars => PfaInv'
  <2> SUFFICES ASSUME PfaInv, [Next]_vars PROVE PfaInv'
    OBVIOUS
  <2>1. CASE UNCHANGED vars
    BY <2>1, KeepRuns DEF vars
  <2>2. CASE ReserveModule
    BY <2>2, ReserveModuleInv
  <2>3. CASE Alloc
    BY <2>3, AllocInv
  <2>4. CASE \E n \in 0 .. MaxRun : AllocContiguous(n)
    BY <2>4, AllocContiguousInv
  <2>5. CASE \E r \in held : Release(r)
    BY <2>5, ReleaseInv
  <2> QED BY <2>1, <2>2, <2>3, <2>4, <2>5 DEF Next
<1> QED BY <1>1, InitPfaInv, PTL DEF Spec

\* Every variable keeps its type: no operation sets a bit beyond the bitmap.
THEOREM PfaTypeCorrect == Spec => []TypeOK
<1>1. PfaInv => TypeOK
  BY DEF PfaInv
<1> QED BY <1>1, PfaInvariance, PTL

\* used_frame_count counts the bits set in frame_bitmap, always.
THEOREM CountExactHolds == Spec => []CountExact
<1>1. PfaInv => CountExact
  BY DEF PfaInv
<1> QED BY <1>1, PfaInvariance, PTL

\* The allocator never gives a frame to two clients.
THEOREM NoDoubleAllocationHolds == Spec => []NoDoubleAllocation
<1>1. PfaInv => NoDoubleAllocation
  BY DEF PfaInv
<1> QED BY <1>1, PfaInvariance, PTL

-----------------------------------------------------------------------------
(* Frames and bytes.  The rounding of mark_region_free and                 *)
(* mark_region_used, read as comparisons of addresses.                     *)

\* The frame of an address v is at least q when q's first byte is not above v.
LEMMA DivAtLeast ==
  ASSUME NEW v \in Nat, NEW q \in Nat
  PROVE  q <= v \div PAGE_SIZE <=> q * PAGE_SIZE <= v
<1> DEFINE d == v \div PAGE_SIZE
           m == v % PAGE_SIZE
<1>1. d \in Nat /\ m \in 0 .. PAGE_SIZE - 1 /\ PAGE_SIZE \in Nat /\ PAGE_SIZE > 0
  BY PfaAssumption
<1>2. v = PAGE_SIZE * d + m
  BY PfaAssumption
<1> HIDE DEF d, m
<1>3. ASSUME q <= d PROVE q * PAGE_SIZE <= v
  <2>1. q * PAGE_SIZE <= d * PAGE_SIZE
    BY <1>1, <1>3
  <2> QED BY <1>1, <1>2, <2>1
<1>4. ASSUME q * PAGE_SIZE <= v, ~(q <= d) PROVE FALSE
  <2>1. (d + 1) * PAGE_SIZE <= q * PAGE_SIZE
    BY <1>1, <1>4
  <2> QED BY <1>1, <1>2, <1>4, <2>1
<1> QED BY <1>1, <1>3, <1>4 DEF d

\* Rounding down does not change the frame.
LEMMA DownDiv ==
  ASSUME NEW v \in Nat
  PROVE  align_down(v) \div PAGE_SIZE = v \div PAGE_SIZE /\ align_down(v) \in Nat
<1> DEFINE d == v \div PAGE_SIZE
           m == v % PAGE_SIZE
<1>1. d \in Nat /\ m \in 0 .. PAGE_SIZE - 1 /\ PAGE_SIZE \in Nat /\ PAGE_SIZE > 0
  BY PfaAssumption
<1>2. v = PAGE_SIZE * d + m
  BY PfaAssumption
<1>3. align_down(v) = v - m
  BY DEF align_down
<1> HIDE DEF d, m
<1>4. align_down(v) = d * PAGE_SIZE /\ d * PAGE_SIZE \in Nat
  BY <1>1, <1>2, <1>3
<1>5. d <= align_down(v) \div PAGE_SIZE
  BY <1>1, <1>4, DivAtLeast
<1>6. ~(d + 1 <= align_down(v) \div PAGE_SIZE)
  <2>1. ~((d + 1) * PAGE_SIZE <= d * PAGE_SIZE)
    BY <1>1
  <2> QED BY <1>1, <1>4, <2>1, DivAtLeast
<1>7. align_down(v) \div PAGE_SIZE \in Int
  BY <1>1, <1>4
<1> QED BY <1>1, <1>4, <1>5, <1>6, <1>7 DEF d

\* Rounding up reaches frame q at the latest when v is not above q's first
\* byte; below the last page it does not wrap.
LEMMA UpDiv ==
  ASSUME NEW v \in Nat, v <= LastPage, NEW q \in Nat
  PROVE  align_up(v) \div PAGE_SIZE <= q <=> v <= q * PAGE_SIZE
<1> DEFINE w == v + (PAGE_SIZE - 1)
<1>0. PAGE_SIZE \in Nat /\ PAGE_SIZE > 0 /\ ADDRESSES \in Nat
  BY PfaAssumption, Addresses
<1>1. w \in Nat /\ w < ADDRESSES /\ w % ADDRESSES = w
  BY <1>0 DEF LastPage
<1>2. align_up(v) \div PAGE_SIZE = w \div PAGE_SIZE
  BY <1>1, DownDiv DEF align_up
<1>3. w \div PAGE_SIZE \in Int
  BY <1>0, <1>1
<1>4. q + 1 <= w \div PAGE_SIZE <=> (q + 1) * PAGE_SIZE <= w
  BY <1>1, DivAtLeast
<1>5. (q + 1) * PAGE_SIZE = q * PAGE_SIZE + PAGE_SIZE /\ q * PAGE_SIZE \in Nat
  BY <1>0
<1> QED BY <1>0, <1>2, <1>3, <1>4, <1>5

\* mark_region_used marks exactly the frames the range overlaps.
LEMMA UsedTouches ==
  ASSUME NEW r, RangeOK(r), NEW f \in Frames
  PROVE  f \in RegionToUse(r.start, r.end) <=> Touches(f, r)
<1>0. /\ r.start \in Nat /\ r.end \in Nat /\ r.end <= LastPage /\ f \in Nat
      /\ PAGE_SIZE \in Nat /\ PAGE_SIZE > 0
  BY PfaAssumption, Addresses DEF RangeOK, Frames
<1> DEFINE lo == align_down(r.start) \div PAGE_SIZE
           hi == align_up(r.end) \div PAGE_SIZE
<1>1. lo = r.start \div PAGE_SIZE
  BY <1>0, DownDiv
<1>2. lo \in Int /\ hi \in Int
  BY <1>0, <1>1, AlignType
<1>3. f + 1 <= r.start \div PAGE_SIZE <=> (f + 1) * PAGE_SIZE <= r.start
  BY <1>0, DivAtLeast
<1>4. hi <= f <=> r.end <= f * PAGE_SIZE
  BY <1>0, UpDiv
<1>5. f * PAGE_SIZE \in Nat /\ (f + 1) * PAGE_SIZE \in Nat
  BY <1>0
<1>6. f \in RegionToUse(r.start, r.end) <=> lo <= f /\ f <= hi - 1
  BY <1>0, <1>2 DEF RegionToUse, FramesBetween
<1> HIDE DEF lo, hi
<1> QED BY <1>0, <1>1, <1>2, <1>3, <1>4, <1>5, <1>6 DEF Touches

\* mark_region_free frees exactly the frames that lie inside the range.
LEMMA FreedInside ==
  ASSUME NEW a \in Nat, a <= LastPage, NEW b \in Nat, NEW f \in Nat
  PROVE  f \in RegionToFree(a, b) <=> a <= f * PAGE_SIZE /\ (f + 1) * PAGE_SIZE <= b
<1>0. PAGE_SIZE \in Nat /\ PAGE_SIZE > 0
  BY PfaAssumption
<1> DEFINE lo == align_up(a) \div PAGE_SIZE
           hi == align_down(b) \div PAGE_SIZE
<1>1. hi = b \div PAGE_SIZE
  BY DownDiv
<1>2. lo \in Int /\ hi \in Int
  BY <1>0, <1>1, AlignType
<1>3. lo <= f <=> a <= f * PAGE_SIZE
  BY UpDiv
<1>4. f + 1 <= b \div PAGE_SIZE <=> (f + 1) * PAGE_SIZE <= b
  BY DivAtLeast
<1>5. f \in RegionToFree(a, b) <=> lo <= f /\ f <= hi - 1
  BY <1>2 DEF RegionToFree, FramesBetween
<1> HIDE DEF lo, hi
<1> QED BY <1>0, <1>1, <1>2, <1>3, <1>4, <1>5

-----------------------------------------------------------------------------
(* Where memory is.  The frames that pfa_init made available, less the     *)
(* reserved ones, are at every moment exactly those that are free or held. *)

\* The frames there are to hand out.
Usable ==
  (AvailableFrames(boot) \ ReservedFrames(boot))
    \ (IF ready THEN RegionToUse(boot.module.start, boot.module.end) ELSE {})

HeldFrames == UNION {FramesOf(r) : r \in held}

\* Nobody holds anything before kmain has reserved the module, and no frame
\* is lost or made up.
MemoryAccounted ==
  /\ ~ready => held = {}
  /\ Free \union HeldFrames = Usable

\* pfa_init accounts for all memory.
LEMMA InitAccounted == Init => MemoryAccounted
<1> SUFFICES ASSUME Init PROVE MemoryAccounted
  OBVIOUS
<1>1. /\ boot \in BootInfos /\ ready = FALSE /\ held = {}
      /\ frame_bitmap = (Frames \ AvailableFrames(boot)) \union ReservedFrames(boot)
  BY DEF Init, pfa_init
<1>2. AvailableFrames(boot) \subseteq Frames
  BY <1>1, BootFreesFrames
<1>3. HeldFrames = {}
  BY <1>1 DEF HeldFrames
<1>4. Free = AvailableFrames(boot) \ ReservedFrames(boot)
  BY <1>1, <1>2 DEF Free
<1> QED BY <1>1, <1>3, <1>4 DEF MemoryAccounted, Usable

\* Reserving the module takes its frames out of both sides.
LEMMA ReserveAccounted ==
  ASSUME PfaInv, MemoryAccounted, ReserveModule
  PROVE  MemoryAccounted'
<1> DEFINE S == RegionToUse(boot.module.start, boot.module.end)
<1>1. /\ held = {} /\ held' = held /\ ready' = TRUE /\ boot' = boot
      /\ frame_bitmap' = frame_bitmap \union S
      /\ Free = AvailableFrames(boot) \ ReservedFrames(boot)
  BY DEF ReserveModule, MemoryAccounted, Usable, HeldFrames, pfa_reserve, MarkUsed
<1>2. Free' = Free \ S
  BY <1>1 DEF Free, Frames
<1>3. Usable' = (AvailableFrames(boot) \ ReservedFrames(boot)) \ S
  BY <1>1 DEF Usable
<1>4. HeldFrames' = {}
  BY <1>1 DEF HeldFrames
<1> HIDE DEF S
<1> QED BY <1>1, <1>2, <1>3, <1>4 DEF MemoryAccounted

\* A run handed out moves from the free frames to the held ones.
LEMMA GiveAccounted ==
  ASSUME PfaInv, MemoryAccounted, ready, NEW r,
         FramesOf(r) \subseteq Free, MarkUsed(FramesOf(r)),
         held' = held \union {r}, UNCHANGED <<boot, ready>>
  PROVE  MemoryAccounted'
<1>1. Free' = Free \ FramesOf(r)
  BY DEF Free, MarkUsed
<1>2. HeldFrames' = HeldFrames \union FramesOf(r)
  BY DEF HeldFrames, FramesOf, Run
<1>3. Usable' = Usable
  BY DEF Usable
<1> QED BY <1>1, <1>2, <1>3 DEF MemoryAccounted

\* A run released moves back.
LEMMA TakeAccounted ==
  ASSUME PfaInv, MemoryAccounted, NEW r \in held,
         MarkFree(FramesOf(r) \intersect Frames),
         held' = held \ {r}, UNCHANGED <<boot, ready>>
  PROVE  MemoryAccounted'
<1>1. /\ FramesOf(r) \subseteq frame_bitmap
      /\ frame_bitmap \subseteq Frames
      /\ \A q \in held : q # r => FramesOf(q) \intersect FramesOf(r) = {}
  BY DEF PfaInv, NoDoubleAllocation, TypeOK, PfaTypeOK
<1>2. Free' = Free \union FramesOf(r)
  BY <1>1 DEF Free, MarkFree
<1>3. HeldFrames = HeldFrames' \union FramesOf(r)
  BY DEF HeldFrames, FramesOf, Run
<1>4. Usable' = Usable
  BY DEF Usable
<1> QED BY <1>2, <1>3, <1>4 DEF MemoryAccounted

\* A call that returns 0, or no step at all.
LEMMA KeepAccounted ==
  ASSUME MemoryAccounted, UNCHANGED <<pfaVars, boot, ready, held>>
  PROVE  MemoryAccounted'
<1>1. UNCHANGED <<frame_bitmap, boot, ready, held>>
  BY DEF pfaVars
<1> QED BY <1>1 DEF MemoryAccounted, Free, HeldFrames, Usable

\* All memory is accounted for in every reachable state.
THEOREM MemoryAccountedHolds == Spec => []MemoryAccounted
<1>1. PfaInv /\ MemoryAccounted /\ [Next]_vars => MemoryAccounted'
  <2> SUFFICES ASSUME PfaInv, MemoryAccounted, [Next]_vars
               PROVE  MemoryAccounted'
    OBVIOUS
  <2>1. CASE UNCHANGED vars
    BY <2>1, KeepAccounted DEF vars
  <2>2. CASE ReserveModule
    BY <2>2, ReserveAccounted
  <2>3. CASE Alloc
    <3>1. CASE NoFrameFree /\ UNCHANGED held
      BY <2>3, <3>1, KeepAccounted DEF NoFrameFree, Alloc
    <3>2. ASSUME NEW f \in Frames, pfa_alloc(f),
                 held' = held \union {[base |-> f, n |-> 1]}
          PROVE  MemoryAccounted'
      <4> DEFINE r == [base |-> f, n |-> 1]
      <4>1. FramesOf(r) = {f}
        BY PfaAssumption DEF FramesOf, Run, Frames
      <4>2. FramesOf(r) \subseteq Free /\ MarkUsed(FramesOf(r))
        BY <3>2, <4>1 DEF pfa_alloc, LowestFree
      <4>3. ready /\ UNCHANGED <<boot, ready>> /\ held' = held \union {r}
        BY <2>3, <3>2 DEF Alloc
      <4> HIDE DEF r
      <4> QED BY <4>2, <4>3, GiveAccounted
    <3> QED BY <2>3, <3>1, <3>2 DEF Alloc
  <2>4. ASSUME NEW n \in 0 .. MaxRun, AllocContiguous(n)
        PROVE  MemoryAccounted'
    <3>1. CASE NoRunFree(n) /\ UNCHANGED held
      BY <2>4, <3>1, KeepAccounted DEF NoRunFree, AllocContiguous
    <3>2. ASSUME NEW base \in Frames, pfa_alloc_contiguous(base, n),
                 held' = held \union {[base |-> base, n |-> n]}
          PROVE  MemoryAccounted'
      <4> DEFINE r == [base |-> base, n |-> n]
      <4>1. FramesOf(r) = Run(base, n)
        BY DEF FramesOf
      <4>2. FramesOf(r) \subseteq Free /\ MarkUsed(FramesOf(r))
        BY <3>2, <4>1 DEF pfa_alloc_contiguous, FirstRun
      <4>3. ready /\ UNCHANGED <<boot, ready>> /\ held' = held \union {r}
        BY <2>4, <3>2 DEF AllocContiguous
      <4> HIDE DEF r
      <4> QED BY <4>2, <4>3, GiveAccounted
    <3> QED BY <2>4, <3>1, <3>2 DEF AllocContiguous
  <2>5. ASSUME NEW r \in held, Release(r)
        PROVE  MemoryAccounted'
    <3>1. r \in Runs
      BY DEF PfaInv, TypeOK
    <3>2. MarkFree(FramesOf(r) \intersect Frames)
      <4>1. CASE pfa_free_contiguous(r.base, r.n)
        BY <4>1 DEF pfa_free_contiguous, FramesOf
      <4>2. CASE r.n = 1 /\ pfa_free(r.base)
        <5>1. FramesOf(r) = {r.base}
          BY <3>1, <4>2, PfaAssumption DEF FramesOf, Run, Runs, Frames
        <5> QED BY <4>2, <5>1 DEF pfa_free
      <4> QED BY <2>5, <4>1, <4>2 DEF Release
    <3> QED BY <2>5, <3>2, TakeAccounted DEF Release
  <2> QED BY <2>1, <2>2, <2>3, <2>4, <2>5 DEF Next
<1> QED BY <1>1, InitAccounted, PfaInvariance, PTL DEF Spec

\* The 64-bit end of a region, cut to 32 bits, is never above the region's.
LEMMA EntryEndBound ==
  ASSUME NEW b \in BootInfos, NEW e \in b.mmap
  PROVE  /\ e.addr \in Nat /\ e.len \in Nat
         /\ EntryEnd(e) \in Nat
         /\ EntryEnd(e) < ADDRESSES
         /\ EntryEnd(e) <= e.addr + e.len
         /\ e.addr < ADDRESSES => e.addr <= LastPage
<1>1. /\ e.addr \in Nat /\ e.len \in Nat
      /\ e.addr <= LastPage \/ e.addr >= ADDRESSES
  BY BootAssumption
<1>2. ADDRESSES \in Nat /\ ADDRESSES > 0
  BY Addresses
<1> QED BY <1>1, <1>2, Addresses DEF EntryEnd

\* A frame that pfa_init makes available lies inside one available region:
\* bytes lo up to hi of the address space, hi not being the last address.
LEMMA AvailableInside ==
  ASSUME NEW b \in BootInfos, NEW f \in AvailableFrames(b)
  PROVE  \E lo \in Nat, hi \in Nat :
           /\ lo <= f * PAGE_SIZE /\ (f + 1) * PAGE_SIZE <= hi
           /\ hi < ADDRESSES
           /\ IF b.mmap_valid
                THEN \E e \in b.mmap : e.type = 1 /\ lo = e.addr /\ hi <= e.addr + e.len
                ELSE lo = HIGH_MEM /\ hi = HIGH_MEM + b.mem_upper
<1>0. f \in Nat
  BY BootFreesFrames DEF Frames
<1>1. CASE b.mmap_valid
  <2>1. PICK e \in b.mmap : f \in EntryFrames(e)
    BY <1>1 DEF AvailableFrames
  <2>2. e.type = 1 /\ e.addr < ADDRESSES /\ f \in RegionToFree(e.addr, EntryEnd(e))
    BY <2>1 DEF EntryFrames
  <2>3. /\ e.addr \in Nat /\ e.len \in Nat /\ e.addr <= LastPage
        /\ EntryEnd(e) \in Nat /\ EntryEnd(e) < ADDRESSES
        /\ EntryEnd(e) <= e.addr + e.len
    BY <2>2, EntryEndBound
  <2>4. e.addr <= f * PAGE_SIZE /\ (f + 1) * PAGE_SIZE <= EntryEnd(e)
    BY <1>0, <2>2, <2>3, FreedInside
  <2> QED BY <1>1, <2>2, <2>3, <2>4
<1>2. CASE ~b.mmap_valid
  <2>1. f \in RegionToFree(HIGH_MEM, (HIGH_MEM + b.mem_upper) % ADDRESSES)
    BY <1>2 DEF AvailableFrames
  <2>2. /\ HIGH_MEM \in Nat /\ HIGH_MEM <= LastPage /\ b.mem_upper \in Nat
        /\ HIGH_MEM + b.mem_upper < ADDRESSES
    BY BootAssumption, Addresses
  <2>3. (HIGH_MEM + b.mem_upper) % ADDRESSES = HIGH_MEM + b.mem_upper
    BY <2>2, Addresses
  <2>4. HIGH_MEM <= f * PAGE_SIZE /\ (f + 1) * PAGE_SIZE <= HIGH_MEM + b.mem_upper
    BY <1>0, <2>1, <2>2, <2>3, FreedInside
  <2> QED BY <1>2, <2>2, <2>4
<1> QED BY <1>1, <1>2

\* Frame 0 is reserved, unless there is only one frame (and then it is never
\* available).
LEMMA FrameZeroReserved ==
  ASSUME NEW b \in BootInfos
  PROVE  0 \notin AvailableFrames(b) \ ReservedFrames(b)
<1>0. PAGE_SIZE \in Nat /\ PAGE_SIZE > 0 /\ MAX_FRAMES \in Nat /\ MAX_FRAMES > 0
  BY PfaAssumption
<1>1. CASE MAX_FRAMES = 1
  <2>1. ADDRESSES = PAGE_SIZE
    BY <1>0, <1>1 DEF ADDRESSES
  <2> QED BY <1>0, <2>1, AvailableInside
<1>2. CASE MAX_FRAMES > 1
  <2>1. PAGE_SIZE <= LastPage
    <3>1. 2 * PAGE_SIZE <= PAGE_SIZE * MAX_FRAMES
      BY <1>0, <1>2
    <3> QED BY <1>0, <3>1 DEF LastPage, ADDRESSES
  <2> DEFINE z == [start |-> 0, end |-> PAGE_SIZE]
  <2>2. RangeOK(z)
    BY <1>0, <2>1, Addresses DEF RangeOK
  <2>3. 0 \in Frames /\ Touches(0, z)
    BY <1>0 DEF Frames, Touches
  <2>4. 0 \in RegionToUse(z.start, z.end)
    BY <2>2, <2>3, UsedTouches
  <2>5. z.start = 0 /\ z.end = PAGE_SIZE
    OBVIOUS
  <2> QED BY <2>4, <2>5 DEF ReservedFrames
<1> QED BY <1>0, <1>1, <1>2

\* Only whole frames of available memory are handed out, and none that
\* overlaps the kernel image, the boot report, its table or the module.
THEOREM OnlyUsableMemoryHolds == Spec => []OnlyUsableMemory
<1>1. ASSUME PfaInv, MemoryAccounted
      PROVE  OnlyUsableMemory
  <2> SUFFICES ASSUME NEW r \in held, NEW f \in FramesOf(r)
      PROVE /\ f # 0
            /\ \A a \in Bytes(f) :
                 IF boot.mmap_valid
                   THEN \E e \in boot.mmap :
                          e.type = 1 /\ e.addr <= a /\ a < e.addr + e.len
                   ELSE HIGH_MEM <= a /\ a < HIGH_MEM + boot.mem_upper
            /\ ~Touches(f, boot.kernel)
            /\ ~Touches(f, boot.info)
            /\ ~Touches(f, boot.module)
            /\ boot.mmap_valid => ~Touches(f, boot.table)
    BY DEF OnlyUsableMemory
  <2>1. /\ boot \in BootInfos /\ ready
        /\ f \in AvailableFrames(boot) /\ f \notin ReservedFrames(boot)
        /\ f \notin RegionToUse(boot.module.start, boot.module.end)
    BY <1>1 DEF PfaInv, TypeOK, MemoryAccounted, HeldFrames, Usable
  <2>2. f \in Frames /\ f \in Nat
    BY <2>1, BootFreesFrames DEF Frames
  <2>3. f # 0
    BY <2>1, FrameZeroReserved
  <2>4. ASSUME NEW a \in Bytes(f)
        PROVE  IF boot.mmap_valid
                 THEN \E e \in boot.mmap :
                        e.type = 1 /\ e.addr <= a /\ a < e.addr + e.len
                 ELSE HIGH_MEM <= a /\ a < HIGH_MEM + boot.mem_upper
    <3>1. /\ f * PAGE_SIZE \in Nat /\ (f + 1) * PAGE_SIZE \in Nat
          /\ f * PAGE_SIZE <= a /\ a < (f + 1) * PAGE_SIZE /\ a \in Int
      BY <2>2, <2>4, PfaAssumption DEF Bytes
    <3>2. PICK lo \in Nat, hi \in Nat :
            /\ lo <= f * PAGE_SIZE /\ (f + 1) * PAGE_SIZE <= hi
            /\ IF boot.mmap_valid
                 THEN \E e \in boot.mmap :
                        e.type = 1 /\ lo = e.addr /\ hi <= e.addr + e.len
                 ELSE lo = HIGH_MEM /\ hi = HIGH_MEM + boot.mem_upper
      BY <2>1, AvailableInside
    <3>3. lo <= a /\ a < hi
      BY <3>1, <3>2
    <3>4. CASE boot.mmap_valid
      <4>1. PICK e \in boot.mmap : e.type = 1 /\ lo = e.addr /\ hi <= e.addr + e.len
        BY <3>2, <3>4
      <4>2. e.addr \in Nat /\ e.len \in Nat
        BY <2>1, EntryEndBound
      <4> QED BY <3>1, <3>3, <3>4, <4>1, <4>2
    <3>5. CASE ~boot.mmap_valid
      BY <3>2, <3>3, <3>5
    <3> QED BY <3>4, <3>5
  <2>5. /\ RangeOK(boot.kernel) /\ RangeOK(boot.info)
        /\ RangeOK(boot.table) /\ RangeOK(boot.module)
    BY <2>1, BootAssumption
  <2>6. /\ ~Touches(f, boot.kernel) /\ ~Touches(f, boot.info)
        /\ ~Touches(f, boot.module)
        /\ boot.mmap_valid => ~Touches(f, boot.table)
    BY <2>1, <2>2, <2>5, UsedTouches DEF ReservedFrames
  <2> QED BY <2>3, <2>4, <2>6
<1> QED BY <1>1, PfaInvariance, MemoryAccountedHolds, PTL

\* No available frame is ever lost, at boot or by any sequence of calls.
THEOREM NoMemoryLostHolds == Spec => []NoMemoryLost
<1>1. ASSUME PfaInv, MemoryAccounted
      PROVE  NoMemoryLost
  <2> SUFFICES ASSUME boot.mmap_valid, NEW e \in boot.mmap,
                      NEW f \in Frames \ {0, MAX_FRAMES - 1},
                      e.type = 1,
                      \A a \in Bytes(f) : e.addr <= a /\ a < e.addr + e.len,
                      e.addr + e.len # ADDRESSES,
                      ~Touches(f, boot.kernel),
                      ~Touches(f, boot.info),
                      ~Touches(f, boot.table),
                      ready => ~Touches(f, boot.module)
               PROVE  f \in Free \/ \E r \in held : f \in FramesOf(r)
    BY DEF NoMemoryLost
  <2>0. /\ boot \in BootInfos /\ f \in Nat /\ f # 0 /\ f + 1 < MAX_FRAMES
        /\ PAGE_SIZE \in Nat /\ PAGE_SIZE > 0 /\ MAX_FRAMES \in Nat
        /\ ADDRESSES \in Nat
    BY <1>1, PfaAssumption, Addresses DEF PfaInv, TypeOK, Frames
  <2>1. /\ RangeOK(boot.kernel) /\ RangeOK(boot.info)
        /\ RangeOK(boot.table) /\ RangeOK(boot.module)
        /\ e.addr \in Nat /\ e.len \in Nat
    BY <2>0, BootAssumption
  \* The first and the last byte of the frame belong to the region.
  <2>2. /\ f * PAGE_SIZE \in Nat
        /\ (f + 1) * PAGE_SIZE = f * PAGE_SIZE + PAGE_SIZE
    BY <2>0
  <2>3. e.addr <= f * PAGE_SIZE /\ (f + 1) * PAGE_SIZE <= e.addr + e.len
    <3>1. f * PAGE_SIZE \in Bytes(f) /\ (f + 1) * PAGE_SIZE - 1 \in Bytes(f)
      BY <2>0, <2>2 DEF Bytes
    <3> QED BY <2>0, <2>1, <2>2, <3>1
  \* There is a page behind it, in the address space.
  <2>4. (f + 1) * PAGE_SIZE + PAGE_SIZE <= ADDRESSES
    <3>1. (f + 2) * PAGE_SIZE <= MAX_FRAMES * PAGE_SIZE
      BY <2>0
    <3> QED BY <2>0, <2>2, <3>1 DEF ADDRESSES
  <2>5. e.addr <= LastPage /\ e.addr < ADDRESSES
    BY <2>0, <2>1, <2>2, <2>3, <2>4 DEF LastPage
  <2>6. EntryEnd(e) \in Nat /\ (f + 1) * PAGE_SIZE <= EntryEnd(e)
    <3>1. CASE e.addr + e.len > ADDRESSES
      BY <2>0, <2>2, <2>4, <3>1 DEF EntryEnd
    <3>2. CASE e.addr + e.len < ADDRESSES
      <4>1. (e.addr + e.len) % ADDRESSES = e.addr + e.len
        BY <2>0, <2>1, <3>2
      <4> QED BY <2>0, <2>1, <2>3, <3>2, <4>1 DEF EntryEnd
    <3> QED BY <2>0, <2>1, <3>1, <3>2
  <2>7. f \in AvailableFrames(boot)
    <3>1. f \in RegionToFree(e.addr, EntryEnd(e))
      BY <2>0, <2>1, <2>3, <2>5, <2>6, FreedInside
    <3> QED BY <2>5, <3>1 DEF AvailableFrames, EntryFrames
  <2>8. f \notin ReservedFrames(boot)
    <3> DEFINE z == [start |-> 0, end |-> PAGE_SIZE]
    <3>1. RangeOK(z)
      BY <2>0, <2>2, <2>4 DEF RangeOK, LastPage
    <3>2. ~Touches(f, z)
      <4>1. PAGE_SIZE <= f * PAGE_SIZE
        BY <2>0
      <4> QED BY <2>0, <2>2, <4>1 DEF Touches
    <3>3. f \notin RegionToUse(z.start, z.end)
      BY <3>1, <3>2, UsedTouches
    <3>4. f \notin RegionToUse(0, PAGE_SIZE)
      BY <3>3
    <3> QED BY <2>1, <3>4, UsedTouches DEF ReservedFrames
  <2>9. f \in Usable
    BY <2>1, <2>7, <2>8, UsedTouches DEF Usable
  <2> QED BY <1>1, <2>9 DEF MemoryAccounted, HeldFrames
<1> QED BY <1>1, PfaInvariance, MemoryAccountedHolds, PTL

-----------------------------------------------------------------------------
(* The scan of pfa_alloc_contiguous                                        *)

\* The loop invariant: the run ends just before frame_idx, is free and as
\* long as possible, and no earlier run was long enough.
RunInvariant ==
  result = Scanning =>
    /\ run < frame_count
    /\ run <= frame_idx
    /\ run > 0 => run_start = frame_idx - run
    /\ Run(frame_idx - run, run) \subseteq Free
    /\ frame_idx - run > 0 => frame_idx - run - 1 \in frame_bitmap
    /\ \A b \in Frames : b + frame_count <= frame_idx =>
         ~(Run(b, frame_count) \subseteq Free)

\* The inductive invariant: the loop invariant, and what ScanInit settles.
ScanInv ==
  /\ ScanTypeOK
  /\ CountExact
  /\ 0 \in frame_bitmap
  /\ result = Scanning => frame_count > 0
  /\ RunInvariant

\* The loop starts in the invariant.
LEMMA ScanInitInv == ScanInit => ScanInv
<1> SUFFICES ASSUME ScanInit PROVE ScanInv
  OBVIOUS
<1> USE PfaAssumption, ScanAssumption DEF ScanInit
<1>1. frame_bitmap \subseteq Frames /\ 0 \in frame_bitmap
  OBVIOUS
<1>2. used_frame_count \in 0 .. MAX_FRAMES /\ CountExact
  BY <1>1, CountBound DEF CountExact
<1>3. ScanTypeOK
  BY <1>1, <1>2 DEF ScanTypeOK, PfaTypeOK, Scanning, Frames
<1>4. RunInvariant
  BY DEF RunInvariant, Frames, Run, Scanning
<1> QED BY <1>1, <1>2, <1>3, <1>4 DEF ScanInv, Scanning

\* A used frame ends the run: every run that would contain it is broken.
LEMMA UsedFrameInv ==
  ASSUME ScanInv, UsedFrame
  PROVE  ScanInv'
<1> USE PfaAssumption, ScanAssumption
<1>1. ScanTypeOK /\ RunInvariant /\ result = Scanning
  BY DEF ScanInv, UsedFrame
<1>2. /\ UNCHANGED <<frame_bitmap, used_frame_count, frame_count, run_start, result>>
      /\ run' = 0 /\ frame_idx' = frame_idx + 1
      /\ frame_idx \in frame_bitmap /\ frame_idx < MAX_FRAMES
  BY DEF UsedFrame, pfaVars
<1>3. ScanTypeOK'
  BY <1>1, <1>2 DEF ScanTypeOK, PfaTypeOK, Frames
<1>4. ASSUME NEW b \in Frames, b + frame_count <= frame_idx + 1
      PROVE  ~(Run(b, frame_count) \subseteq Free)
  <2>1. CASE b + frame_count <= frame_idx
    BY <1>1, <2>1 DEF RunInvariant
  <2>2. CASE b + frame_count = frame_idx + 1
    <3>1. frame_count > 0
      BY <1>1 DEF ScanInv
    <3>2. frame_idx \in Run(b, frame_count)
      BY <1>1, <2>2, <3>1 DEF Run, Frames, ScanTypeOK
    <3> QED BY <1>2, <3>2 DEF Free
  <2> QED BY <1>1, <1>4, <2>1, <2>2 DEF ScanTypeOK, Frames
<1>5. frame_idx' \in Nat /\ frame_idx' - run' - 1 = frame_idx
  BY <1>1, <1>2 DEF ScanTypeOK
<1>6. frame_count > 0
  BY <1>1 DEF ScanInv
<1>7. Run(frame_idx' - run', run') \subseteq Free'
  BY <1>2, <1>5 DEF Run
<1>8. \A b \in Frames : b + frame_count' <= frame_idx' =>
         ~(Run(b, frame_count') \subseteq Free')
  BY <1>2, <1>4 DEF Free, Frames
<1>9. RunInvariant'
  BY <1>1, <1>2, <1>5, <1>6, <1>7, <1>8 DEF RunInvariant, Run, Free, Frames
<1> QED BY <1>1, <1>2, <1>3, <1>6, <1>9 DEF ScanInv, CountExact

\* What the loop knows when it meets a free frame: the run with that frame
\* starts at RunStart, is free, and is bounded below by a used frame.
LEMMA Extended ==
  ASSUME ScanInv, result = Scanning, frame_idx < MAX_FRAMES,
         frame_idx \notin frame_bitmap
  PROVE  /\ RunStart = frame_idx - run
         /\ RunStart \in Frames
         /\ RunStart # 0
         /\ RunStart - 1 \in frame_bitmap
         /\ Run(RunStart, run + 1) \subseteq Free
<1> USE PfaAssumption, ScanAssumption
<1>1. ScanTypeOK /\ RunInvariant /\ 0 \in frame_bitmap
  BY DEF ScanInv
<1>2. frame_idx \in Nat /\ run \in Nat /\ run <= frame_idx
  BY <1>1 DEF ScanTypeOK, RunInvariant
<1>3. RunStart = frame_idx - run
  <2>1. run > 0 => run_start = frame_idx - run
    BY <1>1 DEF RunInvariant
  <2>2. CASE run = 0
    <3>1. RunStart = frame_idx
      BY <2>2 DEF RunStart
    <3> QED BY <1>2, <2>2, <3>1
  <2>3. CASE run # 0
    <3>1. RunStart = run_start
      BY <2>3 DEF RunStart
    <3> QED BY <1>2, <2>1, <2>3, <3>1
  <2> QED BY <2>2, <2>3
<1>4. RunStart \in Frames
  BY <1>2, <1>3 DEF Frames
<1>5. Run(RunStart, run + 1) \subseteq Free
  <2>1. frame_idx \in Free
    BY <1>2 DEF Free, Frames
  <2>2. Run(RunStart, run) \subseteq Free
    BY <1>1, <1>3 DEF RunInvariant
  <2>3. Run(RunStart, run + 1) \subseteq Run(RunStart, run) \union {frame_idx}
    BY <1>2, <1>3 DEF Run
  <2> QED BY <2>1, <2>2, <2>3
<1>6. RunStart \in Run(RunStart, run + 1)
  BY <1>2, <1>3 DEF Run
<1>7. RunStart # 0
  BY <1>1, <1>5, <1>6 DEF Free
<1>8. RunStart - 1 \in frame_bitmap
  BY <1>1, <1>2, <1>3, <1>7 DEF RunInvariant
<1> QED BY <1>3, <1>4, <1>5, <1>7, <1>8

\* The run that is completed is the lowest one: a lower run that fits would
\* have ended before frame_idx or would contain the used frame below RunStart.
LEMMA CompletedIsFirst ==
  ASSUME ScanInv, result = Scanning, frame_idx < MAX_FRAMES,
         frame_idx \notin frame_bitmap, run + 1 = frame_count
  PROVE  FirstRun(RunStart, frame_count)
<1> USE PfaAssumption, ScanAssumption
<1>1. ScanTypeOK /\ RunInvariant
  BY DEF ScanInv
<1>2. /\ RunStart = frame_idx - run /\ RunStart \in Frames
      /\ RunStart - 1 \in frame_bitmap
      /\ Run(RunStart, frame_count) \subseteq Free
  BY Extended
<1>3. frame_idx \in Nat /\ run \in Nat /\ frame_count \in Nat /\ RunStart \in Nat
  BY <1>1, <1>2 DEF ScanTypeOK, Frames
<1>4. ASSUME NEW b \in Frames, Run(b, frame_count) \subseteq Free
      PROVE  RunStart <= b
  <2> SUFFICES ASSUME b < RunStart PROVE FALSE
    BY <1>3 DEF Frames
  <2>1. b + frame_count <= frame_idx
    BY <1>2, <1>3 DEF Frames
  <2> QED BY <1>1, <1>4, <2>1 DEF RunInvariant
<1> QED BY <1>2, <1>4 DEF FirstRun

\* A free frame that does not complete the run keeps the invariant.
LEMMA FreeFrameExtendInv ==
  ASSUME ScanInv, FreeFrame, run + 1 # frame_count
  PROVE  ScanInv'
<1> USE PfaAssumption, ScanAssumption
<1>1. ScanTypeOK /\ RunInvariant /\ result = Scanning
  BY DEF ScanInv, FreeFrame
<1>2. /\ UNCHANGED <<frame_bitmap, used_frame_count, frame_count, result>>
      /\ run' = run + 1 /\ frame_idx' = frame_idx + 1 /\ run_start' = RunStart
      /\ frame_idx \notin frame_bitmap /\ frame_idx < MAX_FRAMES
  BY DEF FreeFrame, pfaVars
<1>3. /\ RunStart = frame_idx - run /\ RunStart \in Frames
      /\ RunStart - 1 \in frame_bitmap
      /\ Run(RunStart, run + 1) \subseteq Free
  BY <1>1, <1>2, Extended
<1>4. /\ frame_idx \in Nat /\ run \in Nat /\ frame_count \in Nat
      /\ run <= frame_idx /\ run < frame_count /\ frame_count > 0
  BY <1>1 DEF ScanTypeOK, RunInvariant, ScanInv
<1>5. ScanTypeOK'
  BY <1>1, <1>2, <1>3, <1>4 DEF ScanTypeOK, PfaTypeOK, Frames
<1>6. frame_idx' - run' = RunStart /\ Run(frame_idx' - run', run') \subseteq Free'
  BY <1>2, <1>3, <1>4 DEF Free, Frames, Run
<1>7. ASSUME NEW b \in Frames, b + frame_count <= frame_idx + 1
      PROVE  ~(Run(b, frame_count) \subseteq Free)
  <2>1. CASE b + frame_count <= frame_idx
    BY <1>1, <2>1 DEF RunInvariant
  <2>2. CASE b + frame_count = frame_idx + 1
    <3>1. RunStart - 1 \in Run(b, frame_count)
      BY <1>2, <1>3, <1>4, <2>2 DEF Run, Frames
    <3> QED BY <1>3, <3>1 DEF Free
  <2> QED BY <1>4, <1>7, <2>1, <2>2 DEF Frames
<1>8. \A b \in Frames : b + frame_count' <= frame_idx' =>
         ~(Run(b, frame_count') \subseteq Free')
  BY <1>2, <1>7 DEF Free, Frames
<1>9. /\ run' < frame_count' /\ run' <= frame_idx'
      /\ run' > 0 => run_start' = frame_idx' - run'
      /\ frame_idx' - run' - 1 \in frame_bitmap'
  BY <1>2, <1>3, <1>4, <1>6
<1>10. RunInvariant'
  BY <1>6, <1>8, <1>9 DEF RunInvariant, Run, Free, Frames
<1> QED BY <1>1, <1>2, <1>4, <1>5, <1>10 DEF ScanInv, CountExact

\* The step that completes the run leaves the loop.
LEMMA FreeFrameReturnInv ==
  ASSUME ScanInv, FreeFrame, run + 1 = frame_count
  PROVE  ScanInv'
<1> USE PfaAssumption, ScanAssumption
<1>1. ScanTypeOK /\ RunInvariant /\ result = Scanning
  BY DEF ScanInv, FreeFrame
<1>2. /\ MarkUsed(Run(RunStart, frame_count)) /\ result' = RunStart
      /\ run' = run + 1 /\ run_start' = RunStart
      /\ UNCHANGED <<frame_idx, frame_count>>
      /\ frame_idx \notin frame_bitmap /\ frame_idx < MAX_FRAMES
  BY DEF FreeFrame
<1>3. /\ RunStart \in Frames
      /\ Run(RunStart, frame_count) \subseteq Free
  BY <1>1, <1>2, Extended
<1>4. frame_bitmap \subseteq frame_bitmap'
  BY <1>2 DEF MarkUsed
<1>5. frame_bitmap' \subseteq Frames /\ used_frame_count' \in 0 .. MAX_FRAMES /\ CountExact'
  <2>1. Run(RunStart, frame_count) \subseteq Frames
    BY <1>3 DEF Free
  <2>2. frame_bitmap \subseteq Frames /\ CountExact
    BY <1>1 DEF ScanInv, ScanTypeOK, PfaTypeOK
  <2> QED BY <1>2, <2>1, <2>2, MarkUsedCount
<1>6. run' \in 0 .. MAX_FRAMES
  BY <1>1, <1>2 DEF ScanTypeOK, RunInvariant
<1>7. ScanTypeOK'
  BY <1>1, <1>2, <1>3, <1>4, <1>5, <1>6 DEF ScanTypeOK, PfaTypeOK, Frames
<1>8. result' # Scanning
  BY <1>2, <1>3 DEF Scanning, Frames
<1> QED BY <1>1, <1>4, <1>5, <1>7, <1>8 DEF ScanInv, RunInvariant, Scanning

-----------------------------------------------------------------------------
\* ScanInv is inductive.
LEMMA ScanNextInv == ScanInv /\ [ScanNext]_scanVars => ScanInv'
<1> SUFFICES ASSUME ScanInv, [ScanNext]_scanVars PROVE ScanInv'
  OBVIOUS
<1>1. CASE UsedFrame
  BY <1>1, UsedFrameInv
<1>2. CASE FreeFrame
  BY <1>2, FreeFrameExtendInv, FreeFrameReturnInv
<1>3. CASE ScanFails
  BY <1>3, PfaAssumption
     DEF ScanFails, ScanInv, ScanTypeOK, PfaTypeOK, RunInvariant, Scanning,
         Frames, CountExact, pfaVars
<1>4. CASE UNCHANGED scanVars
  BY <1>4 DEF scanVars, pfaVars, ScanInv, ScanTypeOK, PfaTypeOK, RunInvariant,
              Scanning, Frames, Free, Run, CountExact
<1> QED BY <1>1, <1>2, <1>3, <1>4 DEF ScanNext

\* The step that leaves the loop of pfa_alloc_contiguous does what the closed
\* form of Pfa says.
LEMMA ScanReturns ==
  ASSUME ScanInv, ScanNext, result = Scanning, result' # Scanning
  PROVE  \/ result' # 0 /\ pfa_alloc_contiguous(result', frame_count)
         \/ result' = 0 /\ NoRunFree(frame_count)
<1> USE PfaAssumption, ScanAssumption
<1>1. ScanTypeOK /\ RunInvariant /\ frame_count > 0
  BY DEF ScanInv
<1>2. CASE UsedFrame
  BY <1>2 DEF UsedFrame
<1>3. CASE ScanFails
  <2>1. /\ frame_idx = MAX_FRAMES /\ result' = 0 /\ UNCHANGED pfaVars
    BY <1>3 DEF ScanFails
  <2>2. ASSUME NEW b \in Frames, Run(b, frame_count) \subseteq Free
        PROVE  FALSE
    <3>1. b + frame_count - 1 \in Run(b, frame_count)
      BY <1>1 DEF Run, Frames, ScanTypeOK
    <3>2. b + frame_count - 1 \in Frames
      BY <2>2, <3>1 DEF Free
    <3>3. b + frame_count <= frame_idx
      BY <1>1, <2>1, <3>2 DEF Frames, ScanTypeOK
    <3> QED BY <1>1, <2>2, <3>3 DEF RunInvariant
  <2> QED BY <2>1, <2>2 DEF NoRunFree
<1>4. CASE FreeFrame
  <2>1. /\ run + 1 = frame_count /\ MarkUsed(Run(RunStart, frame_count))
        /\ result' = RunStart
        /\ frame_idx \notin frame_bitmap /\ frame_idx < MAX_FRAMES
    BY <1>4 DEF FreeFrame
  <2>2. RunStart # 0
    BY <2>1, Extended
  <2>3. FirstRun(RunStart, frame_count)
    BY <2>1, CompletedIsFirst
  <2> QED BY <1>1, <2>1, <2>2, <2>3 DEF pfa_alloc_contiguous
<1> QED BY <1>2, <1>3, <1>4 DEF ScanNext

\* The scan's variables keep their types: the loop never leaves the bitmap.
THEOREM ScanTypeCorrect == ScanSpec => []ScanTypeOK
<1>1. ScanInv => ScanTypeOK
  BY DEF ScanInv
<1> QED BY <1>1, ScanInitInv, ScanNextInv, PTL DEF ScanSpec

\* The loop invariant of pfa_alloc_contiguous.
THEOREM RunInvariantHolds == ScanSpec => []RunInvariant
<1>1. ScanInv => RunInvariant
  BY DEF ScanInv
<1> QED BY <1>1, ScanInitInv, ScanNextInv, PTL DEF ScanSpec

\* pfa_alloc_contiguous returns and marks the lowest run of frame_count free
\* frames, and returns 0 only if there is none.
THEOREM ScanIsFirstRunHolds == ScanSpec => ScanIsFirstRun
<1> DEFINE Returns ==
      result = Scanning /\ result' # Scanning =>
        \/ result' # 0 /\ pfa_alloc_contiguous(result', frame_count)
        \/ result' = 0 /\ NoRunFree(frame_count)
<1>1. ScanInv /\ [ScanNext]_scanVars => [Returns]_scanVars
  BY ScanReturns
<1>2. ScanSpec => [][Returns]_scanVars
  BY <1>1, ScanInitInv, ScanNextInv, PTL DEF ScanSpec
<1> QED BY <1>2 DEF ScanIsFirstRun
=============================================================================
