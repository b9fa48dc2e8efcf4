-------------------------------- MODULE Pfa ---------------------------------
(***************************************************************************)
(* The page frame allocator of src/pfa.c.  frame_bitmap is the set of the  *)
(* frames whose bit is 1 (used); the split of a frame number into a word   *)
(* and a bit is layout and is left out.  Addresses are unsigned integers   *)
(* of the machine's width, so address arithmetic is modulo ADDRESSES.      *)
(***************************************************************************)
EXTENDS Integers, FiniteSets

CONSTANTS PAGE_SIZE, MAX_FRAMES

ASSUME PfaAssumption ==
  /\ PAGE_SIZE \in Nat \ {0}
  /\ MAX_FRAMES \in Nat \ {0}

VARIABLES frame_bitmap,      \* the used frames
          used_frame_count

pfaVars == <<frame_bitmap, used_frame_count>>

Frames    == 0 .. MAX_FRAMES - 1
ADDRESSES == PAGE_SIZE * MAX_FRAMES  \* 2^32

PfaTypeOK ==
  /\ frame_bitmap \subseteq Frames
  /\ used_frame_count \in 0 .. MAX_FRAMES  \* unsigned: it never wraps

Free == Frames \ frame_bitmap

-----------------------------------------------------------------------------
(* Address arithmetic and regions                                          *)

align_down(value) == value - (value % PAGE_SIZE)

align_up(value) == align_down((value + (PAGE_SIZE - 1)) % ADDRESSES)

\* Frames from one aligned address up to another.
FramesBetween(start, end) ==
  (start \div PAGE_SIZE) .. (end \div PAGE_SIZE) - 1

\* mark_region_free: the whole frames inside [start_addr, end_addr).
RegionToFree(start_addr, end_addr) ==
  FramesBetween(align_up(start_addr), align_down(end_addr))

\* Faulty variant: the last partial frame is forgotten.
RegionToUseFaulty(start_addr, end_addr) ==
  FramesBetween(align_down(start_addr), align_down(end_addr))

\* mark_region_used: every frame that [start_addr, end_addr) touches.
RegionToUse(start_addr, end_addr) ==
  FramesBetween(align_down(start_addr), align_up(end_addr))

\* Faulty variant: a frame that is already used is counted again.
MarkUsedFaulty(S) ==
  /\ frame_bitmap' = frame_bitmap \union S
  /\ used_frame_count' = used_frame_count + Cardinality(S)

\* mark_used and mark_free count a frame only when its bit changes.
MarkUsed(S) ==
  /\ frame_bitmap' = frame_bitmap \union S
  /\ used_frame_count' = used_frame_count + Cardinality(S \ frame_bitmap)

MarkFree(S) ==
  /\ frame_bitmap' = frame_bitmap \ S
  /\ used_frame_count' = used_frame_count - Cardinality(S \intersect frame_bitmap)

-----------------------------------------------------------------------------
(* Operations.  Each allocation names the frame it returns; NoFrameFree    *)
(* and NoRunFree are the calls that return 0.                              *)

\* The scan from frame 0 returns the lowest free frame.
LowestFree(f) == f \in Free /\ \A g \in Free : f <= g

pfa_alloc(f) ==
  /\ LowestFree(f)
  /\ MarkUsed({f})

NoFrameFree == Free = {} /\ UNCHANGED pfaVars

Run(base, n) == base .. base + n - 1

\* Faulty variant: a used frame does not end the run.
FirstRunFaulty(base, n) ==
  /\ {base, base + n - 1} \subseteq Free
  /\ \A b \in Frames : Run(b, n) \subseteq Free => base <= b

\* The scan for a run returns the lowest base whose n frames are all free.
FirstRun(base, n) ==
  /\ Run(base, n) \subseteq Free
  /\ \A b \in Frames : Run(b, n) \subseteq Free => base <= b

pfa_alloc_contiguous(base, n) ==
  /\ n > 0
  /\ FirstRun(base, n)
  /\ MarkUsed(Run(base, n))

NoRunFree(n) ==
  /\ n = 0 \/ \A b \in Frames : ~(Run(b, n) \subseteq Free)
  /\ UNCHANGED pfaVars

pfa_free(f) == MarkFree({f} \intersect Frames)

\* Faulty variant: the last frame of the run is not freed.
pfa_free_contiguousFaulty(base, n) ==
  MarkFree(Run(base, n - 1) \intersect Frames)

pfa_free_contiguous(base, n) == MarkFree(Run(base, n) \intersect Frames)

pfa_reserve(start_addr, end_addr) == MarkUsed(RegionToUse(start_addr, end_addr))

-----------------------------------------------------------------------------
\* used_frame_count is the number of bits set, whatever was freed, reserved
\* twice or freed in runs: pfa_free_frames tells the truth.
CountExact == used_frame_count = Cardinality(frame_bitmap)
=============================================================================
