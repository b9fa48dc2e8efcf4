------------------------------ MODULE PfaScan -------------------------------
(***************************************************************************)
(* The loop of pfa_alloc_contiguous, one iteration per step, against its   *)
(* closed form in Pfa.  The bitmap is any that pfa_init can leave: frame   *)
(* zero is used, so that the result 0 always means failure.                *)
(***************************************************************************)
EXTENDS Pfa

CONSTANT MaxCount  \* largest frame_count asked for

ASSUME ScanAssumption == MaxCount \in Nat

VARIABLES frame_count,  \* the argument
          frame_idx, run, run_start,
          result        \* Scanning, or the frame returned (0: none)

scanVars == <<pfaVars, frame_count, frame_idx, run, run_start, result>>

Scanning == -1

ScanTypeOK ==
  /\ PfaTypeOK
  /\ frame_count \in 0 .. MaxCount
  /\ frame_idx \in 0 .. MAX_FRAMES
  /\ run \in 0 .. MAX_FRAMES
  /\ run_start \in 0 .. MAX_FRAMES
  /\ result \in Frames \union {Scanning}

ScanInit ==
  /\ frame_bitmap \in {B \in SUBSET Frames : 0 \in B}
  /\ used_frame_count = Cardinality(frame_bitmap)
  /\ frame_count \in 0 .. MaxCount
  /\ frame_idx = 0
  /\ run = 0
  /\ run_start = 0
  /\ result = IF frame_count = 0 THEN 0 ELSE Scanning

\* A used frame ends the run.
UsedFrame ==
  /\ result = Scanning /\ frame_idx < MAX_FRAMES
  /\ frame_idx \in frame_bitmap
  /\ run' = 0
  /\ frame_idx' = frame_idx + 1
  /\ UNCHANGED <<pfaVars, frame_count, run_start, result>>

\* Faulty variant: the start of the run is never moved.
RunStartFaulty == run_start

RunStart == IF run = 0 THEN frame_idx ELSE run_start

\* A free frame begins or extends it, and may complete it.
FreeFrame ==
  /\ result = Scanning /\ frame_idx < MAX_FRAMES
  /\ frame_idx \notin frame_bitmap
  /\ run_start' = RunStart
  /\ run' = run + 1
  /\ \/ /\ run + 1 = frame_count
        /\ MarkUsed(Run(RunStart, frame_count))
        /\ result' = RunStart
        /\ UNCHANGED frame_idx
     \/ /\ run + 1 # frame_count
        /\ frame_idx' = frame_idx + 1
        /\ UNCHANGED <<pfaVars, result>>
  /\ UNCHANGED frame_count

ScanFails ==
  /\ result = Scanning /\ frame_idx = MAX_FRAMES
  /\ result' = 0
  /\ UNCHANGED <<pfaVars, frame_count, frame_idx, run, run_start>>

ScanNext == UsedFrame \/ FreeFrame \/ ScanFails

ScanSpec == ScanInit /\ [][ScanNext]_scanVars

-----------------------------------------------------------------------------
\* The call returns and marks the lowest run of frame_count free frames, and
\* fails only if there is none: what pfa_alloc_contiguous and NoRunFree say.
ScanIsFirstRun ==
  [][result = Scanning /\ result' # Scanning =>
       \/ result' # 0 /\ pfa_alloc_contiguous(result', frame_count)
       \/ result' = 0 /\ NoRunFree(frame_count)]_scanVars
=============================================================================
