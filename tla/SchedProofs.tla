---------------------------- MODULE SchedProofs -----------------------------
(***************************************************************************)
(* The safety of the scheduler and of the interrupt path, for every size   *)
(* of the process table, of the line buffer and of memory and every file   *)
(* system.  Inv below is inductive: besides the properties it says where   *)
(* the interrupt handler can have come from (Handler), that a saved        *)
(* context is one that schedule wrote (Contexts), and when the CPU's       *)
(* registers are those of the current process (Loaded, Flags).             *)
(***************************************************************************)
EXTENDS Sched, SequenceTheorems, TLAPS

\* The scan of schedule stays inside the table.
LEMMA ScanInTable ==
  ASSUME NEW c \in Slots, NEW i \in 1 .. MAX_PROCESSES
  PROVE  (c + i) % MAX_PROCESSES \in Slots
BY SchedAssumption DEF Slots

\* The scan of schedule reaches every slot, its own last.
LEMMA ScanCoversTable ==
  ASSUME NEW c \in Slots, NEW s \in Slots
  PROVE  \E i \in 1 .. MAX_PROCESSES : (c + i) % MAX_PROCESSES = s
<1> DEFINE i == IF s > c THEN s - c ELSE s - c + MAX_PROCESSES
<1>1. i \in 1 .. MAX_PROCESSES
  BY SchedAssumption DEF Slots
<1>2. (c + i) % MAX_PROCESSES = s
  BY SchedAssumption DEF Slots
<1> QED BY <1>1, <1>2

\* A typed character leaves room for the terminating zero.
LEMMA TypedType ==
  ASSUME NEW line \in Seq(Chars), Len(line) < KB_LINE_MAX, NEW key \in Chars
  PROVE  Typed(line, key) \in Seq(Chars) /\ Len(Typed(line, key)) < KB_LINE_MAX
BY KeyboardAssumption DEF Typed

\* A backspace gives a line again.
LEMMA ErasedType ==
  ASSUME NEW line \in Seq(Chars), Len(line) < KB_LINE_MAX
  PROVE  Erased(line) \in Seq(Chars) /\ Len(Erased(line)) < KB_LINE_MAX
<1>1. CASE Len(line) > 0
  <2>1. /\ SubSeq(line, 1, Len(line) - 1) \in Seq(Chars)
        /\ Len(SubSeq(line, 1, Len(line) - 1)) = IF 1 <= Len(line) - 1 THEN Len(line) - 1 - 1 + 1 ELSE 0
    BY <1>1, SubSeqProperties
  <2> QED BY <1>1, <2>1, KeyboardAssumption DEF Erased
<1>2. CASE ~(Len(line) > 0)
  BY <1>2 DEF Erased
<1> QED BY <1>1, <1>2

\* The handler of IRQ1 keeps the type of the line buffer.
LEMMA KeyboardType ==
  ASSUME KbTypeOK, NEW key \in Keys, keyboard_handler(key)
  PROVE  KbTypeOK'
BY TypedType, ErasedType DEF KbTypeOK, keyboard_handler, kbVars, Keys

-----------------------------------------------------------------------------
(* The inductive invariant                                                 *)

\* Where IF may be set.
Interruptible == BootPc \union HaltPc \union {"user"}

\* Where the CPU executes, looking through the interrupt handler.
Loc == IF pc = "irq" THEN frame.from ELSE pc

\* What the handler interrupted, and the one line in service meanwhile.
Handler ==
  /\ pc = "irq" => frame.from \in Interruptible /\ isr = {frame.irq}
  /\ pc # "irq" => isr = {}

\* No process is current exactly until scheduler_start picked one.
Started == current = NoProc <=> Loc \in {"create", "pit", "start", "halt"}

\* A live process resumes at a caller of schedule, never in SYS_EXIT, and
\* with interrupts off; its directory and stack are its own.
Contexts ==
  \A s \in Slots : Live(s) =>
    /\ procs[s].ret \in Resume \ {"exit"}
    /\ ~procs[s].eflags
    /\ procs[s].pid \in 1 .. next_pid - 1
    /\ procs[s].page_dir = procs[s].pid
    /\ procs[s].kernel_stack = procs[s].pid

\* No two live processes share a pid.
PidsDiffer ==
  \A s, t \in Slots : Live(s) /\ Live(t) /\ s # t => procs[s].pid # procs[t].pid

\* The TSS is set before CR3: at "jump" only the TSS is the process's own.
Loaded ==
  current # NoProc =>
    /\ tss_esp0 = procs[current].kernel_stack
    /\ Loc # "jump" => cr3 = procs[current].page_dir

\* IF is set only there.
Flags == intr => pc \in Interruptible

\* The inductive invariant.
Inv ==
  /\ TypeOK
  /\ Handler
  /\ Started
  /\ Contexts
  /\ PidsDiffer
  /\ Loaded
  /\ Flags
  /\ SingleRunner
  /\ HaltsOnlyAlone

-----------------------------------------------------------------------------
(* schedule                                                                *)

\* What schedule leaves behind, called with table ps from ret.
Scheduled(ps) ==
  /\ procs' \in [Slots -> Process]
  /\ current' \in Slots
  /\ pc' \in Resume
  /\ intr' = FALSE
  /\ tss_esp0' = procs'[current'].kernel_stack
  /\ cr3' = procs'[current'].page_dir
  /\ \A s \in Slots :
       /\ procs'[s].state = "RUNNING" <=> s = current' /\ pc' # "exit"
       /\ procs'[s].state = "DEAD" <=> ps[s].state = "DEAD"
       /\ procs'[s].state # "DEAD" =>
            procs'[s].ret \in Resume \ {"exit"} /\ ~procs'[s].eflags
       /\ procs'[s].pid = ps[s].pid
       /\ procs'[s].page_dir = ps[s].page_dir
       /\ procs'[s].kernel_stack = ps[s].kernel_stack
       /\ pc' = "exit" => procs'[s].state = "DEAD"

\* schedule may be called by a process that runs or, in SYS_EXIT, has just
\* been marked DEAD.
LEMMA ScheduleLemma ==
  ASSUME current \in Slots,
         NEW ps \in [Slots -> Process],
         NEW ret \in Resume,
         ps[current].state = IF ret = "exit" THEN "DEAD" ELSE "RUNNING",
         \A s \in Slots : s # current => ps[s].state # "RUNNING",
         \A s \in Slots : ps[s].state # "DEAD" =>
            ps[s].ret \in Resume \ {"exit"} /\ ~ps[s].eflags,
         tss_esp0 = ps[current].kernel_stack,
         cr3 = ps[current].page_dir,
         schedule(ps, ret, FALSE)
  PROVE  Scheduled(ps)
<1>0. current # NoProc
  BY SchedAssumption DEF NoProc, Slots
<1>1. CASE \A i \in 1 .. MAX_PROCESSES : ~ReadyAt(ps, i)
  <2>1. /\ procs' = ps /\ pc' = ret /\ intr' = FALSE
        /\ UNCHANGED <<current, tss_esp0, cr3>>
    BY <1>1 DEF schedule, Picks
  <2>2. \A s \in Slots : ps[s].state # "READY"
    BY <1>1, ScanCoversTable DEF ReadyAt
  <2>3. \A s \in Slots : s # current => ps[s].state = "DEAD"
    BY <2>2 DEF Process, States
  <2> QED BY <2>1, <2>3 DEF Scheduled
<1>2. CASE \E i \in 1 .. MAX_PROCESSES : ReadyAt(ps, i)
  <2>1. PICK i \in 1 .. MAX_PROCESSES :
          /\ Picks(ps, i)
          /\ Dispatch(ps, (current + i) % MAX_PROCESSES, ret, FALSE)
    BY <1>0, <1>2, Zenon DEF schedule
  <2> DEFINE next == (current + i) % MAX_PROCESSES
  <2>2. next \in Slots /\ ps[next].state = "READY" /\ next # current
    BY <2>1, ScanInTable DEF Picks, ReadyAt
  <2> HIDE DEF next
  <2>3. /\ procs' = [ps EXCEPT
             ![current].state  = IF @ = "RUNNING" THEN "READY" ELSE @,
             ![current].ret    = ret,
             ![current].eflags = FALSE,
             ![next].state     = "RUNNING"]
        /\ current' = next
        /\ tss_esp0' = ps[next].kernel_stack
        /\ cr3' = ps[next].page_dir
        /\ pc' = ps[next].ret
        /\ intr' = ps[next].eflags
    BY <2>1 DEF Dispatch, next
  <2>4. procs' \in [Slots -> Process]
    BY <2>2, <2>3 DEF Process, States, Resume
  <2>5. ASSUME NEW s \in Slots, s # next, s # current
        PROVE  procs'[s] = ps[s]
    BY <2>3, <2>5
  <2>6. /\ procs'[next].state = "RUNNING"
        /\ procs'[next].ret = ps[next].ret
        /\ procs'[next].eflags = ps[next].eflags
        /\ procs'[next].pid = ps[next].pid
        /\ procs'[next].page_dir = ps[next].page_dir
        /\ procs'[next].kernel_stack = ps[next].kernel_stack
    BY <2>2, <2>3 DEF Process
  <2>7. /\ procs'[current].state =
             IF ps[current].state = "RUNNING" THEN "READY" ELSE ps[current].state
        /\ procs'[current].ret = ret
        /\ procs'[current].eflags = FALSE
        /\ procs'[current].pid = ps[current].pid
        /\ procs'[current].page_dir = ps[current].page_dir
        /\ procs'[current].kernel_stack = ps[current].kernel_stack
    BY <2>2, <2>3 DEF Process
  <2>8. intr' = FALSE /\ pc' \in Resume \ {"exit"}
    BY <2>2, <2>3 DEF Process
  <2>9. current' \in Slots /\ tss_esp0' = procs'[current'].kernel_stack
          /\ cr3' = procs'[current'].page_dir
    BY <2>2, <2>3, <2>6
  <2>10. ASSUME NEW s \in Slots
         PROVE  /\ procs'[s].state = "RUNNING" <=> s = next
                /\ procs'[s].state = "DEAD" <=> ps[s].state = "DEAD"
                /\ procs'[s].pid = ps[s].pid
                /\ procs'[s].page_dir = ps[s].page_dir
                /\ procs'[s].kernel_stack = ps[s].kernel_stack
    BY <2>2, <2>5, <2>6, <2>7
  <2>11. ASSUME NEW s \in Slots, procs'[s].state # "DEAD"
         PROVE  procs'[s].ret \in Resume \ {"exit"} /\ ~procs'[s].eflags
    BY <2>2, <2>5, <2>6, <2>7, <2>11
  <2> QED BY <2>3, <2>4, <2>8, <2>9, <2>10, <2>11 DEF Scheduled
<1> QED BY <1>1, <1>2

\* The parts of the invariant that a call of schedule can disturb.
SwitchInv ==
  /\ procs \in [Slots -> Process]
  /\ current \in Slots
  /\ tss_esp0 \in Nat /\ cr3 \in Nat
  /\ pc \in Resume
  /\ intr = FALSE
  /\ Started
  /\ Contexts
  /\ PidsDiffer
  /\ Loaded
  /\ Flags
  /\ SingleRunner
  /\ HaltsOnlyAlone

\* A running process (not one that is only being started) calls schedule; ps
\* is the table after the caller's own assignments to its state or ebx.
LEMMA CallSchedule ==
  ASSUME Inv, current \in Slots, pc # "exit", Loc # "jump",
         NEW ps \in [Slots -> Process],
         NEW ret \in Resume,
         \A s \in Slots : s # current => ps[s] = procs[s],
         ps[current].state = IF ret = "exit" THEN "DEAD" ELSE "RUNNING",
         ps[current].ret = procs[current].ret,
         ps[current].eflags = procs[current].eflags,
         ps[current].pid = procs[current].pid,
         ps[current].page_dir = procs[current].page_dir,
         ps[current].kernel_stack = procs[current].kernel_stack,
         schedule(ps, ret, FALSE),
         UNCHANGED next_pid
  PROVE  SwitchInv'
<1>1. procs[current].state = "RUNNING" /\ Live(current)
  BY DEF Inv, SingleRunner, Live
<1>2. current # NoProc
  BY SchedAssumption DEF NoProc, Slots
<1>3. \A s \in Slots : ps[s].state # "DEAD" =>
        ps[s].ret \in Resume \ {"exit"} /\ ~ps[s].eflags
  BY <1>1 DEF Inv, Contexts, Live
<1>4. \A s \in Slots : s # current => ps[s].state # "RUNNING"
  BY DEF Inv, SingleRunner
<1>5. tss_esp0 = ps[current].kernel_stack /\ cr3 = ps[current].page_dir
  BY <1>2 DEF Inv, Loaded
<1>6. Scheduled(ps)
  BY <1>3, <1>4, <1>5, ScheduleLemma
<1>7. \A s \in Slots :
        /\ procs'[s].pid = procs[s].pid
        /\ procs'[s].page_dir = procs[s].page_dir
        /\ procs'[s].kernel_stack = procs[s].kernel_stack
        /\ procs'[s].state # "DEAD" => Live(s)
  BY <1>1, <1>6 DEF Scheduled, Live
<1>8. Contexts'
  BY <1>6, <1>7 DEF Inv, Scheduled, Contexts, Live
<1>9. PidsDiffer'
  BY <1>7 DEF Inv, PidsDiffer, Live
<1>10. SingleRunner' /\ HaltsOnlyAlone'
  BY <1>6 DEF Scheduled, SingleRunner, HaltsOnlyAlone, Live
<1>11. current' # NoProc
  BY <1>6, SchedAssumption DEF Scheduled, NoProc, Slots
<1>12. Started' /\ Loaded' /\ Flags'
  BY <1>6, <1>11 DEF Scheduled, Started, Loaded, Flags, Loc, Resume
<1>13. tss_esp0' \in Nat /\ cr3' \in Nat
  BY <1>6 DEF Scheduled, Process
<1> QED BY <1>6, <1>8, <1>9, <1>10, <1>12, <1>13 DEF SwitchInv, Scheduled

\* The invariant holds when kmain comes to create the shell.
LEMMA InitInv == Init => Inv
<1> SUFFICES ASSUME Init PROVE Inv
  OBVIOUS
<1> USE DEF Init, process_init
<1>1. KbTypeOK
  <2>1. << >> \in Seq(Chars) /\ Len(<< >>) = 0
    OBVIOUS
  <2>2. kb_line_buf = << >> /\ kb_line_complete = FALSE
    BY DEF KbInit
  <2>3. 0 < KB_LINE_MAX
    BY KeyboardAssumption
  <2> QED BY <2>1, <2>2, <2>3, Zenon DEF KbTypeOK
<1>2. PicTypeOK
  BY DEF PicInit, PicTypeOK
<1>3. procs \in [Slots -> Process]
  BY DEF Process, States
<1>4. TypeOK
  BY <1>1, <1>2, <1>3, SchedAssumption
    DEF TypeOK, Pc, BootPc, NoFrame, TIMER, KEYBOARD
<1>5. \A s \in Slots : procs[s].state = "DEAD"
  OBVIOUS
<1>6. Handler /\ Started /\ Flags
  BY DEF Handler, Started, Flags, Loc, NoProc, PicInit, Interruptible, BootPc
<1>7. Contexts /\ PidsDiffer /\ SingleRunner /\ HaltsOnlyAlone
  BY <1>5, SchedAssumption
    DEF Contexts, PidsDiffer, SingleRunner, HaltsOnlyAlone, Live, NoProc, Slots
<1>8. Loaded
  BY DEF Loaded
<1> QED BY <1>4, <1>6, <1>7, <1>8 DEF Inv

-----------------------------------------------------------------------------
(* process_create                                                          *)

\* process_create builds a PCB.
LEMMA NewProcessType ==
  ASSUME TypeOK, NEW name \in Files
  PROVE  /\ NewProcess(name) \in Process
         /\ FramesNeeded(name) \in Nat
         /\ FramesNeeded(name) >= 3
<1>1. CodePages[name] \in Nat
  BY SchedAssumption
<1>2. FramesNeeded(name) \in Nat /\ FramesNeeded(name) >= 3
  BY <1>1 DEF FramesNeeded
<1>3. next_pid \in Nat /\ avail \in Nat
  BY DEF TypeOK
<1>4. (CodePages[name] > 0 /\ avail > FramesNeeded(name)) \in BOOLEAN
  OBVIOUS
<1> QED BY <1>2, <1>3, <1>4 DEF NewProcess, Process, States, Resume

\* What process_create keeps of the invariant.
LEMMA CreateLemma ==
  ASSUME Inv, NEW name, process_create(name)
  PROVE  /\ procs' \in [Slots -> Process]
         /\ next_pid' \in Nat \ {0}
         /\ avail' \in Nat
         /\ Contexts'
         /\ PidsDiffer'
         /\ \A s \in Slots :
              procs'[s].state = "RUNNING" <=> procs[s].state = "RUNNING"
         /\ \A s \in Slots : Live(s) => procs'[s] = procs[s]
<1>0. /\ procs \in [Slots -> Process]
      /\ next_pid \in Nat \ {0}
      /\ avail \in Nat
  BY DEF Inv, TypeOK
<1>1. CASE UNCHANGED <<procs, next_pid>> /\ avail' \in {0, avail}
  <2>1. Contexts' /\ PidsDiffer'
    BY <1>1 DEF Inv, Contexts, PidsDiffer, Live
  <2> QED BY <1>0, <1>1, <2>1
<1>2. CASE /\ name \in Files
           /\ avail >= FramesNeeded(name)
           /\ \E slot \in Slots :
                /\ FirstDead(slot)
                /\ procs' = [procs EXCEPT ![slot] = NewProcess(name)]
           /\ next_pid' = next_pid + 1
           /\ avail' = IF avail = FramesNeeded(name)
                         THEN 0 ELSE avail - FramesNeeded(name) - 1
  <2>1. PICK slot \in Slots :
          /\ ~Live(slot)
          /\ procs' = [procs EXCEPT ![slot] = NewProcess(name)]
    BY <1>2 DEF FirstDead
  <2>2. /\ NewProcess(name) \in Process
        /\ FramesNeeded(name) \in Nat
    BY <1>2, NewProcessType DEF Inv
  <2>3. procs' \in [Slots -> Process]
    BY <1>0, <2>1, <2>2
  <2>4. next_pid' \in Nat \ {0} /\ avail' \in Nat
    BY <1>0, <1>2, <2>2
  <2>5. \A s \in Slots : s # slot => procs'[s] = procs[s]
    BY <1>0, <2>1
  <2>6. /\ procs'[slot].pid = next_pid
        /\ procs'[slot].state = "READY"
        /\ procs'[slot].ret = "trampoline"
        /\ procs'[slot].eflags = FALSE
        /\ procs'[slot].page_dir = next_pid
        /\ procs'[slot].kernel_stack = next_pid
    BY <1>0, <2>1 DEF NewProcess
  <2>7. Contexts'
    <3> SUFFICES ASSUME NEW s \in Slots, procs'[s].state # "DEAD"
                 PROVE  /\ procs'[s].ret \in Resume \ {"exit"}
                        /\ ~procs'[s].eflags
                        /\ procs'[s].pid \in 1 .. next_pid' - 1
                        /\ procs'[s].page_dir = procs'[s].pid
                        /\ procs'[s].kernel_stack = procs'[s].pid
      BY DEF Contexts, Live
    <3>1. CASE s = slot
      BY <1>0, <1>2, <2>6, <3>1 DEF Resume
    <3>2. CASE s # slot
      <4>1. Live(s) /\ procs'[s] = procs[s]
        BY <2>5, <3>2 DEF Live
      <4>2. procs[s].pid \in 1 .. next_pid - 1
        BY <4>1 DEF Inv, Contexts
      <4>3. procs[s].pid \in 1 .. next_pid' - 1
        BY <1>0, <1>2, <4>2
      <4> QED BY <4>1, <4>3 DEF Inv, Contexts
    <3> QED BY <3>1, <3>2
  <2>8. \A s \in Slots : Live(s) => procs[s].pid # next_pid
    BY <1>0 DEF Inv, Contexts
  <2>9. PidsDiffer'
    BY <2>5, <2>6, <2>8 DEF Inv, PidsDiffer, Live
  <2>10. \A s \in Slots :
           procs'[s].state = "RUNNING" <=> procs[s].state = "RUNNING"
    BY <2>1, <2>5, <2>6 DEF Live
  <2> QED BY <2>1, <2>3, <2>4, <2>5, <2>7, <2>9, <2>10
<1> QED BY <1>1, <1>2 DEF process_create

-----------------------------------------------------------------------------
(* Every action preserves the invariant                                    *)

\* The boot steps of kmain preserve the invariant.
LEMMA BootInv ==
  ASSUME Inv, BootCreate \/ BootPit \/ scheduler_start \/ jump_to_process
  PROVE  Inv'
<1>1. CASE BootCreate
  <2>1. /\ pc = "create" /\ pc' = "pit" /\ current = NoProc
        /\ UNCHANGED <<current, cr3, tss_esp0, intr, frame, kbVars, picVars>>
    BY <1>1 DEF BootCreate, Inv, Started, Loc
  <2>2. /\ procs' \in [Slots -> Process]
        /\ next_pid' \in Nat \ {0}
        /\ avail' \in Nat
        /\ Contexts'
        /\ PidsDiffer'
        /\ \A s \in Slots :
             procs'[s].state = "RUNNING" <=> procs[s].state = "RUNNING"
    BY <1>1, CreateLemma DEF BootCreate
  <2>3. TypeOK'
    BY <2>1, <2>2 DEF Inv, TypeOK, KbTypeOK, PicTypeOK, kbVars, picVars,
                      Pc, BootPc
  <2>4. Handler' /\ Started' /\ Loaded' /\ Flags'
    BY <2>1 DEF Inv, Handler, Started, Loaded, Flags, Loc, picVars,
                Interruptible, BootPc
  <2>5. SingleRunner' /\ HaltsOnlyAlone'
    BY <2>1, <2>2 DEF Inv, SingleRunner, HaltsOnlyAlone
  <2> QED BY <2>2, <2>3, <2>4, <2>5 DEF Inv
<1>2. CASE BootPit
  <2>1. /\ pc = "pit" /\ pc' = "start" /\ current = NoProc
        /\ imr' = imr \ {TIMER}
        /\ UNCHANGED <<procs, current, next_pid, avail, cr3, tss_esp0, intr,
                       frame, kb_line_buf, kb_line_complete, irr, isr>>
    BY <1>2 DEF BootPit, Inv, Started, Loc, UnmaskTimer, tableVars, kbVars
  <2>2. TypeOK'
    BY <2>1 DEF Inv, TypeOK, KbTypeOK, PicTypeOK, Pc, BootPc
  <2>3. Handler' /\ Started' /\ Loaded' /\ Flags'
    BY <2>1 DEF Inv, Handler, Started, Loaded, Flags, Loc, Interruptible, BootPc
  <2>4. Contexts' /\ PidsDiffer' /\ SingleRunner' /\ HaltsOnlyAlone'
    BY <2>1 DEF Inv, Contexts, PidsDiffer, SingleRunner, HaltsOnlyAlone, Live
  <2> QED BY <2>2, <2>3, <2>4 DEF Inv
<1>3. CASE scheduler_start
  <2>0. /\ pc = "start" /\ current = NoProc
        /\ UNCHANGED <<next_pid, avail, cr3, intr, frame, kb_line_buf,
                       kb_line_complete, irr, isr, imr>>
    BY <1>3 DEF scheduler_start, Inv, Started, Loc, kbVars, picVars
  <2>1. CASE pc' = "halt" /\ UNCHANGED <<procs, current, tss_esp0>>
    <3>1. TypeOK'
      BY <2>0, <2>1 DEF Inv, TypeOK, KbTypeOK, PicTypeOK, Pc, BootPc
    <3>2. Handler' /\ Started' /\ Loaded' /\ Flags'
      BY <2>0, <2>1 DEF Inv, Handler, Started, Loaded, Flags, Loc,
                        Interruptible, BootPc
    <3>3. Contexts' /\ PidsDiffer' /\ SingleRunner' /\ HaltsOnlyAlone'
      BY <2>0, <2>1 DEF Inv, Contexts, PidsDiffer, SingleRunner,
                        HaltsOnlyAlone, Live
    <3> QED BY <3>1, <3>2, <3>3 DEF Inv
  <2>2. CASE \E first \in Slots :
               /\ procs[first].state = "READY"
               /\ procs' = [procs EXCEPT ![first].state = "RUNNING"]
               /\ current' = first
               /\ tss_esp0' = procs[first].kernel_stack
               /\ pc' = "jump"
    <3>1. PICK first \in Slots :
            /\ procs[first].state = "READY"
            /\ procs' = [procs EXCEPT ![first].state = "RUNNING"]
            /\ current' = first
            /\ tss_esp0' = procs[first].kernel_stack
            /\ pc' = "jump"
      BY <2>2
    <3>2. procs \in [Slots -> Process]
      BY DEF Inv, TypeOK
    <3>3. procs' \in [Slots -> Process] /\ tss_esp0' \in Nat
      BY <3>1, <3>2 DEF Process, States
    <3>4. \A s \in Slots : s # first => procs'[s] = procs[s]
      BY <3>1, <3>2
    <3>5. /\ procs'[first].state = "RUNNING"
          /\ procs'[first].ret = procs[first].ret
          /\ procs'[first].eflags = procs[first].eflags
          /\ procs'[first].pid = procs[first].pid
          /\ procs'[first].page_dir = procs[first].page_dir
          /\ procs'[first].kernel_stack = procs[first].kernel_stack
      BY <3>1, <3>2 DEF Process
    <3>6. TypeOK'
      BY <2>0, <3>1, <3>3 DEF Inv, TypeOK, KbTypeOK, PicTypeOK, Pc, BootPc
    <3>7. current' # NoProc
      BY <3>1, SchedAssumption DEF NoProc, Slots
    <3>8. Handler' /\ Started' /\ Loaded' /\ Flags'
      BY <2>0, <3>1, <3>5, <3>7 DEF Inv, Handler, Started, Loaded, Flags, Loc,
                                   Interruptible, BootPc
    <3>9. Contexts' /\ PidsDiffer'
      BY <2>0, <3>1, <3>4, <3>5 DEF Inv, Contexts, PidsDiffer, Live
    <3>10. \A s \in Slots : procs[s].state # "RUNNING"
      BY <2>0, SchedAssumption DEF Inv, SingleRunner, NoProc, Slots
    <3>11. SingleRunner' /\ HaltsOnlyAlone'
      BY <3>1, <3>4, <3>5, <3>10 DEF SingleRunner, HaltsOnlyAlone
    <3> QED BY <3>6, <3>8, <3>9, <3>11 DEF Inv
  <2> QED BY <1>3, <2>1, <2>2 DEF scheduler_start
<1>4. CASE jump_to_process
  <2>1. /\ pc = "jump"
        /\ cr3' = procs[current].page_dir
        /\ pc' = procs[current].ret
        /\ intr' = procs[current].eflags
        /\ UNCHANGED <<procs, current, next_pid, avail, tss_esp0, frame,
                       kb_line_buf, kb_line_complete, irr, isr, imr>>
    BY <1>4 DEF jump_to_process, tableVars, kbVars, picVars
  <2>2. current \in Slots /\ current # NoProc
    BY <2>1 DEF Inv, TypeOK, Started, Loc
  <2>3. procs[current].state = "RUNNING"
    BY <2>1, <2>2 DEF Inv, SingleRunner
  <2>4. pc' \in Resume \ {"exit"} /\ intr' = FALSE
    <3>1. procs[current].ret \in Resume \ {"exit"} /\ ~procs[current].eflags
      BY <2>2, <2>3 DEF Inv, Contexts, Live
    <3>2. procs[current].eflags \in BOOLEAN
      BY <2>2 DEF Inv, TypeOK, Process
    <3> QED BY <2>1, <3>1, <3>2
  <2>5. cr3' \in Nat
    BY <2>1, <2>2 DEF Inv, TypeOK, Process
  <2>6. TypeOK'
    BY <2>1, <2>4, <2>5 DEF Inv, TypeOK, KbTypeOK, PicTypeOK, Pc
  <2>7. Handler' /\ Started' /\ Loaded' /\ Flags'
    BY <2>1, <2>2, <2>4 DEF Inv, Handler, Started, Loaded, Flags, Loc, Resume
  <2>8. Contexts' /\ PidsDiffer'
    BY <2>1 DEF Inv, Contexts, PidsDiffer, Live
  <2>9. SingleRunner' /\ HaltsOnlyAlone'
    BY <2>1, <2>4 DEF Inv, SingleRunner, HaltsOnlyAlone
  <2> QED BY <2>6, <2>7, <2>8, <2>9 DEF Inv
<1> QED BY <1>1, <1>2, <1>3, <1>4

\* The rest of the invariant, after a call of schedule.
LEMMA SwitchedInv ==
  ASSUME Inv, SwitchInv', UNCHANGED <<next_pid, avail>>,
         frame' \in [irq : {TIMER, KEYBOARD}, from : Pc \union {"none"}],
         KbTypeOK', PicTypeOK', isr' = {}
  PROVE  Inv'
<1>1. TypeOK'
  BY DEF Inv, TypeOK, SwitchInv, Pc
<1>2. Handler'
  BY DEF Handler, SwitchInv, Resume
<1> QED BY <1>1, <1>2 DEF Inv, SwitchInv

\* The current process goes on, in user mode or at a hlt.
LEMMA StayInv ==
  ASSUME Inv, current \in Slots, pc # "exit", Loc # "jump",
         pc' \in HaltPc \union {"user"}, intr' = TRUE,
         procs' \in [Slots -> Process],
         \A s \in Slots :
           /\ procs'[s].state = procs[s].state
           /\ procs'[s].ret = procs[s].ret
           /\ procs'[s].eflags = procs[s].eflags
           /\ procs'[s].pid = procs[s].pid
           /\ procs'[s].page_dir = procs[s].page_dir
           /\ procs'[s].kernel_stack = procs[s].kernel_stack,
         UNCHANGED <<current, next_pid, avail, cr3, tss_esp0>>,
         frame' \in [irq : {TIMER, KEYBOARD}, from : Pc \union {"none"}],
         KbTypeOK', PicTypeOK', isr' = {}
  PROVE  Inv'
<1>0. current # NoProc
  BY SchedAssumption DEF NoProc, Slots
<1>1. TypeOK'
  BY DEF Inv, TypeOK, Pc
<1>2. Handler' /\ Flags'
  BY DEF Handler, Flags, Interruptible, HaltPc
<1>3. Started' /\ Loaded'
  BY <1>0 DEF Inv, Started, Loaded, Loc, HaltPc
<1>4. Contexts' /\ PidsDiffer'
  BY DEF Inv, Contexts, PidsDiffer, Live
<1>5. SingleRunner' /\ HaltsOnlyAlone'
  BY DEF Inv, SingleRunner, HaltsOnlyAlone, HaltPc
<1> QED BY <1>1, <1>2, <1>3, <1>4, <1>5 DEF Inv

\* In a kernel path that a process entered from user mode.
InKernel == pc \in (Resume \ {"exit"}) \union HaltPc \union {"user"}

\* What the invariant says of a kernel path of a started process.
LEMMA InKernelFacts ==
  ASSUME Inv, InKernel
  PROVE  /\ current \in Slots
         /\ pc # "exit"
         /\ Loc # "jump"
         /\ procs[current].state = "RUNNING"
         /\ procs \in [Slots -> Process]
         /\ frame \in [irq : {TIMER, KEYBOARD}, from : Pc \union {"none"}]
         /\ KbTypeOK /\ PicTypeOK /\ isr = {}
<1>1. pc # "irq" /\ pc # "exit" /\ Loc = pc /\ pc \notin BootPc
  BY DEF InKernel, Loc, Resume, HaltPc, BootPc
<1>2. current \in Slots
  BY <1>1 DEF Inv, Started, TypeOK, BootPc
<1> QED BY <1>1, <1>2 DEF Inv, SingleRunner, TypeOK, Handler, BootPc

\* A kernel path that calls schedule with its own entry of the table changed
\* in state or ebx only.
LEMMA PathCallsSchedule ==
  ASSUME Inv, InKernel,
         NEW ret \in Resume, NEW st, NEW pid \in Nat,
         st = IF ret = "exit" THEN "DEAD" ELSE "RUNNING",
         schedule([procs EXCEPT ![current].state = st, ![current].ebx = pid],
                  ret, FALSE),
         UNCHANGED <<next_pid, avail, frame, kbVars, picVars>>
  PROVE  Inv'
<1> DEFINE ps == [procs EXCEPT ![current].state = st, ![current].ebx = pid]
<1>1. /\ current \in Slots /\ pc # "exit" /\ Loc # "jump"
      /\ procs \in [Slots -> Process]
      /\ frame \in [irq : {TIMER, KEYBOARD}, from : Pc \union {"none"}]
      /\ KbTypeOK /\ PicTypeOK /\ isr = {}
  BY InKernelFacts
<1>2. ps \in [Slots -> Process]
  BY <1>1 DEF Process, States
<1>3. \A s \in Slots : s # current => ps[s] = procs[s]
  BY <1>1
<1>4. /\ ps[current].state = st
      /\ ps[current].ret = procs[current].ret
      /\ ps[current].eflags = procs[current].eflags
      /\ ps[current].pid = procs[current].pid
      /\ ps[current].page_dir = procs[current].page_dir
      /\ ps[current].kernel_stack = procs[current].kernel_stack
  BY <1>1 DEF Process
<1>5. schedule(ps, ret, FALSE)
  OBVIOUS
<1> HIDE DEF ps
<1>6. SwitchInv'
  BY <1>1, <1>2, <1>3, <1>4, <1>5, CallSchedule
<1>7. KbTypeOK' /\ PicTypeOK' /\ isr' = {}
  BY <1>1 DEF KbTypeOK, PicTypeOK, kbVars, picVars
<1> QED BY <1>1, <1>6, <1>7, SwitchedInv

\* The same with the table as it is.
LEMMA PathYields ==
  ASSUME Inv, InKernel,
         NEW ret \in Resume \ {"exit"},
         schedule(procs, ret, FALSE),
         UNCHANGED <<next_pid, avail, frame, kbVars, picVars>>
  PROVE  Inv'
<1>1. /\ current \in Slots /\ procs[current].state = "RUNNING"
      /\ procs \in [Slots -> Process]
  BY InKernelFacts
<1>2. procs[current].ebx \in Nat
  BY <1>1 DEF Process
<1>3. procs = [procs EXCEPT ![current].state = "RUNNING",
                            ![current].ebx = procs[current].ebx]
  BY <1>1 DEF Process
<1>4. schedule([procs EXCEPT ![current].state = "RUNNING",
                             ![current].ebx = procs[current].ebx], ret, FALSE)
  BY <1>3
<1> QED BY <1>2, <1>4, PathCallsSchedule

\* SYS_READ that finds a line returns with the invariant.
LEMMA ReadLineInv ==
  ASSUME Inv, InKernel, ReadLine,
         UNCHANGED <<next_pid, avail, frame, picVars>>
  PROVE  Inv'
<1>1. /\ current \in Slots /\ pc # "exit" /\ Loc # "jump"
      /\ procs \in [Slots -> Process]
      /\ frame \in [irq : {TIMER, KEYBOARD}, from : Pc \union {"none"}]
      /\ KbTypeOK /\ PicTypeOK /\ isr = {}
  BY InKernelFacts
<1>2. /\ pc' = "user" /\ intr' = TRUE
      /\ UNCHANGED <<procs, current, cr3, tss_esp0>>
      /\ kb_line_buf' = << >> /\ kb_line_complete' = FALSE
  BY DEF ReadLine, keyboard_read_line
<1>3. KbTypeOK'
  <2>1. << >> \in Seq(Chars) /\ Len(<< >>) = 0
    OBVIOUS
  <2>2. 0 < KB_LINE_MAX
    BY KeyboardAssumption
  <2> QED BY <1>2, <2>1, <2>2, Zenon DEF KbTypeOK
<1>4. PicTypeOK' /\ isr' = {}
  BY <1>1 DEF PicTypeOK, picVars
<1> QED BY <1>1, <1>2, <1>3, <1>4, StayInv

\* SYS_WAIT whose target has ended returns with the invariant.
LEMMA WaitDoneInv ==
  ASSUME Inv, InKernel, NEW pid, WaitDone(pid),
         UNCHANGED <<next_pid, avail, frame, kbVars, picVars>>
  PROVE  Inv'
<1>1. /\ current \in Slots /\ pc # "exit" /\ Loc # "jump"
      /\ procs \in [Slots -> Process]
      /\ frame \in [irq : {TIMER, KEYBOARD}, from : Pc \union {"none"}]
      /\ KbTypeOK /\ PicTypeOK /\ isr = {}
  BY InKernelFacts
<1>2. /\ pc' = "user" /\ intr' = TRUE
      /\ procs' = [procs EXCEPT ![current].ebx = 0]
      /\ UNCHANGED <<current, cr3, tss_esp0>>
  BY DEF WaitDone
<1>3. procs' \in [Slots -> Process]
  BY <1>1, <1>2 DEF Process
<1>4. \A s \in Slots :
        /\ procs'[s].state = procs[s].state
        /\ procs'[s].ret = procs[s].ret
        /\ procs'[s].eflags = procs[s].eflags
        /\ procs'[s].pid = procs[s].pid
        /\ procs'[s].page_dir = procs[s].page_dir
        /\ procs'[s].kernel_stack = procs[s].kernel_stack
  BY <1>1, <1>2 DEF Process
<1>5. KbTypeOK' /\ PicTypeOK' /\ isr' = {}
  BY <1>1 DEF KbTypeOK, PicTypeOK, kbVars, picVars
<1> QED BY <1>1, <1>2, <1>3, <1>4, <1>5, StayInv

\* SYS_READ, from the test of keyboard_has_line to its next rest.
LEMMA ReadTopInv ==
  ASSUME Inv, InKernel, ReadTop,
         UNCHANGED <<next_pid, avail, frame, picVars>>
  PROVE  Inv'
<1>1. /\ current \in Slots /\ pc # "exit" /\ Loc # "jump"
      /\ procs \in [Slots -> Process]
      /\ frame \in [irq : {TIMER, KEYBOARD}, from : Pc \union {"none"}]
      /\ KbTypeOK /\ PicTypeOK /\ isr = {}
  BY InKernelFacts
<1>2. CASE ReadLine
  BY <1>1, <1>2, ReadLineInv
<1>3. CASE schedule(procs, "read", GateFlag) /\ UNCHANGED kbVars
  BY <1>3, PathYields DEF GateFlag, Resume
<1> QED BY <1>2, <1>3 DEF ReadTop

\* SYS_WAIT, from the test of process_is_alive to its next rest.
LEMMA WaitTopInv ==
  ASSUME Inv, InKernel, NEW pid \in Nat, WaitTop(pid),
         UNCHANGED <<next_pid, avail, frame, kbVars, picVars>>
  PROVE  Inv'
<1>1. CASE WaitDone(pid)
  BY <1>1, WaitDoneInv
<1>2. CASE schedule([procs EXCEPT ![current].ebx = pid], "wait", GateFlag)
  <2>1. /\ current \in Slots /\ procs[current].state = "RUNNING"
        /\ procs \in [Slots -> Process]
    BY InKernelFacts
  <2>2. [procs EXCEPT ![current].ebx = pid]
          = [procs EXCEPT ![current].state = "RUNNING", ![current].ebx = pid]
    BY <2>1 DEF Process
  <2>3. schedule([procs EXCEPT ![current].state = "RUNNING",
                               ![current].ebx = pid], "wait", FALSE)
    BY <1>2, <2>2 DEF GateFlag
  <2> QED BY <2>3, PathCallsSchedule DEF Resume
<1> QED BY <1>1, <1>2 DEF WaitTop

\* The steps that continue an interrupted or switched path preserve it.
LEMMA KernelPathInv ==
  ASSUME Inv, \/ ReturnToUser \/ ReadResumed \/ ReadWoken
              \/ WaitResumed \/ WaitWoken
  PROVE  Inv'
<1>0. InKernel
  BY DEF InKernel, ReturnToUser, ReadResumed, ReadWoken, WaitResumed,
         WaitWoken, Resume, HaltPc
<1>1. /\ current \in Slots /\ pc # "exit" /\ Loc # "jump"
      /\ procs \in [Slots -> Process]
      /\ frame \in [irq : {TIMER, KEYBOARD}, from : Pc \union {"none"}]
      /\ KbTypeOK /\ PicTypeOK /\ isr = {}
  BY <1>0, InKernelFacts
<1>2. ASSUME pc' \in HaltPc \union {"user"}, intr' = TRUE,
             UNCHANGED <<tableVars, cr3, tss_esp0, frame, kbVars, picVars>>
      PROVE  Inv'
  <2>1. KbTypeOK' /\ PicTypeOK' /\ isr' = {}
    BY <1>1, <1>2 DEF KbTypeOK, PicTypeOK, kbVars, picVars
  <2>2. UNCHANGED <<procs, current, next_pid, avail, cr3, tss_esp0, frame>>
    BY <1>2 DEF tableVars
  <2> QED BY <1>1, <1>2, <2>1, <2>2, StayInv
<1>3. CASE ReturnToUser
  BY <1>2, <1>3 DEF ReturnToUser
<1>4. CASE ReadResumed
  <2>1. CASE ReadLine
    BY <1>0, <1>4, <2>1, ReadLineInv DEF ReadResumed
  <2>2. CASE /\ pc' = "hlt_read"
             /\ intr' = TRUE
             /\ UNCHANGED <<procs, current, cr3, tss_esp0, kbVars>>
    BY <1>2, <1>4, <2>2 DEF ReadResumed, HaltPc, tableVars
  <2> QED BY <1>4, <2>1, <2>2 DEF ReadResumed
<1>5. CASE ReadWoken
  BY <1>0, <1>5, ReadTopInv DEF ReadWoken
<1>6. procs[current].ebx \in Nat
  BY <1>1 DEF Process
<1>7. CASE WaitResumed
  <2>1. CASE WaitDone(procs[current].ebx)
    BY <1>0, <1>7, <2>1, WaitDoneInv DEF WaitResumed
  <2>2. CASE /\ pc' = "hlt_wait"
             /\ intr' = TRUE
             /\ UNCHANGED <<procs, current, cr3, tss_esp0>>
    BY <1>2, <1>7, <2>2 DEF WaitResumed, HaltPc, tableVars
  <2> QED BY <1>7, <2>1, <2>2 DEF WaitResumed
<1>8. CASE WaitWoken
  BY <1>0, <1>6, <1>8, WaitTopInv DEF WaitWoken
<1> QED BY <1>3, <1>4, <1>5, <1>7, <1>8

\* SYS_WAIT preserves the invariant, whatever pid it is given.
LEMMA SysWaitInv ==
  ASSUME Inv, NEW pid \in Nat, SysWait(pid)
  PROVE  Inv'
BY WaitTopInv DEF SysWait, InUser, InKernel

\* Every system call preserves the invariant.
LEMMA SyscallInv ==
  ASSUME Inv, Syscall
  PROVE  Inv'
<1>0. pc = "user" /\ InKernel
  BY DEF Syscall, SysExit, SysYield, SysRead, SysSpawn, SysWait, InUser, InKernel
<1>1. /\ current \in Slots /\ pc # "exit" /\ Loc # "jump"
      /\ procs \in [Slots -> Process]
      /\ procs[current].state = "RUNNING"
      /\ frame \in [irq : {TIMER, KEYBOARD}, from : Pc \union {"none"}]
      /\ KbTypeOK /\ PicTypeOK /\ isr = {}
  BY <1>0, InKernelFacts
<1>2. CASE SysExit
  <2>1. [procs EXCEPT ![current].state = "DEAD"]
          = [procs EXCEPT ![current].state = "DEAD",
                          ![current].ebx = procs[current].ebx]
    BY <1>1 DEF Process
  <2>2. procs[current].ebx \in Nat
    BY <1>1 DEF Process
  <2>3. schedule([procs EXCEPT ![current].state = "DEAD",
                               ![current].ebx = procs[current].ebx],
                 "exit", FALSE)
    BY <1>2, <2>1 DEF SysExit, GateFlag
  <2> QED BY <1>0, <1>2, <2>2, <2>3, PathCallsSchedule DEF SysExit, Resume
<1>3. CASE SysYield
  BY <1>0, <1>3, PathYields DEF SysYield, GateFlag, Resume
<1>4. CASE SysRead
  BY <1>0, <1>4, ReadTopInv DEF SysRead
<1>5. ASSUME NEW name \in Names, SysSpawn(name)
      PROVE  Inv'
  <2>1. UNCHANGED <<current, cr3, tss_esp0, pc, intr, frame, kb_line_buf,
                    kb_line_complete, irr, isr, imr>>
    BY <1>5 DEF SysSpawn, cpuVars, kbVars, picVars
  <2>2. /\ procs' \in [Slots -> Process]
        /\ next_pid' \in Nat \ {0}
        /\ avail' \in Nat
        /\ Contexts'
        /\ PidsDiffer'
        /\ \A s \in Slots :
             procs'[s].state = "RUNNING" <=> procs[s].state = "RUNNING"
        /\ \A s \in Slots : Live(s) => procs'[s] = procs[s]
    BY <1>5, CreateLemma DEF SysSpawn
  <2>3. TypeOK'
    BY <2>1, <2>2 DEF Inv, TypeOK, KbTypeOK, PicTypeOK
  <2>4. procs'[current] = procs[current]
    BY <1>1, <2>2 DEF Live
  <2>5. Handler' /\ Started' /\ Loaded' /\ Flags'
    BY <2>1, <2>4 DEF Inv, Handler, Started, Loaded, Flags, Loc
  <2>6. SingleRunner' /\ HaltsOnlyAlone'
    BY <1>0, <2>1, <2>2 DEF Inv, SingleRunner, HaltsOnlyAlone
  <2> QED BY <2>2, <2>3, <2>5, <2>6 DEF Inv
<1>6. ASSUME NEW pid \in WaitPids, SysWait(pid)
      PROVE  Inv'
  BY <1>6, SchedAssumption, SysWaitInv
<1> QED BY <1>2, <1>3, <1>4, <1>5, <1>6 DEF Syscall

\* Entering an interrupt gate preserves the invariant.
LEMMA TakeInterruptInv ==
  ASSUME Inv, NEW n \in {TIMER, KEYBOARD}, TakeInterrupt(n)
  PROVE  Inv'
<1>1. /\ intr
      /\ irr' = irr \ {n} /\ isr' = isr \union {n} /\ imr' = imr
      /\ frame' = [irq |-> n, from |-> pc]
      /\ pc' = "irq"
      /\ intr' = FALSE
      /\ UNCHANGED <<procs, current, next_pid, avail, cr3, tss_esp0,
                     kb_line_buf, kb_line_complete>>
  BY DEF TakeInterrupt, Accept, GateFlag, tableVars, kbVars
<1>2. pc \in Interruptible /\ pc # "irq" /\ pc # "exit"
  BY <1>1 DEF Inv, Flags, Interruptible, BootPc, HaltPc
<1>3. isr' = {n}
  BY <1>1, <1>2 DEF Inv, Handler
<1>4. frame'.irq = n /\ frame'.from = pc
  BY <1>1
<1>5. TypeOK'
  <2>1. frame' \in [irq : {TIMER, KEYBOARD}, from : Pc \union {"none"}]
    BY <1>1 DEF Inv, TypeOK
  <2>2. PicTypeOK' /\ KbTypeOK'
    BY <1>1, <1>3 DEF Inv, TypeOK, PicTypeOK, KbTypeOK
  <2> QED BY <1>1, <2>1, <2>2 DEF Inv, TypeOK, Pc
<1>6. Handler' /\ Flags'
  BY <1>1, <1>2, <1>3, <1>4 DEF Handler, Flags
<1>7. Loc' = Loc
  BY <1>1, <1>2, <1>4 DEF Loc
<1>8. Started' /\ Loaded'
  BY <1>1, <1>7 DEF Inv, Started, Loaded
<1>9. Contexts' /\ PidsDiffer'
  BY <1>1 DEF Inv, Contexts, PidsDiffer, Live
<1>10. SingleRunner' /\ HaltsOnlyAlone'
  BY <1>1, <1>2 DEF Inv, SingleRunner, HaltsOnlyAlone
<1> QED BY <1>5, <1>6, <1>8, <1>9, <1>10 DEF Inv

\* interrupt_handler preserves the invariant.
LEMMA HandlerInv ==
  ASSUME Inv, NEW key \in Keys, interrupt_handler(key)
  PROVE  Inv'
<1>1. /\ pc = "irq"
      /\ frame' = NoFrame
      /\ UNCHANGED <<next_pid, avail, irr, imr>>
  BY DEF interrupt_handler
<1>2. frame.from \in Interruptible /\ isr = {frame.irq} /\ Loc = frame.from
  BY <1>1 DEF Inv, Handler, Loc
<1>3. ~intr /\ intr \in BOOLEAN
  BY <1>1 DEF Inv, TypeOK, Flags, Interruptible, BootPc, HaltPc
<1>4. KbTypeOK'
  <2>1. CASE frame.irq = KEYBOARD
    BY <2>1, KeyboardType DEF interrupt_handler, Inv, TypeOK
  <2>2. CASE frame.irq # KEYBOARD
    BY <2>2 DEF interrupt_handler, Inv, TypeOK, KbTypeOK, kbVars
  <2> QED BY <2>1, <2>2
<1>5. isr' = {}
  <2>1. frame.irq \in Nat
    BY DEF Inv, TypeOK, TIMER, KEYBOARD
  <2>2. isr' = {m \in isr : \E k \in isr : k < m}
    BY DEF interrupt_handler, pic_acknowledge
  <2> QED BY <1>2, <2>1, <2>2
<1>6. PicTypeOK'
  BY <1>1, <1>5 DEF Inv, TypeOK, PicTypeOK
<1>7. frame' \in [irq : {TIMER, KEYBOARD}, from : Pc \union {"none"}]
  BY <1>1 DEF NoFrame
<1>8. CASE Preempts /\ schedule(procs, "irqret", intr)
  <2>1. Loc = "user" /\ frame.from = "user"
    BY <1>2, <1>8 DEF Preempts
  <2>2. current \in Slots /\ procs \in [Slots -> Process]
    BY <2>1 DEF Inv, Started, TypeOK
  <2>3. procs[current].state = "RUNNING"
    BY <1>1, <2>2 DEF Inv, SingleRunner
  <2>4. schedule(procs, "irqret", FALSE)
    <3>1. intr = FALSE
      BY <1>3
    <3> QED BY <1>8, <3>1
  <2>5. SwitchInv'
    BY <1>1, <2>1, <2>2, <2>3, <2>4, CallSchedule DEF Resume
  <2> QED BY <1>1, <1>4, <1>5, <1>6, <1>7, <2>5, SwitchedInv
<1>9. CASE /\ pc' = AfterIret(frame.from)
           /\ intr' = TRUE
           /\ UNCHANGED <<procs, current, cr3, tss_esp0>>
  <2>1. pc' \in Interruptible /\ pc' \in Pc /\ pc' # "irq" /\ pc' # "exit"
    BY <1>2, <1>9 DEF AfterIret, Interruptible, BootPc, HaltPc, Pc
  <2>2. TypeOK'
    BY <1>1, <1>4, <1>6, <1>7, <1>9, <2>1 DEF Inv, TypeOK
  <2>3. Handler' /\ Flags'
    BY <1>5, <2>1 DEF Handler, Flags
  <2>4. /\ Loc' = "jump" <=> Loc = "jump"
        /\ Loc' \in {"create", "pit", "start", "halt"}
             <=> Loc \in {"create", "pit", "start", "halt"}
    BY <1>2, <1>9, <2>1 DEF Loc, AfterIret
  <2>5. Started' /\ Loaded'
    BY <1>9, <2>4 DEF Inv, Started, Loaded
  <2>6. Contexts' /\ PidsDiffer'
    BY <1>1, <1>9 DEF Inv, Contexts, PidsDiffer, Live
  <2>7. SingleRunner' /\ HaltsOnlyAlone'
    BY <1>1, <1>9, <2>1 DEF Inv, SingleRunner, HaltsOnlyAlone
  <2> QED BY <2>2, <2>3, <2>5, <2>6, <2>7 DEF Inv
<1> QED BY <1>8, <1>9 DEF interrupt_handler

\* A device raising its line preserves the invariant.
LEMMA DeviceInv ==
  ASSUME Inv, NEW n \in {TIMER, KEYBOARD}, DeviceRaises(n)
  PROVE  Inv'
<1>1. /\ irr' = irr \union {n}
      /\ UNCHANGED <<procs, current, next_pid, avail, cr3, tss_esp0, pc, intr,
                     frame, kb_line_buf, kb_line_complete, isr, imr>>
  BY DEF DeviceRaises, Raise, tableVars, cpuVars, kbVars
<1>2. TypeOK'
  BY <1>1 DEF Inv, TypeOK, PicTypeOK, KbTypeOK
<1>3. Handler' /\ Started' /\ Loaded' /\ Flags'
  BY <1>1 DEF Inv, Handler, Started, Loaded, Flags, Loc
<1>4. Contexts' /\ PidsDiffer' /\ SingleRunner' /\ HaltsOnlyAlone'
  BY <1>1 DEF Inv, Contexts, PidsDiffer, SingleRunner, HaltsOnlyAlone, Live
<1> QED BY <1>2, <1>3, <1>4 DEF Inv

\* A step that changes nothing preserves the invariant.
LEMMA StutterInv ==
  ASSUME Inv, UNCHANGED vars
  PROVE  Inv'
<1>1. UNCHANGED <<procs, current, next_pid, avail, cr3, tss_esp0, pc, intr,
                  frame, kb_line_buf, kb_line_complete, irr, isr, imr>>
  BY DEF vars, tableVars, cpuVars, kbVars, picVars
<1>2. TypeOK'
  BY <1>1 DEF Inv, TypeOK, PicTypeOK, KbTypeOK
<1>3. Handler' /\ Started' /\ Loaded' /\ Flags'
  BY <1>1 DEF Inv, Handler, Started, Loaded, Flags, Loc
<1>4. Contexts' /\ PidsDiffer' /\ SingleRunner' /\ HaltsOnlyAlone'
  BY <1>1 DEF Inv, Contexts, PidsDiffer, SingleRunner, HaltsOnlyAlone, Live
<1> QED BY <1>2, <1>3, <1>4 DEF Inv

\* Inv is inductive.
LEMMA NextInv == Inv /\ [Next]_vars => Inv'
<1> SUFFICES ASSUME Inv, [Next]_vars PROVE Inv'
  OBVIOUS
<1>1. CASE KernelStep
  BY <1>1, BootInv, KernelPathInv DEF KernelStep
<1>2. CASE Syscall
  BY <1>2, SyscallInv
<1>3. CASE Interrupt
  BY <1>3, TakeInterruptInv, HandlerInv DEF Interrupt
<1>4. CASE \E n \in {TIMER, KEYBOARD} : DeviceRaises(n)
  BY <1>4, DeviceInv
<1>5. CASE UNCHANGED vars
  BY <1>5, StutterInv
<1> QED BY <1>1, <1>2, <1>3, <1>4, <1>5 DEF Next

\* The invariant of the scheduler and of the interrupt path holds in every
\* reachable state.
THEOREM Invariance == Spec => []Inv
<1>1. Init => Inv
  BY InitInv
<1>2. Inv /\ [Next]_vars => Inv'
  BY NextInv
<1> QED BY <1>1, <1>2, PTL DEF Spec

-----------------------------------------------------------------------------
(* The properties                                                          *)

\* Every variable of the scheduler, the CPU, the keyboard and the PIC keeps
\* its type; the line buffer never overflows.
THEOREM TypeCorrect == Spec => []TypeOK
<1>1. Inv => TypeOK
  BY DEF Inv
<1> QED BY <1>1, Invariance, PTL

\* Exactly the current process is RUNNING, until the last one has halted.
THEOREM SingleRunnerHolds == Spec => []SingleRunner
<1>1. Inv => SingleRunner
  BY DEF Inv
<1> QED BY <1>1, Invariance, PTL

\* SYS_EXIT's halt is reached only when no live process is left.
THEOREM HaltsOnlyAloneHolds == Spec => []HaltsOnlyAlone
<1>1. Inv => HaltsOnlyAlone
  BY DEF Inv
<1> QED BY <1>1, Invariance, PTL

\* CR3 and the TSS are those of the current process.
THEOREM OwnContextHolds == Spec => []OwnContext
<1>1. Inv => OwnContext
  BY DEF Inv, Loaded, OwnContext, Booting, Where, Loc
<1> QED BY <1>1, Invariance, PTL

\* Kernel paths and the contexts they save run with interrupts off.
THEOREM KernelUninterruptibleHolds == Spec => []KernelUninterruptible
<1>1. Inv => KernelUninterruptible
  BY DEF Inv, Flags, Contexts, KernelUninterruptible, Interruptible
<1> QED BY <1>1, Invariance, PTL

\* No line is in service outside of the handler.
THEOREM AcknowledgedHolds == Spec => []Acknowledged
<1>1. Inv => Acknowledged
  BY DEF Inv, Handler, Acknowledged
<1> QED BY <1>1, Invariance, PTL

\* Live processes have distinct pids, directories and kernel stacks.
THEOREM DistinctProcessesHolds == Spec => []DistinctProcesses
<1>1. Inv => DistinctProcesses
  BY DEF Inv, Contexts, PidsDiffer, DistinctProcesses
<1> QED BY <1>1, Invariance, PTL

\* Only process_create touches avail and next_pid.
LEMMA OnlyCreateCounts ==
  ASSUME [Next]_vars
  PROVE  \/ UNCHANGED <<avail, next_pid>>
         \/ \E name : process_create(name)
<1>1. CASE KernelStep
  <2>1. CASE BootCreate
    BY <2>1 DEF BootCreate
  <2>2. CASE KernelStep /\ ~BootCreate
    BY <2>2 DEF KernelStep, BootPit, scheduler_start, jump_to_process,
                ReturnToUser, ReadResumed, ReadWoken, WaitResumed, WaitWoken,
                tableVars
  <2> QED BY <1>1, <2>1, <2>2
<1>2. CASE Syscall
  BY <1>2 DEF Syscall, SysExit, SysYield, SysRead, SysSpawn, SysWait
<1>3. CASE Interrupt
  BY <1>3 DEF Interrupt, TakeInterrupt, interrupt_handler, tableVars
<1>4. CASE \E n \in {TIMER, KEYBOARD} : DeviceRaises(n)
  BY <1>4 DEF DeviceRaises, tableVars
<1>5. CASE UNCHANGED vars
  BY <1>5 DEF vars, tableVars
<1> QED BY <1>1, <1>2, <1>3, <1>4, <1>5 DEF Next

\* Pids are bounded by the memory of the machine: no wrap of next_pid.
THEOREM PidsCostFramesHolds == Spec => []PidsCostFrames
<1>1. Init => PidsCostFrames
  BY SchedAssumption DEF Init, process_init, PidsCostFrames
<1>2. ASSUME Inv, PidsCostFrames, [Next]_vars
      PROVE  PidsCostFrames'
  <2>0. next_pid \in Nat /\ avail \in Nat /\ MaxFrames \in Nat
    BY <1>2, SchedAssumption DEF Inv, TypeOK
  <2>1. CASE UNCHANGED <<avail, next_pid>>
    BY <1>2, <2>1 DEF PidsCostFrames
  <2>2. ASSUME NEW name, process_create(name)
        PROVE  PidsCostFrames'
    <3>1. CASE UNCHANGED next_pid /\ avail' \in {0, avail}
      <4>1. next_pid' = next_pid /\ (avail' = 0 \/ avail' = avail)
        BY <3>1
      <4> QED BY <1>2, <2>0, <4>1 DEF PidsCostFrames
    <3>2. CASE /\ name \in Files
               /\ avail >= FramesNeeded(name)
               /\ next_pid' = next_pid + 1
               /\ avail' = IF avail = FramesNeeded(name)
                             THEN 0 ELSE avail - FramesNeeded(name) - 1
      <4>1. FramesNeeded(name) \in Nat /\ FramesNeeded(name) >= 3
        BY <1>2, <3>2, NewProcessType DEF Inv
      <4> QED BY <1>2, <2>0, <3>2, <4>1 DEF PidsCostFrames
    <3> QED BY <2>2, <3>1, <3>2 DEF process_create
  <2> QED BY <1>2, <2>1, <2>2, OnlyCreateCounts
<1> QED BY <1>1, <1>2, Invariance, PTL DEF Spec

\* Only the handler of IRQ1 and SYS_READ touch the line.
LEMMA LineWriters ==
  ASSUME [Next]_vars
  PROVE  \/ UNCHANGED kbVars
         \/ keyboard_read_line
         \/ \E key : keyboard_handler(key)
<1>1. CASE KernelStep
  BY <1>1 DEF KernelStep, BootCreate, BootPit, scheduler_start,
              jump_to_process, ReturnToUser, ReadResumed, ReadWoken, ReadTop,
              ReadLine, WaitResumed, WaitWoken
<1>2. CASE Syscall
  BY <1>2 DEF Syscall, SysExit, SysYield, SysRead, ReadTop, ReadLine,
              SysSpawn, SysWait
<1>3. CASE Interrupt
  BY <1>3 DEF Interrupt, TakeInterrupt, interrupt_handler
<1>4. CASE \E n \in {TIMER, KEYBOARD} : DeviceRaises(n)
  BY <1>4 DEF DeviceRaises
<1>5. CASE UNCHANGED vars
  BY <1>5 DEF vars, kbVars
<1> QED BY <1>1, <1>2, <1>3, <1>4, <1>5 DEF Next

\* Keys typed behind a completed line do not alter it.
THEOREM LineFrozenHolds == Spec => LineFrozen
<1>1. ASSUME [Next]_vars
      PROVE  [kb_line_complete /\ kb_line_complete' => UNCHANGED kb_line_buf]_vars
  <2> SUFFICES ASSUME kb_line_complete, kb_line_complete'
               PROVE  UNCHANGED kb_line_buf
    OBVIOUS
  <2>1. CASE UNCHANGED kbVars
    BY <2>1 DEF kbVars
  <2>2. CASE keyboard_read_line
    BY <2>2 DEF keyboard_read_line
  <2>3. CASE \E key : keyboard_handler(key)
    BY <2>3 DEF keyboard_handler, Dropped, kbVars
  <2> QED BY <1>1, <2>1, <2>2, <2>3, LineWriters
<1> QED BY <1>1, PTL DEF Spec, LineFrozen

-----------------------------------------------------------------------------
(* The life cycle of processes.  Every step does one of three things to    *)
(* the set of live pids: nothing, a birth, or the end of the running one.  *)

\* The step leaves alone which slots are live and their pids.
SameProcesses ==
  /\ UNCHANGED next_pid
  /\ current' = NoProc => current = NoProc
  /\ \A s \in Slots : procs'[s].pid = procs[s].pid /\ (Live(s)' <=> Live(s))

\* The step fills one dead slot with a process that has the next pid.
OneBorn ==
  /\ next_pid' = next_pid + 1
  /\ UNCHANGED current
  /\ pc # "exit" /\ pc' # "exit"
  /\ current = NoProc => Loc = "create"
  /\ \E slot \in Slots :
       /\ ~Live(slot) /\ Live(slot)'
       /\ procs'[slot].pid = next_pid
       /\ \A s \in Slots : s # slot => procs'[s] = procs[s]

\* The step ends the running process and nothing else.
OneEnded ==
  /\ UNCHANGED next_pid
  /\ current \in Slots /\ pc # "exit"
  /\ current' \in Slots
  /\ procs'[current].state = "DEAD"
  /\ \A s \in Slots : procs'[s].pid = procs[s].pid
  /\ \A s \in Slots : s # current => (Live(s)' <=> Live(s))

\* schedule changes neither pids nor who is dead.
LEMMA ScheduleKeeps ==
  ASSUME current \in Slots,
         NEW ps \in [Slots -> Process],
         NEW ret, NEW iflag,
         schedule(ps, ret, iflag)
  PROVE  /\ current' \in Slots
         /\ \A s \in Slots :
              /\ procs'[s].pid = ps[s].pid
              /\ procs'[s].state = "DEAD" <=> ps[s].state = "DEAD"
<1>1. CASE procs' = ps /\ UNCHANGED current
  BY <1>1
<1>2. CASE \E i \in 1 .. MAX_PROCESSES :
             /\ Picks(ps, i)
             /\ Dispatch(ps, (current + i) % MAX_PROCESSES, ret, iflag)
  <2>1. PICK i \in 1 .. MAX_PROCESSES :
          /\ Picks(ps, i)
          /\ Dispatch(ps, (current + i) % MAX_PROCESSES, ret, iflag)
    BY <1>2
  <2> DEFINE next == (current + i) % MAX_PROCESSES
  <2>2. next \in Slots /\ ps[next].state = "READY"
    BY <2>1, ScanInTable DEF Picks, ReadyAt
  <2> HIDE DEF next
  <2>3. /\ current' = next
        /\ procs' = [ps EXCEPT
             ![current].state  = IF @ = "RUNNING" THEN "READY" ELSE @,
             ![current].ret    = ret,
             ![current].eflags = iflag,
             ![next].state     = "RUNNING"]
    BY <2>1 DEF Dispatch, next
  <2>4. \A s \in Slots : s # next /\ s # current => procs'[s] = ps[s]
    BY <2>3
  <2>5. procs'[next].pid = ps[next].pid /\ procs'[next].state = "RUNNING"
    BY <2>2, <2>3 DEF Process
  <2>6. current # next =>
          /\ procs'[current].pid = ps[current].pid
          /\ procs'[current].state =
               IF ps[current].state = "RUNNING" THEN "READY" ELSE ps[current].state
    BY <2>2, <2>3 DEF Process
  <2> QED BY <2>2, <2>3, <2>4, <2>5, <2>6
<1> QED BY <1>1, <1>2, Zenon DEF schedule

\* A process that calls schedule and goes on living.
LEMMA YieldKeeps ==
  ASSUME Inv, current \in Slots, NEW ret, NEW iflag, NEW pid \in Nat,
         \/ schedule(procs, ret, iflag)
         \/ schedule([procs EXCEPT ![current].ebx = pid], ret, iflag),
         UNCHANGED next_pid
  PROVE  SameProcesses
<1>1. procs \in [Slots -> Process]
  BY DEF Inv, TypeOK
<1>2. NoProc \notin Slots
  BY SchedAssumption DEF NoProc, Slots
<1>3. CASE schedule(procs, ret, iflag)
  BY <1>1, <1>2, <1>3, ScheduleKeeps DEF SameProcesses, Live
<1>4. CASE schedule([procs EXCEPT ![current].ebx = pid], ret, iflag)
  <2> DEFINE ps == [procs EXCEPT ![current].ebx = pid]
  <2>1. ps \in [Slots -> Process]
    BY <1>1 DEF Process
  <2>2. \A s \in Slots : ps[s].pid = procs[s].pid /\ ps[s].state = procs[s].state
    BY <1>1 DEF Process
  <2>3. schedule(ps, ret, iflag)
    BY <1>4
  <2> HIDE DEF ps
  <2> QED BY <1>2, <2>1, <2>2, <2>3, ScheduleKeeps DEF SameProcesses, Live
<1> QED BY <1>3, <1>4

\* process_create, called by kmain or by a running process.
LEMMA CreateKeeps ==
  ASSUME Inv, NEW name, process_create(name), UNCHANGED current,
         pc # "exit", pc' # "exit", current = NoProc => Loc = "create"
  PROVE  SameProcesses \/ OneBorn
<1>1. CASE UNCHANGED <<procs, next_pid>>
  BY <1>1 DEF SameProcesses, Live
<1>2. CASE /\ \E slot \in Slots :
                /\ FirstDead(slot)
                /\ procs' = [procs EXCEPT ![slot] = NewProcess(name)]
           /\ next_pid' = next_pid + 1
  <2>1. PICK slot \in Slots :
          /\ ~Live(slot)
          /\ procs' = [procs EXCEPT ![slot] = NewProcess(name)]
    BY <1>2 DEF FirstDead
  <2>2. procs'[slot].pid = next_pid /\ procs'[slot].state = "READY"
    BY <2>1 DEF NewProcess, Inv, TypeOK
  <2>3. \A s \in Slots : s # slot => procs'[s] = procs[s]
    BY <2>1 DEF Inv, TypeOK
  <2> QED BY <1>2, <2>1, <2>2, <2>3 DEF OneBorn, Live
<1> QED BY <1>1, <1>2 DEF process_create

\* SYS_WAIT, from its test of process_is_alive.
LEMMA WaitKeeps ==
  ASSUME Inv, current \in Slots, NEW pid \in Nat,
         WaitDone(pid) \/ WaitTop(pid),
         UNCHANGED next_pid
  PROVE  SameProcesses
<1>1. CASE WaitDone(pid)
  <2>1. \A s \in Slots :
          procs'[s].pid = procs[s].pid /\ procs'[s].state = procs[s].state
    BY <1>1 DEF WaitDone, Inv, TypeOK, Process
  <2> QED BY <1>1, <2>1 DEF WaitDone, SameProcesses, Live
<1>2. CASE schedule([procs EXCEPT ![current].ebx = pid], "wait", GateFlag)
  BY <1>2, YieldKeeps
<1> QED BY <1>1, <1>2 DEF WaitTop

\* SYS_WAIT, whatever pid it is given.
LEMMA SysWaitKeeps ==
  ASSUME Inv, NEW pid \in Nat, SysWait(pid)
  PROVE  SameProcesses
BY InKernelFacts, WaitKeeps DEF SysWait, InUser, InKernel

\* SYS_EXIT ends the caller and nobody else.
LEMMA ExitEnds ==
  ASSUME Inv, SysExit
  PROVE  OneEnded
<1>1. /\ current \in Slots /\ pc # "exit"
      /\ procs \in [Slots -> Process]
  BY InKernelFacts DEF SysExit, InUser, InKernel
<1> DEFINE ps == [procs EXCEPT ![current].state = "DEAD"]
<1>2. ps \in [Slots -> Process]
  BY <1>1 DEF Process, States
<1>3. /\ \A s \in Slots : ps[s].pid = procs[s].pid
      /\ ps[current].state = "DEAD"
      /\ \A s \in Slots : s # current => ps[s] = procs[s]
  BY <1>1 DEF Process
<1>4. schedule(ps, "exit", GateFlag) /\ UNCHANGED next_pid
  BY DEF SysExit
<1> HIDE DEF ps
<1>5. /\ current' \in Slots
      /\ \A s \in Slots :
           /\ procs'[s].pid = ps[s].pid
           /\ procs'[s].state = "DEAD" <=> ps[s].state = "DEAD"
  BY <1>1, <1>2, <1>4, ScheduleKeeps
<1>6. procs'[current].state = "DEAD"
  BY <1>1, <1>3, <1>5
<1> QED BY <1>1, <1>3, <1>4, <1>5, <1>6 DEF OneEnded, Live

\* Every step but a process_create and a SYS_EXIT keeps the processes.
LEMMA OthersKeep ==
  ASSUME Inv,
         \/ BootPit \/ scheduler_start \/ jump_to_process \/ ReturnToUser
         \/ ReadResumed \/ ReadWoken \/ SysRead \/ WaitResumed \/ WaitWoken
         \/ SysYield
         \/ Interrupt
         \/ \E n \in {TIMER, KEYBOARD} : DeviceRaises(n)
         \/ UNCHANGED vars
  PROVE  SameProcesses
<1>0. /\ procs \in [Slots -> Process]
      /\ NoProc \notin Slots
  BY SchedAssumption DEF Inv, TypeOK, NoProc, Slots
<1>1. ASSUME UNCHANGED <<procs, next_pid>>, current' = current \/ current' # NoProc
      PROVE  SameProcesses
  BY <1>1 DEF SameProcesses, Live
<1>2. ASSUME InKernel, UNCHANGED next_pid,
             \/ UNCHANGED <<procs, current>>
             \/ \E ret, iflag : schedule(procs, ret, iflag)
      PROVE  SameProcesses
  <2>1. current \in Slots
    BY <1>2, InKernelFacts
  <2>2. CASE \E ret, iflag : schedule(procs, ret, iflag)
    <3>1. PICK ret, iflag : schedule(procs, ret, iflag)
      BY <2>2
    <3> QED BY <1>2, <2>1, <3>1, YieldKeeps
  <2> QED BY <1>1, <1>2, <2>2
<1>3. CASE BootPit
  BY <1>1, <1>3 DEF BootPit, tableVars
<1>4. CASE scheduler_start
  <2>1. CASE UNCHANGED <<procs, current>>
    BY <1>1, <1>4, <2>1 DEF scheduler_start
  <2>2. CASE \E first \in Slots :
               /\ procs[first].state = "READY"
               /\ procs' = [procs EXCEPT ![first].state = "RUNNING"]
               /\ current' = first
    <3>1. PICK first \in Slots :
            /\ procs[first].state = "READY"
            /\ procs' = [procs EXCEPT ![first].state = "RUNNING"]
            /\ current' = first
      BY <2>2
    <3>2. \A s \in Slots : /\ procs'[s].pid = procs[s].pid
                           /\ procs'[s].state # "DEAD" <=> procs[s].state # "DEAD"
      BY <1>0, <3>1 DEF Process
    <3> QED BY <1>0, <1>4, <3>1, <3>2 DEF scheduler_start, SameProcesses, Live
  <2> QED BY <1>4, <2>1, <2>2 DEF scheduler_start
<1>5. CASE jump_to_process \/ ReturnToUser
  BY <1>1, <1>5 DEF jump_to_process, ReturnToUser, tableVars
<1>6. CASE ReadResumed \/ ReadWoken \/ SysRead
  <2>1. InKernel
    BY <1>6 DEF InKernel, ReadResumed, ReadWoken, SysRead, InUser, Resume, HaltPc
  <2> QED BY <1>2, <1>6, <2>1 DEF ReadResumed, ReadWoken, SysRead, ReadTop, ReadLine
<1>7. CASE WaitResumed \/ WaitWoken
  <2>1. InKernel
    BY <1>7 DEF InKernel, WaitResumed, WaitWoken, Resume, HaltPc
  <2>2. current \in Slots /\ procs[current].ebx \in Nat
    BY <1>0, <2>1, InKernelFacts DEF Process
  <2>3. CASE UNCHANGED <<procs, current>>
    BY <1>1, <1>7, <2>3 DEF WaitResumed, WaitWoken
  <2>4. CASE WaitDone(procs[current].ebx) \/ WaitTop(procs[current].ebx)
    BY <1>7, <2>2, <2>4, WaitKeeps DEF WaitResumed, WaitWoken
  <2> QED BY <1>7, <2>3, <2>4 DEF WaitResumed, WaitWoken
<1>8. CASE SysYield
  BY <1>2, <1>8 DEF SysYield, InUser, InKernel
<1>9. ASSUME NEW key \in Keys, interrupt_handler(key)
       PROVE  SameProcesses
  <2>1. CASE UNCHANGED <<procs, current>>
    BY <1>1, <1>9, <2>1 DEF interrupt_handler
  <2>2. CASE Preempts /\ schedule(procs, "irqret", intr)
    <3>1. current \in Slots
      BY <1>9, <2>2 DEF interrupt_handler, Preempts, Inv, Started, TypeOK, Loc
    <3> QED BY <1>9, <2>2, <3>1, YieldKeeps DEF interrupt_handler
  <2> QED BY <1>9, <2>1, <2>2 DEF interrupt_handler
<1>10. ASSUME NEW n, TakeInterrupt(n) \/ DeviceRaises(n)
       PROVE  SameProcesses
  BY <1>1, <1>10 DEF TakeInterrupt, DeviceRaises, tableVars
<1>11. CASE UNCHANGED vars
  BY <1>1, <1>11 DEF vars, tableVars
<1> QED BY <1>3, <1>4, <1>5, <1>6, <1>7, <1>8, <1>9, <1>10, <1>11
        DEF Interrupt

\* Every step is one of the three.
LEMMA StepKinds ==
  ASSUME Inv, [Next]_vars
  PROVE  SameProcesses \/ OneBorn \/ OneEnded
<1>0. NoProc \notin Slots
  BY SchedAssumption DEF NoProc, Slots
<1>1. CASE BootCreate
  <2>1. /\ pc = "create" /\ pc' = "pit" /\ Loc = "create"
        /\ process_create(Shell) /\ UNCHANGED current
    BY <1>1 DEF BootCreate, Loc
  <2> QED BY <2>1, CreateKeeps
<1>2. CASE SysExit
  BY <1>2, ExitEnds
<1>3. ASSUME NEW name \in Names, SysSpawn(name)
       PROVE  SameProcesses \/ OneBorn
  <2>1. current \in Slots
    BY <1>3, InKernelFacts DEF SysSpawn, InUser, InKernel
  <2>2. /\ pc = "user" /\ pc' = "user" /\ process_create(name)
        /\ UNCHANGED current
    BY <1>3 DEF SysSpawn, InUser, cpuVars
  <2> QED BY <1>0, <2>1, <2>2, CreateKeeps
<1>4. ASSUME NEW pid \in WaitPids, SysWait(pid)
       PROVE  SameProcesses
  BY <1>4, SchedAssumption, SysWaitKeeps
<1>5. CASE KernelStep
  BY <1>1, <1>5, OthersKeep DEF KernelStep
<1>6. CASE Syscall
  BY <1>2, <1>3, <1>4, <1>6, OthersKeep DEF Syscall
<1> QED BY <1>5, <1>6, OthersKeep DEF Next

\* What SYS_WAIT saw stays true: the pid of a process that has ended never
\* names a live process again.
THEOREM PidNeverReusedHolds == Spec => PidNeverReused
<1>1. ASSUME Inv, [Next]_vars
      PROVE  [\A pid \in 0 .. next_pid - 1 : Ended(pid) => Ended(pid)']_vars
  <2> SUFFICES ASSUME NEW pid \in 0 .. next_pid - 1, Ended(pid)
               PROVE  Ended(pid)'
    OBVIOUS
  <2>1. CASE SameProcesses
    BY <2>1 DEF SameProcesses, Ended
  <2>2. CASE OneBorn
    <3>1. PICK slot \in Slots :
            /\ procs'[slot].pid = next_pid
            /\ \A s \in Slots : s # slot => procs'[s] = procs[s]
      BY <2>2 DEF OneBorn
    <3>2. pid # next_pid
      BY <1>1 DEF Inv, TypeOK
    <3> QED BY <3>1, <3>2 DEF Ended, Live
  <2>3. CASE OneEnded
    BY <2>3 DEF OneEnded, Ended, Live
  <2> QED BY <1>1, <2>1, <2>2, <2>3, StepKinds
<1> QED BY <1>1, Invariance, PTL DEF Spec, PidNeverReused

\* kmain creates the shell once: until it has, no pid was handed out.
FirstPid == Loc = "create" => next_pid = 1

\* FirstPid is inductive with Inv.
LEMMA FirstPidNext ==
  ASSUME Inv, Inv', FirstPid, [Next]_vars
  PROVE  FirstPid'
<1> SUFFICES ASSUME Loc' = "create"
             PROVE  Loc = "create" /\ UNCHANGED next_pid
  BY DEF FirstPid
<1>0. current' = NoProc
  BY DEF Inv, Started
<1>1. CASE UNCHANGED next_pid
  <2>1. current = NoProc
    BY <1>0, StepKinds, SchedAssumption
      DEF SameProcesses, OneBorn, OneEnded, NoProc, Slots
  <2>2. Loc \in {"create", "pit", "start", "halt"}
    BY <2>1 DEF Inv, Started
  <2>3. ~InKernel
    BY <2>2 DEF InKernel, Loc, Resume, HaltPc
  <2>4. CASE KernelStep
    BY <2>2, <2>3, <2>4 DEF Loc, KernelStep, BootCreate, BootPit, scheduler_start,
         jump_to_process, ReturnToUser, ReadResumed, ReadWoken, WaitResumed,
         WaitWoken, InKernel, Resume, HaltPc
  <2>5. CASE Syscall
    BY <2>3, <2>5 DEF Syscall, SysExit, SysYield, SysRead, SysSpawn, SysWait,
                      InUser, InKernel
  <2>6. CASE \E n \in {TIMER, KEYBOARD} : TakeInterrupt(n)
    BY <1>1, <2>6 DEF TakeInterrupt, Loc
  <2>7. CASE \E key \in Keys : interrupt_handler(key)
    BY <1>1, <2>2, <2>7 DEF interrupt_handler, Preempts, AfterIret, Loc
  <2>8. CASE UNCHANGED <<pc, frame>>
    BY <1>1, <2>8 DEF Loc
  <2> QED BY <2>4, <2>5, <2>6, <2>7, <2>8
      DEF Next, Interrupt, DeviceRaises, cpuVars, vars
<1>2. CASE OneBorn
  <2>1. Loc = "create"
    BY <1>0, <1>2 DEF OneBorn
  <2>2. pc = "create" \/ pc = "irq"
    BY <2>1 DEF Loc
  <2>3. UNCHANGED next_pid \/ BootCreate
    BY <2>2 DEF Next, KernelStep, Syscall, Interrupt, BootPit, scheduler_start,
         jump_to_process, ReturnToUser, ReadResumed, ReadWoken, WaitResumed,
         WaitWoken, SysExit, SysYield, SysRead, SysSpawn, SysWait, InUser,
         TakeInterrupt, interrupt_handler, DeviceRaises, vars, tableVars
  <2> QED BY <1>1, <2>3 DEF BootCreate, Loc
<1> QED BY <1>1, <1>2, StepKinds DEF SameProcesses, OneEnded

\* The process table, read as the life cycle's variables, at the start.
LEMMA LifecycleInit == Init => L!Init
<1> SUFFICES ASSUME Init PROVE L!Init
  OBVIOUS
<1>1. \A s \in Slots : ~Live(s)
  BY DEF Init, process_init, Live
<1>2. current = NoProc /\ next_pid = 1
  BY DEF Init, process_init
<1> QED BY <1>1, <1>2 DEF L!Init

\* Every step of the scheduler is a step of the life cycle, or leaves its
\* variables alone.
LEMMA LifecycleStep ==
  ASSUME Inv, Inv', FirstPid, [Next]_vars
  PROVE  [L!Next]_(L!vars)
<1> DEFINE live    == {procs[s].pid : s \in {t \in Slots : Live(t)}}
           running == IF current = NoProc \/ pc = "exit"
                        THEN 0 ELSE procs[current].pid
<1>0. /\ current \in Slots \union {NoProc} /\ current' \in Slots \union {NoProc}
      /\ next_pid \in Nat \ {0} /\ next_pid' \in Nat \ {0}
      /\ NoProc \notin Slots
  BY SchedAssumption DEF Inv, TypeOK, NoProc, Slots
\* A process runs unless the machine is booting or halted.
<1>1. /\ current # NoProc /\ pc # "exit" => Live(current)
      /\ current' # NoProc /\ pc' # "exit" => procs'[current'].state # "DEAD"
  BY <1>0 DEF Inv, SingleRunner, Live
\* The machine halts only when nobody is live.
<1>2. /\ pc = "exit" => \A s \in Slots : ~Live(s)
      /\ pc' = "exit" => \A s \in Slots : ~Live(s)'
  BY DEF Inv, HaltsOnlyAlone
<1>3. CASE SameProcesses
  <2>1. live' = live
    BY <1>3 DEF SameProcesses
  <2>2. CASE running' = running
    BY <1>3, <2>1, <2>2 DEF L!vars, SameProcesses
  <2>3. CASE running' # running
    <3>1. current' # NoProc /\ pc' # "exit"
      BY <1>0, <1>1, <1>2, <1>3, <2>3 DEF SameProcesses
    <3>2. running' \in live'
      BY <1>0, <1>1, <3>1 DEF Live
    <3> QED BY <1>3, <2>1, <3>2 DEF L!Next, L!Switch, SameProcesses
  <2> QED BY <2>2, <2>3
<1>4. CASE OneBorn
  <2>1. PICK slot \in Slots :
          /\ ~Live(slot) /\ Live(slot)'
          /\ procs'[slot].pid = next_pid
          /\ \A s \in Slots : s # slot => procs'[s] = procs[s]
    BY <1>4 DEF OneBorn
  <2>2. live' = live \union {next_pid}
    BY <2>1 DEF Live
  <2>3. /\ next_pid' = next_pid + 1
        /\ UNCHANGED current
        /\ pc # "exit" /\ pc' # "exit"
        /\ current = NoProc => next_pid = 1
    BY <1>4 DEF OneBorn, FirstPid
  <2>4. running' = running
    BY <1>0, <1>1, <2>1, <2>3
  <2>5. running # 0 \/ next_pid - 1 = 0
    BY <1>0, <1>1, <2>3 DEF Inv, Contexts
  <2>6. /\ next_pid' - 1 = (next_pid - 1) + 1
        /\ next_pid = (next_pid - 1) + 1
    BY <1>0, <2>3
  <2> QED BY <2>2, <2>4, <2>5, <2>6 DEF L!Next, L!Create
<1>5. CASE OneEnded
  <2>1. /\ current \in Slots /\ Live(current) /\ pc # "exit"
        /\ running = procs[current].pid
    BY <1>0, <1>1, <1>5 DEF OneEnded
  <2>2. running \in live
    BY <2>1
  <2>3. live' = live \ {running}
    BY <1>5, <2>1 DEF OneEnded, Live, Inv, PidsDiffer
  <2>4. \/ running' \in live'
        \/ live' = {} /\ running' = 0
    <3>1. CASE pc' = "exit"
      BY <1>2, <3>1
    <3>2. CASE pc' # "exit"
      BY <1>0, <1>1, <1>5, <3>2 DEF OneEnded, Live
    <3> QED BY <3>1, <3>2
  <2>5. UNCHANGED next_pid
    BY <1>5 DEF OneEnded
  <2> QED BY <2>2, <2>3, <2>4, <2>5 DEF L!Next, L!Exit
<1> QED BY <1>3, <1>4, <1>5, StepKinds

\* The process table, the scheduler and the interrupt path implement the
\* abstract life cycle: processes are born with pids 1, 2, 3, ..., a live one
\* runs, only the running one ends, and the machine halts when none is left.
THEOREM LifecycleImplemented == Spec => LifecycleSpec
<1>1. Init => FirstPid
  BY DEF Init, process_init, FirstPid
<1>2. Inv /\ Inv' /\ FirstPid /\ [Next]_vars => FirstPid'
  BY FirstPidNext
<1>3. Spec => []FirstPid
  BY <1>1, <1>2, Invariance, PTL DEF Spec
<1>4. Inv /\ Inv' /\ FirstPid /\ [Next]_vars => [L!Next]_(L!vars)
  BY LifecycleStep
<1> QED BY <1>3, <1>4, LifecycleInit, Invariance, PTL DEF Spec, LifecycleSpec, L!Spec
=============================================================================
