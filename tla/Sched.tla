------------------------------- MODULE Sched --------------------------------
(***************************************************************************)
(* The process table, the scheduler, the blocking system calls and the     *)
(* interrupt path: src/process.c, src/syscall.c, src/idt.c,                *)
(* src/context_switch.s and the end of src/kmain.c.                        *)
(*                                                                         *)
(* One CPU executes at location pc.  Interrupt gates clear IF, so a kernel *)
(* path runs undisturbed from its entry to the next point where it returns *)
(* to user mode, halts with interrupts on, or switches context: each such  *)
(* path is one action, and an interrupt is taken only where intr (EFLAGS's *)
(* IF) is TRUE.                                                            *)
(*                                                                         *)
(* A saved context (PCB field esp and the stack it points to) is the       *)
(* location ret at which switch_context's ret lands and the IF that popfd  *)
(* restores.  The frames of a process (page directory, kernel stack) are   *)
(* named by the pid they were allocated for; 0 names the boot ones.        *)
(* Physical memory is the number avail of free frames: nothing in the      *)
(* kernel frees a frame.  Screen output is not state of this module.       *)
(***************************************************************************)
EXTENDS Integers, FiniteSets, Keyboard, Pic

CONSTANTS MAX_PROCESSES,  \* slots of the process table
          Files,          \* names of the programs in the file system
          CodePages,      \* CodePages[f]: pages of f's binary
          Shell,          \* the name kmain boots
          Names,          \* names a program may pass to SYS_SPAWN
          WaitPids,       \* pids a program may pass to SYS_WAIT
          MaxFrames       \* most frames that are free when kmain creates Shell

ASSUME SchedAssumption ==
  /\ MAX_PROCESSES \in Nat \ {0}
  /\ CodePages \in [Files -> Nat]
  /\ Files \subseteq Names
  /\ WaitPids \subseteq Nat
  /\ MaxFrames \in Nat

VARIABLES procs,     \* the table of PCBs
          current,   \* slot of the running process, or NoProc
          next_pid,
          avail,     \* number of free page frames
          cr3,       \* whose page directory the CPU uses
          tss_esp0,  \* whose kernel stack the CPU enters the kernel on
          pc,        \* where the CPU executes
          intr,      \* EFLAGS.IF
          frame      \* the interrupt being handled: line and interrupted pc

tableVars == <<procs, current, next_pid, avail>>
cpuVars   == <<cr3, tss_esp0, pc, intr, frame>>
vars      == <<tableVars, cpuVars, kbVars, picVars>>

Slots  == 0 .. MAX_PROCESSES - 1
NoProc == -1

States  == {"DEAD", "READY", "RUNNING"}
\* Where switch_context may return to: the callers of schedule, and the
\* trampoline of a process that has not run yet.
Resume  == {"trampoline", "irqret", "yield", "exit", "read", "wait"}
BootPc  == {"create", "pit", "start", "jump", "halt"}
HaltPc  == {"hlt_read", "hlt_wait", "cli_read", "cli_wait"}
Pc      == BootPc \union Resume \union HaltPc \union {"user", "irq"}
NoFrame == [irq |-> TIMER, from |-> "none"]

Process == [pid : Nat, state : States, ret : Resume \union {"none"},
            eflags : BOOLEAN, page_dir : Nat, kernel_stack : Nat,
            ebx : Nat, mapped : BOOLEAN]

\* One type invariant for the whole module.
TypeOK ==
  /\ procs \in [Slots -> Process]
  /\ current \in Slots \union {NoProc}
  /\ next_pid \in Nat \ {0}
  /\ avail \in Nat
  /\ cr3 \in Nat
  /\ tss_esp0 \in Nat
  /\ pc \in Pc
  /\ intr \in BOOLEAN
  /\ frame \in [irq : {TIMER, KEYBOARD}, from : Pc \union {"none"}]
  /\ KbTypeOK
  /\ PicTypeOK

Live(s) == procs[s].state # "DEAD"

-----------------------------------------------------------------------------
(* process_init, process_create and process_is_alive                       *)

process_init ==
  /\ procs = [s \in Slots |->
                [pid |-> 0, state |-> "DEAD", ret |-> "none", eflags |-> FALSE,
                 page_dir |-> 0, kernel_stack |-> 0, ebx |-> 0,
                 mapped |-> FALSE]]
  /\ current = NoProc
  /\ next_pid = 1

\* Faulty variant: a pid left in a dead slot counts as alive.
process_is_aliveFaulty(pid) == \E s \in Slots : procs[s].pid = pid

process_is_alive(pid) == \E s \in Slots : procs[s].pid = pid /\ Live(s)

\* Frames process_create must obtain to succeed: kernel stack, directory,
\* user stack, the code pages and, if there are any, their page table.
FramesNeeded(name) ==
  LET n == CodePages[name] IN IF n = 0 THEN 3 ELSE n + 4

\* Faulty variant: the pid is the number of processes.
NewProcessFaulty(name) ==
  LET n == Cardinality({s \in Slots : Live(s)}) + 1
  IN [pid |-> n, state |-> "READY", ret |-> "trampoline",
      eflags |-> FALSE, page_dir |-> n, kernel_stack |-> n,
      ebx |-> 0,
      mapped |-> CodePages[name] > 0 /\ avail > FramesNeeded(name)]

\* The PCB built at lines 118-148.  The page table of the user stack is one
\* frame more: paging_map_4k gives up silently when it cannot have it, and
\* the process then faults on its first instruction for ever.
NewProcess(name) ==
  [pid |-> next_pid, state |-> "READY", ret |-> "trampoline",
   eflags |-> FALSE, page_dir |-> next_pid, kernel_stack |-> next_pid,
   ebx |-> 0,
   mapped |-> CodePages[name] > 0 /\ avail > FramesNeeded(name)]

\* Faulty variant: a READY process is thought to be gone.
FirstDeadFaulty(slot) ==
  /\ procs[slot].state # "RUNNING"
  /\ \A s \in Slots : s < slot => procs[s].state = "RUNNING"

FirstDead(slot) ==
  /\ ~Live(slot)
  /\ \A s \in Slots : s < slot => Live(s)

\* A failed allocation finds no free frame at all, and every error return
\* keeps the frames obtained so far: memory is exhausted from then on.
process_create(name) ==
  \/ /\ name \notin Files \/ \A s \in Slots : Live(s)
     /\ UNCHANGED <<procs, next_pid, avail>>
  \/ /\ name \in Files
     /\ \E s \in Slots : ~Live(s)
     /\ avail < FramesNeeded(name)
     /\ avail' = 0
     /\ UNCHANGED <<procs, next_pid>>
  \/ /\ name \in Files
     /\ avail >= FramesNeeded(name)
     /\ \E slot \in Slots :
          /\ FirstDead(slot)
          /\ procs' = [procs EXCEPT ![slot] = NewProcess(name)]
     /\ next_pid' = next_pid + 1
     /\ avail' = IF avail = FramesNeeded(name)
                   THEN 0 ELSE avail - FramesNeeded(name) - 1

-----------------------------------------------------------------------------
(* schedule and switch_context                                             *)

\* Faulty variant: a trap gate, which leaves IF set.
GateFlagFaulty == TRUE

\* Both kinds of gate (0x8E, 0xEE) are interrupt gates: they clear IF.
GateFlag == FALSE

\* Faulty variant: the scan stops at the end of the table.
ReadyAtFaulty(ps, i) ==
  /\ current + i < MAX_PROCESSES
  /\ ps[current + i].state = "READY"

ReadyAt(ps, i) == ps[(current + i) % MAX_PROCESSES].state = "READY"

\* The scan picks the i-th slot after the current one.
Picks(ps, i) == ReadyAt(ps, i) /\ \A j \in 1 .. i - 1 : ~ReadyAt(ps, j)

\* Save the old context on its stack, load the new one.
Dispatch(ps, next, ret, iflag) ==
  /\ procs' = [ps EXCEPT
       ![current].state  = IF @ = "RUNNING" THEN "READY" ELSE @,
       ![current].ret    = ret,
       ![current].eflags = iflag,
       ![next].state     = "RUNNING"]
  /\ current' = next
  /\ tss_esp0' = ps[next].kernel_stack
  /\ cr3' = ps[next].page_dir
  /\ pc' = ps[next].ret
  /\ intr' = ps[next].eflags

\* schedule(), called with table ps from the location ret with IF = iflag.
schedule(ps, ret, iflag) ==
  \/ /\ current = NoProc \/ \A i \in 1 .. MAX_PROCESSES : ~ReadyAt(ps, i)
     /\ procs' = ps
     /\ pc' = ret
     /\ intr' = iflag
     /\ UNCHANGED <<current, tss_esp0, cr3>>
  \/ \E i \in 1 .. MAX_PROCESSES :
       /\ current # NoProc
       /\ Picks(ps, i)
       /\ Dispatch(ps, (current + i) % MAX_PROCESSES, ret, iflag)

-----------------------------------------------------------------------------
(* The end of kmain, with interrupts on: create the shell, start the PIT,  *)
(* enter the first process.                                                *)

BootCreate ==
  /\ pc = "create"
  /\ process_create(Shell)
  /\ pc' = "pit"
  /\ UNCHANGED <<current, cr3, tss_esp0, intr, frame, kbVars, picVars>>

BootPit ==
  /\ pc = "pit"
  /\ UnmaskTimer
  /\ pc' = "start"
  /\ UNCHANGED <<tableVars, cr3, tss_esp0, intr, frame, kbVars, irr, isr>>

scheduler_start ==
  /\ pc = "start"
  /\ \/ /\ \A s \in Slots : procs[s].state # "READY"
        /\ pc' = "halt"
        /\ UNCHANGED <<procs, current, tss_esp0>>
     \/ \E first \in Slots :
          /\ procs[first].state = "READY"
          /\ \A s \in Slots : s < first => procs[s].state # "READY"
          /\ procs' = [procs EXCEPT ![first].state = "RUNNING"]
          /\ current' = first
          /\ tss_esp0' = procs[first].kernel_stack
          /\ pc' = "jump"
  /\ UNCHANGED <<next_pid, avail, cr3, intr, frame, kbVars, picVars>>

\* Faulty variant: the boot directory stays loaded.
jump_to_processFaulty ==
  /\ pc = "jump"
  /\ pc' = procs[current].ret
  /\ intr' = procs[current].eflags
  /\ UNCHANGED <<tableVars, cr3, tss_esp0, frame, kbVars, picVars>>

jump_to_process ==
  /\ pc = "jump"
  /\ cr3' = procs[current].page_dir
  /\ pc' = procs[current].ret
  /\ intr' = procs[current].eflags
  /\ UNCHANGED <<tableVars, tss_esp0, frame, kbVars, picVars>>

-----------------------------------------------------------------------------
(* System calls, entered from user mode through int 0x80.  SYS_WRITE,      *)
(* SYS_GETPROCS, SYS_LISTFILES, SYS_CLEAR and unknown numbers return at    *)
(* once and change nothing of this module's state.                         *)

\* A process whose stack or code is not mapped only ever faults.
InUser == pc = "user" /\ procs[current].mapped

\* Faulty variant: the slot is not marked DEAD.
SysExitFaulty ==
  /\ InUser
  /\ schedule(procs, "exit", GateFlag)
  /\ UNCHANGED <<next_pid, avail, frame, kbVars, picVars>>

SysExit ==
  /\ InUser
  /\ schedule([procs EXCEPT ![current].state = "DEAD"], "exit", GateFlag)
  /\ UNCHANGED <<next_pid, avail, frame, kbVars, picVars>>

SysYield ==
  /\ InUser
  /\ schedule(procs, "yield", GateFlag)
  /\ UNCHANGED <<next_pid, avail, frame, kbVars, picVars>>

SysSpawn(name) ==
  /\ InUser
  /\ process_create(name)
  /\ UNCHANGED <<current, cpuVars, kbVars, picVars>>

\* keyboard_read_line and the return to the caller.
ReadLine ==
  /\ keyboard_has_line
  /\ keyboard_read_line
  /\ pc' = "user"
  /\ intr' = TRUE
  /\ UNCHANGED <<procs, current, cr3, tss_esp0>>

\* The top of SYS_READ's loop.
ReadTop ==
  \/ ReadLine
  \/ /\ ~keyboard_has_line
     /\ schedule(procs, "read", GateFlag)
     /\ UNCHANGED kbVars

SysRead ==
  /\ InUser
  /\ ReadTop
  /\ UNCHANGED <<next_pid, avail, frame, picVars>>

\* SYS_READ after schedule returned: sti; hlt unless the line has arrived.
ReadResumed ==
  /\ pc = "read"
  /\ \/ ReadLine
     \/ /\ ~keyboard_has_line
        /\ pc' = "hlt_read"
        /\ intr' = TRUE
        /\ UNCHANGED <<procs, current, cr3, tss_esp0, kbVars>>
  /\ UNCHANGED <<next_pid, avail, frame, picVars>>

\* The cli after hlt, and back to the top of the loop.
ReadWoken ==
  /\ pc = "cli_read"
  /\ ReadTop
  /\ UNCHANGED <<next_pid, avail, frame, picVars>>

WaitDone(pid) ==
  /\ ~process_is_alive(pid)
  /\ procs' = [procs EXCEPT ![current].ebx = 0]
  /\ pc' = "user"
  /\ intr' = TRUE
  /\ UNCHANGED <<current, cr3, tss_esp0>>

WaitTop(pid) ==
  \/ WaitDone(pid)
  \/ /\ process_is_alive(pid)
     /\ schedule([procs EXCEPT ![current].ebx = pid], "wait", GateFlag)

SysWait(pid) ==
  /\ InUser
  /\ WaitTop(pid)
  /\ UNCHANGED <<next_pid, avail, frame, kbVars, picVars>>

WaitResumed ==
  /\ pc = "wait"
  /\ \/ WaitDone(procs[current].ebx)
     \/ /\ process_is_alive(procs[current].ebx)
        /\ pc' = "hlt_wait"
        /\ intr' = TRUE
        /\ UNCHANGED <<procs, current, cr3, tss_esp0>>
  /\ UNCHANGED <<next_pid, avail, frame, kbVars, picVars>>

WaitWoken ==
  /\ pc = "cli_wait"
  /\ WaitTop(procs[current].ebx)
  /\ UNCHANGED <<next_pid, avail, frame, kbVars, picVars>>

\* The trampoline's iret, and the return of a system call or of a tick
\* that called schedule: the user's EFLAGS have IF set.
ReturnToUser ==
  /\ pc \in {"trampoline", "irqret", "yield"}
  /\ pc' = "user"
  /\ intr' = TRUE
  /\ UNCHANGED <<tableVars, cr3, tss_esp0, frame, kbVars, picVars>>

-----------------------------------------------------------------------------
(* Interrupts.  The handler of a CPU exception (0..31) changes nothing and *)
(* returns to the faulting instruction: a stuttering step.                 *)

TakeInterrupt(n) ==
  /\ intr
  /\ Deliverable(n)
  /\ Accept(n)
  /\ frame' = [irq |-> n, from |-> pc]
  /\ pc' = "irq"
  /\ intr' = GateFlag
  /\ UNCHANGED <<tableVars, cr3, tss_esp0, kbVars>>

\* Faulty variant: the loop halts again without looking.
AfterIretFaulty(from) == from

\* iret to an interrupted hlt continues behind it.
AfterIret(from) ==
  CASE from = "hlt_read" -> "cli_read"
    [] from = "hlt_wait" -> "cli_wait"
    [] OTHER -> from

\* Faulty variant: the tick does not call schedule.
PreemptsFaulty == FALSE

\* The tick preempts user code only: (cs & 3) == 3.
Preempts == frame.irq = TIMER /\ frame.from = "user"

interrupt_handler(key) ==
  /\ pc = "irq"
  /\ IF frame.irq = KEYBOARD THEN keyboard_handler(key) ELSE UNCHANGED kbVars
  /\ pic_acknowledge
  /\ \/ /\ Preempts
        /\ schedule(procs, "irqret", intr)
     \/ /\ ~Preempts
        /\ pc' = AfterIret(frame.from)
        /\ intr' = TRUE
        /\ UNCHANGED <<procs, current, cr3, tss_esp0>>
  /\ frame' = NoFrame
  /\ UNCHANGED <<next_pid, avail, irr, imr>>

\* The PIT and the keyboard controller.
DeviceRaises(n) ==
  /\ Raise(n)
  /\ UNCHANGED <<tableVars, cpuVars, kbVars>>

-----------------------------------------------------------------------------
Init ==
  /\ process_init
  /\ avail \in 0 .. MaxFrames
  /\ cr3 = 0
  /\ tss_esp0 = 0
  /\ pc = "create"
  /\ intr = TRUE
  /\ frame = NoFrame
  /\ KbInit
  /\ PicInit

KernelStep ==
  \/ BootCreate \/ BootPit \/ scheduler_start \/ jump_to_process
  \/ ReturnToUser
  \/ ReadResumed \/ ReadWoken
  \/ WaitResumed \/ WaitWoken

Syscall ==
  \/ SysExit \/ SysYield \/ SysRead
  \/ \E name \in Names : SysSpawn(name)
  \/ \E pid \in WaitPids : SysWait(pid)

Interrupt ==
  \/ \E n \in {TIMER, KEYBOARD} : TakeInterrupt(n)
  \/ \E key \in Keys : interrupt_handler(key)

Next ==
  \/ KernelStep
  \/ Syscall
  \/ Interrupt
  \/ \E n \in {TIMER, KEYBOARD} : DeviceRaises(n)

Spec == Init /\ [][Next]_vars

(***************************************************************************)
(* The PIT ticks for ever; a deliverable interrupt is taken and handled;   *)
(* the kernel's next instruction is executed even if interrupts keep       *)
(* arriving in front of it (strong fairness).  Programs and the user at    *)
(* the keyboard owe nothing.                                               *)
(***************************************************************************)
Fairness ==
  /\ WF_vars(DeviceRaises(TIMER))
  /\ WF_vars(Interrupt)
  /\ SF_vars(KernelStep)

FairSpec == Spec /\ Fairness

-----------------------------------------------------------------------------
(* Safety                                                                  *)

\* Where process s executes or will resume, looking through a handler.
Where(s) ==
  IF s # current THEN procs[s].ret
  ELSE IF pc = "irq" THEN frame.from ELSE pc

Booting == current = NoProc \/ Where(current) = "jump"

\* The process table and the CPU agree at every step of schedule, SYS_EXIT
\* and scheduler_start: exactly the current process is RUNNING, and nobody is
\* once the last process has halted the machine.
SingleRunner ==
  \A s \in Slots : procs[s].state = "RUNNING" <=> s = current /\ pc # "exit"

\* A process always executes on its own page directory, and the TSS always
\* names its own kernel stack, whoever was switched out before (schedule's
\* tss_set_kernel_stack and switch_context's CR3).
OwnContext ==
  ~Booting => /\ cr3 = procs[current].page_dir
              /\ tss_esp0 = procs[current].kernel_stack

\* Kernel code is never interruptible, except while booting and in the
\* sti;hlt;cli window of a blocking call; nor is any context that a later
\* switch_context will restore with popfd.
KernelUninterruptible ==
  /\ intr => pc \in BootPc \union HaltPc \union {"user"}
  /\ \A s \in Slots : Live(s) => ~procs[s].eflags

\* The EOI is sent before schedule can leave the handler: outside of the
\* handler no line is in service, so the PIC never withholds the next tick.
Acknowledged == pc # "irq" => isr = {}

\* SYS_EXIT's hlt loop, with interrupts off, is reached only when no live
\* process is left to run.
HaltsOnlyAlone == pc = "exit" => \A s \in Slots : ~Live(s)

\* Pids of live processes are positive, were handed out, and are distinct,
\* and no two live processes share a page directory or a kernel stack.
DistinctProcesses ==
  \A s \in Slots : Live(s) =>
    /\ procs[s].pid \in 1 .. next_pid - 1
    /\ \A t \in Slots \ {s} : Live(t) =>
         /\ procs[s].pid # procs[t].pid
         /\ procs[s].page_dir # procs[t].page_dir
         /\ procs[s].kernel_stack # procs[t].kernel_stack

\* Every process costs at least three frames that never come back, so the
\* 32-bit pid counter cannot wrap (nor process_create's (int) turn negative)
\* before memory is exhausted.
PidsCostFrames == 3 * (next_pid - 1) + avail <= MaxFrames

\* No live process has this pid.
Ended(pid) == \A s \in Slots : Live(s) => procs[s].pid # pid

\* A pid whose process has ended never names a live process again: what
\* SYS_WAIT saw stays true.
PidNeverReused ==
  [][\A pid \in 0 .. next_pid - 1 : Ended(pid) => Ended(pid)']_vars

\* Keys typed behind a completed line do not alter it: the reader gets the
\* line as it was when Enter was pressed.
LineFrozen ==
  [][kb_line_complete /\ kb_line_complete' => UNCHANGED kb_line_buf]_vars

\* The scheduler implements the abstract life cycle of processes.
L == INSTANCE Lifecycle WITH
       live    <- {procs[s].pid : s \in {t \in Slots : Live(t)}},
       running <- IF current = NoProc \/ pc = "exit"
                    THEN 0 ELSE procs[current].pid,
       born    <- next_pid - 1

LifecycleSpec == L!Spec

-----------------------------------------------------------------------------
(* Liveness, under FairSpec                                                *)

InRead(s) ==
  Live(s) /\ Where(s) \in {"read", "hlt_read", "cli_read"}

InWait(s) ==
  Live(s) /\ Where(s) \in {"wait", "hlt_wait", "cli_wait"}

\* Round robin with preemption starves nobody: a READY process gets the CPU
\* whatever the others do, a process that faults for ever included.
NoStarvation ==
  \A s \in Slots : procs[s].state = "READY" ~> procs[s].state = "RUNNING"

\* SYS_WAIT returns once its target has ended: the wakeup is never lost.
WaitReturns ==
  \A s \in Slots :
    InWait(s) /\ Ended(procs[s].ebx) ~> ~InWait(s)

\* A completed line is consumed if some process is blocked in SYS_READ.
LineConsumed ==
  kb_line_complete /\ (\E s \in Slots : InRead(s)) ~> ~kb_line_complete
=============================================================================
