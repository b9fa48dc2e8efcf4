--------------------------- MODULE SessionProofs ----------------------------
(***************************************************************************)
(* The programs on top of the scheduler: for every size of the process     *)
(* table, every file system and every text a user may type, the waits of   *)
(* the processes form one chain that ends in the only process that reads   *)
(* the keyboard (OneForeground), and the table that top shows stays true   *)
(* while top waits for its answer (TableTrue).                             *)
(*                                                                         *)
(* The kernel's part of the argument is Inv of SchedProofs: it holds here  *)
(* too, because every step of a session is a step of Sched or changes      *)
(* user only.                                                              *)
(***************************************************************************)
EXTENDS Session, SchedProofs, FiniteSetTheorems

-----------------------------------------------------------------------------
(* The inductive invariant                                                 *)

ReadPc == {"read", "hlt_read", "cli_read"}
WaitPc == {"wait", "hlt_wait", "cli_wait"}

Row == [pid : Nat, state : States, name : Names \union {"none"}]

Program ==
  [name : Names \union {"none"},
   at   : {"none", "start", "read", "got", "spawned", "exit"},
   line : Seq(Chars),
   pid  : Nat,
   rows : Seq(Row)]

\* Every pid in the table was handed out, the ones of dead slots too.
PidsOld == \A s \in Slots : procs[s].pid < next_pid

\* Before the first entry into user mode no process has run.
NotRunYet ==
  current = NoProc \/ Loc = "jump" =>
    \A s \in Slots : Live(s) => procs[s].ret = "trampoline"

\* A process that is inside of SYS_READ or SYS_WAIT is, in its program, at
\* the call: the argument the kernel keeps in ebx is the program's.
Blocked ==
  \A s \in Slots : Live(s) =>
    /\ Where(s) \in ReadPc => user[s].at = "read"
    /\ Where(s) \in WaitPc =>
         user[s].at = "spawned" /\ procs[s].ebx = user[s].pid

\* OneForeground, said of slots.
Chain ==
  \A s, t \in Slots : Live(s) /\ Live(t) /\ procs[t].pid > procs[s].pid =>
    /\ user[s].at = "spawned"
    /\ user[s].pid > procs[s].pid /\ user[s].pid <= procs[t].pid
    /\ \E u \in Slots : Live(u) /\ procs[u].pid = user[s].pid

\* What top has on the screen.
Table ==
  \A s \in Slots : Live(s) /\ user[s].name = Top /\ user[s].at = "read" =>
    /\ {user[s].rows[i].pid : i \in DOMAIN user[s].rows} = Pids
    /\ \A i \in DOMAIN user[s].rows :
         user[s].rows[i].state = "RUNNING" <=> user[s].rows[i].pid = procs[s].pid

SessionInv ==
  /\ Inv
  /\ FirstPid
  /\ user \in [Slots -> Program]
  /\ PidsOld
  /\ NotRunYet
  /\ Blocked
  /\ Chain
  /\ Table


\* The two forms say the same.
LEMMA ChainForeground ==
  ASSUME procs \in [Slots -> Process], user \in [Slots -> Program], Chain
  PROVE  OneForeground
<1> SUFFICES ASSUME NEW s \in Slots, Live(s),
                    NEW p \in {q \in Pids : q > procs[s].pid}
             PROVE  /\ user[s].at = "spawned"
                    /\ user[s].pid \in Pids /\ user[s].pid > procs[s].pid
                    /\ user[s].pid <= p
  BY DEF OneForeground
<1>1. PICK t \in Slots : Live(t) /\ procs[t].pid = p
  BY DEF Pids
<1>2. /\ user[s].at = "spawned"
      /\ user[s].pid > procs[s].pid /\ user[s].pid <= procs[t].pid
      /\ \E u \in Slots : Live(u) /\ procs[u].pid = user[s].pid
  BY <1>1 DEF Chain
<1> QED BY <1>1, <1>2 DEF Pids

\* Nobody younger is alive.
Youngest(s) == \A t \in Slots : Live(t) => procs[t].pid <= procs[s].pid

\* A live process that is not waiting for a child is the youngest, and there
\* is only one youngest.
LEMMA NotWaitingIsYoungest ==
  ASSUME SessionInv, NEW s \in Slots, Live(s), user[s].at # "spawned"
  PROVE  /\ Youngest(s)
         /\ \A t \in Slots : Live(t) /\ user[t].at # "spawned" => t = s
<1>1. \A t \in Slots : procs[t].pid \in Nat
  BY DEF SessionInv, Inv, TypeOK, Process
<1>2. Youngest(s)
  BY <1>1 DEF Youngest, SessionInv, Chain
<1>3. ASSUME NEW t \in Slots, Live(t), user[t].at # "spawned", t # s
      PROVE  FALSE
  <2>1. procs[s].pid <= procs[t].pid /\ procs[t].pid <= procs[s].pid
    BY <1>1, <1>3 DEF SessionInv, Chain
  <2> QED BY <1>1, <1>3, <2>1 DEF SessionInv, Inv, PidsDiffer
<1> QED BY <1>2, <1>3

-----------------------------------------------------------------------------
(* The kernel's side of a step                                             *)

\* A step of the session is a step of Sched, a SYS_WAIT with the pid the
\* program has, or no step of the kernel at all.
LEMMA SessionSteps ==
  ASSUME [SessionNext]_sessionVars
  PROVE  [Next]_vars \/ Wait
<1>1. CASE UNCHANGED sessionVars
  BY <1>1 DEF sessionVars
<1>2. CASE SessionKernelStep
  BY <1>2 DEF SessionKernelStep, Next, KernelStep
<1>3. CASE UserStep
  <2>1. NameOf(Command) \in Names
    BY SessionAssumption DEF NameOf
  <2>2. CASE RunProgram
    BY <2>1, <2>2 DEF RunProgram, Next, Syscall
  <2>3. CASE Read \/ ProgramExit
    BY <2>3 DEF Read, ProgramExit, Next, Syscall
  <2> QED BY <1>3, <2>2, <2>3
      DEF UserStep, Prompt, BlankOrBuiltin, ExitCommand, Draw, Answer, Greet
<1>4. CASE SessionInterrupt
  BY <1>4 DEF SessionInterrupt, Next
<1>5. CASE \E n \in {TIMER, KEYBOARD} : SessionDevice(n)
  BY <1>5 DEF SessionDevice, Next
<1> QED BY <1>1, <1>2, <1>3, <1>4, <1>5 DEF SessionNext

\* The process at a system call.
LEMMA AtFacts ==
  ASSUME SessionInv, NEW place, At(place)
  PROVE  /\ current \in Slots /\ Live(current) /\ InKernel /\ pc = "user"
         /\ Where(current) = "user"
         /\ user[current].at = place
         /\ user[current] \in Program
         /\ current # NoProc
<1>1. InKernel /\ pc = "user" /\ user[current].at = place
  BY DEF At, InUser, InKernel
<1>2. current \in Slots /\ procs[current].state = "RUNNING"
  BY <1>1, InKernelFacts DEF SessionInv
<1> QED BY <1>1, <1>2, SchedAssumption DEF SessionInv, Live, Where, NoProc, Slots

\* The kernel's invariant, and what happens to the processes.
LEMMA KernelSide ==
  ASSUME SessionInv, [SessionNext]_sessionVars
  PROVE  /\ Inv'
         /\ FirstPid'
         /\ SameProcesses \/ OneBorn \/ OneEnded
<1>1. CASE [Next]_vars
  BY <1>1, NextInv, FirstPidNext, StepKinds DEF SessionInv
<1>2. CASE Wait
  <2>1. SysWait(user[current].pid) /\ user[current].pid \in Nat /\ current \in Slots
    BY <1>2, AtFacts DEF Wait, Program
  <2>2. Inv' /\ SameProcesses
    BY <2>1, SysWaitInv, SysWaitKeeps DEF SessionInv
  <2>3. FirstPid'
    <3>1. current' # NoProc
      BY <2>1, <2>2, SchedAssumption DEF SameProcesses, NoProc, Slots
    <3> QED BY <2>2, <3>1 DEF Inv, Started, FirstPid
  <2> QED BY <2>2, <2>3
<1> QED BY <1>1, <1>2, SessionSteps

\* A pid stays old.
LEMMA PidsOldNext ==
  ASSUME SessionInv, SameProcesses \/ OneBorn \/ OneEnded
  PROVE  PidsOld'
<1>1. next_pid \in Nat /\ \A s \in Slots : procs[s].pid \in Nat
  BY DEF SessionInv, Inv, TypeOK, Process
<1>2. CASE SameProcesses
  BY <1>2 DEF SessionInv, SameProcesses, PidsOld
<1>3. CASE OneBorn
  BY <1>1, <1>3 DEF SessionInv, OneBorn, PidsOld
<1>4. CASE OneEnded
  BY <1>4 DEF SessionInv, OneEnded, PidsOld
<1> QED BY <1>2, <1>3, <1>4

\* schedule, called by a process that does not stay READY: the caller will
\* resume at ret, everybody else where he would have.
LEMMA ScheduleWhere ==
  ASSUME Inv, current \in Slots,
         NEW ps \in [Slots -> Process],
         NEW ret \in Resume,
         \A s \in Slots : s # current => ps[s] = procs[s],
         ps[current].state # "READY",
         schedule(ps, ret, FALSE)
  PROVE  /\ current' \in Slots
         /\ pc' \notin BootPc \union HaltPc \union {"user", "irq"}
         /\ \A s \in Slots :
              /\ Where(s)' = IF s = current THEN ret ELSE Where(s)
              /\ procs'[s].ebx = ps[s].ebx
<1>0. current # NoProc /\ ret # "irq"
  BY SchedAssumption DEF NoProc, Slots, Resume
<1>1. CASE procs' = ps /\ pc' = ret /\ UNCHANGED current
  BY <1>0, <1>1 DEF Where, Resume, BootPc, HaltPc
<1>2. CASE \E i \in 1 .. MAX_PROCESSES :
             /\ Picks(ps, i)
             /\ Dispatch(ps, (current + i) % MAX_PROCESSES, ret, FALSE)
  <2>1. PICK i \in 1 .. MAX_PROCESSES :
          /\ Picks(ps, i)
          /\ Dispatch(ps, (current + i) % MAX_PROCESSES, ret, FALSE)
    BY <1>2
  <2> DEFINE next == (current + i) % MAX_PROCESSES
  <2>2. next \in Slots /\ ps[next].state = "READY" /\ next # current
    BY <2>1, ScanInTable DEF Picks, ReadyAt
  <2> HIDE DEF next
  <2>3. /\ current' = next
        /\ pc' = ps[next].ret
        /\ procs' = [ps EXCEPT
             ![current].state  = IF @ = "RUNNING" THEN "READY" ELSE @,
             ![current].ret    = ret,
             ![current].eflags = FALSE,
             ![next].state     = "RUNNING"]
    BY <2>1 DEF Dispatch, next
  <2>4. \A s \in Slots : s # next /\ s # current => procs'[s] = ps[s]
    BY <2>3
  <2>5. /\ procs'[next].ebx = ps[next].ebx
        /\ procs'[current].ret = ret /\ procs'[current].ebx = ps[current].ebx
    BY <2>2, <2>3 DEF Process
  <2>6. pc' \in Resume \union {"none"} /\ pc' = procs[next].ret
    BY <2>2, <2>3 DEF Process
  <2>7. pc' \notin BootPc \union HaltPc \union {"user", "irq"}
    BY <2>6 DEF Resume, BootPc, HaltPc
  <2>8. ASSUME NEW s \in Slots
        PROVE  Where(s)' = IF s = current THEN ret ELSE Where(s)
    BY <2>2, <2>3, <2>4, <2>5, <2>6, <2>7 DEF Where
  <2> QED BY <2>2, <2>3, <2>4, <2>5, <2>7, <2>8
<1> QED BY <1>0, <1>1, <1>2, Zenon DEF schedule

-----------------------------------------------------------------------------
(* Steps that leave the programs alone                                     *)

\* Nobody enters SYS_READ or SYS_WAIT, and the arguments stay.
NoNewBlock ==
  \A s \in Slots : Live(s) =>
    /\ Where(s)' \in ReadPc => Where(s) \in ReadPc
    /\ Where(s)' \in WaitPc => Where(s) \in WaitPc
    /\ procs'[s].ebx = procs[s].ebx

\* The part of the invariant that is about programs.
ProgramInv ==
  /\ user \in [Slots -> Program]
  /\ NotRunYet
  /\ Blocked
  /\ Chain
  /\ Table

\* The same processes have the same pids.
LEMMA SamePids ==
  ASSUME SameProcesses
  PROVE  Pids' = Pids
BY DEF SameProcesses, Pids

\* With the same processes, the chain holds as long as only the youngest
\* moves in its program.
LEMMA ChainKept ==
  ASSUME SessionInv, SameProcesses,
         \A s \in Slots : Live(s) /\ ~Youngest(s) => user'[s] = user[s]
  PROVE  Chain'
<1> SUFFICES ASSUME NEW s \in Slots, NEW t \in Slots, Live(s)', Live(t)',
                    procs'[t].pid > procs'[s].pid
             PROVE  /\ user'[s].at = "spawned"
                    /\ user'[s].pid > procs'[s].pid /\ user'[s].pid <= procs'[t].pid
                    /\ \E u \in Slots : Live(u)' /\ procs'[u].pid = user'[s].pid
  BY DEF Chain
<1>1. Live(s) /\ Live(t) /\ procs[t].pid > procs[s].pid
  BY DEF SameProcesses
<1>2. procs[s].pid \in Nat /\ procs[t].pid \in Nat
  BY DEF SessionInv, Inv, TypeOK, Process
<1>3. user'[s] = user[s]
  BY <1>1, <1>2 DEF Youngest
<1>4. /\ user[s].at = "spawned"
      /\ user[s].pid > procs[s].pid /\ user[s].pid <= procs[t].pid
      /\ \E u \in Slots : Live(u) /\ procs[u].pid = user[s].pid
  BY <1>1 DEF SessionInv, Chain
<1> QED BY <1>3, <1>4 DEF SameProcesses

\* With the same processes, top's table stays true as long as it is not
\* drawn anew.
LEMMA TableKept ==
  ASSUME SessionInv, SameProcesses,
         \A s \in Slots :
           Live(s) /\ user'[s].name = Top /\ user'[s].at = "read" =>
             user'[s] = user[s]
  PROVE  Table'
<1> SUFFICES ASSUME NEW s \in Slots, Live(s)', user'[s].name = Top,
                    user'[s].at = "read"
             PROVE  /\ {user'[s].rows[i].pid : i \in DOMAIN user'[s].rows} = Pids'
                    /\ \A i \in DOMAIN user'[s].rows :
                         user'[s].rows[i].state = "RUNNING"
                           <=> user'[s].rows[i].pid = procs'[s].pid
  BY DEF Table
<1>1. Live(s) /\ user'[s] = user[s] /\ procs'[s].pid = procs[s].pid
  BY DEF SameProcesses
<1>2. Pids' = Pids
  BY SamePids
<1>3. /\ {user[s].rows[i].pid : i \in DOMAIN user[s].rows} = Pids
      /\ \A i \in DOMAIN user[s].rows :
           user[s].rows[i].state = "RUNNING" <=> user[s].rows[i].pid = procs[s].pid
  BY <1>1 DEF SessionInv, Table
<1> QED BY <1>1, <1>2, <1>3

\* A step of the kernel that no program takes part in.
LEMMA QuietStep ==
  ASSUME SessionInv, SameProcesses, NoNewBlock, NotRunYet', UNCHANGED user
  PROVE  ProgramInv'
<1>1. Chain' /\ Table'
  BY ChainKept, TableKept
<1>2. Blocked'
  BY DEF SessionInv, Blocked, SameProcesses, NoNewBlock
<1> QED BY <1>1, <1>2 DEF ProgramInv, SessionInv

\* A step after which some process is current and past its jump.
LEMMA RunsNow ==
  ASSUME current' \in Slots, pc' # "irq", pc' # "jump"
  PROVE  NotRunYet'
BY SchedAssumption DEF NotRunYet, Loc, NoProc, Slots

\* The boot steps, the returns to user mode, interrupts and devices.
LEMMA QuietSteps ==
  ASSUME SessionInv, SameProcesses, UNCHANGED user,
         \/ BootPit \/ scheduler_start \/ jump_to_process \/ ReturnToUser
         \/ Interrupt
         \/ \E n \in {TIMER, KEYBOARD} : DeviceRaises(n)
         \/ UNCHANGED vars
  PROVE  ProgramInv'
<1>0. /\ procs \in [Slots -> Process] /\ current \in Slots \union {NoProc}
      /\ NoProc \notin Slots
  BY SchedAssumption DEF SessionInv, Inv, TypeOK, NoProc, Slots
<1>1. CASE BootPit
  <2>1. /\ pc = "pit" /\ pc' = "start" /\ current = NoProc
        /\ UNCHANGED <<procs, current>>
    BY <1>1 DEF BootPit, tableVars, SessionInv, Inv, Started, Loc
  <2>2. NoNewBlock
    BY <1>0, <2>1 DEF NoNewBlock, Where
  <2>3. NotRunYet'
    BY <2>1 DEF SessionInv, NotRunYet, Live
  <2> QED BY <2>2, <2>3, QuietStep
<1>2. CASE scheduler_start
  <2>1. pc = "start" /\ current = NoProc
    BY <1>2 DEF scheduler_start, SessionInv, Inv, Started, Loc
  <2>2. CASE pc' = "halt" /\ UNCHANGED <<procs, current>>
    <3>1. NoNewBlock
      BY <1>0, <2>1, <2>2 DEF NoNewBlock, Where
    <3>2. NotRunYet'
      BY <2>1, <2>2 DEF SessionInv, NotRunYet, Live
    <3> QED BY <3>1, <3>2, QuietStep
  <2>3. CASE \E first \in Slots :
               /\ procs' = [procs EXCEPT ![first].state = "RUNNING"]
               /\ current' = first
               /\ pc' = "jump"
    <3>1. PICK first \in Slots :
            /\ procs' = [procs EXCEPT ![first].state = "RUNNING"]
            /\ current' = first
            /\ pc' = "jump"
      BY <2>3
    <3>2. \A s \in Slots : /\ procs'[s].ret = procs[s].ret
                           /\ procs'[s].ebx = procs[s].ebx
      BY <1>0, <3>1 DEF Process
    <3>3. NoNewBlock
      BY <1>0, <2>1, <3>1, <3>2 DEF NoNewBlock, Where, ReadPc, WaitPc
    <3>4. NotRunYet'
      BY <2>1, <3>2 DEF SessionInv, NotRunYet, SameProcesses
    <3> QED BY <3>3, <3>4, QuietStep
  <2> QED BY <1>2, <2>2, <2>3 DEF scheduler_start
<1>3. CASE jump_to_process
  <2>1. /\ pc = "jump" /\ pc' = procs[current].ret
        /\ UNCHANGED <<procs, current>>
    BY <1>3 DEF jump_to_process, tableVars
  <2>2. current \in Slots /\ procs[current].state = "RUNNING"
    BY <1>0, <2>1 DEF SessionInv, Inv, Started, Loc, SingleRunner
  <2>3. pc' = "trampoline"
    BY <2>1, <2>2 DEF SessionInv, NotRunYet, Loc, Live
  <2>4. NoNewBlock
    BY <2>1, <2>3 DEF NoNewBlock, Where, ReadPc, WaitPc
  <2> QED BY <2>1, <2>2, <2>3, <2>4, RunsNow, QuietStep
<1>4. CASE ReturnToUser
  <2>1. /\ pc \in {"trampoline", "irqret", "yield"} /\ pc' = "user"
        /\ UNCHANGED <<procs, current>>
    BY <1>4 DEF ReturnToUser, tableVars
  <2>2. current \in Slots
    BY <2>1, InKernelFacts DEF SessionInv, InKernel, Resume
  <2>3. NoNewBlock
    BY <2>1 DEF NoNewBlock, Where, ReadPc, WaitPc
  <2> QED BY <2>1, <2>2, <2>3, RunsNow, QuietStep
<1>5. ASSUME NEW n, TakeInterrupt(n)
      PROVE  ProgramInv'
  <2>1. /\ intr /\ frame'.from = pc /\ pc' = "irq" /\ UNCHANGED <<procs, current>>
    BY <1>5 DEF TakeInterrupt, tableVars
  <2>2. pc # "irq"
    BY <2>1 DEF SessionInv, Inv, Flags, Interruptible, BootPc, HaltPc
  <2>3. NoNewBlock
    BY <2>1, <2>2 DEF NoNewBlock, Where
  <2>4. Loc' = Loc
    BY <2>1, <2>2 DEF Loc
  <2>5. NotRunYet'
    BY <2>1, <2>4 DEF SessionInv, NotRunYet, Live
  <2> QED BY <2>3, <2>5, QuietStep
<1>6. ASSUME NEW key, interrupt_handler(key)
      PROVE  ProgramInv'
  <2>1. pc = "irq"
    BY <1>6 DEF interrupt_handler
  <2>2. CASE Preempts /\ schedule(procs, "irqret", intr)
    <3>1. frame.from = "user" /\ current \in Slots
      BY <1>0, <2>1, <2>2 DEF Preempts, SessionInv, Inv, Started, Loc
    <3>2. procs[current].state = "RUNNING"
      BY <2>1, <3>1 DEF SessionInv, Inv, SingleRunner
    <3>3. schedule(procs, "irqret", FALSE)
      <4>1. intr = FALSE
        BY <2>1 DEF SessionInv, Inv, TypeOK, Flags, Interruptible, BootPc, HaltPc
      <4> QED BY <2>2, <4>1
    <3>4. /\ current' \in Slots
          /\ pc' \notin BootPc \union HaltPc \union {"user", "irq"}
          /\ \A s \in Slots :
               /\ Where(s)' = IF s = current THEN "irqret" ELSE Where(s)
               /\ procs'[s].ebx = procs[s].ebx
      BY <1>0, <3>1, <3>2, <3>3, ScheduleWhere DEF SessionInv, Resume
    <3>5. NoNewBlock
      BY <3>4 DEF NoNewBlock, ReadPc, WaitPc
    <3> QED BY <3>4, <3>5, RunsNow, QuietStep DEF BootPc
  <2>3. CASE pc' = AfterIret(frame.from) /\ UNCHANGED <<procs, current>>
    <3>1. /\ frame.from = "hlt_read" => pc' = "cli_read"
          /\ frame.from = "hlt_wait" => pc' = "cli_wait"
          /\ frame.from \notin {"hlt_read", "hlt_wait"} => pc' = frame.from
          /\ frame.from # "irq"
      BY <2>1, <2>3 DEF AfterIret, SessionInv, Inv, Handler, Interruptible, BootPc, HaltPc
    <3>2. NoNewBlock
      BY <2>1, <2>3, <3>1 DEF NoNewBlock, Where, ReadPc, WaitPc
    <3>3. NotRunYet'
      BY <2>1, <2>3, <3>1 DEF SessionInv, NotRunYet, Live, Loc
    <3> QED BY <3>2, <3>3, QuietStep
  <2> QED BY <1>6, <2>2, <2>3 DEF interrupt_handler
<1>7. CASE UNCHANGED <<procs, current, pc, frame>>
  <2>1. NoNewBlock /\ NotRunYet'
    BY <1>7 DEF NoNewBlock, Where, SessionInv, NotRunYet, Live, Loc
  <2> QED BY <2>1, QuietStep
<1> QED BY <1>1, <1>2, <1>3, <1>4, <1>5, <1>6, <1>7
      DEF Interrupt, DeviceRaises, vars, tableVars, cpuVars

-----------------------------------------------------------------------------
(* System calls of the programs                                            *)

\* The current process, the youngest, moves in its program and is not inside
\* of a blocking call afterwards, or is inside of SYS_READ having called it.
LEMMA CurrentMoves ==
  ASSUME SessionInv, SameProcesses, NotRunYet',
         current \in Slots, Live(current),
         user' \in [Slots -> Program],
         \A s \in Slots : s # current =>
           /\ user'[s] = user[s]
           /\ Where(s)' = Where(s)
           /\ procs'[s].ebx = procs[s].ebx,
         user'[current] = user[current] \/ Youngest(current),
         \/ user'[current] = user[current]
         \/ user'[current].at # "read"
         \/ user'[current].name # Top,
         NEW w, \A s \in Slots : s = current => Where(s)' = w,
         w \in ReadPc => user'[current].at = "read",
         w \in WaitPc => /\ user'[current].at = "spawned"
                         /\ procs'[current].ebx = user'[current].pid
  PROVE  ProgramInv'
<1>1. Chain'
  BY ChainKept
<1>2. Table'
  BY TableKept
<1>3. Blocked'
  BY DEF SessionInv, Blocked, SameProcesses
<1> QED BY <1>1, <1>2, <1>3 DEF ProgramInv

\* SYS_READ: the call, and its return with or without the line.
LEMMA ReadSteps ==
  ASSUME SessionInv, SameProcesses,
         Read \/ ((ReadResumed \/ ReadWoken) /\ user' = AfterRead)
  PROVE  ProgramInv'
<1>1. InKernel /\ pc \in {"user", "read", "cli_read"} /\ user' = AfterRead
  BY DEF Read, At, InUser, ReadResumed, ReadWoken, InKernel, Resume, HaltPc
<1>2. /\ current \in Slots /\ procs[current].state = "RUNNING"
      /\ procs \in [Slots -> Process] /\ Live(current)
      /\ KbTypeOK
  BY <1>1, InKernelFacts DEF SessionInv, Live
<1>3. Where(current) = pc
  BY <1>1 DEF Where
<1>4. user[current].at = "read"
  <2>1. CASE Read
    BY <2>1 DEF Read, At
  <2>2. CASE pc \in ReadPc
    BY <1>2, <1>3, <2>2 DEF SessionInv, Blocked
  <2> QED BY <2>1, <2>2 DEF ReadResumed, ReadWoken, ReadPc
<1>5. Youngest(current)
  BY <1>2, <1>4, NotWaitingIsYoungest
<1>6. user \in [Slots -> Program]
  BY DEF SessionInv
<1>7. CASE ReadLine
  <2>1. /\ kb_line_complete /\ kb_line_complete' = FALSE
        /\ pc' = "user" /\ UNCHANGED <<procs, current>>
    BY <1>7 DEF ReadLine, keyboard_has_line, keyboard_read_line
  <2>2. user' = [user EXCEPT ![current].at = "got", ![current].line = kb_line_buf]
    BY <1>1, <2>1 DEF AfterRead
  <2>3. user' \in [Slots -> Program]
    <3>1. PICK c \in Slots, l \in Seq(Chars) : c = current /\ l = kb_line_buf
      BY <1>2 DEF KbTypeOK
    <3>2. user[c] \in Program
      BY <1>6
    <3>3. [user[c] EXCEPT !.at = "got", !.line = l] \in Program
      BY <3>2 DEF Program
    <3>4. user' = [user EXCEPT ![c] = [user[c] EXCEPT !.at = "got", !.line = l]]
      BY <1>6, <2>2, <3>1
    <3> QED BY <1>6, <3>3, <3>4
  <2>4. user'[current].at = "got" /\ \A s \in Slots : s # current => user'[s] = user[s]
    BY <1>2, <1>6, <2>2 DEF Program
  <2>5. /\ \A s \in Slots : s # current => Where(s)' = Where(s)
        /\ \A s \in Slots : s = current => Where(s)' = "user"
    BY <2>1 DEF Where
  <2> QED BY <1>2, <1>5, <2>1, <2>3, <2>4, <2>5, RunsNow, CurrentMoves
          DEF ReadPc, WaitPc
<1>8. CASE pc' = "hlt_read" /\ UNCHANGED <<procs, current, kbVars>>
  <2>1. user' = user
    BY <1>1, <1>8 DEF AfterRead, kbVars
  <2>2. /\ \A s \in Slots : s # current => Where(s)' = Where(s)
        /\ \A s \in Slots : s = current => Where(s)' = "hlt_read"
    BY <1>8 DEF Where
  <2> QED BY <1>2, <1>4, <1>6, <1>8, <2>1, <2>2, RunsNow, CurrentMoves
          DEF ReadPc, WaitPc
<1>9. CASE schedule(procs, "read", GateFlag) /\ UNCHANGED kbVars
  <2>1. user' = user
    BY <1>1, <1>9 DEF AfterRead, kbVars
  <2>2. schedule(procs, "read", FALSE)
    BY <1>9 DEF GateFlag
  <2>3. /\ current' \in Slots
        /\ pc' \notin BootPc \union HaltPc \union {"user", "irq"}
        /\ \A s \in Slots :
             /\ Where(s)' = IF s = current THEN "read" ELSE Where(s)
             /\ procs'[s].ebx = procs[s].ebx
    BY <1>2, <2>2, ScheduleWhere DEF SessionInv, Resume
  <2>4. NotRunYet'
    BY <2>3, RunsNow DEF BootPc
  <2> QED BY <1>2, <1>4, <1>6, <2>1, <2>3, <2>4, CurrentMoves DEF ReadPc, WaitPc
<1> QED BY <1>7, <1>8, <1>9
        DEF Read, SysRead, ReadResumed, ReadWoken, ReadTop, keyboard_has_line

\* SYS_WAIT: the call, and its return once the child has ended.
LEMMA WaitSteps ==
  ASSUME SessionInv, SameProcesses,
         Wait \/ ((WaitResumed \/ WaitWoken) /\ user' = AfterWait)
  PROVE  ProgramInv'
<1>1. InKernel /\ pc \in {"user", "wait", "cli_wait"} /\ user' = AfterWait
  BY DEF Wait, At, InUser, WaitResumed, WaitWoken, InKernel, Resume, HaltPc
<1>2. /\ current \in Slots /\ procs[current].state = "RUNNING"
      /\ procs \in [Slots -> Process] /\ Live(current)
  BY <1>1, InKernelFacts DEF SessionInv, Live
<1>3. Where(current) = pc
  BY <1>1 DEF Where
<1> DEFINE pid == user[current].pid
<1>4. /\ user[current].at = "spawned"
      /\ Wait \/ procs[current].ebx = pid
  <2>1. CASE Wait
    BY <2>1 DEF Wait, At
  <2>2. CASE pc \in WaitPc
    BY <1>2, <1>3, <2>2 DEF SessionInv, Blocked
  <2> QED BY <2>1, <2>2 DEF WaitResumed, WaitWoken, WaitPc
<1>5. user \in [Slots -> Program] /\ pid \in Nat
  BY <1>2 DEF SessionInv, Program
<1>6. \/ WaitDone(pid)
      \/ schedule([procs EXCEPT ![current].ebx = pid], "wait", FALSE)
      \/ procs[current].ebx = pid /\ pc' = "hlt_wait" /\ UNCHANGED <<procs, current>>
  BY <1>4 DEF Wait, SysWait, WaitResumed, WaitWoken, WaitTop, GateFlag
<1> HIDE DEF pid
<1>7. CASE WaitDone(pid)
  <2>1. /\ ~process_is_alive(pid) /\ pc' = "user" /\ UNCHANGED current
        /\ procs' = [procs EXCEPT ![current].ebx = 0]
    BY <1>7 DEF WaitDone
  \* The child has ended, so nobody younger is left.
  <2>2. Youngest(current)
    <3>1. \A s \in Slots : procs[s].pid \in Nat
      BY <1>2 DEF Process
    <3>2. ASSUME NEW t \in Slots, Live(t), procs[t].pid > procs[current].pid
          PROVE  FALSE
      <4>1. \E u \in Slots : Live(u) /\ procs[u].pid = pid
        BY <1>2, <3>2 DEF SessionInv, Chain, pid
      <4> QED BY <2>1, <4>1 DEF process_is_alive
    <3> QED BY <1>2, <3>1, <3>2 DEF Youngest
  <2>3. user' = [user EXCEPT ![current].at = "start", ![current].pid = 0]
    BY <1>1, <2>1 DEF AfterWait
  <2>4. user' \in [Slots -> Program]
    <3>1. user[current] \in Program
      BY <1>2, <1>5
    <3>2. [user[current] EXCEPT !.at = "start", !.pid = 0] \in Program
      BY <3>1 DEF Program
    <3> QED BY <1>2, <1>5, <2>3, <3>2
  <2>5. user'[current].at = "start" /\ \A s \in Slots : s # current => user'[s] = user[s]
    BY <1>2, <1>5, <2>3 DEF Program
  <2>6. \A s \in Slots : s # current => procs'[s] = procs[s]
    BY <1>2, <2>1
  <2>7. /\ \A s \in Slots : s # current => Where(s)' = Where(s)
        /\ \A s \in Slots : s = current => Where(s)' = "user"
    BY <2>1, <2>6 DEF Where
  <2> QED BY <1>2, <2>1, <2>2, <2>4, <2>5, <2>6, <2>7, RunsNow, CurrentMoves
          DEF ReadPc, WaitPc
<1>8. CASE procs[current].ebx = pid /\ pc' = "hlt_wait" /\ UNCHANGED <<procs, current>>
  <2>1. user' = user
    BY <1>1, <1>8 DEF AfterWait
  <2>2. /\ \A s \in Slots : s # current => Where(s)' = Where(s)
        /\ \A s \in Slots : s = current => Where(s)' = "hlt_wait"
    BY <1>8 DEF Where
  <2> QED BY <1>2, <1>4, <1>5, <1>8, <2>1, <2>2, RunsNow, CurrentMoves
          DEF ReadPc, WaitPc, pid
<1>9. CASE schedule([procs EXCEPT ![current].ebx = pid], "wait", FALSE)
  <2> DEFINE ps == [procs EXCEPT ![current].ebx = pid]
  <2>1. /\ ps \in [Slots -> Process]
        /\ ps[current].state = "RUNNING" /\ ps[current].ebx = pid
        /\ \A s \in Slots : s # current => ps[s] = procs[s]
    BY <1>2, <1>5 DEF Process
  <2>2. schedule(ps, "wait", FALSE)
    BY <1>9
  <2> HIDE DEF ps
  <2>3. /\ current' \in Slots
        /\ pc' \notin BootPc \union HaltPc \union {"user", "irq"}
        /\ \A s \in Slots :
             /\ Where(s)' = IF s = current THEN "wait" ELSE Where(s)
             /\ procs'[s].ebx = ps[s].ebx
    BY <1>2, <2>1, <2>2, ScheduleWhere DEF SessionInv, Resume
  <2>4. user' = user
    BY <1>1, <2>3 DEF AfterWait
  <2>5. NotRunYet'
    BY <2>3, RunsNow DEF BootPc
  <2>6. procs'[current].ebx = user'[current].pid
    BY <1>2, <2>1, <2>3, <2>4 DEF pid
  <2>7. \A s \in Slots : s # current => procs'[s].ebx = procs[s].ebx
    BY <2>1, <2>3
  <2> QED BY <1>2, <1>4, <1>5, <2>3, <2>4, <2>5, <2>6, <2>7, CurrentMoves
          DEF ReadPc, WaitPc
<1> QED BY <1>6, <1>7, <1>8, <1>9

\* The place a program goes to, and what it keeps of the record.
LEMMA ProgramGoes ==
  ASSUME NEW p \in Program,
         NEW place \in {"none", "start", "read", "got", "spawned", "exit"}
  PROVE  /\ [p EXCEPT !.at = place] \in Program
         /\ [p EXCEPT !.at = place, !.line = << >>] \in Program
         /\ [p EXCEPT !.at = place].at = place
         /\ [p EXCEPT !.at = place, !.line = << >>].at = place
         /\ [p EXCEPT !.at = place].name = p.name
         /\ [p EXCEPT !.at = place, !.line = << >>].name = p.name
<1>1. << >> \in Seq(Chars)
  OBVIOUS
<1> QED BY <1>1 DEF Program

\* A step of the current program that makes no system call of the kernel's
\* (or one that only writes), and does not come to wait or to top's table.
LEMMA LocalMove ==
  ASSUME SessionInv, UNCHANGED vars,
         NEW place, At(place), place # "spawned",
         NEW q \in Program, user' = [user EXCEPT ![current] = q],
         q.at # "read" \/ q.name # Top
  PROVE  ProgramInv'
<1>1. /\ current \in Slots /\ Live(current) /\ pc = "user"
      /\ Where(current) = "user" /\ user[current].at = place
  BY AtFacts
<1>2. UNCHANGED <<procs, current, next_pid, pc, frame>>
  BY DEF vars, tableVars, cpuVars
<1>3. SameProcesses
  BY <1>2 DEF SameProcesses, Live
<1>4. Youngest(current)
  BY <1>1, NotWaitingIsYoungest
<1>5. /\ user' \in [Slots -> Program]
      /\ user'[current] = q
      /\ \A s \in Slots : s # current => user'[s] = user[s]
  BY <1>1 DEF SessionInv
<1>6. \A s \in Slots : Where(s)' = Where(s) /\ procs'[s].ebx = procs[s].ebx
  BY <1>2 DEF Where
<1>7. \A s \in Slots : s = current => Where(s)' = "user"
  BY <1>1, <1>6
<1>8. NotRunYet'
  BY <1>1, <1>2, RunsNow
<1> QED BY <1>1, <1>3, <1>4, <1>5, <1>6, <1>7, <1>8, CurrentMoves DEF ReadPc, WaitPc

\* The steps of shell.c, hello.c, program.c and of top's answer between two
\* system calls that matter to the kernel.
LEMMA LocalSteps ==
  ASSUME SessionInv,
         Prompt \/ BlankOrBuiltin \/ ExitCommand \/ Answer \/ Greet
  PROVE  ProgramInv'
<1>0. ASSUME NEW place, At(place) PROVE current \in Slots /\ user[current] \in Program
  BY <1>0, AtFacts
<1>00. user \in [Slots -> Program]
  BY DEF SessionInv
<1>1. CASE Prompt
  <2> DEFINE q == [user[current] EXCEPT !.at = "read"]
  <2>1. user[current] \in Program /\ current \in Slots
    BY <1>0, <1>1 DEF Prompt
  <2>2. q \in Program /\ q.name = user[current].name
    BY <2>1, ProgramGoes
  <2>3. q.name # Top
    BY <1>1, <2>2, SessionAssumption DEF Prompt, Runs
  <2>4. user' = [user EXCEPT ![current] = q]
    BY <1>1 DEF Prompt, GoTo
  <2> HIDE DEF q
  <2> QED BY <1>1, <2>2, <2>3, <2>4, LocalMove DEF Prompt
<1>2. CASE BlankOrBuiltin
  <2> DEFINE q == [user[current] EXCEPT !.at = "start", !.line = << >>]
  <2>1. user[current] \in Program /\ current \in Slots
    BY <1>0, <1>2 DEF BlankOrBuiltin
  <2>2. q \in Program /\ q.at = "start"
    BY <2>1, ProgramGoes
  <2>3. user' = [user EXCEPT ![current] = q]
    BY <1>2, <1>00, <2>1 DEF BlankOrBuiltin, Again
  <2> HIDE DEF q
  <2> QED BY <1>2, <2>2, <2>3, LocalMove DEF BlankOrBuiltin
<1>3. CASE ExitCommand
  <2> DEFINE q == [user[current] EXCEPT !.at = "exit", !.line = << >>]
  <2>1. user[current] \in Program /\ current \in Slots
    BY <1>0, <1>3 DEF ExitCommand
  <2>2. q \in Program /\ q.at = "exit"
    BY <2>1, ProgramGoes
  <2>3. user' = [user EXCEPT ![current] = q]
    BY <1>3, <1>00, <2>1 DEF ExitCommand
  <2> HIDE DEF q
  <2> QED BY <1>3, <2>2, <2>3, LocalMove DEF ExitCommand
<1>4. CASE Answer
  <2>1. PICK place \in {"exit", "start"} :
          user' = [user EXCEPT ![current].at = place, ![current].line = << >>]
    BY <1>4 DEF Answer
  <2> DEFINE q == [user[current] EXCEPT !.at = place, !.line = << >>]
  <2>2. user[current] \in Program /\ current \in Slots
    BY <1>0, <1>4 DEF Answer
  <2>3. q \in Program /\ q.at = place
    <3>1. place \in {"none", "start", "read", "got", "spawned", "exit"}
      OBVIOUS
    <3> QED BY <2>2, <3>1, ProgramGoes
  <2>4. user' = [user EXCEPT ![current] = q]
    BY <1>00, <2>1, <2>2
  <2> HIDE DEF q
  <2> QED BY <1>4, <2>3, <2>4, LocalMove DEF Answer
<1>5. CASE Greet
  <2> DEFINE q == [user[current] EXCEPT !.at = "exit"]
  <2>1. user[current] \in Program /\ current \in Slots
    BY <1>0, <1>5 DEF Greet
  <2>2. q \in Program /\ q.at = "exit"
    BY <2>1, ProgramGoes
  <2>3. user' = [user EXCEPT ![current] = q]
    BY <1>5 DEF Greet, GoTo
  <2> HIDE DEF q
  <2> QED BY <1>5, <2>2, <2>3, LocalMove DEF Greet
<1> QED BY <1>1, <1>2, <1>3, <1>4, <1>5

-----------------------------------------------------------------------------
(* The rows of process_get_info                                            *)

\* The number of live slots before s.
Rank(s) == Cardinality({t \in Listed : t < s})

\* Ranks of the live slots are different and count up from 0.
LEMMA Ranks ==
  /\ IsFiniteSet(Listed)
  /\ Cardinality(Listed) \in Nat /\ Cardinality(Listed) <= MAX_PROCESSES
  /\ \A s \in Listed : Rank(s) \in 0 .. Cardinality(Listed) - 1
  /\ \A s, t \in Listed : Rank(s) = Rank(t) => s = t
  /\ \A i \in 1 .. Cardinality(Listed) : \E s \in Listed : Rank(s) = i - 1
<1>1. /\ IsFiniteSet(Slots) /\ Cardinality(Slots) = MAX_PROCESSES
      /\ MAX_PROCESSES \in Nat
  BY FS_Interval, SchedAssumption DEF Slots
<1>2. Listed \subseteq Slots
  BY DEF Listed
<1>3. IsFiniteSet(Listed) /\ Cardinality(Listed) <= MAX_PROCESSES
  BY <1>1, <1>2, FS_Subset
<1>4. Cardinality(Listed) \in Nat
  BY <1>3, FS_CardinalityType
\* A set of live slots without s is smaller than one with s.
<1>5. ASSUME NEW s, NEW S, NEW T, S \subseteq T, T \subseteq Listed, s \in T, s \notin S
      PROVE  /\ Cardinality(S) \in Nat /\ Cardinality(T) \in Nat
             /\ Cardinality(S) < Cardinality(T)
  <2>1. IsFiniteSet(T)
    BY <1>3, <1>5, FS_Subset
  <2>2. IsFiniteSet(S) /\ Cardinality(S) <= Cardinality(T)
           /\ (Cardinality(T) = Cardinality(S) => T = S)
    BY <1>5, <2>1, FS_Subset
  <2>3. Cardinality(S) \in Nat /\ Cardinality(T) \in Nat
    BY <2>1, <2>2, FS_CardinalityType
  <2> QED BY <1>5, <2>2, <2>3
<1>6. ASSUME NEW s \in Listed
      PROVE  Rank(s) \in 0 .. Cardinality(Listed) - 1
  <2>1. s \in Int
    BY <1>2 DEF Slots
  <2>2. s \notin {t \in Listed : t < s} /\ {t \in Listed : t < s} \subseteq Listed
    BY <2>1
  <2>3. /\ Cardinality({t \in Listed : t < s}) \in Nat
        /\ Cardinality({t \in Listed : t < s}) < Cardinality(Listed)
    BY <1>5, <2>2
  <2> QED BY <1>4, <2>3 DEF Rank
<1>7. ASSUME NEW s \in Listed, NEW t \in Listed, s < t
      PROVE  Rank(s) < Rank(t)
  <2>1. s \in Int /\ t \in Int /\ Listed \subseteq Int
    BY <1>2 DEF Slots
  <2>2. /\ s \notin {u \in Listed : u < s} /\ s \in {u \in Listed : u < t}
        /\ {u \in Listed : u < s} \subseteq {u \in Listed : u < t}
        /\ {u \in Listed : u < t} \subseteq Listed
    <3>1. \A u \in Listed : u < s => u < t
      BY <1>7, <2>1
    <3>2. ~(s < s)
      BY <2>1
    <3> QED BY <1>7, <3>1, <3>2
  <2> QED BY <1>5, <2>2 DEF Rank
<1>8. ASSUME NEW s \in Listed, NEW t \in Listed, Rank(s) = Rank(t)
      PROVE  s = t
  <2>1. s \in Int /\ t \in Int /\ Rank(s) \in Int /\ Rank(t) \in Int
    BY <1>2, <1>4, <1>6 DEF Slots
  <2> QED BY <1>7, <1>8, <2>1
<1>9. \A i \in 1 .. Cardinality(Listed) : \E s \in Listed : Rank(s) = i - 1
  <2> DEFINE N == 1 .. Cardinality(Listed)
             f == [s \in Listed |-> Rank(s) + 1]
  <2>1. IsFiniteSet(N) /\ Cardinality(N) = Cardinality(Listed)
    BY <1>4, FS_Interval
  <2>2. f \in [Listed -> N]
    BY <1>4, <1>6
  <2>3. \A s, t \in Listed : f[s] = f[t] => s = t
    <3>1. \A s \in Listed : Rank(s) \in Int
      BY <1>4, <1>6
    <3> QED BY <1>8, <3>1
  <2>4. f \in Injection(Listed, N)
    BY <2>2, <2>3 DEF Injection, IsInjective
  <2>5. f \in Surjection(Listed, N)
    BY <2>1, <2>4, FS_Injection
  <2>6. \A i \in N : \E s \in Listed : f[s] = i
    BY <2>5 DEF Surjection
  <2> QED BY <1>4, <1>6, <2>6
<1> QED BY <1>3, <1>4, <1>6, <1>8, <1>9

\* SYS_GETPROCS with room for the whole table fills in every live process
\* once and nothing else.
LEMMA GetInfo ==
  ASSUME procs \in [Slots -> Process], user \in [Slots -> Program]
  PROVE  LET rows == process_get_info(MAX_ROWS)
         IN /\ rows \in Seq(Row)
            /\ {rows[i].pid : i \in DOMAIN rows} = Pids
            /\ \A i \in DOMAIN rows : \E s \in Slots :
                 /\ Live(s) /\ rows[i].pid = procs[s].pid
                 /\ rows[i].state = procs[s].state
<1> DEFINE Nth(i) == CHOOSE s \in Listed :
                       Cardinality({t \in Listed : t < s}) = i - 1
           count == Cardinality(Listed)
           rows == [i \in 1 .. count |->
                      [pid |-> procs[Nth(i)].pid, state |-> procs[Nth(i)].state,
                       name |-> user[Nth(i)].name]]
<1>1. count \in Nat /\ count <= MAX_ROWS
  BY Ranks, SessionAssumption, SchedAssumption
<1>2. process_get_info(MAX_ROWS) = rows
  <2>1. (IF Cardinality(Listed) < MAX_ROWS THEN Cardinality(Listed) ELSE MAX_ROWS)
          = count
    BY <1>1, SessionAssumption
  <2> QED BY <2>1 DEF process_get_info
<1>3. ASSUME NEW i \in 1 .. count
      PROVE  Nth(i) \in Listed /\ Rank(Nth(i)) = i - 1
  BY Ranks DEF Rank
<1>4. ASSUME NEW s \in Listed
      PROVE  Rank(s) + 1 \in 1 .. count /\ Nth(Rank(s) + 1) = s
  <2>1. Rank(s) + 1 \in 1 .. count /\ (Rank(s) + 1) - 1 = Rank(s)
    BY <1>1, Ranks
  <2>2. Nth(Rank(s) + 1) \in Listed /\ Rank(Nth(Rank(s) + 1)) = Rank(s)
    BY <1>3, <2>1
  <2> QED BY <2>1, <2>2, Ranks
<1> HIDE DEF Nth, count
<1>5. \A s \in Listed : s \in Slots /\ Live(s)
  BY DEF Listed
<1>6. rows \in Seq(Row)
  <2>1. ASSUME NEW i \in 1 .. count
        PROVE  [pid |-> procs[Nth(i)].pid, state |-> procs[Nth(i)].state,
                name |-> user[Nth(i)].name] \in Row
    <3>1. Nth(i) \in Slots
      BY <1>3, <1>5
    <3>2. procs[Nth(i)] \in Process /\ user[Nth(i)] \in Program
      BY <3>1
    <3>3. /\ procs[Nth(i)].pid \in Nat /\ procs[Nth(i)].state \in States
          /\ user[Nth(i)].name \in Names \union {"none"}
      BY <3>2 DEF Process, Program
    <3> QED BY <3>3 DEF Row
  <2>2. rows \in [1 .. count -> Row]
    BY <2>1
  <2> QED BY <1>1, <2>2
<1>7. DOMAIN rows = 1 .. count
  OBVIOUS
<1>8. \A i \in 1 .. count : /\ rows[i].pid = procs[Nth(i)].pid
                            /\ rows[i].state = procs[Nth(i)].state
  OBVIOUS
<1> HIDE DEF rows
<1>9. {rows[i].pid : i \in DOMAIN rows} = Pids
  <2>1. ASSUME NEW i \in DOMAIN rows PROVE rows[i].pid \in Pids
    BY <1>3, <1>5, <1>7, <1>8 DEF Pids
  <2>2. ASSUME NEW p \in Pids PROVE \E i \in DOMAIN rows : rows[i].pid = p
    <3>1. PICK s \in Listed : procs[s].pid = p
      BY DEF Pids, Listed
    <3> QED BY <1>4, <1>7, <1>8, <3>1
  <2> QED BY <2>1, <2>2
<1>10. \A i \in DOMAIN rows : \E s \in Slots :
         /\ Live(s) /\ rows[i].pid = procs[s].pid
         /\ rows[i].state = procs[s].state
  BY <1>3, <1>5, <1>7, <1>8
<1> QED BY <1>2, <1>6, <1>9, <1>10

\* top draws its table.
LEMMA DrawStep ==
  ASSUME SessionInv, Draw
  PROVE  ProgramInv'
<1>1. /\ current \in Slots /\ Live(current) /\ pc = "user"
      /\ Where(current) = "user" /\ user[current].at = "start"
  BY AtFacts DEF Draw
<1>2. UNCHANGED <<procs, current, next_pid, pc, frame>>
  BY DEF Draw, vars, tableVars, cpuVars
<1>3. procs \in [Slots -> Process] /\ user \in [Slots -> Program]
  BY DEF SessionInv, Inv, TypeOK
<1> DEFINE rows == process_get_info(MAX_ROWS)
<1>4. /\ rows \in Seq(Row)
      /\ {rows[i].pid : i \in DOMAIN rows} = Pids
      /\ \A i \in DOMAIN rows : \E s \in Slots :
           /\ Live(s) /\ rows[i].pid = procs[s].pid
           /\ rows[i].state = procs[s].state
  BY <1>3, GetInfo
<1>5. user' = [user EXCEPT ![current].at = "read", ![current].rows = rows]
  BY DEF Draw
<1> HIDE DEF rows
<1>6. /\ user'[current].at = "read" /\ user'[current].rows = rows
      /\ \A s \in Slots : s # current => user'[s] = user[s]
  BY <1>1, <1>3, <1>5 DEF Program
<1>7. user' \in [Slots -> Program]
  <2>1. [user[current] EXCEPT !.at = "read", !.rows = rows] \in Program
    BY <1>1, <1>3, <1>4 DEF Program
  <2> QED BY <1>1, <1>3, <1>5, <2>1
<1>8. SameProcesses
  BY <1>2 DEF SameProcesses, Live
<1>9. /\ Youngest(current)
      /\ \A t \in Slots : Live(t) /\ user[t].at # "spawned" => t = current
  BY <1>1, NotWaitingIsYoungest
<1>10. Chain'
  BY <1>6, <1>8, <1>9, ChainKept
<1>11. Blocked'
  <2>1. \A s \in Slots : Where(s)' = Where(s) /\ procs'[s] = procs[s]
    BY <1>2 DEF Where
  <2> QED BY <1>1, <1>6, <1>8, <2>1 DEF SessionInv, Blocked, SameProcesses, ReadPc, WaitPc
<1>12. NotRunYet'
  BY <1>1, <1>2, RunsNow
<1>13. Table'
  <2> SUFFICES ASSUME NEW s \in Slots, Live(s)', user'[s].at = "read"
               PROVE  /\ {user'[s].rows[i].pid : i \in DOMAIN user'[s].rows} = Pids'
                      /\ \A i \in DOMAIN user'[s].rows :
                           user'[s].rows[i].state = "RUNNING"
                             <=> user'[s].rows[i].pid = procs'[s].pid
    BY DEF Table
  <2>1. Live(s)
    BY <1>8 DEF SameProcesses
  <2>2. s = current
    BY <1>6, <1>9, <2>1
  <2>3. Pids' = Pids
    BY <1>8, SamePids
  <2>4. \A t \in Slots : Live(t) =>
          (procs[t].state = "RUNNING" <=> procs[t].pid = procs[current].pid)
    BY <1>1 DEF SessionInv, Inv, SingleRunner, PidsDiffer
  <2>5. \A i \in DOMAIN rows :
          rows[i].state = "RUNNING" <=> rows[i].pid = procs[current].pid
    BY <1>4, <2>4
  <2> QED BY <1>2, <1>4, <1>6, <2>2, <2>3, <2>5
<1> QED BY <1>7, <1>10, <1>11, <1>12, <1>13 DEF ProgramInv

-----------------------------------------------------------------------------
(* Birth and death                                                         *)

\* A new program.
LEMMA FreshType ==
  ASSUME NEW name \in Names \union {"none"}
  PROVE  /\ Fresh(name) \in Program /\ Fresh(name).at = "start"
         /\ [Fresh(name) EXCEPT !.at = "none"] \in Program
         /\ [Fresh(name) EXCEPT !.at = "none"].at = "none"
<1>1. << >> \in Seq(Chars) /\ << >> \in Seq(Row)
  OBVIOUS
<1> QED BY <1>1 DEF Fresh, Program

\* What process_create does to the table, and that Created names the slot.
LEMMA CreateCases ==
  ASSUME SessionInv, NEW name, process_create(name)
  PROVE  \/ UNCHANGED <<procs, next_pid>> /\ Created = {}
         \/ \E slot \in Slots :
              /\ name \in Files
              /\ ~Live(slot)
              /\ procs'[slot].pid = next_pid /\ procs'[slot].state = "READY"
              /\ procs'[slot].ret = "trampoline"
              /\ \A s \in Slots : s # slot => procs'[s] = procs[s]
              /\ next_pid' = next_pid + 1
              /\ Created = {slot}
<1>1. CASE UNCHANGED <<procs, next_pid>>
  BY <1>1 DEF Created
<1>2. CASE /\ name \in Files
           /\ \E slot \in Slots :
                /\ FirstDead(slot)
                /\ procs' = [procs EXCEPT ![slot] = NewProcess(name)]
           /\ next_pid' = next_pid + 1
  <2>1. PICK slot \in Slots :
          /\ ~Live(slot)
          /\ procs' = [procs EXCEPT ![slot] = NewProcess(name)]
    BY <1>2 DEF FirstDead
  <2>2. /\ procs'[slot].pid = next_pid /\ procs'[slot].state = "READY"
        /\ procs'[slot].ret = "trampoline"
    BY <2>1 DEF NewProcess, SessionInv, Inv, TypeOK
  <2>3. \A s \in Slots : s # slot => procs'[s] = procs[s]
    BY <2>1 DEF SessionInv, Inv, TypeOK
  <2>4. procs[slot].pid # next_pid
    BY DEF SessionInv, PidsOld, Inv, TypeOK, Process
  <2>5. Created = {slot}
    BY <2>2, <2>3, <2>4 DEF Created
  <2> QED BY <1>2, <2>1, <2>2, <2>3, <2>5
<1> QED BY <1>1, <1>2 DEF process_create

\* kmain creates the shell.
LEMMA BootStep ==
  ASSUME SessionInv, BootCreate, user' = Load(Shell)
  PROVE  ProgramInv'
<1>0. user \in [Slots -> Program] /\ NoProc \notin Slots
  BY SchedAssumption DEF SessionInv, NoProc, Slots
<1>1. /\ pc = "create" /\ pc' = "pit" /\ current = NoProc /\ current' = NoProc
      /\ process_create(Shell)
  BY DEF BootCreate, SessionInv, Inv, Started, Loc
<1>2. \A s \in Slots : ~Live(s)
  BY <1>1 DEF SessionInv, FirstPid, Loc, Inv, Contexts
<1>3. CASE UNCHANGED <<procs, next_pid>> /\ Created = {}
  <2>1. user' = user
    BY <1>0, <1>3 DEF Load
  <2>2. \A s \in Slots : ~Live(s)'
    BY <1>2, <1>3 DEF Live
  <2> QED BY <1>0, <2>1, <2>2 DEF ProgramInv, NotRunYet, Blocked, Chain, Table
<1>4. ASSUME NEW slot \in Slots,
             procs'[slot].ret = "trampoline",
             \A s \in Slots : s # slot => procs'[s] = procs[s],
             Created = {slot}
      PROVE  ProgramInv'
  <2>1. \A s \in Slots : user'[s] = IF s = slot THEN Fresh(Shell) ELSE user[s]
    BY <1>4 DEF Load
  <2>2. Fresh(Shell) \in Program /\ Fresh(Shell).at = "start"
    BY FreshType, SessionAssumption, SchedAssumption
  <2>3. user' \in [Slots -> Program]
    BY <1>0, <1>4, <2>2 DEF Load
  <2>4. \A s \in Slots : Live(s)' => s = slot
    BY <1>2, <1>4 DEF Live
  <2>5. NotRunYet'
    BY <1>4, <2>4 DEF NotRunYet
  <2>6. \A s \in Slots : s = slot => Where(s)' = "trampoline"
    BY <1>0, <1>1, <1>4 DEF Where
  <2>7. Blocked'
    BY <2>4, <2>6 DEF Blocked, ReadPc, WaitPc
  <2>8. Chain'
    <3>1. ~(procs'[slot].pid > procs'[slot].pid)
      <4>1. procs'[slot].pid \in Nat
        BY KernelSide DEF SessionNext, SessionKernelStep, Inv, TypeOK, Process
      <4> QED BY <4>1
    <3> QED BY <2>4, <3>1 DEF Chain
  <2>9. Table'
    BY <2>1, <2>2, <2>4 DEF Table
  <2> QED BY <2>3, <2>5, <2>7, <2>8, <2>9 DEF ProgramInv
<1> QED BY <1>1, <1>3, <1>4, CreateCases

\* The shell spawns a program, or is told that it cannot.
LEMMA SpawnStep ==
  ASSUME SessionInv, RunProgram
  PROVE  ProgramInv'
<1> DEFINE name == NameOf(Command)
<1>1. /\ current \in Slots /\ Live(current) /\ pc = "user"
      /\ Where(current) = "user" /\ user[current].at = "got"
      /\ user[current] \in Program
  BY AtFacts DEF RunProgram
<1>2. /\ user \in [Slots -> Program] /\ procs \in [Slots -> Process]
      /\ next_pid \in Nat
      /\ \A s \in Slots : procs[s].pid \in Nat
  BY DEF SessionInv, Inv, TypeOK, Process
<1>3. /\ process_create(name)
      /\ UNCHANGED <<current, pc, frame>>
      /\ name \in Names
      /\ user' = IF Created = {} THEN Again
                 ELSE [s \in Slots |-> IF s \in Created THEN Fresh(name)
                                       ELSE AfterSpawn(current)[s]]
  BY SessionAssumption DEF RunProgram, SysSpawn, cpuVars, NameOf
<1> HIDE DEF name
<1>4. NotRunYet'
  BY <1>1, <1>3, RunsNow
<1>5. /\ Youngest(current)
      /\ \A t \in Slots : Live(t) /\ user[t].at # "spawned" => t = current
  BY <1>1, NotWaitingIsYoungest
<1>6. CASE UNCHANGED <<procs, next_pid>> /\ Created = {}
  <2> DEFINE q == [user[current] EXCEPT !.at = "start", !.line = << >>]
  <2>1. q \in Program /\ q.at = "start"
    BY <1>1, ProgramGoes
  <2>2. user' = [user EXCEPT ![current] = q]
    BY <1>1, <1>2, <1>3, <1>6 DEF Again
  <2> HIDE DEF q
  <2>3. /\ user' \in [Slots -> Program] /\ user'[current] = q
        /\ \A s \in Slots : s # current => user'[s] = user[s]
    BY <1>1, <1>2, <2>1, <2>2
  <2>4. SameProcesses
    BY <1>3, <1>6 DEF SameProcesses, Live
  <2>5. /\ \A s \in Slots : Where(s)' = Where(s) /\ procs'[s].ebx = procs[s].ebx
        /\ \A s \in Slots : s = current => Where(s)' = "user"
    BY <1>1, <1>3, <1>6 DEF Where
  <2> QED BY <1>1, <1>4, <1>5, <2>1, <2>3, <2>4, <2>5, CurrentMoves
          DEF ReadPc, WaitPc
<1>7. ASSUME NEW slot \in Slots,
             ~Live(slot),
             procs'[slot].pid = next_pid, procs'[slot].state = "READY",
             procs'[slot].ret = "trampoline",
             \A s \in Slots : s # slot => procs'[s] = procs[s],
             next_pid' = next_pid + 1,
             Created = {slot}
      PROVE  ProgramInv'
  <2>0. slot # current
    BY <1>1, <1>7
  <2> DEFINE q == [user[current] EXCEPT !.at = "spawned", !.line = << >>,
                                        !.pid = next_pid]
  <2>1. q \in Program /\ q.at = "spawned" /\ q.pid = next_pid
    <3>1. << >> \in Seq(Chars)
      OBVIOUS
    <3> QED BY <1>1, <1>2, <3>1 DEF Program
  <2>2. AfterSpawn(current) = [user EXCEPT ![current] = q]
    BY <1>1, <1>2 DEF AfterSpawn, Again, Program
  <2> HIDE DEF q
  <2>3. user' = [s \in Slots |-> IF s = slot THEN Fresh(name)
                                 ELSE [user EXCEPT ![current] = q][s]]
    BY <1>3, <1>7, <2>2
  <2>4. Fresh(name) \in Program /\ Fresh(name).at = "start"
    BY <1>3, FreshType
  <2>5. /\ user'[slot].at = "start" /\ user'[current] = q
        /\ \A s \in Slots : s # slot /\ s # current => user'[s] = user[s]
    BY <1>1, <1>2, <2>0, <2>3, <2>4
  <2>6. user' \in [Slots -> Program]
    BY <1>1, <1>2, <2>1, <2>3, <2>4
  <2>7. \A s \in Slots : s # slot => (Live(s)' <=> Live(s))
    BY <1>7 DEF Live
  <2>8. /\ \A s \in Slots : s # slot => Where(s)' = Where(s)
        /\ \A s \in Slots : s = slot => Where(s)' = "trampoline"
        /\ \A s \in Slots : s = current => Where(s)' = "user"
    BY <1>1, <1>3, <1>7, <2>0 DEF Where
  <2>9. Blocked'
    <3> SUFFICES ASSUME NEW s \in Slots, Live(s)'
                 PROVE  /\ Where(s)' \in ReadPc => user'[s].at = "read"
                        /\ Where(s)' \in WaitPc =>
                             user'[s].at = "spawned" /\ procs'[s].ebx = user'[s].pid
      BY DEF Blocked
    <3>1. CASE s = slot \/ s = current
      BY <2>8, <3>1 DEF ReadPc, WaitPc
    <3>2. CASE s # slot /\ s # current
      BY <1>7, <2>5, <2>7, <2>8, <3>2 DEF SessionInv, Blocked
    <3> QED BY <3>1, <3>2
  <2>10. Chain'
    <3> SUFFICES ASSUME NEW s \in Slots, NEW t \in Slots, Live(s)', Live(t)',
                        procs'[t].pid > procs'[s].pid
                 PROVE  /\ user'[s].at = "spawned"
                        /\ user'[s].pid > procs'[s].pid /\ user'[s].pid <= procs'[t].pid
                        /\ \E u \in Slots : Live(u)' /\ procs'[u].pid = user'[s].pid
      BY DEF Chain
    <3>0. \A u \in Slots : procs[u].pid < next_pid
      BY DEF SessionInv, PidsOld
    <3>1. s # slot
      BY <1>2, <1>7, <3>0
    <3>2. Live(s) /\ procs'[s] = procs[s]
      BY <1>7, <2>7, <3>1
    <3>3. CASE s = current
      <4>1. t = slot
        BY <1>2, <1>5, <1>7, <2>7, <3>2, <3>3 DEF Youngest
      <4>2. Live(slot)'
        BY <4>1
      <4>3. user'[s].at = "spawned" /\ user'[s].pid = next_pid
        BY <2>1, <2>5, <3>3
      <4>4. procs[s].pid < next_pid
        BY <3>0
      <4> QED BY <1>2, <1>7, <3>2, <4>1, <4>2, <4>3, <4>4
    <3>4. CASE s # current
      \* What s waited for it still waits for: the shell is younger than s.
      <4>0. user'[s] = user[s]
        BY <2>5, <3>1, <3>4
      <4>1. procs[current].pid > procs[s].pid
        BY <1>1, <1>2, <1>5, <3>2, <3>4 DEF Youngest, SessionInv, Inv, PidsDiffer
      <4>2. /\ user[s].at = "spawned"
            /\ user[s].pid > procs[s].pid /\ user[s].pid <= procs[current].pid
            /\ \E u \in Slots : Live(u) /\ procs[u].pid = user[s].pid
        BY <1>1, <3>2, <4>1 DEF SessionInv, Chain
      <4>3. user[s].pid <= procs'[t].pid
        <5>1. CASE t = slot
          <6>1. procs[current].pid < next_pid /\ user[s].pid \in Nat
            BY <1>1, <1>2, <3>0 DEF Program
          <6> QED BY <1>1, <1>2, <1>7, <4>2, <5>1, <6>1
        <5>2. CASE t # slot
          BY <1>7, <2>7, <3>2, <5>2 DEF SessionInv, Chain
        <5> QED BY <5>1, <5>2
      <4>4. \E u \in Slots : Live(u)' /\ procs'[u].pid = user'[s].pid
        BY <1>7, <2>7, <4>0, <4>2
      <4> QED BY <3>2, <4>0, <4>2, <4>3, <4>4
    <3> QED BY <3>3, <3>4
  \* Nobody else is at its read, so no table of top's is on the screen.
  <2>11. Table'
    <3> SUFFICES ASSUME NEW s \in Slots, Live(s)', user'[s].at = "read"
                 PROVE  FALSE
      BY DEF Table
    <3>1. s # slot /\ s # current
      BY <2>1, <2>5
    <3> QED BY <1>5, <2>5, <2>7, <3>1
  <2> QED BY <1>4, <2>6, <2>9, <2>10, <2>11 DEF ProgramInv
<1> QED BY <1>3, <1>6, <1>7, CreateCases

\* A program ends.
LEMMA ExitStep ==
  ASSUME SessionInv, ProgramExit
  PROVE  ProgramInv'
<1>1. /\ current \in Slots /\ Live(current) /\ user[current].at = "exit"
  BY AtFacts DEF ProgramExit
<1>2. /\ user \in [Slots -> Program] /\ procs \in [Slots -> Process]
      /\ \A s \in Slots : procs[s].pid \in Nat
  BY DEF SessionInv, Inv, TypeOK, Process
<1> DEFINE gone == [Fresh("none") EXCEPT !.at = "none"]
<1>3. SysExit /\ user' = [user EXCEPT ![current] = gone]
  BY DEF ProgramExit
<1>4. gone \in Program
  BY FreshType
<1> HIDE DEF gone
<1>5. /\ user' \in [Slots -> Program]
      /\ \A s \in Slots : s # current => user'[s] = user[s]
  BY <1>1, <1>2, <1>3, <1>4
<1>6. OneEnded
  BY <1>3, ExitEnds DEF SessionInv
<1>7. \A s \in Slots : Live(s)' => s # current /\ Live(s) /\ procs'[s].pid = procs[s].pid
  BY <1>6 DEF OneEnded, Live
<1> DEFINE ps == [procs EXCEPT ![current].state = "DEAD"]
<1>8. /\ ps \in [Slots -> Process] /\ ps[current].state = "DEAD"
      /\ \A s \in Slots : s # current => ps[s] = procs[s]
  BY <1>1, <1>2 DEF Process, States
<1>9. schedule(ps, "exit", FALSE)
  BY <1>3 DEF SysExit, GateFlag
<1> HIDE DEF ps
<1>10. /\ current' \in Slots
       /\ pc' \notin BootPc \union HaltPc \union {"user", "irq"}
       /\ \A s \in Slots :
            /\ Where(s)' = IF s = current THEN "exit" ELSE Where(s)
            /\ procs'[s].ebx = ps[s].ebx
  BY <1>1, <1>8, <1>9, ScheduleWhere DEF SessionInv, Resume
<1>11. NotRunYet'
  BY <1>10, RunsNow DEF BootPc
<1>12. Blocked'
  BY <1>5, <1>7, <1>8, <1>10 DEF SessionInv, Blocked
<1>13. /\ Youngest(current)
       /\ \A t \in Slots : Live(t) /\ user[t].at # "spawned" => t = current
  BY <1>1, NotWaitingIsYoungest
<1>14. Chain'
  <2> SUFFICES ASSUME NEW s \in Slots, NEW t \in Slots, Live(s)', Live(t)',
                      procs'[t].pid > procs'[s].pid
               PROVE  /\ user'[s].at = "spawned"
                      /\ user'[s].pid > procs'[s].pid /\ user'[s].pid <= procs'[t].pid
                      /\ \E u \in Slots : Live(u)' /\ procs'[u].pid = user'[s].pid
    BY DEF Chain
  <2>1. /\ s # current /\ t # current /\ Live(s) /\ Live(t)
        /\ procs'[s].pid = procs[s].pid /\ procs'[t].pid = procs[t].pid
        /\ user'[s] = user[s]
    BY <1>5, <1>7
  <2>2. /\ user[s].at = "spawned"
        /\ user[s].pid > procs[s].pid /\ user[s].pid <= procs[t].pid
    BY <2>1 DEF SessionInv, Chain
  <2>3. PICK u \in Slots : Live(u) /\ procs[u].pid = user[s].pid
    BY <2>1 DEF SessionInv, Chain
  \* s does not wait for the one that ends: t would be as young.
  <2>4. u # current
    <3> SUFFICES ASSUME u = current PROVE FALSE
      OBVIOUS
    <3>1. procs[current].pid <= procs[t].pid /\ procs[t].pid <= procs[current].pid
      BY <1>13, <2>1, <2>2, <2>3 DEF Youngest
    <3>2. procs[current].pid = procs[t].pid
      BY <1>1, <1>2, <3>1
    <3> QED BY <1>1, <2>1, <3>2 DEF SessionInv, Inv, PidsDiffer
  <2>5. Live(u)' /\ procs'[u].pid = procs[u].pid
    BY <1>6, <2>3, <2>4 DEF OneEnded
  <2> QED BY <2>1, <2>2, <2>3, <2>5
<1>15. Table'
  BY <1>5, <1>7, <1>13 DEF Table
<1> QED BY <1>5, <1>11, <1>12, <1>14, <1>15 DEF ProgramInv

-----------------------------------------------------------------------------
(* The theorems                                                            *)

\* The invariant holds when kmain comes to create the shell.
LEMMA SessionInitInv == SessionInit => SessionInv
<1> SUFFICES ASSUME SessionInit PROVE SessionInv
  OBVIOUS
<1>1. Inv
  BY InitInv DEF SessionInit
<1>2. \A s \in Slots : ~Live(s) /\ procs[s].pid = 0
  BY DEF SessionInit, Init, process_init, Live
<1>3. next_pid = 1
  BY DEF SessionInit, Init, process_init
<1>4. user \in [Slots -> Program]
  BY FreshType DEF SessionInit
<1>5. FirstPid /\ PidsOld
  BY <1>2, <1>3 DEF FirstPid, PidsOld
<1> QED BY <1>1, <1>2, <1>4, <1>5
        DEF SessionInv, NotRunYet, Blocked, Chain, Table

\* SessionInv is inductive.
LEMMA SessionNextInv ==
  ASSUME SessionInv, [SessionNext]_sessionVars
  PROVE  SessionInv'
<1>1. Inv' /\ FirstPid' /\ (SameProcesses \/ OneBorn \/ OneEnded)
  BY KernelSide
<1>2. PidsOld'
  BY <1>1, PidsOldNext
<1>3. ASSUME UNCHANGED user,
             \/ BootPit \/ scheduler_start \/ jump_to_process \/ ReturnToUser
             \/ Interrupt
             \/ \E n \in {TIMER, KEYBOARD} : DeviceRaises(n)
             \/ UNCHANGED vars
      PROVE  ProgramInv'
  <2>1. SameProcesses
    BY <1>3, OthersKeep DEF SessionInv
  <2> QED BY <1>3, <2>1, QuietSteps
<1>4. ASSUME Read \/ ((ReadResumed \/ ReadWoken) /\ user' = AfterRead)
      PROVE  ProgramInv'
  <2>1. SameProcesses
    BY <1>4, OthersKeep DEF SessionInv, Read
  <2> QED BY <1>4, <2>1, ReadSteps
<1>5. ASSUME Wait \/ ((WaitResumed \/ WaitWoken) /\ user' = AfterWait)
      PROVE  ProgramInv'
  <2>1. CASE Wait
    <3>1. user[current].pid \in Nat
      BY <2>1, AtFacts DEF Wait, Program
    <3>2. SameProcesses
      BY <2>1, <3>1, SysWaitKeeps DEF SessionInv, Wait
    <3> QED BY <2>1, <3>2, WaitSteps
  <2>2. CASE (WaitResumed \/ WaitWoken) /\ user' = AfterWait
    <3>1. SameProcesses
      BY <2>2, OthersKeep DEF SessionInv
    <3> QED BY <2>2, <3>1, WaitSteps
  <2> QED BY <1>5, <2>1, <2>2
<1>6. SUFFICES ProgramInv'
  BY <1>1, <1>2 DEF SessionInv, ProgramInv
<1>7. CASE SessionKernelStep
  BY <1>3, <1>4, <1>5, <1>7, BootStep DEF SessionKernelStep
<1>8. CASE UserStep
  BY <1>4, <1>5, <1>8, LocalSteps, DrawStep, SpawnStep, ExitStep DEF UserStep
<1>9. CASE SessionInterrupt
  BY <1>3, <1>9 DEF SessionInterrupt
<1>10. CASE \E n \in {TIMER, KEYBOARD} : SessionDevice(n)
  BY <1>3, <1>10 DEF SessionDevice
<1>11. CASE UNCHANGED sessionVars
  BY <1>3, <1>11 DEF sessionVars
<1> QED BY <1>7, <1>8, <1>9, <1>10, <1>11 DEF SessionNext

\* The invariant of a session holds in every reachable state.
THEOREM SessionInvariance == SessionSafe => []SessionInv
<1>1. SessionInv /\ [SessionNext]_sessionVars => SessionInv'
  BY SessionNextInv
<1> QED BY <1>1, SessionInitInv, PTL DEF SessionSafe

\* The waits of the processes form one chain, and only its end, the youngest
\* process, reads the keyboard.
THEOREM OneForegroundHolds == SessionSafe => []OneForeground
<1>1. SessionInv => OneForeground
  BY ChainForeground DEF SessionInv, Inv, TypeOK
<1> QED BY <1>1, SessionInvariance, PTL

\* The table that top shows stays true while top waits for its answer.
THEOREM TableTrueHolds == SessionSafe => []TableTrue
<1>1. SessionInv => TableTrue
  BY DEF SessionInv, Table, TableTrue
<1> QED BY <1>1, SessionInvariance, PTL
=============================================================================
