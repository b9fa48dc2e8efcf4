---------------------------- MODULE KernelEntry -----------------------------
(***************************************************************************)
(* Entering and leaving the kernel, word by word: descriptors, gates, the  *)
(* CPU's stack frames, the assembly stubs, switch_context and the first    *)
(* frame of a process.  A kernel stack is a sequence of words, its top     *)
(* last; a word is a pair of what it is and its value.  C frames between   *)
(* the assembly parts come and go in pairs and are left out, as is what    *)
(* the dispatched code does but for switching, halting, exit and spawn.    *)
(* The CPU's side (lgdt, int, iret) is external.                           *)
(***************************************************************************)
EXTENDS Integers, Sequences, FiniteSets

CONSTANTS Procs,     \* kernel stacks, one per slot
          Vectors,   \* the vectors that software interrupts and faults use
          TssBases   \* addresses of the TSS, as <<high half, low half>>

\* A half of a 32-bit word.
Halves == 0 .. 65535

ASSUME KernelEntryAssumption ==
  /\ Vectors \subseteq 0 .. 255
  /\ TssBases \subseteq Halves \X Halves

VARIABLES stack,     \* each process's kernel stack
          alive,     \* the processes that can run
          cur, esp0, \* whose stack is in use, and whose the TSS names
          cs, ds, IF_flag,
          at,        \* what the CPU is executing
          vec,       \* the vector it entered by
          tss_base

vars == <<stack, alive, cur, esp0, cs, ds, IF_flag, at, vec, tss_base>>

Pop(s, n) == SubSeq(s, 1, Len(s) - n)

\* The n-th word from the top, counted from 1.
Word(s, n) == s[Len(s) - n + 1]

-----------------------------------------------------------------------------
(* Descriptors and gates                                                   *)

KERNEL_CODE == 8
KERNEL_DATA == 16
USER_CODE   == 27  \* 0x18 with RPL 3
USER_DATA   == 35  \* 0x20 with RPL 3
Null        == 0

TSS_SIZE == 104

\* base and limit are 32-bit words in two halves.
gdt_set_gate(base, limit, access, gran) ==
  [base_low |-> base[2], base_middle |-> base[1] % 256,
   base_high |-> base[1] \div 256,
   limit_low |-> limit[2], granularity |-> (limit[1] % 16) + 16 * (gran \div 16),
   access |-> access]

Flat == <<65535, 65535>>

gdt == [n \in 0 .. 5 |->
  CASE n = 0 -> gdt_set_gate(<<0, 0>>, <<0, 0>>, 0, 0)
    [] n = 1 -> gdt_set_gate(<<0, 0>>, Flat, 154, 207)
    [] n = 2 -> gdt_set_gate(<<0, 0>>, Flat, 146, 207)
    [] n = 3 -> gdt_set_gate(<<0, 0>>, Flat, 250, 207)
    [] n = 4 -> gdt_set_gate(<<0, 0>>, Flat, 242, 207)
    [] n = 5 -> gdt_set_gate(tss_base, <<0, TSS_SIZE - 1>>, 137, 0)]

\* External: how the CPU reads a descriptor, an attribute byte, a selector.
BaseOf(d)  == <<d.base_high * 256 + d.base_middle, d.base_low>>
LimitOf(d) == <<d.granularity % 16, d.limit_low>>
Dpl(attr)  == (attr \div 32) % 4
Present(attr) == attr >= 128
Rpl(sel)   == sel % 4
DataDpl(sel) == Dpl(gdt[sel \div 8].access)

\* Faulty variant: every gate may be used from ring 3.
type_attrFaulty(v) == IF v \in 0 .. 47 \union {128} THEN 238 ELSE 0

\* The attribute byte of each gate; the other entries stay zero.
type_attr(v) == IF v = 128 THEN 238 ELSE IF v \in 0 .. 47 THEN 142 ELSE 0

\* The vectors whose stub expects an error code; the others push a zero.
error_code_interrupt == {8, 10, 11, 12, 13, 14, 17}

-----------------------------------------------------------------------------
(* External: the CPU                                                       *)

PushesErrorCode == {8, 10, 11, 12, 13, 14, 17}

Eflags == 2 + (IF IF_flag THEN 512 ELSE 0)

HasIf(eflags) == (eflags \div 512) % 2 = 1

\* An interrupt ends a hlt: it returns to the instruction behind it.
Interrupted ==
  <<<<"eflags", Eflags>>, <<"cs", cs>>,
    <<"eip", IF at = "hlt" THEN "cli" ELSE at>>>>

\* From ring 3 the CPU loads the stack the TSS names, whatever is on it.
Enter(v, code) ==
  LET to   == IF Rpl(cs) = 3 THEN esp0 ELSE cur
      from == IF Rpl(cs) = 3 THEN <<<<"ss", USER_DATA>>, <<"esp", 0>>>>
              ELSE stack[cur]
  IN /\ stack' = [stack EXCEPT ![to] = from \o Interrupted \o code]
     /\ cs' = KERNEL_CODE
     /\ IF_flag' = (IF_flag /\ type_attr(v) % 16 = 15)
     /\ at' = IF v = 128 THEN "syscall_handler" ELSE "stub"
     /\ vec' = v
     /\ UNCHANGED <<alive, cur, esp0, ds, tss_base>>

\* iret from the stack s; a data segment that ring 3 may not use is nulled.
Iret(s, data) ==
  LET ring == Rpl(Word(s, 2)[2]) IN
  /\ stack' = [stack EXCEPT ![cur] = Pop(s, IF ring = 3 THEN 5 ELSE 3)]
  /\ cs' = Word(s, 2)[2]
  /\ IF_flag' = HasIf(Word(s, 3)[2])
  /\ at' = Word(s, 1)[2]
  /\ ds' = IF ring = 3 /\ DataDpl(data) < 3 THEN Null ELSE data
  /\ UNCHANGED <<alive, cur, esp0, vec, tss_base>>

IretFrame(s) ==
  /\ Len(s) >= 3
  /\ Word(s, 1)[1] = "eip" /\ Word(s, 2)[1] = "cs" /\ Word(s, 3)[1] = "eflags"
  /\ Rpl(Word(s, 2)[2]) = 3 =>
       Len(s) = 5 /\ Word(s, 4)[1] = "esp" /\ Word(s, 5)[1] = "ss"

-----------------------------------------------------------------------------
(* What brings the CPU into the kernel                                     *)

Irq(v) == IF_flag /\ Enter(v, << >>)

\* int n: a gate that ring 3 may not use raises a general protection fault.
SoftwareInterrupt(n) ==
  /\ at = "user"
  /\ IF Present(type_attr(n)) /\ Dpl(type_attr(n)) = 3 THEN Enter(n, << >>)
     ELSE Enter(13, <<<<"code", n>>>>)

Fault(v) ==
  /\ at = "user"
  /\ Enter(v, IF v \in PushesErrorCode THEN <<<<"code", 0>>>> ELSE << >>)

-----------------------------------------------------------------------------
(* The common stub                                                         *)

Registers == <<<<"eax", 0>>, <<"ebx", 0>>, <<"ecx", 0>>, <<"edx", 0>>,
               <<"esi", 0>>, <<"edi", 0>>, <<"ebp", 0>>>>

Push(words) == stack' = [stack EXCEPT ![cur] = @ \o words]

common_interrupt_handler ==
  /\ at = "stub"
  /\ Push((IF vec \in error_code_interrupt THEN << >> ELSE <<<<"code", 0>>>>)
            \o <<<<"int_no", vec>>>> \o Registers)
  /\ at' = "interrupt_handler"
  /\ UNCHANGED <<alive, cur, esp0, cs, ds, IF_flag, vec, tss_base>>

\* switch_context's frame; popfd finds IF clear in it.
SwitchFrame(ret, eflags) ==
  <<<<"ret", ret>>, <<"ebp", 0>>, <<"ebx", 0>>, <<"esi", 0>>, <<"edi", 0>>,
    <<"eflags", eflags>>>>

\* Faulty variant: schedule does not set the TSS.
tss_set_kernel_stackFaulty(p) == esp0' = esp0

tss_set_kernel_stack(p) == esp0' = p

\* schedule: to another process, whose frame says where it goes on.
switch_context(p, ret, others) ==
  /\ p \in others
  /\ stack' = [stack EXCEPT ![cur] = @ \o SwitchFrame(ret, Eflags),
                            ![p] = Pop(@, 6)]
  /\ IF_flag' = HasIf(Word(stack[p], 1)[2])
  /\ at' = Word(stack[p], 6)[2]
  /\ cur' = p
  /\ tss_set_kernel_stack(p)
  /\ UNCHANGED <<cs, ds, vec, tss_base>>

\* The C handler reads its arguments where the stub left them.
int_no   == Word(stack[cur], 8)
stack_cs == Word(stack[cur], 11)

interrupt_handler ==
  /\ at = "interrupt_handler"
  /\ \/ /\ int_no[2] = 32 /\ Rpl(stack_cs[2]) = 3
        /\ \E p \in Procs : switch_context(p, "return", alive \ {cur})
        /\ UNCHANGED alive
     \/ /\ int_no[2] = 32 /\ Rpl(stack_cs[2]) = 3 => alive = {cur}
        /\ at' = "return"
        /\ UNCHANGED <<stack, alive, cur, esp0, cs, ds, IF_flag, vec, tss_base>>

\* Seven registers, the interrupt number and the error code.
ReturnWords == 9

ReturnFromInterrupt ==
  /\ at = "return"
  /\ Iret(Pop(stack[cur], ReturnWords), ds)

-----------------------------------------------------------------------------
(* int 0x80                                                                *)

syscall_handler_128 ==
  /\ at = "syscall_handler"
  /\ Push(Registers \o <<<<"arg", 0>>>>)
  /\ at' = "dispatch"
  /\ UNCHANGED <<alive, cur, esp0, cs, ds, IF_flag, vec, tss_base>>

\* A system call yields, and may later look again; or it waits for an
\* interrupt in sti; hlt; cli.
DispatchSwitch ==
  /\ at = "dispatch"
  /\ \E p \in Procs : switch_context(p, "dispatch", alive \ {cur})
  /\ UNCHANGED alive

DispatchHalt ==
  /\ \/ at = "dispatch" /\ at' = "hlt" /\ IF_flag' = TRUE
     \/ at = "cli" /\ at' = "dispatch" /\ IF_flag' = FALSE
  /\ UNCHANGED <<stack, alive, cur, esp0, cs, ds, vec, tss_base>>

DispatchExit ==
  /\ at = "dispatch"
  /\ alive' = alive \ {cur}
  /\ \/ \E p \in Procs : switch_context(p, "never", alive \ {cur})
     \/ /\ alive = {cur}
        /\ at' = "stopped"
        /\ UNCHANGED <<stack, cur, esp0, cs, ds, IF_flag, vec, tss_base>>

ReturnFromSyscall ==
  /\ at = "dispatch"
  /\ Iret(Pop(stack[cur], 8), ds)

-----------------------------------------------------------------------------
(* A new process                                                           *)

\* What process_create leaves on the new kernel stack.
FirstFrame ==
  <<<<"ss", USER_DATA>>, <<"esp", 0>>, <<"eflags", 514>>, <<"cs", USER_CODE>>,
    <<"eip", "user">>>> \o SwitchFrame("process_start_trampoline", 2)

DispatchSpawn ==
  /\ at = "dispatch"
  /\ \E p \in Procs \ (alive \union {cur}) :
       /\ alive' = alive \union {p}
       /\ stack' = [stack EXCEPT ![p] = FirstFrame]
  /\ UNCHANGED <<cur, esp0, cs, ds, IF_flag, at, vec, tss_base>>

\* Faulty variant: the kernel's data segments are kept.
TrampolineDataFaulty == ds

TrampolineData == USER_DATA

process_start_trampoline ==
  /\ at = "process_start_trampoline"
  /\ Iret(stack[cur], TrampolineData)

\* scheduler_start and jump_to_process: the frame of the first process is
\* popped, with the segments gdt_load loaded.
Init ==
  /\ \E p \in Procs :
       /\ alive = {p} /\ cur = p /\ esp0 = p
       /\ stack = [q \in Procs |-> IF q = p THEN Pop(FirstFrame, 6) ELSE << >>]
  /\ cs = KERNEL_CODE /\ ds = KERNEL_DATA
  /\ IF_flag = FALSE
  /\ at = "process_start_trampoline"
  /\ vec = 0
  /\ tss_base \in TssBases

Stopped == at = "stopped" /\ UNCHANGED vars

Next ==
  \/ \E v \in {32, 33} : Irq(v)
  \/ \E n \in Vectors : SoftwareInterrupt(n)
  \/ \E v \in Vectors \intersect (0 .. 19) : Fault(v)
  \/ common_interrupt_handler \/ interrupt_handler \/ ReturnFromInterrupt
  \/ syscall_handler_128 \/ DispatchSwitch \/ DispatchHalt \/ DispatchExit
  \/ DispatchSpawn \/ ReturnFromSyscall \/ process_start_trampoline
  \/ Stopped

Spec == Init /\ [][Next]_vars

-----------------------------------------------------------------------------
\* Words a kernel stack holds at most: a system call that is waiting in hlt,
\* and one interrupt inside it.
MaxWords == 5 + 8 + 3 + 9

\* interrupt_handler finds the vector, the error code and the interrupted CS
\* where its parameters lie, for every vector and from both rings: the test
\* for preemption looks at the CS that was interrupted.
HandlerArguments ==
  at = "interrupt_handler" =>
    /\ int_no = <<"int_no", vec>>
    /\ Word(stack[cur], 9)[1] = "code"
    /\ IretFrame(Pop(stack[cur], 9))

\* Whatever was pushed, switched and popped, iret finds the frame the CPU or
\* process_create left.
Balanced ==
  /\ at = "return" => IretFrame(Pop(stack[cur], ReturnWords))
  /\ at = "dispatch" => IretFrame(Pop(stack[cur], 8))
  /\ at = "process_start_trampoline" => IretFrame(stack[cur])

\* Both ways through the stubs agree on what lies where on the stack: the C
\* handler finds its arguments and every iret its frame, for vectors with and
\* without an error code, from both rings and across switches.
FramesMatch == HandlerArguments /\ Balanced

\* While a process runs in ring 3 its kernel stack is empty and is the one
\* the CPU will enter on; every other live process has a whole frame of
\* switch_context on top of its stack.  So an entry overwrites no frame.  And
\* interrupts nest no deeper than one, because every gate clears IF and only
\* hlt sets it inside the kernel: a stack of one page is enough.
StackDiscipline ==
  /\ at = "user" => stack[cur] = << >> /\ esp0 = cur
  /\ \A p \in alive \ {cur} :
       /\ Len(stack[p]) > 6
       /\ Word(stack[p], 6)[1] = "ret"
       /\ ~HasIf(Word(stack[p], 1)[2])
  /\ \A p \in Procs : Len(stack[p]) <= MaxWords

\* Ring 3 always runs with its own code and data segments and with interrupts
\* on; iret nulls no segment.
UserSegments ==
  at = "user" => cs = USER_CODE /\ ds = USER_DATA /\ IF_flag

\* The CPU reads back from the table the base and limit the TSS has, and flat
\* segments with the privilege each selector claims.
DescriptorsDecode ==
  /\ BaseOf(gdt[5]) = tss_base
  /\ LimitOf(gdt[5]) = <<0, TSS_SIZE - 1>>
  /\ \A sel \in {KERNEL_CODE, KERNEL_DATA, USER_CODE, USER_DATA} :
       LET d == gdt[sel \div 8] IN
       /\ BaseOf(d) = <<0, 0>> /\ LimitOf(d) = <<15, 65535>>
       /\ Present(d.access) /\ Dpl(d.access) = Rpl(sel)

\* Privilege levels agree between the encoded descriptors, the selectors the
\* kernel loads and the ring that runs: no return to ring 3 loses a segment.
Segments == UserSegments /\ DescriptorsDecode
=============================================================================
