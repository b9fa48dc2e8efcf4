# A TLA+ development of the kernel

This directory models and verifies the kernel in `src/` and its programs: a
32-bit x86 teaching kernel with preemptive processes, a page frame allocator,
per process page directories, a heap, a keyboard line discipline, a text screen
and a read-only file system. Paths below are relative to the repository (`src/process.c` and so on).
`PROJECT.json` gives, for every definition that models code, the lines it
stands for.

## 1. Inventory

One CPU; no locks. The kernel's concurrency is that of interrupts: two IRQ
lines (PIT tick, keyboard) interrupt user code, the boot code and the two
places where a system call halts with interrupts on.

| Part | State | Operations | Interacts with | What makes it correct |
|---|---|---|---|---|
| Process table, scheduler (`process.c`, `context_switch.s`) | `procs`, `current`, `next_pid`, saved contexts | `process_init`, `process_create`, `process_is_alive`, `schedule`, `scheduler_start`, `switch_context`, `jump_to_process` | frames, paging, TSS, CR3; called by system calls and ticks | one RUNNING process, the current one; its own CR3 and TSS; no live slot overwritten; pids never reused; nobody starves |
| System calls (`syscall.c`, `syscall_handler.s`) | the path in progress on each kernel stack | exit, yield, spawn, read, wait; write, clear, getprocs, listfiles | scheduler, keyboard, screen, file system | no lost wakeup; the machine halts only when everybody has exited |
| Interrupt path (`idt.c`, `interrupt_handlers.s`) | IF, interrupt frame | gate entry, `interrupt_handler`, `iret` | keyboard, PIC, scheduler | kernel paths are not interrupted; EOI before `schedule` |
| PIC and PIT (`pic.c`, `pit.c`) | request, in-service, mask registers | `pic_remap`, `pic_acknowledge`, `pit_init` | CPU | no line stays in service |
| Keyboard (`keyboard.c`) | `kb_line_buf`, `kb_line_len`, `kb_line_complete` | `keyboard_handler`, `keyboard_has_line`, `keyboard_read_line` | IRQ1, SYS_READ, screen echo | no overflow; a completed line is frozen until read, and is read |
| Page frame allocator (`pfa.c`) | `frame_bitmap`, `used_frame_count` | `pfa_init`, `pfa_alloc`, `pfa_free`, contiguous variants, `pfa_reserve` | boot report; used by paging, processes, heap | one owner per frame; only usable memory; exact count; nothing lost |
| Paging (`paging4k.c`, `paging.s`) | directories and tables in frames | `paging_create_kernel_dir`, `paging_map_4k` | written through the directory that CR3 names | isolation; the kernel finds its frames under every directory |
| Kernel heap (`kheap.c`) | circular free list, `freep` | `kheap_init`, `kmalloc`, `morecore`, `kfree` | contiguous frames; the kernel itself only calls `kheap_init` | blocks disjoint and large enough, list ordered and coalesced, nothing lost, every call returns |
| SOFS (`fs.c`, `tools/mkfs.py`) | read-only image | `build_fs`; `fs_init`, `fs_find`, `fs_file_data`, `fs_list` | spawn, ls | what was packed is found; a listing stays in its buffer |
| Framebuffer (`fb.c`) | cells, `fb_cursor`, the VGA's cursor registers | `fb_write`, `fb_clear`, scrolling | kernel output, SYS_WRITE, SYS_CLEAR and the keyboard's echo | cursor within the screen; a scrolling terminal; the echo is the line |
| Boot (`loader.s`, `kmain.c`) | - | straight-line initialisation, with interrupts on from `idt_init` | everything | order of initialisation, error halts |
| GDT and TSS (`gdt.c`, `gdt.s`, `tss.c`) | descriptors, `esp0` | `gdt_init`, `gdt_set_gate`, `tss_set_kernel_stack` | every entry into the kernel | the CPU decodes what was encoded; entries use the right stack |
| Programs (`programs/`) | per process: where it is, the line it read, its child | shell: read, spawn, wait; top; hello | system calls | a prompt comes back; one process reads at a time |
| Serial, port I/O, `kutil.c` | - | polled output; `memset` and the like | - | - |

Hard behaviours: a tick that switches away in the middle of a process's life
and comes back through another process's system call; boot code that runs with
interrupts on up to `jump_to_process`; the window `sti; hlt; cli`; slot reuse;
allocations that fail half way through `process_create`; page tables written
through whatever directory is loaded; rounding and truncation in the memory
map; a keyboard echo in the middle of `kmain`'s `fb_write`; stubs that must
agree with the CPU on seven vectors; a free list that is walked from wherever
the last call left it; spawn and wait as two calls with a preemption between. `PROJECT.json` lists each one as a hazard with its line.

## 2. Modules

| Module | Models |
|---|---|
| `Keyboard` | the line discipline; buffer and length are one sequence |
| `Pic` | the master 8259 as three sets of lines |
| `Sched` | table, scheduler, blocking system calls, interrupt path, end of `kmain`; EXTENDS `Keyboard` and `Pic` |
| `Lifecycle` | abstract: processes are born with pids 1, 2, 3..., one runs, only the running one ends, another takes over, the machine halts when none is left. `Sched` instantiates it (`LifecycleSpec`) |
| `Pfa` | operations of the frame allocator, with address arithmetic modulo the address space |
| `PfaSystem` | the allocator from the boot report on, with clients that hold runs of frames |
| `PfaScan` | the loop of `pfa_alloc_contiguous`, one iteration per step, against the closed form of `Pfa` |
| `AddressSpace` | `process_create` with one step per allocation, over frames that hold directories, tables, code; EXTENDS `Pfa` |
| `Heap` | abstract: a set of disjoint blocks, each with room for what was asked |
| `Kheap` | `kmalloc` and `kfree`, one loop iteration per step; EXTENDS `Pfa`, implements `Heap` (`HeapSpec`) |
| `Terminal` | abstract: rows and columns, a cursor, lines that scroll |
| `Console` | `fb.c`, the echo, SYS_WRITE and SYS_CLEAR, and `kmain` up to the first process; EXTENDS `Keyboard`, implements `Terminal` (`TerminalSpec`) |
| `Sofs` | `mkfs.py` as writer and `fs.c` as reader of one image |
| `KernelEntry` | the words on every kernel stack: stubs, switches, first frames, `iret`; GDT and TSS |
| `Session` | the programs, one system call per step; EXTENDS `Sched` |
| `MCSched`, `MCPfa`, `MCAddressSpace`, `MCKheap`, `MCConsole`, `MCSofs`, `MCKernelEntry`, `MCSession` | constants of the bounded instances |
| `SchedProofs`, `SessionProofs` | theorems of `Sched` and of `Session` on top of it |
| `PfaProofs` | theorems of `PfaSystem` and `PfaScan` |
| `AddressSpaceProofs`, `KheapProofs`, `KernelEntryProofs`, `SofsProofs`, `ConsoleProofs` | theorems of one component each |

### Sched

`pc` is where the CPU executes. Since every gate clears IF, a kernel path is
one action from its entry (or from the point where it was resumed) to the next
point where it returns to user mode (`user`), halts with interrupts on
(`hlt_read`, `hlt_wait`), or switches to another context. `intr` is IF and an
interrupt is taken only where it is TRUE. A saved context is the pair
`ret`, `eflags` in the PCB: where `switch_context`'s `ret` lands and the IF that
`popfd` restores. The call of `schedule` is an operator applied to the table as
the caller has changed it (SYS_EXIT has marked itself DEAD, SYS_WAIT has its
argument in `ebx` on its stack).

`iret` to an interrupted `hlt` continues behind it (`cli_read`, `cli_wait`), and
the loop of the system call looks again. The instruction `sti` takes effect only
after the next one, so `sti; hlt` is a single transition to `hlt_*`: no interrupt
falls between them.

Boot runs with interrupts on (`idt_init` ends with `sti`), so the steps
`create`, `pit`, `start`, `jump` may each be interrupted; a tick there does
not schedule because the interrupted CPL is 0.

Memory is the number `avail` of free frames: nothing in the kernel frees one.
`FramesNeeded` is what `process_create` must obtain; the page table of the user
stack is one more, and a process that did not get it (or has no code) has
`mapped = FALSE` and only ever faults: the exception handler returns to the
faulting instruction, so it makes no system call but is still scheduled.
`AddressSpace!CreateCost` checks this arithmetic against the detailed
`process_create`.

Programs are arbitrary: a mapped process in user mode may issue any modelled
call with any name of `Names` and any pid of `WaitPids` at any time.

### Pfa, PfaSystem, PfaScan

`frame_bitmap` is the set of frames whose bit is 1. `align_up` wraps as the
32-bit code does. `pfa_init` is the initial state: all used, available regions
freed, reserved ones used again; the end of a memory map entry is cut to 32
bits as in the code. `BootAssumption` says what is assumed of the boot
loader: no reserved range ends, and no available region begins, in the last
page of the address space (`align_up` would wrap to zero), and the upper
memory of `mem_upper` lies below its end. Clients free only what they hold.

### AddressSpace

Virtual and physical memory have the same number of pages. The kernel writes
to a frame through the virtual page of the same number in the directory CR3
names, so every write of `process_create` and `paging_map_4k` goes to
`Phys(cr3, f)`; what the MMU does (`Phys`, `UserMay`) is marked external.
Assumed: there is no RAM in the frame whose number is the virtual page of the
user stack (0xBFFFF), and programs fit one page table. The passing run has
programs of no, one and two pages under the condition `MinFree >= 2`, that the
low frames under the code are not free at boot. Without it they fail; see Findings. The kernel's low memory below
its image holds no code the model knows; in a real memory map frames 1..159 are
usually free, so the condition is a restriction on programs, not a fact.

### Kheap

Memory is counted in units of one header; `units` gives the size of every
block, free or held, `next` the links of the free list, whose head `BASE` is a
header in the kernel image with no units. `call` is the activation of
`kmalloc` or `kfree_internal`: one step is one iteration of its loop, so the
invariants are checked in the middle of every walk. `morecore` allocates
through `Pfa` and continues as `kfree_internal` inside of `kmalloc`, as in the
code. Between calls another client takes or releases single frames, so the
pages of the heap come in any order and may or may not touch. Sizes wrap modulo
the address space as `unsigned int` does; `HeapSpec` exempts exactly the requests
whose rounding wraps. Clients free only what they hold, once: nothing in
`kheap.c` checks it.

### Console

`kmain` runs with interrupts on, so its writes are divided at every access to
what they share with the echo: load of `fb_cursor`, the cell, the second load, the
store, the check for the end of the screen, the four port writes. The values it keeps between two accesses are in
`reg`. Its boot messages are one sequence with `End` where a call of `fb_write`
ends; `pos` is the place in it. The check's scroll is one step too: `TypeOK`
shows that `kmain` never gets to it. The echo and the system calls run with interrupts
off. The echo is one step; SYS_WRITE is one step per character (`stage = "write"`,
where only the next character or the return is possible), so its text has any
length, and moves the VGA's cursor when it returns. From the first process on
(`stage` is `"user"` or `"write"`) the screen must behave as `Terminal`, from
whatever state boot left. `alone` is a history variable: nobody but the echo has
written since the line was empty. Attribute bytes are left out, since every
writer uses the same.

### Sofs

`AddEntry`, `WriteTable` and `WriteFile` are the two passes of `build_fs`, which
compute the offsets and write the data apart. A byte of a file is the pair of
its file and its position; names are sequences of letters. `fs_list` is a loop
whose bound `buf_size - 1` wraps modulo `WORD`. That a text consists of whole
names (`WholeNames`) is said by where its lines end.

### KernelEntry

A kernel stack is a sequence of tagged words. The CPU (marked external) pushes
five words, or three inside the kernel, and an error code for faults of seven
vectors; the stubs, `switch_context`, `process_create` and the trampoline push and
pop what the assembly does. A reader that pops too many or too few words meets
a word with another tag. The pops of `iret` null data segments that ring 3 may
not use, as the CPU does. Descriptors are the records of bytes that
`gdt_set_gate` packs, and `BaseOf`, `LimitOf` and `Dpl` are the CPU's reading of
them. `FramesMatch` looks at the frame in front of every call of the C handler
and of every `iret`, so a wrong one is seen before it is used.

### Session

`Sched` lets programs make any call at any time; `Session` restricts user mode to
the text of each process's program. One character stands for one command. The
result of a blocking call is applied when the call returns (`AfterRead`,
`AfterWait`), which may be many ticks later. SYS_WRITE, SYS_CLEAR and SYS_LISTFILES
change the screen only, which is `Console`'s state.

## 3. Runs

| Run | Instance | Checks |
|---|---|---|
| `sched` | 3 slots, a one-page program and an empty one, up to 18 frames, line buffer of 2 | type invariant; `SingleRunner`, `OwnContext`, `KernelUninterruptible`, `Acknowledged`, `HaltsOnlyAlone`, `DistinctProcesses`; `LineFrozen`; refinement of `Lifecycle`; `NoStarvation`, `WaitReturns`, `LineConsumed` under `FairSpec` |
| `pfa` | 16 frames of 4 bytes, 41 boot reports, runs up to 3 | `CountExact`, `NoDoubleAllocation`, `OnlyUsableMemory`, `NoMemoryLost` |
| `pfa_scan` | every bitmap of 9 frames with frame 0 used, requests 0..4 | `ScanIsFirstRun` |
| `address_space` | 24 pages, tables of 4 entries, programs of 0, 1 and 2 pages, every amount of memory from 0 to 20 frames, 3 slots | `Isolation`, `KernelReachable`, `Loaded`; `MappingsStable`, `CreateCost` |
| `address_space_shadow`, `address_space_stack` | two findings | violated |
| `kheap` | 6 frames of 8 bytes, units of 2, up to 3 blocks held | `Partition`, `FreeListOK`; `SearchComplete`, `CallProgress`; `CallReturns` under `FairSpec`; refinement of `Heap` |
| `console` | 4 rows of 2 cells, line buffer of 3, two keys during boot | `TypeOK` (the cursor stays on the screen), `EchoMatchesLine`, `CursorShown`; refinement of `Terminal` |
| `console_echo` | the same with one letter: a finding | violated |
| `sofs` | up to three files, sizes around the alignment, names around the limit, buffers of 0 to 12 bytes and the largest | `ReadsBack`, `ListFits` |
| `kernel_entry` | 3 processes; vectors with and without error code, both IRQs, one without a gate, 0x80 | `FramesMatch`, `StackDiscipline`, `Segments`; deadlock |
| `session` | 3 slots, shell, top and hello, up to 18 frames, lines of one command | `OneForeground`, `TableTrue`, `PromptReturns` |

Why the bounds suffice. Three slots give every relation of old, next and a
third process, wrap-around of the scan and reuse of a slot; 18 frames pay for
three processes of six frames, so exhaustion, the process one frame short and
reuse of slots all occur (four pids and more with the empty program). A line
buffer of two bytes holds one character, enough for a full line, a backspace
and Enter. Frames of four bytes let a region begin and end at every offset in
a frame. The initial value of `avail` and the set of free frames range over
everything below their bound, so every allocation is the failing one in some
run.

Three held blocks and six frames let a free meet a neighbour below, above, on
both sides and on none, and let `morecore` fail; the list head lies inside a used
frame with heap frames below and above it, as the kernel image does.
Two columns and four rows reach every edge of the screen with short texts:
last cell, last row, backspace over a row's start. Two keys during boot are
enough for two echoes inside one of `kmain`'s calls and for a completed line.
Three processes give `KernelEntry` one that runs, one switched out of an
interrupt and one switched out of a system call. In `Session` three slots are a
shell, a shell inside it and its child; with 18 frames the third process still
gets its stack, and every smaller amount is an initial state too.

Deadlock is checked for `pfa`, `kheap`, `console`, `sofs` and `kernel_entry`. It is
off for the scheduler and the session because the machine may halt (`SYS_EXIT` of the last process, or no shell to start), for
`pfa_scan` because the call returns, and for the address spaces because the last
exit ends them.

Fairness (`Sched!Fairness`). The PIT raises its line again and again
(WF of the timer's raise: hardware). A deliverable interrupt is taken and its
handler runs to the end (WF: the handler never blocks). The kernel's next
instruction is executed even though interrupts may arrive in front of it (SF:
the handler returns, and an interrupt flood that never lets one instruction
through does not exist on this hardware). Programs owe nothing: a process may
compute for ever, and nobody need press a key. `SessionSpec` adds strong
fairness of each process's next program step, because the programs of
`programs/` do not compute for ever and a quantum of 20 ms is longer than the
way to their next system call; the user still owes nothing. `Kheap!FairSpec`:
a call that has begun takes its next step, since nothing in it blocks.
`Console!Spec`: `kmain` goes on when no interrupt is being served.

### Findings

- `address_space_shadow`: a program of more than one page is mapped over the
  virtual pages of the frames with the same low numbers, which `pfa_alloc`
  also hands out for its kernel stack and directory. README.md:222 promises a
  kernel stack "for safe privilege transitions via TSS".
- `address_space_stack`: when memory is exactly one frame short,
  `paging_map_4k` fails silently and `process_create` returns a pid for a process
  without a user stack (README.md:188, "returns PID").
- `console_echo`: `kmain` writes its messages with interrupts on, and a key whose
  echo falls between its load of `fb_cursor` and its write of the cell is
  overwritten: the character is in the line and not on the screen (README.md:47,
  "echoes them to the screen"). The run `console` shows that nothing worse
  happens: the cursor never leaves the screen.

Noticed while reading, without a run:

- `exit` is documented as "halt the system" (shell.c:37); in a shell started from
  a shell it returns to the outer prompt, because SYS_EXIT ends one process.
- The shell prints "Unknown command" also when spawn failed for want of memory
  or of a slot.
- `serial_configure_baud_rate` (serial.c:30) writes both bytes of the divisor to
  the same port, so the high half of the latch keeps the firmware's value.

## 4. Proofs

All proofs are for arbitrary constants that satisfy the named assumptions.

`SchedProofs` (assumptions `SchedAssumption`, `KeyboardAssumption`). The safety
invariants are not inductive: that the handler finds the current process's
context intact depends on what it interrupted, and that `schedule` restores IF
clear depends on every saved context. `Inv` adds: what the handler interrupted
and the one line in service meanwhile (`Handler`); `current` is unset exactly up
to `scheduler_start` (`Started`); every live PCB was saved by a caller of
`schedule` other than SYS_EXIT, with IF clear, and its directory and stack
carry its pid (`Contexts`); live pids differ (`PidsDiffer`); TSS and CR3 are
loaded in that order (`Loaded`); IF is set only where it may be (`Flags`).
`ScheduleLemma` says once what a call of `schedule` leaves behind, from the two
facts that its scan stays in the table and covers it (`ScanInTable`,
`ScanCoversTable`); every action that calls it is an instance. From
`Invariance` follow `TypeCorrect`, `SingleRunnerHolds`, `OwnContextHolds`,
`KernelUninterruptibleHolds`, `AcknowledgedHolds`, `HaltsOnlyAloneHolds`,
`DistinctProcessesHolds`. `PidsCostFramesHolds` is a second induction over it (each
success pays at least three frames), `LineFrozenHolds` an action property.

`PidNeverReusedHolds` and `LifecycleImplemented` rest on one lemma, `StepKinds`:
seen from outside, a step of the kernel leaves the processes as they are, or one
is born in a slot that was not live, or the running one ends. The refinement
also needs that the first process is pid 1 (`FirstPid`).

`SessionProofs` (besides, `SessionAssumption`, with `MAX_PROCESSES <= MAX_ROWS`: top's
table holds every process; in the code both are 16). Every step of a session is a
step of `Sched` or changes `user` only, so `Inv` carries over. `SessionInv` adds
that a process inside of SYS_READ or SYS_WAIT is at that call in its program, with
the argument the kernel keeps (`Blocked`), that every live process but the
youngest is at the wait for the live child with the next pid (`Chain`), and that
a table on the screen is that of the live processes (`Table`). The next call of every process but the youngest is SYS_WAIT for a live
one, so only the youngest spawns, reads and exits.

`PfaProofs` (assumptions `PfaAssumption`, `BootAssumption`, `ScanAssumption`).
`PfaInv` is the type invariant with `CountExact` and `NoDoubleAllocation`: the
count is exact only of a bitmap within the frames, and a release keeps others'
frames marked only because runs are disjoint. The counting lemmas reduce
`mark_used` and `mark_free` to cardinalities; `FrameOfAddress` and its
consequences show that address arithmetic, wrapped or not, stays within the
bitmap. `OnlyUsableMemory` and `NoMemoryLost` compare frames with the bytes of the
boot report; between them stands `MemoryAccounted`, that free and held frames
are together the usable ones, which only `pfa_init` has to establish from
addresses. `ScanInv` is the loop invariant of `pfa_alloc_contiguous`; its core is
that the frame below the current run is used and no long enough run ended before
`frame_idx`, so the first run completed is the lowest (`CompletedIsFirst`).

`AddressSpaceProofs` (assumptions `PfaAssumption`, `AddressSpaceAssumption`). The
theorems have the hypothesis `NoShadow`: no frame that the allocator can return,
and not the boot directory, has the number of a page that is mapped for the user.
It is not a fact of the code: `address_space_shadow` violates it and shows what then happens, so it is stated
in each theorem and is no assumption of the model. With it the kernel finds every
frame it obtained at the frame's own number, whatever CR3 is. `SpaceInv` says what
each directory in use looks like (`DirsInv`: identity, but for the pages of code
and stack), that two of them share neither tables nor user frames, that kernel
stacks are in frames of their own (`StacksInv`), and how far the
`process_create` under way has come (`JobInv`), step by step. `CreateCost` needs
`CostInv` beside it: the frames free when the call began are free or spent on
it (`Accounted`), and a page table is missing only if `paging_map_4k` was refused
its frame, so that nothing was free (`TablesMissing`). The count rests on the
assumption `PTES <= StackPage`: code and user stack lie under different page
tables (1024 <= 0xBFFFF in the code).

`KheapProofs` (assumptions `PfaAssumption`, `KheapAssumption`). `HeapInv` holds in
every iteration of every loop: who has which block, the one that
`kfree_internal` is about to link in included (`Shape`), what a search or a walk
knows (`CallInv`), that blocks are apart and cover exactly the units of the heap's
pages, and that the free list is one cycle in address order without touching
neighbours. Most lemmas are about functions, whatever the action: linking into
and out of a cycle, cutting one block in two, joining two. `Place` is three
such steps: linked in, joined to the block above, joined to the one below
(`PlaceSteps`). `HeapSpecHolds`, the
refinement of `Heap`, follows from where a new block comes from (`NewBlock`) and
that no step moves one that is held (`HeldStay`).
`SearchComplete` and `CallProgress` rest on a second invariant, `TurnInv`: counted
from `freep` upwards and round, all that a search has left behind is too small, a
walk has not yet reached its block's place, and the pages `morecore` took are
enough (`PagesEnough`: where the product or the rounding wraps, it asks for none).
`CallProgress` names a number that every iteration makes smaller; that a call then
ends needs only that its next step is taken, which is the part of `CallReturns`
left to TLC.

`KernelEntryProofs` (assumption `KernelEntryAssumption`). `EntryInv` is the layout
of every kernel stack, counted from its bottom: the CPU's frame of five words,
the words of the stub, perhaps a second frame of three words from the `hlt` of a
system call, and on top what `switch_context` or `process_create` left. Each
action replaces a top of known length.

`SofsProofs` (assumption `SofsAssumption`). `mkfs.py` computes offsets by aligning
the sum of what came before, and writes by padding each file; `Aligned` shows that
the two agree because every offset is a multiple of four. `SofsInv` places every
file's bytes as soon as they are written; `ExtendNames` gives one more line of
`fs_list`'s text.

`ConsoleProofs` (assumptions `ConsoleAssumption`, `KeyboardAssumption`: the boot
messages, with the keys pressed meanwhile, fit on the screen; a line of input does
not fill it; two registers can count its cells). While `kmain` runs, `TypeOK` is
not inductive: a store of `reg` may write a cursor that is older or newer than the
one an echo just moved. `BootInv` bounds both by how far the characters still to be
written and the keys still to be typed can move a cursor, a newline counting a
whole row (`Ahead`; `Typing`, where only one key can be a newline, since it
completes the line). `ConsoleInv` adds what holds afterwards and, for `EchoMatchesLine`, that the
line stands before the cursor. What a character does to the screen is said once,
of `Put` (`PutType`, `EchoCharacter`, `EchoBackspace`, `ScrollLine`): the line moves up
with the scroll because it is shorter than the screen less a row. For the
refinement, `RowColumn` and `CellIs` relate the number of a cell to its row and
column, `ViewWrite` and `ViewScroll` carry a cell written and a scroll over to
rows, and `AbstractPut` is `Terminal`'s `Write` of the same character.
`CursorShownHolds` needs that high and low byte of a cell's number lose nothing.

`PidNeverReused` (which the refinement of `Lifecycle` implies), `PidsCostFrames`,
`MemoryAccounted`, the loop invariant `RunInvariant` and the type invariants of the two
allocator modules are proved and in no run.

Every safety property of every passing run is stated by a theorem. Only
model-checked is liveness (`NoStarvation`, `WaitReturns`, `LineConsumed`,
`CallReturns`, `PromptReturns`): fairness and ENABLED are beyond the prover.

## 5. Not modelled

Not modelled: the serial port and the port instructions (polled output, used
for one message of a boot that then stops; no other part reads its state);
`memset`, `memcpy`, `strlen` as loops (they are the effects of the actions that
call them); handler addresses in the gates; `gdt_flush.s`, `enter_usermode`,
`paging_switch`, `paging_invalidate` (no caller); colours of cells; number
formatting and column layout in the programs; the build files.
