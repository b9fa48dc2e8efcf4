---------------------------- MODULE AddressSpace ----------------------------
(***************************************************************************)
(* How process_create (src/process.c) builds an address space with the     *)
(* page directories and tables of src/paging4k.c, one allocation per step. *)
(*                                                                         *)
(* Virtual and physical memory have the same number of pages, and the      *)
(* kernel reaches every frame through the virtual page of the same number  *)
(* in whatever directory CR3 names: a write to frame f lands in            *)
(* Phys(cr3, f).  mem gives what a frame holds.  A directory entry is a    *)
(* 4 MiB page (pt = PS) that identity-maps its pages for the supervisor,   *)
(* or a page table; no entry is ever made not present.                     *)
(***************************************************************************)
EXTENDS Pfa

CONSTANTS MAX_PROCESSES,
          PTES,        \* entries of a page table
          StackPage,   \* the page of USER_STACK_VIRT
          Files,       \* programs of the file system
          CodePages,   \* CodePages[f]: pages of f's binary
          Shell,       \* the program kmain creates
          KernelDir,   \* frame of the kernel image with the boot directory
          MinFree,     \* lowest frame that may be free at boot
          MaxFree      \* highest frame that may be free at boot

PS == -1  \* a directory entry with the page size bit

ASSUME AddressSpaceAssumption ==
  /\ PTES \in Nat \ {0}
  /\ MAX_FRAMES % PTES = 0
  /\ KernelDir \in Frames \ {0}
  /\ MinFree \in Nat \ {0}
  /\ CodePages \in [Files -> 0 .. PTES]
  /\ Shell \in Files
  \* no RAM in the frame with the number of the user stack's virtual page
  /\ StackPage \in Frames /\ MaxFree \in Int /\ MaxFree < StackPage
  \* code and user stack are mapped by different page tables
  /\ PTES <= StackPage

VARIABLES mem,      \* what each frame holds
          procs,    \* the process table
          current,  \* slot of the running process, or NoProc
          cr3,      \* frame of the page directory in use
          job       \* the process_create under way

vars == <<pfaVars, mem, procs, current, cr3, job>>

Slots  == 0 .. MAX_PROCESSES - 1
NoProc == -1
Pages  == Frames
Pdes   == 0 .. (MAX_FRAMES \div PTES) - 1

Pde(pt, user)   == [pt |-> pt, user |-> user]
Pte(phys, user) == [phys |-> phys, user |-> user]

Unused          == [kind |-> "unused"]
Zeroed          == [kind |-> "zeroed"]
Code(name, i)   == [kind |-> "code", name |-> name, page |-> i]
Dir(pdes)       == [kind |-> "dir", pdes |-> pdes]
Table(ptes)     == [kind |-> "table", ptes |-> ptes]

NoJob   == [step |-> "idle"]
BootJob == [step |-> "boot"]  \* kmain has not called process_create yet
Idle    == job = NoJob
Steps == {"kstack", "dir", "code", "map", "stack", "mapstack", "commit"}

Dead  == [live |-> FALSE]
Live(s) == procs[s].live

-----------------------------------------------------------------------------
(* Address translation                                                     *)

PdeOf(dir, page) == mem[dir].pdes[page \div PTES]

Phys(dir, page) ==
  LET e == PdeOf(dir, page)
  IN IF e.pt = PS THEN page ELSE mem[e.pt].ptes[page % PTES].phys

\* User mode reaches a page when both levels allow it.
UserMay(dir, page) ==
  LET e == PdeOf(dir, page)
  IN e.pt # PS /\ e.user /\ mem[e.pt].ptes[page % PTES].user

\* The frame that a kernel write to frame f really reaches.
Reached(f) == Phys(cr3, f)

\* The boot directory of paging.s.
page_directory == Dir([i \in Pdes |-> Pde(PS, FALSE)])

\* Faulty variant: the directory in use is copied, page tables and all.
paging_create_kernel_dirFaulty == mem[cr3]

\* A fresh directory: everything identity-mapped, for the supervisor only.
paging_create_kernel_dir == Dir([i \in Pdes |-> Pde(PS, FALSE)])

\* Faulty variant: the user flag goes to all entries.
SplitTableUser(i) == Table([j \in 0 .. PTES - 1 |-> Pte(i * PTES + j, TRUE)])

\* Faulty variant: the base of the 4 MiB page is forgotten.
SplitTableBase(i) == Table([j \in 0 .. PTES - 1 |-> Pte(j, FALSE)])

\* The table that splits the 4 MiB page of directory entry i.
SplitTable(i) == Table([j \in 0 .. PTES - 1 |-> Pte(i * PTES + j, FALSE)])

\* paging_map_4k with PTE_USER; without a frame for the table it returns and
\* maps nothing, and its caller is not told.
paging_map_4k(dir, page, phys) ==
  LET i == page \div PTES
      j == page % PTES
      e == mem[Reached(dir)].pdes[i]
  IN \/ /\ e.pt = PS
        /\ \E t \in Frames :
             /\ pfa_alloc(t)
             /\ mem' = [mem EXCEPT
                  ![Reached(t)] = [SplitTable(i) EXCEPT
                                     !.ptes[j] = Pte(phys, TRUE)],
                  ![Reached(dir)].pdes[i] = Pde(t, TRUE)]
     \/ /\ e.pt = PS
        /\ NoFrameFree
        /\ UNCHANGED mem
     \/ /\ e.pt # PS
        /\ mem' = [mem EXCEPT
             ![Reached(dir)].pdes[i].user = TRUE,
             ![Reached(e.pt)].ptes[j] = Pte(phys, TRUE)]
        /\ UNCHANGED pfaVars

-----------------------------------------------------------------------------
(* process_create, called once by kmain and then in SYS_SPAWN.  A full     *)
(* table or an unknown name returns -1 at once: a stuttering step.         *)

Goto(step) == job' = [job EXCEPT !.step = step]

\* return -1, with every frame obtained so far still marked used
CreateFails ==
  /\ NoFrameFree
  /\ job' = NoJob
  /\ UNCHANGED <<mem, procs>>

process_create(name) ==
  /\ \/ job = BootJob /\ name = Shell
     \/ Idle /\ current # NoProc /\ Live(current)
  /\ \E slot \in Slots :
       /\ ~Live(slot)
       /\ \A s \in Slots : s < slot => Live(s)
       /\ job' = [step |-> "kstack", name |-> name, slot |-> slot,
                  kstack |-> 0, dir |-> 0, i |-> 0, frame |-> 0,
                  avail |-> Cardinality(Free)]
  /\ UNCHANGED <<pfaVars, mem, procs, current, cr3>>

CreateKernelStack ==
  /\ job.step = "kstack"
  /\ \/ \E f \in Frames :
          /\ pfa_alloc(f)
          /\ mem' = [mem EXCEPT ![Reached(f)] = Zeroed]
          /\ job' = [job EXCEPT !.step = "dir", !.kstack = f]
          /\ UNCHANGED procs
     \/ CreateFails
  /\ UNCHANGED <<current, cr3>>

\* Faulty variant: the last page is not loaded.
CodeOrStackFaulty(i) == IF i + 1 < CodePages[job.name] THEN "code" ELSE "stack"

\* Where the loop over the code pages goes when i pages are done.
CodeOrStack(i) == IF i < CodePages[job.name] THEN "code" ELSE "stack"

CreateKernelDir ==
  /\ job.step = "dir"
  /\ \/ \E f \in Frames :
          /\ pfa_alloc(f)
          /\ mem' = [mem EXCEPT ![Reached(f)] = paging_create_kernel_dir]
          /\ job' = [job EXCEPT !.step = CodeOrStack(0), !.dir = f]
          /\ UNCHANGED procs
     \/ CreateFails
  /\ UNCHANGED <<current, cr3>>

LoadCode ==
  /\ job.step = "code"
  /\ \/ \E f \in Frames :
          /\ pfa_alloc(f)
          /\ mem' = [mem EXCEPT ![Reached(f)] = Code(job.name, job.i)]
          /\ job' = [job EXCEPT !.step = "map", !.frame = f]
          /\ UNCHANGED procs
     \/ CreateFails
  /\ UNCHANGED <<current, cr3>>

MapCode ==
  /\ job.step = "map"
  /\ paging_map_4k(job.dir, job.i, job.frame)
  /\ job' = [job EXCEPT !.step = CodeOrStack(job.i + 1), !.i = @ + 1]
  /\ UNCHANGED <<procs, current, cr3>>

CreateUserStack ==
  /\ job.step = "stack"
  /\ \/ \E f \in Frames :
          /\ pfa_alloc(f)
          /\ mem' = [mem EXCEPT ![Reached(f)] = Zeroed]
          /\ job' = [job EXCEPT !.step = "mapstack", !.frame = f]
          /\ UNCHANGED procs
     \/ CreateFails
  /\ UNCHANGED <<current, cr3>>

MapUserStack ==
  /\ job.step = "mapstack"
  /\ paging_map_4k(job.dir, StackPage, job.frame)
  /\ Goto("commit")
  /\ UNCHANGED <<procs, current, cr3>>

\* The fake kernel stack and the PCB.
CreateCommits ==
  /\ job.step = "commit"
  /\ procs' = [procs EXCEPT ![job.slot] =
                 [live |-> TRUE, name |-> job.name, page_dir |-> job.dir,
                  kernel_stack |-> job.kstack, stack |-> job.frame]]
  /\ job' = NoJob
  /\ UNCHANGED <<pfaVars, mem, current, cr3>>

-----------------------------------------------------------------------------
(* The rest of the kernel as far as CR3 is concerned: scheduler_start and  *)
(* schedule enter a live process; SYS_EXIT ends the current one and, if it *)
(* was the last, keeps its directory loaded for ever.                      *)

SwitchTo(s) ==
  /\ Idle
  /\ Live(s)
  /\ current' = s
  /\ cr3' = procs[s].page_dir
  /\ UNCHANGED <<pfaVars, mem, procs, job>>

Exit ==
  /\ Idle
  /\ current # NoProc /\ Live(current)
  /\ procs' = [procs EXCEPT ![current] = Dead]
  /\ \/ \E s \in Slots \ {current} :
          /\ Live(s)
          /\ current' = s
          /\ cr3' = procs[s].page_dir
     \/ /\ \A s \in Slots \ {current} : ~Live(s)
        /\ UNCHANGED <<current, cr3>>
  /\ UNCHANGED <<pfaVars, mem, job>>

Init ==
  /\ \E top \in MinFree - 1 .. MaxFree :
       frame_bitmap = Frames \ (MinFree .. top \ {KernelDir})
  /\ used_frame_count = Cardinality(frame_bitmap)
  /\ mem = [f \in Frames |-> IF f = KernelDir THEN page_directory ELSE Unused]
  /\ procs = [s \in Slots |-> Dead]
  /\ current = NoProc
  /\ cr3 = KernelDir
  /\ job = BootJob

CreateStep ==
  \/ CreateKernelStack \/ CreateKernelDir
  \/ LoadCode \/ MapCode
  \/ CreateUserStack \/ MapUserStack
  \/ CreateCommits

Next ==
  \/ \E name \in Files : process_create(name)
  \/ CreateStep
  \/ \E s \in Slots : SwitchTo(s)
  \/ Exit

Spec == Init /\ [][Next]_vars

-----------------------------------------------------------------------------
UserFrames(s) ==
  {Phys(procs[s].page_dir, p) :
     p \in {q \in Pages : UserMay(procs[s].page_dir, q)}}

TablesOf(dir) == {mem[dir].pdes[i].pt : i \in Pdes} \ {PS}

\* Frames only the kernel may write: its image, free memory, and every live
\* process's directory, page tables and kernel stack.
KernelFrames ==
  {0, KernelDir} \union Free
    \union UNION {{procs[s].page_dir, procs[s].kernel_stack}
                    \union TablesOf(procs[s].page_dir) :
                    s \in {t \in Slots : Live(t)}}

\* Each process has an isolated virtual address space: user mode reaches only
\* the process's own code and stack, shared with no other live process, and
\* never a frame of the kernel's.
Isolation ==
  \A s \in Slots : Live(s) =>
    /\ UserFrames(s) \intersect KernelFrames = {}
    /\ \A t \in Slots \ {s} :
         Live(t) => UserFrames(s) \intersect UserFrames(t) = {}

\* Whatever directory is loaded, the kernel finds its frames where it looks
\* for them, hidden from user mode: the process's own page table entries at
\* page 0 and at the stack never shadow one of them.
KernelReachable ==
  \A d \in {procs[s].page_dir : s \in {t \in Slots : Live(t)}} \union {cr3} :
    \A f \in KernelFrames \ {0} : Phys(d, f) = f /\ ~UserMay(d, f)

StackMapped(s) ==
  LET p == procs[s]
  IN UserMay(p.page_dir, StackPage) /\ Phys(p.page_dir, StackPage) = p.stack

CodeMapped(s) ==
  LET p == procs[s]
  IN \A i \in 0 .. CodePages[p.name] - 1 :
       /\ UserMay(p.page_dir, i)
       /\ mem[Phys(p.page_dir, i)] = Code(p.name, i)

\* A process that was given a pid has its whole binary at page 0, whichever
\* allocation failed on the way, and its user stack unless the last frame of
\* memory went into it.
Loaded ==
  \A s \in Slots : Live(s) => CodeMapped(s) /\ (StackMapped(s) \/ Free = {})

\* Nothing that happens later (a spawn, a failed spawn, an exit, a switch)
\* changes where a live process's pages are, or what its code is.
MappingsStable ==
  [][\A s \in Slots : Live(s) /\ procs'[s] = procs[s] =>
       LET d == procs[s].page_dir
       IN \A p \in Pages :
            /\ Phys(d, p)' = Phys(d, p)
            /\ UserMay(d, p)' = UserMay(d, p)
            /\ UserMay(d, p) => mem'[Phys(d, p)] = mem[Phys(d, p)]]_vars

\* Frames process_create needs to succeed; one more maps the user stack.
FramesNeeded(name) ==
  LET n == CodePages[name] IN IF n = 0 THEN 3 ELSE n + 4

\* The cost of a process_create in frames: it succeeds exactly if the frames
\* suffice, and otherwise the error returns have used up all that were free.
CreateCost ==
  [][job.step \in Steps /\ job'.step = "idle" =>
       /\ job.step = "commit" <=> job.avail >= FramesNeeded(job.name)
       /\ Cardinality(Free') =
            IF job.avail <= FramesNeeded(job.name)
              THEN 0 ELSE job.avail - FramesNeeded(job.name) - 1]_vars

(***************************************************************************)
(* Two things the documentation promises and the code does not keep.       *)
(***************************************************************************)
\* SYS_SPAWN "returns PID" of a new process: a process with a pid has its
\* user stack.
StackAlwaysMapped == \A s \in Slots : Live(s) => StackMapped(s)

\* Each process has "its own kernel stack (for safe privilege transitions)":
\* in the process's directory the stack is where the TSS says, and user mode
\* cannot write it.
KernelStackPrivate ==
  \A s \in Slots : Live(s) =>
    LET p == procs[s]
    IN /\ Phys(p.page_dir, p.kernel_stack) = p.kernel_stack
       /\ ~UserMay(p.page_dir, p.kernel_stack)
=============================================================================
