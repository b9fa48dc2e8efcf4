------------------------- MODULE AddressSpaceProofs -------------------------
(***************************************************************************)
(* Isolation, KernelReachable, Loaded and MappingsStable for every amount  *)
(* of memory, every number of processes and every set of programs whose    *)
(* code pages lie below the frames that the kernel uses (NoShadow; the run *)
(* address_space_shadow shows what happens without it).                    *)
(*                                                                         *)
(* A frame that process_create obtained is never given back, so what a     *)
(* directory in use refers to is in frames that no later allocation        *)
(* returns, and the kernel reaches each of them at its own number.  The    *)
(* inductive invariant says what each directory looks like, and that two   *)
(* of them share neither page tables nor user frames.                      *)
(***************************************************************************)
EXTENDS AddressSpace, FiniteSetTheorems, TLAPS

\* No frame the allocator can return, and not the boot directory, has the
\* number of a page that process_create maps for the user.
NoShadow ==
  /\ \A f \in Files : /\ CodePages[f] <= MinFree
                       /\ CodePages[f] <= KernelDir
                       /\ CodePages[f] <= StackPage
  /\ KernelDir # StackPage

\* The pages process_create maps for the user, and the frames it uses.
UserPages ==
  {p \in Pages : p = StackPage \/ \E name \in Files : p < CodePages[name]}

Taken == {f \in frame_bitmap : f # 0 /\ f \notin UserPages}

PdeSet == [pt : Frames \union {PS}, user : BOOLEAN]
PteSet == [phys : Frames, user : BOOLEAN]
DirSet   == [kind : {"dir"}, pdes : [Pdes -> PdeSet]]
TableSet == [kind : {"table"}, ptes : [0 .. PTES - 1 -> PteSet]]

\* The page table entry of a page.
PteOf(dir, page) == mem[PdeOf(dir, page).pt].ptes[page % PTES]

HasTable(dir, page) == PdeOf(dir, page).pt # PS

UserFrame(f) == f \in Taken /\ mem[f].kind \in {"code", "zeroed"}

\* A directory that maps every page to the frame of the same number, for the
\* supervisor, but for user pages, which lead to frames with code or a stack.
GoodDir(d) ==
  /\ d \in Taken /\ mem[d] \in DirSet
  /\ \A p \in Pages : HasTable(d, p) =>
       /\ PdeOf(d, p).pt \in Taken /\ mem[PdeOf(d, p).pt] \in TableSet
       /\ PdeOf(d, p).user
       /\ \/ PteOf(d, p) = Pte(p, FALSE)
          \/ p \in UserPages /\ UserFrame(PteOf(d, p).phys)
  /\ \A p, q \in Pages :
       HasTable(d, p) /\ PdeOf(d, p).pt = PdeOf(d, q).pt =>
         p \div PTES = q \div PTES

\* Two directories share no page table and no user frame.
Apart(d, e) ==
  \A p, q \in Pages :
    /\ HasTable(d, p) => PdeOf(d, p).pt # PdeOf(e, q).pt
    /\ UserMay(d, p) /\ UserMay(e, q) => Phys(d, p) # Phys(e, q)

\* User mode does not reach frame f.
Clean(d, f) == \A p \in Pages : UserMay(d, p) => Phys(d, p) # f

-----------------------------------------------------------------------------
HasStack == job.step \in Steps \ {"kstack"}
HasDir   == job.step \in Steps \ {"kstack", "dir"}

LiveSlots == {s \in Slots : Live(s)}
OldDirs == {procs[s].page_dir : s \in LiveSlots} \union {cr3}
Dirs    == OldDirs \union (IF HasDir THEN {job.dir} ELSE {})
Stacks  == {procs[s].kernel_stack : s \in LiveSlots}
             \union (IF HasStack THEN {job.kstack} ELSE {})

Process == [live : {TRUE}, name : Files, page_dir : Frames,
            kernel_stack : Frames, stack : Frames]
Job == [step : Steps, name : Files, slot : Slots, kstack : Frames,
        dir : Frames, i : Nat, frame : Frames, avail : Nat]

MemInv ==
  /\ frame_bitmap \subseteq Frames
  /\ \A f \in Free : f \in MinFree .. MaxFree
  /\ KernelDir \in frame_bitmap
  /\ mem = [f \in Frames |-> mem[f]] /\ mem[KernelDir].kind = "dir"

TypeInv ==
  /\ MemInv
  /\ procs \in [Slots -> Process \union {Dead}]
  /\ current \in Slots \union {NoProc}
  /\ job \in Job \union {NoJob, BootJob}

DirsInv ==
  /\ \A d \in Dirs : GoodDir(d)
  /\ \A d, e \in Dirs : d # e => Apart(d, e)
  /\ HasDir => job.dir \notin OldDirs
  /\ \A s, t \in LiveSlots : s # t => procs[s].page_dir # procs[t].page_dir

StacksInv ==
  \A k \in Stacks :
    /\ k \in Taken /\ mem[k].kind = "zeroed"
    /\ \A d \in Dirs : Clean(d, k)

\* n code pages of a program are mapped in a directory.
CodeIn(d, name, n) ==
  \A i \in 0 .. n - 1 : UserMay(d, i) /\ mem[Phys(d, i)] = Code(name, i)

StackIn(d, f) == UserMay(d, StackPage) /\ Phys(d, StackPage) = f

\* The frame about to be mapped.
FrameInv ==
  job.step \in {"map", "mapstack"} =>
    /\ UserFrame(job.frame) /\ job.frame \notin Stacks
    /\ \A d \in Dirs : Clean(d, job.frame)
    /\ job.step = "map" => mem[job.frame] = Code(job.name, job.i)

\* How far the loop over the code pages has come.  When paging_map_4k found
\* no frame for a table, the next allocation fails.
JobInv ==
  job.step \in Steps =>
    /\ ~Live(job.slot)
    /\ job.step \in {"kstack", "dir"} => job.i = 0
    /\ job.step \in {"code", "map"} => job.i < CodePages[job.name]
    /\ job.step \in {"stack", "mapstack", "commit"} => job.i = CodePages[job.name]
    /\ job.step \in {"code", "stack"} =>
         CodeIn(job.dir, job.name, job.i) \/ Free = {}
    /\ job.step \in {"map", "mapstack", "commit"} =>
         CodeIn(job.dir, job.name, job.i)
    /\ job.step = "commit" => StackIn(job.dir, job.frame) \/ Free = {}

LoadedInv ==
  \A s \in LiveSlots :
    LET p == procs[s]
    IN /\ CodeIn(p.page_dir, p.name, CodePages[p.name])
       /\ StackIn(p.page_dir, p.stack) \/ Free = {}

SpaceInv ==
  NoShadow /\ TypeInv /\ DirsInv /\ StacksInv /\ FrameInv /\ JobInv /\ LoadedInv

-----------------------------------------------------------------------------
(* Pages and frames                                                        *)

\* A page is a directory entry and a table entry.
LEMMA PageSplit ==
  ASSUME NEW p \in Pages
  PROVE  /\ p \div PTES \in Pdes /\ p % PTES \in 0 .. PTES - 1
         /\ (p \div PTES) * PTES + (p % PTES) = p
         /\ p \in Nat
<1> DEFINE d == p \div PTES
           m == p % PTES
           n == MAX_FRAMES \div PTES
<1>1. /\ p \in Nat /\ p <= MAX_FRAMES - 1 /\ PTES \in Nat /\ PTES > 0
      /\ MAX_FRAMES \in Nat
  BY PfaAssumption, AddressSpaceAssumption DEF Pages, Frames
<1>2. d \in Nat /\ m \in 0 .. PTES - 1 /\ n \in Nat
  BY <1>1
<1>3. p = PTES * d + m
  BY <1>1
<1>4. MAX_FRAMES = PTES * n
  <2> DEFINE k == MAX_FRAMES % PTES
  <2>1. MAX_FRAMES = PTES * n + k
    BY <1>1
  <2>2. k = 0
    BY AddressSpaceAssumption
  <2> HIDE DEF n, k
  <2> QED BY <1>1, <1>2, <2>1, <2>2
<1> HIDE DEF d, m, n
<1>5. d <= n - 1
  <2> SUFFICES ASSUME d >= n PROVE FALSE
    BY <1>2
  <2>1. PTES * d >= PTES * n
    BY <1>1, <1>2
  <2> QED BY <1>1, <1>2, <1>3, <1>4, <2>1
<1>6. d \in Pdes
  BY <1>2, <1>5 DEF Pdes, n
<1>7. d * PTES + m = p
  BY <1>1, <1>2, <1>3
<1> QED BY <1>1, <1>2, <1>6, <1>7 DEF d, m

\* The two entries determine the page.
LEMMA PageIs ==
  ASSUME NEW p \in Pages, NEW q \in Pages,
         p \div PTES = q \div PTES, p % PTES = q % PTES
  PROVE  p = q
<1>1. (p \div PTES) * PTES + (p % PTES) = p
  BY PageSplit
<1>2. (q \div PTES) * PTES + (q % PTES) = q
  BY PageSplit
<1> QED BY <1>1, <1>2

LEMMA CodeType ==
  ASSUME NEW name \in Files PROVE CodePages[name] \in Nat /\ CodePages[name] \in Int
<1>1. CodePages[name] \in 0 .. PTES /\ PTES \in Nat
  BY AddressSpaceAssumption
<1> QED BY <1>1

LEMMA KernelDirNotUser == ASSUME NoShadow PROVE KernelDir \notin UserPages
<1>1. KernelDir \in Nat
  BY AddressSpaceAssumption DEF Frames
<1>2. ASSUME NEW name \in Files PROVE ~(KernelDir < CodePages[name])
  BY <1>1, CodeType DEF NoShadow
<1> QED BY <1>2 DEF UserPages, NoShadow

\* Frames in use, frames to come.
LEMMA FrameFacts ==
  ASSUME SpaceInv
  PROVE  /\ Taken \subseteq Frames /\ Pages = Frames
         /\ \A f \in Taken : f \notin UserPages
         /\ \A f \in Free : f \in Frames /\ f \notin frame_bitmap
                              /\ f \notin UserPages /\ f # 0
         /\ KernelDir \in Taken
<1>1. /\ frame_bitmap \subseteq Frames /\ KernelDir \in frame_bitmap
      /\ \A f \in Free : f \in MinFree .. MaxFree
      /\ KernelDir # StackPage /\ KernelDir # 0
      /\ MinFree \in Nat \ {0} /\ MaxFree \in Int /\ MaxFree < StackPage
      /\ StackPage \in Nat /\ KernelDir \in Nat
      /\ \A f \in Frames : f \in Nat
  BY AddressSpaceAssumption DEF SpaceInv, NoShadow, TypeInv, MemInv, Frames
<1>2. Taken \subseteq Frames /\ Pages = Frames
  BY <1>1 DEF Taken, Pages
<1>3. \A f \in Taken : f \notin UserPages
  BY DEF Taken
<1>4. ASSUME NEW f \in Free
      PROVE  f \in Frames /\ f \notin frame_bitmap /\ f \notin UserPages /\ f # 0
  <2>1. f \in Frames /\ f \notin frame_bitmap /\ f # 0 /\ f # StackPage
    BY <1>1 DEF Free
  <2>2. ASSUME NEW name \in Files PROVE ~(f < CodePages[name])
    <3>1. CodePages[name] \in Int /\ CodePages[name] <= MinFree
      BY CodeType DEF SpaceInv, NoShadow
    <3> QED BY <1>1, <3>1
  <2> QED BY <2>1, <2>2 DEF UserPages
<1>5. KernelDir \in Taken
  BY <1>1, KernelDirNotUser DEF Taken, SpaceInv
<1> QED BY <1>2, <1>3, <1>4, <1>5

\* The kernel finds a frame it uses at its own number.
LEMMA IdentityMapped ==
  ASSUME NEW d, GoodDir(d), NEW f \in Pages, f \notin UserPages
  PROVE  Phys(d, f) = f /\ ~UserMay(d, f)
<1>1. CASE ~HasTable(d, f)
  BY <1>1 DEF HasTable, Phys, UserMay
<1>2. CASE HasTable(d, f)
  <2>1. PteOf(d, f) = Pte(f, FALSE)
    BY <1>2 DEF GoodDir
  <2>2. PteOf(d, f).phys = f /\ PteOf(d, f).user = FALSE
    BY <2>1 DEF Pte
  <2> QED BY <1>2, <2>2 DEF HasTable, Phys, UserMay, PteOf
<1> QED BY <1>1, <1>2

LEMMA ReachedIs ==
  ASSUME SpaceInv, NEW f, f \in Taken \/ f \in Free
  PROVE  Reached(f) = f
<1>1. GoodDir(cr3)
  BY DEF SpaceInv, DirsInv, Dirs, OldDirs
<1>2. f \in Pages /\ f \notin UserPages
  BY FrameFacts
<1> QED BY <1>1, <1>2, IdentityMapped DEF Reached

\* What user mode reaches are frames with code or a stack.
LEMMA UserReach ==
  ASSUME NEW d, GoodDir(d), NEW p \in Pages, UserMay(d, p)
  PROVE  /\ HasTable(d, p) /\ p \in UserPages
         /\ Phys(d, p) = PteOf(d, p).phys /\ UserFrame(Phys(d, p))
<1>1. HasTable(d, p) /\ PteOf(d, p).user
  BY DEF UserMay, HasTable, PteOf
<1>2. Phys(d, p) = PteOf(d, p).phys
  BY <1>1 DEF Phys, HasTable, PteOf
<1>3. PteOf(d, p) # Pte(p, FALSE)
  BY <1>1 DEF Pte
<1> QED BY <1>1, <1>2, <1>3 DEF GoodDir

-----------------------------------------------------------------------------
(* What a step leaves alone                                                *)

\* The step changes neither the directory d nor its page tables.
SameView(d) ==
  /\ mem'[d] = mem[d]
  /\ \A p \in Pages :
       HasTable(d, p) => mem'[PdeOf(d, p).pt] = mem[PdeOf(d, p).pt]

\* The step keeps what is in use in use, and writes no user frame and no
\* kernel stack.
DataKept ==
  /\ frame_bitmap \subseteq frame_bitmap'
  /\ \A f \in Frames : UserFrame(f) => mem'[f] = mem[f]

\* Translation through a directory with the same view.
LEMMA ViewKept ==
  ASSUME SpaceInv, NEW d \in Dirs, SameView(d), DataKept
  PROVE  /\ GoodDir(d)'
         /\ \A p \in Pages :
              /\ PdeOf(d, p)' = PdeOf(d, p)
              /\ HasTable(d, p)' <=> HasTable(d, p)
              /\ Phys(d, p)' = Phys(d, p)
              /\ UserMay(d, p)' <=> UserMay(d, p)
         /\ \A p \in Pages : UserMay(d, p) => mem'[Phys(d, p)] = mem[Phys(d, p)]
<1>1. GoodDir(d) /\ Taken \subseteq Taken' /\ Taken \subseteq Frames
  BY FrameFacts DEF SpaceInv, DirsInv, DataKept, Taken
<1>2. \A p \in Pages : PdeOf(d, p)' = PdeOf(d, p)
  BY DEF SameView, PdeOf
<1>3. \A p \in Pages :
        /\ HasTable(d, p)' <=> HasTable(d, p)
        /\ HasTable(d, p) => /\ mem'[PdeOf(d, p).pt] = mem[PdeOf(d, p).pt]
                             /\ PteOf(d, p)' = PteOf(d, p)
  BY <1>2 DEF HasTable, SameView, PteOf
<1>4. \A p \in Pages :
        /\ Phys(d, p)' = Phys(d, p)
        /\ UserMay(d, p)' <=> UserMay(d, p)
  <2> SUFFICES ASSUME NEW p \in Pages
               PROVE  /\ Phys(d, p)' = Phys(d, p)
                      /\ UserMay(d, p)' <=> UserMay(d, p)
    OBVIOUS
  <2>1. CASE HasTable(d, p)
    BY <1>2, <1>3, <2>1 DEF Phys, UserMay, HasTable, PteOf
  <2>2. CASE ~HasTable(d, p)
    BY <1>2, <1>3, <2>2 DEF Phys, UserMay, HasTable
  <2> QED BY <2>1, <2>2
<1>5. \A f : UserFrame(f) => UserFrame(f)' /\ mem'[f] = mem[f]
  BY <1>1 DEF UserFrame, DataKept
<1>6. GoodDir(d)'
  <2>1. d \in Taken' /\ mem'[d] \in DirSet
    BY <1>1 DEF GoodDir, SameView
  <2>2. ASSUME NEW p \in Pages, HasTable(d, p)'
        PROVE  /\ PdeOf(d, p)'.pt \in Taken' /\ mem'[PdeOf(d, p)'.pt] \in TableSet
               /\ PdeOf(d, p)'.user
               /\ \/ PteOf(d, p)' = Pte(p, FALSE)
                  \/ p \in UserPages /\ UserFrame(PteOf(d, p).phys)'
    <3>1. HasTable(d, p) /\ PteOf(d, p)' = PteOf(d, p)
      BY <1>3, <2>2
    <3>2. /\ PdeOf(d, p).pt \in Taken' /\ mem'[PdeOf(d, p).pt] \in TableSet
          /\ PdeOf(d, p).user
      BY <1>1, <1>3, <3>1 DEF GoodDir
    <3>3. PteOf(d, p) = Pte(p, FALSE) \/ (p \in UserPages /\ UserFrame(PteOf(d, p).phys))
      BY <1>1, <3>1 DEF GoodDir
    <3> QED BY <1>2, <1>5, <3>1, <3>2, <3>3 DEF UserFrame
  <2>3. ASSUME NEW p \in Pages, NEW q \in Pages,
               HasTable(d, p)', PdeOf(d, p)'.pt = PdeOf(d, q)'.pt
        PROVE  p \div PTES = q \div PTES
    BY <1>1, <1>2, <1>3, <2>3 DEF GoodDir
  <2> QED BY <2>1, <2>2, <2>3 DEF GoodDir
<1>7. ASSUME NEW p \in Pages, UserMay(d, p)
      PROVE  mem'[Phys(d, p)] = mem[Phys(d, p)]
  BY <1>1, <1>5, <1>7, UserReach
<1> QED BY <1>2, <1>3, <1>4, <1>6, <1>7

\* What the invariant says of the directories in S survives a step that
\* changes none of their views.
LEMMA ViewsKept ==
  ASSUME SpaceInv, DataKept, NEW S \in SUBSET Dirs, \A d \in S : SameView(d)
  PROVE  /\ \A d \in S : GoodDir(d)'
         /\ \A d, e \in S : d # e => Apart(d, e)'
         /\ \A k \in Stacks : /\ k \in Taken' /\ mem'[k].kind = "zeroed"
                              /\ \A d \in S : Clean(d, k)'
         /\ \A d \in S : \A f : Clean(d, f) => Clean(d, f)'
         /\ \A d \in S : \A name : \A n \in Nat :
              n <= MAX_FRAMES /\ CodeIn(d, name, n) => CodeIn(d, name, n)'
         /\ \A d \in S : \A f : StackIn(d, f) => StackIn(d, f)'
<1>1. \A d \in S :
        /\ GoodDir(d)'
        /\ \A p \in Pages :
             /\ PdeOf(d, p)' = PdeOf(d, p)
             /\ HasTable(d, p)' <=> HasTable(d, p)
             /\ Phys(d, p)' = Phys(d, p)
             /\ UserMay(d, p)' <=> UserMay(d, p)
        /\ \A p \in Pages : UserMay(d, p) => mem'[Phys(d, p)] = mem[Phys(d, p)]
  BY ViewKept
<1>2. ASSUME NEW d \in S, NEW e \in S, d # e
      PROVE  Apart(d, e)'
  <2>1. Apart(d, e)
    BY <1>2 DEF SpaceInv, DirsInv
  <2> QED BY <1>1, <2>1 DEF Apart
<1>3. \A d \in S : \A f : Clean(d, f) => Clean(d, f)'
  BY <1>1 DEF Clean
<1>4. ASSUME NEW k \in Stacks
      PROVE  /\ k \in Taken' /\ mem'[k].kind = "zeroed"
             /\ \A d \in S : Clean(d, k)'
  <2>1. k \in Taken /\ mem[k].kind = "zeroed" /\ \A d \in Dirs : Clean(d, k)
    BY DEF SpaceInv, StacksInv
  <2>2. UserFrame(k) /\ k \in Frames
    BY <2>1, FrameFacts DEF UserFrame
  <2> QED BY <1>3, <2>1, <2>2 DEF DataKept, Taken
<1>5. ASSUME NEW d \in S, NEW name, NEW n \in Nat, n <= MAX_FRAMES, CodeIn(d, name, n)
      PROVE  CodeIn(d, name, n)'
  <2> SUFFICES ASSUME NEW i \in 0 .. n - 1
               PROVE  UserMay(d, i)' /\ mem'[Phys(d, i)'] = Code(name, i)
    BY DEF CodeIn
  <2>1. UserMay(d, i) /\ mem[Phys(d, i)] = Code(name, i)
    BY <1>5 DEF CodeIn
  <2>2. i \in Pages
    BY <1>5, PfaAssumption DEF Pages, Frames
  <2> QED BY <1>1, <2>1, <2>2
<1>6. ASSUME NEW d \in S, NEW f, StackIn(d, f)
      PROVE  StackIn(d, f)'
  <2>1. StackPage \in Pages
    BY AddressSpaceAssumption DEF Pages
  <2> QED BY <1>1, <1>6, <2>1 DEF StackIn
<1> QED BY <1>1, <1>2, <1>3, <1>4, <1>5, <1>6

\* Programs are small, and their pages are user pages.
LEMMA CodeSmall ==
  ASSUME NoShadow, NEW name \in Files
  PROVE  /\ CodePages[name] \in Nat /\ CodePages[name] <= MAX_FRAMES
         /\ CodePages[name] <= StackPage
         /\ \A i \in 0 .. CodePages[name] - 1 : i \in UserPages
         /\ StackPage \in UserPages
<1>1. /\ CodePages[name] \in Nat /\ CodePages[name] <= StackPage
      /\ StackPage \in Nat /\ StackPage <= MAX_FRAMES - 1 /\ MAX_FRAMES \in Nat
  BY CodeType, PfaAssumption, AddressSpaceAssumption DEF NoShadow, Frames
<1>2. StackPage \in UserPages
  BY AddressSpaceAssumption DEF UserPages, Pages
<1>3. ASSUME NEW i \in 0 .. CodePages[name] - 1 PROVE i \in UserPages
  <2>1. i \in Pages /\ i < CodePages[name]
    BY <1>1 DEF Pages, Frames
  <2> QED BY <2>1 DEF UserPages
<1> QED BY <1>1, <1>2, <1>3

\* The entry of a live process.
LEMMA LiveProcess ==
  ASSUME SpaceInv, NEW s \in LiveSlots
  PROVE  s \in Slots /\ procs[s] \in Process
<1>1. s \in Slots /\ Live(s)
  BY DEF LiveSlots
<1>2. procs[s] \in Process \/ procs[s] = Dead
  BY <1>1 DEF SpaceInv, TypeInv
<1>3. Dead.live = FALSE
  BY DEF Dead
<1> QED BY <1>1, <1>2, <1>3 DEF Live

\* A step that adds no directory and no process.
LEMMA KeepStep ==
  ASSUME SpaceInv, DataKept, Dirs' \subseteq Dirs, \A d \in Dirs' : SameView(d),
         Free' \subseteq Free,
         \A s \in Slots : Live(s)' => Live(s) /\ procs'[s] = procs[s],
         HasDir' => job'.dir \notin OldDirs'
  PROVE  DirsInv' /\ LoadedInv' /\ (Stacks' \subseteq Stacks => StacksInv')
<1>1. Dirs' \in SUBSET Dirs
  OBVIOUS
<1>2. /\ \A d \in Dirs' : GoodDir(d)'
      /\ \A d, e \in Dirs' : d # e => Apart(d, e)'
      /\ \A k \in Stacks : /\ k \in Taken' /\ mem'[k].kind = "zeroed"
                           /\ \A d \in Dirs' : Clean(d, k)'
      /\ \A d \in Dirs' : \A name : \A n \in Nat :
           n <= MAX_FRAMES /\ CodeIn(d, name, n) => CodeIn(d, name, n)'
      /\ \A d \in Dirs' : \A f : StackIn(d, f) => StackIn(d, f)'
  BY <1>1, ViewsKept
<1>3. LiveSlots' \subseteq LiveSlots /\ \A s \in LiveSlots' : procs'[s] = procs[s]
  BY DEF LiveSlots
<1>4. DirsInv'
  <2>1. \A s, t \in LiveSlots' : s # t => procs'[s].page_dir # procs'[t].page_dir
    BY <1>3 DEF SpaceInv, DirsInv
  <2> QED BY <1>2, <2>1 DEF DirsInv
<1>5. ASSUME NEW s \in LiveSlots'
      PROVE  /\ CodeIn(procs[s].page_dir, procs[s].name, CodePages[procs[s].name])'
             /\ StackIn(procs[s].page_dir, procs[s].stack)' \/ Free' = {}
  <2>1. PICK d, name, f : d = procs[s].page_dir /\ name = procs[s].name
                          /\ f = procs[s].stack
    OBVIOUS
  <2>2. /\ d = procs'[s].page_dir /\ name = procs'[s].name /\ f = procs'[s].stack
        /\ s \in LiveSlots
    BY <1>3, <2>1
  <2>3. d \in Dirs'
    BY <2>2 DEF Dirs, OldDirs
  <2>4. name \in Files
    BY <2>1, <2>2, LiveProcess DEF Process
  <2>5. CodeIn(d, name, CodePages[name]) /\ (StackIn(d, f) \/ Free = {})
    BY <2>1, <2>2 DEF SpaceInv, LoadedInv
  <2>6. CodeIn(d, name, CodePages[name])'
    BY <1>2, <2>3, <2>4, <2>5, CodeSmall DEF SpaceInv
  <2>7. StackIn(d, f)' \/ Free' = {}
    BY <1>2, <2>3, <2>5
  <2> QED BY <2>2, <2>6, <2>7
<1>6. LoadedInv'
  BY <1>5 DEF LoadedInv
<1>7. Stacks' \subseteq Stacks => StacksInv'
  BY <1>2 DEF StacksInv
<1> QED BY <1>4, <1>6, <1>7

\* A step that changes nothing in memory.
LEMMA SameMemory ==
  ASSUME SpaceInv, UNCHANGED <<mem, frame_bitmap>>
  PROVE  DataKept /\ (\A d : SameView(d)) /\ Free' = Free /\ MemInv'
BY DEF DataKept, SameView, Free, SpaceInv, TypeInv, MemInv

\* A step that writes a fresh frame.
LEMMA FreshFrame ==
  ASSUME SpaceInv, NEW f \in Frames, NEW v,
         pfa_alloc(f), mem' = [mem EXCEPT ![Reached(f)] = v]
  PROVE  /\ f \in Free /\ f \notin frame_bitmap /\ f \notin UserPages
         /\ frame_bitmap' = frame_bitmap \union {f} /\ f \in Taken'
         /\ mem'[f] = v /\ \A g \in Frames \ {f} : mem'[g] = mem[g]
         /\ MemInv' /\ Free' \subseteq Free
         /\ DataKept /\ \A d \in Dirs : SameView(d)
<1>1. /\ f \in Free /\ f \notin frame_bitmap /\ f \notin UserPages
      /\ f # 0
  BY FrameFacts DEF pfa_alloc, LowestFree
<1>2. frame_bitmap' = frame_bitmap \union {f}
  BY DEF pfa_alloc, MarkUsed
<1>3. f \in Taken'
  BY <1>1, <1>2 DEF Taken
<1>4. Reached(f) = f
  BY <1>1, ReachedIs
<1>5. mem = [g \in Frames |-> mem[g]]
  BY DEF SpaceInv, TypeInv, MemInv
<1>6. mem' = [g \in Frames |-> IF g = f THEN v ELSE mem[g]]
  BY <1>4, <1>5
<1>7. mem'[f] = v /\ \A g \in Frames \ {f} : mem'[g] = mem[g]
  BY <1>6
<1>8. mem' = [g \in Frames |-> mem'[g]]
  BY <1>6
<1>9. Free' \subseteq Free
  BY <1>2 DEF Free
<1>10. KernelDir \in Frames \ {f}
  BY <1>1 DEF SpaceInv, TypeInv, MemInv
<1>11. MemInv'
  BY <1>2, <1>7, <1>8, <1>9, <1>10 DEF SpaceInv, TypeInv, MemInv
<1>12. DataKept
  BY <1>1, <1>2, <1>7 DEF DataKept, UserFrame, Taken
<1>13. ASSUME NEW d \in Dirs PROVE SameView(d)
  <2>1. GoodDir(d)
    BY DEF SpaceInv, DirsInv
  <2>2. d \in Frames \ {f}
    BY <1>1, <2>1, FrameFacts DEF GoodDir, Taken
  <2>3. \A p \in Pages : HasTable(d, p) => PdeOf(d, p).pt \in Frames \ {f}
    <3>1. \A g \in Taken : g \in Frames \ {f}
      BY <1>1, FrameFacts DEF Taken
    <3> QED BY <2>1, <3>1 DEF GoodDir
  <2> QED BY <1>7, <2>2, <2>3 DEF SameView
<1> QED BY <1>1, <1>2, <1>3, <1>7, <1>9, <1>11, <1>12, <1>13

-----------------------------------------------------------------------------
(* The allocations of process_create                                       *)

\* A call under way.
LEMMA JobRecord ==
  ASSUME SpaceInv, job.step \in Steps
  PROVE  job \in Job /\ job.slot \in Slots /\ ~Live(job.slot)
<1>1. job # NoJob /\ job # BootJob
  BY DEF NoJob, BootJob, Steps
<1>2. job \in Job
  BY <1>1 DEF SpaceInv, TypeInv
<1> QED BY <1>2 DEF Job, SpaceInv, JobInv

\* Nobody reaches a frame that was free.
LEMMA FreshIsClean ==
  ASSUME SpaceInv, NEW f, f \notin frame_bitmap
  PROVE  (\A d \in Dirs : Clean(d, f)) /\ f \notin Stacks /\ f \notin Dirs
<1>1. f \notin Taken
  BY DEF Taken
<1>2. ASSUME NEW d \in Dirs PROVE GoodDir(d)
  BY DEF SpaceInv, DirsInv
<1>3. ASSUME NEW d \in Dirs PROVE Clean(d, f)
  BY <1>1, <1>2, UserReach DEF Clean, UserFrame
<1> QED BY <1>1, <1>2, <1>3 DEF SpaceInv, StacksInv, GoodDir

\* Frames that were free and become kernel stacks.
LEMMA StacksStep ==
  ASSUME SpaceInv, DataKept, Dirs' \subseteq Dirs, \A d \in Dirs' : SameView(d),
         NEW f, Stacks' \subseteq Stacks \union {f},
         f \notin frame_bitmap, f \in Taken', mem'[f].kind = "zeroed"
  PROVE  StacksInv'
<1>1. Dirs' \in SUBSET Dirs
  OBVIOUS
<1>2. /\ \A k \in Stacks : /\ k \in Taken' /\ mem'[k].kind = "zeroed"
                           /\ \A d \in Dirs' : Clean(d, k)'
      /\ \A d \in Dirs' : \A g : Clean(d, g) => Clean(d, g)'
  BY <1>1, ViewsKept
<1>3. \A d \in Dirs' : Clean(d, f)'
  BY <1>2, FreshIsClean
<1> QED BY <1>2, <1>3 DEF StacksInv

\* A step in which only the call moves on: its directory stays.
LEMMA SameSpaces ==
  ASSUME UNCHANGED <<procs, cr3>>
  PROVE  LiveSlots' = LiveSlots /\ OldDirs' = OldDirs
BY DEF LiveSlots, Live, OldDirs

\* return -1.
LEMMA CreateFailsInv ==
  ASSUME SpaceInv, CreateFails, UNCHANGED <<current, cr3>>
  PROVE  SpaceInv'
<1>1. UNCHANGED <<mem, frame_bitmap, procs, cr3>> /\ job' = NoJob
  BY DEF CreateFails, NoFrameFree, pfaVars
<1>2. DataKept /\ (\A d : SameView(d)) /\ Free' = Free /\ MemInv'
  BY <1>1, SameMemory
<1>3. job'.step \notin Steps /\ ~HasDir' /\ ~HasStack'
  BY <1>1 DEF NoJob, Steps, HasDir, HasStack
<1>4. LiveSlots' = LiveSlots /\ OldDirs' = OldDirs
  BY <1>1, SameSpaces
<1>5. Dirs' \subseteq Dirs /\ Stacks' \subseteq Stacks
  BY <1>1, <1>3, <1>4 DEF Dirs, Stacks
<1>6. \A s \in Slots : Live(s)' => Live(s) /\ procs'[s] = procs[s]
  BY <1>1 DEF Live
<1>7. DirsInv' /\ LoadedInv' /\ StacksInv'
  BY <1>2, <1>3, <1>5, <1>6, KeepStep
<1>8. FrameInv' /\ JobInv'
  BY <1>3 DEF FrameInv, JobInv, Steps
<1>9. TypeInv'
  BY <1>1, <1>2 DEF SpaceInv, TypeInv
<1> QED BY <1>7, <1>8, <1>9 DEF SpaceInv

\* The kernel stack.
LEMMA KernelStackInv == ASSUME SpaceInv, CreateKernelStack PROVE SpaceInv'
<1>1. job.step = "kstack" /\ UNCHANGED <<current, cr3>>
  BY DEF CreateKernelStack
<1>2. CASE CreateFails
  BY <1>1, <1>2, CreateFailsInv
<1>3. ASSUME NEW f \in Frames, pfa_alloc(f),
             mem' = [mem EXCEPT ![Reached(f)] = Zeroed],
             job' = [job EXCEPT !.step = "dir", !.kstack = f],
             UNCHANGED procs
      PROVE  SpaceInv'
  <2>1. job \in Job /\ ~Live(job.slot) /\ job.i = 0
    BY <1>1, JobRecord DEF SpaceInv, JobInv, Steps
  <2>2. /\ job' \in Job /\ job'.step = "dir" /\ job'.slot = job.slot
        /\ job'.i = job.i /\ job'.kstack = f /\ job'.name = job.name
    BY <1>3, <2>1 DEF Job, Steps
  <2>3. /\ f \notin frame_bitmap /\ f \in Taken' /\ mem'[f] = Zeroed
        /\ MemInv' /\ Free' \subseteq Free
        /\ DataKept /\ \A d \in Dirs : SameView(d)
    BY <1>3, FreshFrame
  <2>4. ~HasDir /\ ~HasDir' /\ ~HasStack /\ HasStack'
    BY <1>1, <2>2 DEF HasDir, HasStack, Steps
  <2>5. LiveSlots' = LiveSlots /\ OldDirs' = OldDirs
    BY <1>1, <1>3, SameSpaces
  <2>6. Dirs' = Dirs /\ Stacks' \subseteq Stacks \union {f}
    BY <1>3, <2>2, <2>4, <2>5 DEF Dirs, Stacks
  <2>7. \A s \in Slots : Live(s)' => Live(s) /\ procs'[s] = procs[s]
    BY <1>3 DEF Live
  <2>8. DirsInv' /\ LoadedInv'
    BY <2>3, <2>4, <2>6, <2>7, KeepStep
  <2>9. mem'[f].kind = "zeroed"
    BY <2>3 DEF Zeroed
  <2>10. StacksInv'
    BY <2>3, <2>6, <2>9, StacksStep
  <2>11. FrameInv' /\ JobInv'
    BY <1>3, <2>1, <2>2 DEF FrameInv, JobInv, Live
  <2>12. TypeInv'
    BY <1>1, <1>3, <2>2, <2>3 DEF SpaceInv, TypeInv
  <2> QED BY <2>8, <2>10, <2>11, <2>12 DEF SpaceInv
<1> QED BY <1>2, <1>3 DEF CreateKernelStack

\* The frame for a code page or for the user stack.
LEMMA DataFrameInv == ASSUME SpaceInv, LoadCode \/ CreateUserStack PROVE SpaceInv'
<1>1. /\ job.step \in {"code", "stack"} /\ UNCHANGED <<current, cr3>>
  BY DEF LoadCode, CreateUserStack
<1>2. CASE CreateFails
  BY <1>1, <1>2, CreateFailsInv
<1>3. ASSUME NEW f \in Frames, NEW v, NEW step, pfa_alloc(f),
             mem' = [mem EXCEPT ![Reached(f)] = v],
             job' = [job EXCEPT !.step = step, !.frame = f],
             UNCHANGED procs,
             \/ job.step = "code" /\ step = "map" /\ v = Code(job.name, job.i)
             \/ job.step = "stack" /\ step = "mapstack" /\ v = Zeroed
      PROVE  SpaceInv'
  <2>1. job \in Job /\ ~Live(job.slot)
    BY <1>1, JobRecord DEF Steps
  <2>2. /\ job' \in Job /\ job'.step = step /\ job'.slot = job.slot
        /\ job'.i = job.i /\ job'.kstack = job.kstack /\ job'.name = job.name
        /\ job'.dir = job.dir /\ job'.frame = f
    BY <1>3, <2>1 DEF Job, Steps
  <2>3. /\ f \in Free /\ f \notin frame_bitmap /\ f \in Taken' /\ mem'[f] = v
        /\ MemInv' /\ Free' \subseteq Free
        /\ DataKept /\ \A d \in Dirs : SameView(d)
    BY <1>3, FreshFrame
  <2>4. HasDir /\ HasDir' /\ HasStack /\ HasStack'
    BY <1>1, <1>3, <2>2 DEF HasDir, HasStack, Steps
  <2>5. LiveSlots' = LiveSlots /\ OldDirs' = OldDirs
    BY <1>1, <1>3, SameSpaces
  <2>6. Dirs' = Dirs /\ Stacks' = Stacks
    BY <1>3, <2>2, <2>4, <2>5 DEF Dirs, Stacks
  <2>7. \A s \in Slots : Live(s)' => Live(s) /\ procs'[s] = procs[s]
    BY <1>3 DEF Live
  <2>8. job'.dir \notin OldDirs'
    BY <2>2, <2>4, <2>5 DEF SpaceInv, DirsInv
  <2>9. DirsInv' /\ LoadedInv' /\ StacksInv'
    BY <2>3, <2>6, <2>7, <2>8, KeepStep
  <2>10. Dirs' \in SUBSET Dirs
    BY <2>6
  <2>11. /\ \A d \in Dirs' : \A g : Clean(d, g) => Clean(d, g)'
         /\ \A d \in Dirs' : \A name : \A n \in Nat :
              n <= MAX_FRAMES /\ CodeIn(d, name, n) => CodeIn(d, name, n)'
    BY <2>3, <2>6, <2>10, ViewsKept
  <2>12. v.kind \in {"code", "zeroed"}
    BY <1>3 DEF Code, Zeroed
  <2>13. FrameInv'
    <3>1. UserFrame(f)'
      BY <2>3, <2>12 DEF UserFrame
    <3>2. f \notin Stacks' /\ \A d \in Dirs' : Clean(d, f)'
      BY <2>3, <2>6, <2>11, FreshIsClean
    <3>3. step = "map" => mem'[f] = Code(job'.name, job'.i)
      BY <1>3, <2>2, <2>3
    <3> QED BY <2>2, <3>1, <3>2, <3>3 DEF FrameInv
  <2>14. JobInv'
    <3>1. job.name \in Files /\ job.i \in Nat
      BY <2>1 DEF Job
    <3>2. /\ job.step = "code" => job.i < CodePages[job.name]
          /\ job.step = "stack" => job.i = CodePages[job.name]
          /\ CodeIn(job.dir, job.name, job.i)
      BY <1>1, <2>3 DEF SpaceInv, JobInv, Steps
    <3>3. job.i <= MAX_FRAMES
      BY <1>1, <3>1, <3>2, CodeSmall, PfaAssumption DEF SpaceInv
    <3>4. PICK d, name, n : d = job.dir /\ name = job.name /\ n = job.i
      OBVIOUS
    <3>5. d \in Dirs'
      BY <2>2, <2>4, <3>4 DEF Dirs
    <3>6. CodeIn(d, name, n)'
      BY <2>11, <3>1, <3>2, <3>3, <3>4, <3>5
    <3>7. CodeIn(job.dir, job.name, job.i)'
      BY <2>2, <3>4, <3>6
    <3>8. ~Live(job.slot)'
      BY <1>3, <2>1, <2>2 DEF Live
    <3> QED BY <1>3, <2>2, <3>2, <3>7, <3>8 DEF JobInv
  <2>15. TypeInv'
    BY <1>1, <1>3, <2>2, <2>3 DEF SpaceInv, TypeInv
  <2> QED BY <2>9, <2>13, <2>14, <2>15 DEF SpaceInv
<1>4. CASE LoadCode
  BY <1>2, <1>3, <1>4 DEF LoadCode
<1>5. CASE CreateUserStack
  BY <1>2, <1>3, <1>5 DEF CreateUserStack
<1> QED BY <1>4, <1>5

-----------------------------------------------------------------------------
(* The directory, and mapping a page in it                                 *)

\* A fresh directory maps nothing for the user.
LEMMA FreshDir ==
  ASSUME NEW f, f \in Taken', mem'[f] = paging_create_kernel_dir
  PROVE  /\ GoodDir(f)'
         /\ \A p \in Pages : ~HasTable(f, p)' /\ ~UserMay(f, p)'
                             /\ PdeOf(f, p)'.pt = PS
<1>1. paging_create_kernel_dir \in DirSet
  BY DEF paging_create_kernel_dir, Dir, DirSet, PdeSet, Pde
<1>2. \A p \in Pages : PdeOf(f, p)' = Pde(PS, FALSE)
  <2> SUFFICES ASSUME NEW p \in Pages
               PROVE  mem'[f].pdes[p \div PTES] = Pde(PS, FALSE)
    BY DEF PdeOf
  <2>1. PICK i : i = p \div PTES
    OBVIOUS
  <2>2. i \in Pdes
    BY <2>1, PageSplit
  <2>3. mem'[f].pdes = [k \in Pdes |-> Pde(PS, FALSE)]
    BY DEF paging_create_kernel_dir, Dir
  <2>4. mem'[f].pdes[i] = Pde(PS, FALSE)
    BY <2>2, <2>3
  <2> QED BY <2>1, <2>4
<1>3. \A p \in Pages : PdeOf(f, p)'.pt = PS
  BY <1>2 DEF Pde
<1>4. \A p \in Pages : ~HasTable(f, p)' /\ ~UserMay(f, p)'
  BY <1>3 DEF HasTable, UserMay
<1> QED BY <1>1, <1>3, <1>4 DEF GoodDir

\* The page directory.
LEMMA KernelDirInv == ASSUME SpaceInv, CreateKernelDir PROVE SpaceInv'
<1>1. job.step = "dir" /\ UNCHANGED <<current, cr3>>
  BY DEF CreateKernelDir
<1>2. CASE CreateFails
  BY <1>1, <1>2, CreateFailsInv
<1>3. ASSUME NEW f \in Frames, pfa_alloc(f),
             mem' = [mem EXCEPT ![Reached(f)] = paging_create_kernel_dir],
             job' = [job EXCEPT !.step = CodeOrStack(0), !.dir = f],
             UNCHANGED procs
      PROVE  SpaceInv'
  <2>1. /\ job \in Job /\ ~Live(job.slot) /\ job.i = 0
        /\ job.name \in Files
    BY <1>1, JobRecord DEF SpaceInv, JobInv, Steps, Job
  <2>2. /\ CodePages[job.name] \in Nat
        /\ \/ CodeOrStack(0) = "code" /\ 0 < CodePages[job.name]
           \/ CodeOrStack(0) = "stack" /\ 0 = CodePages[job.name]
    BY <2>1, CodeSmall DEF CodeOrStack, SpaceInv
  <2>3. /\ job' \in Job /\ job'.step = CodeOrStack(0) /\ job'.slot = job.slot
        /\ job'.i = 0 /\ job'.kstack = job.kstack /\ job'.name = job.name
        /\ job'.dir = f
    BY <1>3, <2>1, <2>2 DEF Job, Steps
  <2>4. /\ f \notin frame_bitmap /\ f \in Taken' /\ mem'[f] = paging_create_kernel_dir
        /\ MemInv' /\ Free' \subseteq Free
        /\ DataKept /\ \A d \in Dirs : SameView(d)
    BY <1>3, FreshFrame
  <2>5. ~HasDir /\ HasDir' /\ HasStack /\ HasStack'
    BY <1>1, <2>2, <2>3 DEF HasDir, HasStack, Steps
  <2>6. LiveSlots' = LiveSlots /\ OldDirs' = OldDirs
    BY <1>1, <1>3, SameSpaces
  <2>7. Dirs = OldDirs /\ Dirs' = OldDirs \union {f} /\ Stacks' = Stacks
    BY <1>3, <2>3, <2>5, <2>6 DEF Dirs, Stacks
  <2>8. Dirs \in SUBSET Dirs
    OBVIOUS
  <2>9. /\ \A d \in Dirs : GoodDir(d)'
        /\ \A d, e \in Dirs : d # e => Apart(d, e)'
        /\ \A k \in Stacks : /\ k \in Taken' /\ mem'[k].kind = "zeroed"
                             /\ \A d \in Dirs : Clean(d, k)'
        /\ \A d \in Dirs : \A name : \A n \in Nat :
             n <= MAX_FRAMES /\ CodeIn(d, name, n) => CodeIn(d, name, n)'
        /\ \A d \in Dirs : \A g : StackIn(d, g) => StackIn(d, g)'
    BY <2>4, <2>8, ViewsKept
  <2>10. /\ GoodDir(f)'
         /\ \A p \in Pages : ~HasTable(f, p)' /\ ~UserMay(f, p)'
                             /\ PdeOf(f, p)'.pt = PS
    BY <2>4, FreshDir
  <2>11. \A d \in Dirs : Apart(d, f)' /\ Apart(f, d)'
    BY <2>10 DEF Apart, HasTable
  <2>12. f \notin OldDirs
    BY <2>4, <2>7, FreshIsClean
  <2>13. DirsInv'
    <3>1. \A d \in Dirs' : GoodDir(d)'
      BY <2>7, <2>9, <2>10
    <3>2. \A d, e \in Dirs' : d # e => Apart(d, e)'
      BY <2>7, <2>9, <2>11
    <3>3. \A s, t \in LiveSlots' : s # t => procs'[s].page_dir # procs'[t].page_dir
      BY <1>3, <2>6 DEF SpaceInv, DirsInv
    <3> QED BY <2>3, <2>6, <2>12, <3>1, <3>2, <3>3 DEF DirsInv
  <2>14. StacksInv'
    <3>1. \A k : Clean(f, k)'
      BY <2>10 DEF Clean
    <3> QED BY <2>7, <2>9, <3>1 DEF StacksInv
  <2>15. LoadedInv'
    <3> SUFFICES ASSUME NEW s \in LiveSlots
                 PROVE  /\ CodeIn(procs[s].page_dir, procs[s].name,
                                  CodePages[procs[s].name])'
                        /\ StackIn(procs[s].page_dir, procs[s].stack)' \/ Free' = {}
      BY <2>6 DEF LoadedInv
    <3>1. PICK d, name, g : d = procs[s].page_dir /\ name = procs[s].name
                            /\ g = procs[s].stack
      OBVIOUS
    <3>2. d \in Dirs /\ name \in Files
      BY <2>7, <3>1, LiveProcess DEF OldDirs, Process
    <3>3. CodeIn(d, name, CodePages[name]) /\ (StackIn(d, g) \/ Free = {})
      BY <3>1 DEF SpaceInv, LoadedInv
    <3>4. CodeIn(d, name, CodePages[name])' /\ (StackIn(d, g)' \/ Free' = {})
      BY <2>4, <2>9, <3>2, <3>3, CodeSmall DEF SpaceInv
    <3> QED BY <1>3, <3>1, <3>4
  <2>16. FrameInv'
    BY <2>2, <2>3 DEF FrameInv
  <2>17. JobInv'
    <3>1. CodeIn(job.dir, job.name, job.i)'
      BY <2>3 DEF CodeIn
    <3>2. ~Live(job.slot)'
      BY <1>3, <2>1, <2>3 DEF Live
    <3> QED BY <2>2, <2>3, <3>1, <3>2 DEF JobInv
  <2>18. TypeInv'
    BY <1>1, <1>3, <2>3, <2>4 DEF SpaceInv, TypeInv
  <2> QED BY <2>13, <2>14, <2>15, <2>16, <2>17, <2>18 DEF SpaceInv
<1> QED BY <1>2, <1>3 DEF CreateKernelDir

\* The step gives page an entry for the user, in the table t, and leaves
\* every other page of the directory as it was.
Rewired(dir, page, frame, t) ==
  /\ mem'[dir] \in DirSet
  /\ t \in Taken' /\ t # PS /\ mem'[t] \in TableSet
  /\ \A q \in Pages : q \div PTES = page \div PTES => PdeOf(dir, q)' = Pde(t, TRUE)
  /\ \A q \in Pages : q \div PTES # page \div PTES =>
       /\ PdeOf(dir, q)' = PdeOf(dir, q)
       /\ HasTable(dir, q) => /\ PdeOf(dir, q).pt # t
                              /\ mem'[PdeOf(dir, q).pt] = mem[PdeOf(dir, q).pt]
  /\ mem'[t].ptes[page % PTES] = Pte(frame, TRUE)
  /\ \A q \in Pages : q \div PTES = page \div PTES /\ q # page =>
       mem'[t].ptes[q % PTES] =
         IF HasTable(dir, q) THEN PteOf(dir, q) ELSE Pte(q, FALSE)

\* Only page's own translation changes.
OnlyMaps(dir, page, frame) ==
  /\ UserMay(dir, page)' /\ Phys(dir, page)' = frame
  /\ \A q \in Pages \ {page} :
       (UserMay(dir, q)' <=> UserMay(dir, q)) /\ Phys(dir, q)' = Phys(dir, q)

LEMMA RewiredGood ==
  ASSUME SpaceInv, DataKept, NEW dir \in Dirs, NEW page \in UserPages, NEW frame,
         UserFrame(frame), NEW t, Rewired(dir, page, frame, t)
  PROVE  /\ GoodDir(dir)'
         /\ OnlyMaps(dir, page, frame)
         /\ \A q \in Pages : HasTable(dir, q)' =>
              PdeOf(dir, q)'.pt = t \/ PdeOf(dir, q)'.pt = PdeOf(dir, q).pt
<1> DEFINE Here(q) == q \div PTES = page \div PTES
<1>1. GoodDir(dir) /\ page \in Pages /\ Taken \subseteq Taken' /\ Taken \subseteq Frames
  BY FrameFacts DEF SpaceInv, DirsInv, DataKept, Taken, UserPages
<1>2. \A f : UserFrame(f) => UserFrame(f)'
  BY <1>1 DEF UserFrame, DataKept
<1>3. \A q \in Pages : Here(q) =>
        PdeOf(dir, q)'.pt = t /\ PdeOf(dir, q)'.user = TRUE /\ HasTable(dir, q)'
  BY DEF Rewired, HasTable, Pde
<1>4. \A q \in Pages : ~Here(q) =>
        /\ PdeOf(dir, q)' = PdeOf(dir, q)
        /\ HasTable(dir, q)' <=> HasTable(dir, q)
        /\ HasTable(dir, q) => PteOf(dir, q)' = PteOf(dir, q)
  BY DEF Rewired, HasTable, PteOf
<1>5. PteOf(dir, page)' = Pte(frame, TRUE)
  BY <1>1, <1>3 DEF Rewired, PteOf
<1>6. \A q \in Pages : Here(q) /\ q # page =>
        PteOf(dir, q)' = IF HasTable(dir, q) THEN PteOf(dir, q) ELSE Pte(q, FALSE)
  BY <1>3 DEF Rewired, PteOf
<1> HIDE DEF Here
<1>7. GoodDir(dir)'
  <2>1. dir \in Taken' /\ mem'[dir] \in DirSet
    BY <1>1 DEF GoodDir, Rewired
  <2>2. ASSUME NEW q \in Pages, HasTable(dir, q)'
        PROVE  /\ PdeOf(dir, q)'.pt \in Taken' /\ mem'[PdeOf(dir, q)'.pt] \in TableSet
               /\ PdeOf(dir, q)'.user
               /\ \/ PteOf(dir, q)' = Pte(q, FALSE)
                  \/ q \in UserPages /\ UserFrame(PteOf(dir, q).phys)'
    <3>1. CASE q = page
      <4>1. PteOf(dir, page)'.phys = frame
        BY <1>5 DEF Pte
      <4>2. UserFrame(PteOf(dir, page).phys)'
        BY <1>2, <4>1
      <4>3. Here(page)
        BY DEF Here
      <4> QED BY <1>1, <1>3, <3>1, <4>2, <4>3 DEF Rewired
    <3>2. CASE q # page /\ Here(q)
      <4>1. PdeOf(dir, q)'.pt = t /\ PdeOf(dir, q)'.user
        BY <1>3, <3>2
      <4>2. CASE HasTable(dir, q)
        <5>1. PteOf(dir, q)' = PteOf(dir, q)
          BY <1>6, <3>2, <4>2
        <5>2. PteOf(dir, q) = Pte(q, FALSE)
                \/ (q \in UserPages /\ UserFrame(PteOf(dir, q).phys))
          BY <1>1, <4>2 DEF GoodDir
        <5> QED BY <1>2, <4>1, <5>1, <5>2 DEF Rewired
      <4>3. CASE ~HasTable(dir, q)
        BY <1>6, <3>2, <4>1, <4>3 DEF Rewired
      <4> QED BY <4>2, <4>3
    <3>3. CASE ~Here(q)
      <4>1. /\ HasTable(dir, q) /\ PdeOf(dir, q)' = PdeOf(dir, q)
            /\ PteOf(dir, q)' = PteOf(dir, q)
        BY <1>4, <2>2, <3>3
      <4>2. mem'[PdeOf(dir, q).pt] = mem[PdeOf(dir, q).pt]
        BY <3>3, <4>1 DEF Rewired, Here
      <4>3. /\ PdeOf(dir, q).pt \in Taken /\ mem[PdeOf(dir, q).pt] \in TableSet
            /\ PdeOf(dir, q).user
            /\ \/ PteOf(dir, q) = Pte(q, FALSE)
               \/ q \in UserPages /\ UserFrame(PteOf(dir, q).phys)
        BY <1>1, <4>1 DEF GoodDir
      <4> QED BY <1>1, <1>2, <4>1, <4>2, <4>3
    <3> QED BY <3>1, <3>2, <3>3
  <2>3. ASSUME NEW q \in Pages, NEW r \in Pages, HasTable(dir, q)',
               PdeOf(dir, q)'.pt = PdeOf(dir, r)'.pt
        PROVE  q \div PTES = r \div PTES
    <3>1. CASE Here(q) /\ Here(r)
      BY <3>1 DEF Here
    <3>2. CASE Here(q) /\ ~Here(r)
      <4>1. PdeOf(dir, r)'.pt = t /\ t # PS
        BY <1>3, <2>3, <3>2 DEF Rewired
      <4>2. PdeOf(dir, r).pt = t /\ HasTable(dir, r)
        BY <1>4, <3>2, <4>1 DEF HasTable
      <4> QED BY <3>2, <4>2 DEF Rewired, Here
    <3>3. CASE ~Here(q) /\ Here(r)
      <4>1. PdeOf(dir, q)'.pt = t /\ HasTable(dir, q)
        BY <1>3, <1>4, <2>3, <3>3
      <4>2. PdeOf(dir, q).pt = t
        BY <1>4, <3>3, <4>1
      <4> QED BY <3>3, <4>1, <4>2 DEF Rewired, Here
    <3>4. CASE ~Here(q) /\ ~Here(r)
      BY <1>1, <1>4, <2>3, <3>4 DEF GoodDir
    <3> QED BY <3>1, <3>2, <3>3, <3>4
  <2> QED BY <2>1, <2>2, <2>3 DEF GoodDir
<1>8. UserMay(dir, page)' /\ Phys(dir, page)' = frame
  <2>1. HasTable(dir, page)' /\ PdeOf(dir, page)'.user
    BY <1>1, <1>3 DEF Here
  <2>2. PteOf(dir, page)'.phys = frame /\ PteOf(dir, page)'.user = TRUE
    BY <1>5 DEF Pte
  <2> QED BY <2>1, <2>2 DEF UserMay, Phys, HasTable, PteOf
<1>9. ASSUME NEW q \in Pages \ {page}
      PROVE  (UserMay(dir, q)' <=> UserMay(dir, q)) /\ Phys(dir, q)' = Phys(dir, q)
  <2>1. CASE Here(q) /\ HasTable(dir, q)
    <3>1. PteOf(dir, q)' = PteOf(dir, q) /\ PdeOf(dir, q)'.user /\ HasTable(dir, q)'
      BY <1>3, <1>6, <2>1
    <3>2. PdeOf(dir, q).user
      BY <1>1, <2>1 DEF GoodDir
    <3> QED BY <2>1, <3>1, <3>2 DEF UserMay, Phys, HasTable, PteOf
  <2>2. CASE Here(q) /\ ~HasTable(dir, q)
    <3>1. PteOf(dir, q)' = Pte(q, FALSE) /\ HasTable(dir, q)'
      BY <1>3, <1>6, <2>2
    <3>2. PteOf(dir, q)'.phys = q /\ PteOf(dir, q)'.user = FALSE
      BY <3>1 DEF Pte
    <3> QED BY <2>2, <3>1, <3>2 DEF UserMay, Phys, HasTable, PteOf
  <2>3. CASE ~Here(q) /\ HasTable(dir, q)
    <3>1. /\ PdeOf(dir, q)' = PdeOf(dir, q) /\ PteOf(dir, q)' = PteOf(dir, q)
      BY <1>4, <2>3
    <3> QED BY <2>3, <3>1 DEF UserMay, Phys, HasTable, PteOf
  <2>4. CASE ~Here(q) /\ ~HasTable(dir, q)
    <3>1. PdeOf(dir, q)' = PdeOf(dir, q)
      BY <1>4, <2>4
    <3> QED BY <2>4, <3>1 DEF UserMay, Phys, HasTable
  <2> QED BY <2>1, <2>2, <2>3, <2>4
<1>10. \A q \in Pages : HasTable(dir, q)' =>
         PdeOf(dir, q)'.pt = t \/ PdeOf(dir, q)'.pt = PdeOf(dir, q).pt
  BY <1>3, <1>4
<1> QED BY <1>7, <1>8, <1>9, <1>10 DEF OnlyMaps

\* Writing one entry of a directory or of a table.
WithPde(dir, i, e)   == [dir EXCEPT !.pdes[i] = e]
WithPte(table, j, e) == [table EXCEPT !.ptes[j] = e]

LEMMA DirUpdate ==
  ASSUME NEW D \in DirSet, NEW i \in Pdes, NEW e \in PdeSet,
         NEW N, N = WithPde(D, i, e)
  PROVE  N \in DirSet /\ N.pdes[i] = e /\ \A k \in Pdes \ {i} : N.pdes[k] = D.pdes[k]
<1>1. D.pdes \in [Pdes -> PdeSet] /\ D.kind = "dir"
  BY DEF DirSet
<1>2. N = [D EXCEPT !.pdes = [D.pdes EXCEPT ![i] = e]]
  BY DEF WithPde
<1>3. N.pdes = [D.pdes EXCEPT ![i] = e]
  BY <1>2 DEF DirSet
<1>4. N \in DirSet
  BY <1>1, <1>2 DEF DirSet
<1> QED BY <1>1, <1>3, <1>4

LEMMA TableUpdate ==
  ASSUME NEW T \in TableSet, NEW j \in 0 .. PTES - 1, NEW e \in PteSet,
         NEW N, N = WithPte(T, j, e)
  PROVE  /\ N \in TableSet /\ N.ptes[j] = e
         /\ \A k \in (0 .. PTES - 1) \ {j} : N.ptes[k] = T.ptes[k]
<1>1. T.ptes \in [0 .. PTES - 1 -> PteSet] /\ T.kind = "table"
  BY DEF TableSet
<1>2. N = [T EXCEPT !.ptes = [T.ptes EXCEPT ![j] = e]]
  BY DEF WithPte
<1>3. N.ptes = [T.ptes EXCEPT ![j] = e]
  BY <1>2 DEF TableSet
<1>4. N \in TableSet
  BY <1>1, <1>2 DEF TableSet
<1> QED BY <1>1, <1>3, <1>4

\* What paging_map_4k does to the directory of the call under way: it maps
\* the page, or there is no memory left; the others keep what they had.
Maps(dir, page, frame) ==
  /\ MemInv' /\ Free' \subseteq Free /\ DataKept
  /\ \A d \in OldDirs : SameView(d)
  /\ GoodDir(dir)'
  /\ OnlyMaps(dir, page, frame) \/ (SameView(dir) /\ Free' = {})
  /\ \A d \in OldDirs : \A p, q \in Pages :
       HasTable(dir, p)' => PdeOf(dir, p)'.pt # PdeOf(d, q)'.pt
  /\ \A q \in Pages : q \div PTES # page \div PTES => PdeOf(dir, q)' = PdeOf(dir, q)

\* The two writes, one to a table that no other directory has.
LEMMA WritesMap ==
  ASSUME SpaceInv, HasDir, NEW dir, dir = job.dir,
         NEW page \in UserPages, NEW frame, UserFrame(frame),
         NEW t, Rewired(dir, page, frame, t), ~UserFrame(t),
         frame_bitmap \subseteq frame_bitmap',
         \A g \in Frames \ {t, dir} : mem'[g] = mem[g],
         \A d \in OldDirs : t # d /\ \A p \in Pages : PdeOf(d, p).pt # t,
         MemInv', Free' \subseteq Free
  PROVE  Maps(dir, page, frame)
<1>1. dir \in Dirs /\ OldDirs \subseteq Dirs /\ dir \notin OldDirs
  BY DEF Dirs, SpaceInv, DirsInv
<1>2. \A d \in Dirs : GoodDir(d) /\ d \in Frames
  BY FrameFacts DEF SpaceInv, DirsInv, GoodDir
<1>3. mem[dir].kind = "dir"
  BY <1>1, <1>2 DEF GoodDir, DirSet
<1>4. DataKept
  BY <1>3 DEF DataKept, UserFrame
<1>5. ASSUME NEW d \in OldDirs PROVE SameView(d)
  <2>1. d \in Frames \ {t, dir}
    BY <1>1, <1>2
  <2>2. ASSUME NEW p \in Pages, HasTable(d, p)
        PROVE  PdeOf(d, p).pt \in Frames \ {t, dir}
    <3>1. PdeOf(d, p).pt \in Taken /\ mem[PdeOf(d, p).pt] \in TableSet
      BY <1>1, <1>2, <2>2 DEF GoodDir
    <3>2. mem[PdeOf(d, p).pt].kind = "table"
      BY <3>1 DEF TableSet
    <3> QED BY <1>3, <3>1, <3>2, FrameFacts
  <2> QED BY <2>1, <2>2 DEF SameView
<1>6. /\ GoodDir(dir)' /\ OnlyMaps(dir, page, frame)
      /\ \A q \in Pages : HasTable(dir, q)' =>
           PdeOf(dir, q)'.pt = t \/ PdeOf(dir, q)'.pt = PdeOf(dir, q).pt
  BY <1>1, <1>4, RewiredGood
<1>7. ASSUME NEW d \in OldDirs, NEW p \in Pages, NEW q \in Pages, HasTable(dir, p)'
      PROVE  PdeOf(dir, p)'.pt # PdeOf(d, q)'.pt
  <2>1. PdeOf(d, q)' = PdeOf(d, q)
    BY <1>1, <1>4, <1>5, ViewKept
  <2>2. CASE PdeOf(dir, p)'.pt = t
    BY <2>1, <2>2
  <2>3. CASE PdeOf(dir, p)'.pt = PdeOf(dir, p).pt
    <3>1. HasTable(dir, p)
      BY <1>7, <2>3 DEF HasTable
    <3>2. Apart(dir, d)
      BY <1>1 DEF SpaceInv, DirsInv
    <3> QED BY <2>1, <2>3, <3>1, <3>2 DEF Apart
  <2> QED BY <1>6, <1>7, <2>2, <2>3
<1>8. \A q \in Pages : q \div PTES # page \div PTES => PdeOf(dir, q)' = PdeOf(dir, q)
  BY DEF Rewired
<1> QED BY <1>4, <1>5, <1>6, <1>7, <1>8 DEF Maps

\* The table of a 4 MiB page maps its pages as that page did.
LEMMA SplitFacts ==
  ASSUME NEW page \in Pages
  PROVE  /\ SplitTable(page \div PTES) \in TableSet
         /\ \A q \in Pages : q \div PTES = page \div PTES =>
              SplitTable(page \div PTES).ptes[q % PTES] = Pte(q, FALSE)
<1>1. PICK i : i = page \div PTES
  OBVIOUS
<1>2. i \in Pdes /\ PTES \in Nat
  BY <1>1, PageSplit, AddressSpaceAssumption
<1>3. SplitTable(i).ptes = [j \in 0 .. PTES - 1 |-> Pte(i * PTES + j, FALSE)]
  BY DEF SplitTable, Table
<1>4. \A j \in 0 .. PTES - 1 : i * PTES + j \in Frames
  <2> DEFINE n == MAX_FRAMES \div PTES
  <2>1. n \in Nat /\ PTES > 0 /\ MAX_FRAMES \in Nat
    BY <1>2, PfaAssumption, AddressSpaceAssumption
  <2>2. PTES * n = MAX_FRAMES
    <3> DEFINE k == MAX_FRAMES % PTES
    <3>1. MAX_FRAMES = PTES * n + k
      BY <1>2, <2>1
    <3>2. k = 0
      BY AddressSpaceAssumption
    <3> HIDE DEF n, k
    <3> QED BY <1>2, <2>1, <3>1, <3>2
  <2>3. i \in Nat /\ i + 1 <= n
    BY <1>2, <2>1 DEF Pdes
  <2> HIDE DEF n
  <2>4. PTES * (i + 1) <= PTES * n
    BY <1>2, <2>1, <2>3
  <2>5. i * PTES + PTES = PTES * (i + 1) /\ i * PTES \in Nat
    BY <1>2, <2>3
  <2> QED BY <1>2, <2>1, <2>2, <2>3, <2>4, <2>5 DEF Frames
<1>5. SplitTable(i) \in TableSet
  <2>1. \A j \in 0 .. PTES - 1 : Pte(i * PTES + j, FALSE) \in PteSet
    BY <1>4 DEF Pte, PteSet
  <2> QED BY <2>1 DEF SplitTable, Table, TableSet
<1>6. ASSUME NEW q \in Pages, q \div PTES = i
      PROVE  SplitTable(i).ptes[q % PTES] = Pte(q, FALSE)
  <2>1. PICK j : j = q % PTES
    OBVIOUS
  <2>2. j \in 0 .. PTES - 1 /\ i * PTES + j = q
    BY <1>6, <2>1, PageSplit
  <2>3. SplitTable(i).ptes[j] = Pte(i * PTES + j, FALSE)
    BY <1>3, <2>2
  <2> QED BY <2>1, <2>2, <2>3
<1> QED BY <1>1, <1>5, <1>6

\* paging_map_4k with a new table.
LEMMA NewTableMaps ==
  ASSUME SpaceInv, HasDir, NEW dir, dir = job.dir,
         NEW page \in UserPages, NEW frame, UserFrame(frame),
         mem[Reached(dir)].pdes[page \div PTES].pt = PS,
         NEW t \in Frames, pfa_alloc(t),
         mem' = [mem EXCEPT
           ![Reached(t)] = [SplitTable(page \div PTES) EXCEPT
                              !.ptes[page % PTES] = Pte(frame, TRUE)],
           ![Reached(dir)].pdes[page \div PTES] = Pde(t, TRUE)]
  PROVE  Maps(dir, page, frame)
<1>1. PICK i, j : i = page \div PTES /\ j = page % PTES
  OBVIOUS
<1>2. page \in Pages /\ i \in Pdes /\ j \in 0 .. PTES - 1
  BY <1>1, PageSplit DEF UserPages
<1>3. t \in Free /\ t \notin frame_bitmap /\ t \notin UserPages /\ t # 0
  BY FrameFacts DEF pfa_alloc, LowestFree
<1>4. /\ dir \in Dirs /\ dir \in Taken /\ mem[dir] \in DirSet /\ GoodDir(dir)
      /\ dir \in Frames /\ dir # t
  <2>1. dir \in Dirs
    BY DEF Dirs
  <2>2. GoodDir(dir)
    BY <2>1 DEF SpaceInv, DirsInv
  <2>3. dir \in Taken /\ mem[dir] \in DirSet
    BY <2>2 DEF GoodDir
  <2>4. dir \in frame_bitmap /\ dir \in Frames
    BY <2>3, FrameFacts DEF Taken
  <2> QED BY <1>3, <2>1, <2>2, <2>3, <2>4
<1>5. Reached(t) = t /\ Reached(dir) = dir
  BY <1>3, <1>4, ReachedIs
<1>6. PICK T, D : /\ T = [SplitTable(i) EXCEPT !.ptes[j] = Pte(frame, TRUE)]
                  /\ D = [mem[dir] EXCEPT !.pdes[i] = Pde(t, TRUE)]
  OBVIOUS
<1>7. mem = [g \in Frames |-> mem[g]]
  BY DEF SpaceInv, TypeInv, MemInv
<1>8. mem' = [[mem EXCEPT ![t] = T] EXCEPT ![dir].pdes[i] = Pde(t, TRUE)]
  BY <1>1, <1>5, <1>6
<1>9. mem' = [g \in Frames |-> IF g = dir THEN D ELSE IF g = t THEN T ELSE mem[g]]
  BY <1>4, <1>6, <1>7, <1>8
<1>10. /\ mem'[dir] = D /\ mem'[t] = T
       /\ \A g \in Frames \ {t, dir} : mem'[g] = mem[g]
       /\ mem' = [g \in Frames |-> mem'[g]]
  BY <1>4, <1>9
<1>11. frame \in Frames
  BY FrameFacts DEF UserFrame
<1>12. /\ T \in TableSet /\ T.ptes[j] = Pte(frame, TRUE)
       /\ \A k \in (0 .. PTES - 1) \ {j} : T.ptes[k] = SplitTable(i).ptes[k]
  <2>1. Pte(frame, TRUE) \in PteSet
    BY <1>11 DEF Pte, PteSet
  <2>2. SplitTable(i) \in TableSet
    BY <1>1, <1>2, SplitFacts
  <2>3. PICK S, e : S = SplitTable(i) /\ e = Pte(frame, TRUE)
    OBVIOUS
  <2>4. T = WithPte(S, j, e) /\ S \in TableSet /\ e \in PteSet
    BY <1>6, <2>1, <2>2, <2>3 DEF WithPte
  <2>5. /\ T \in TableSet /\ T.ptes[j] = e
        /\ \A k \in (0 .. PTES - 1) \ {j} : T.ptes[k] = S.ptes[k]
    BY <1>2, <2>4, TableUpdate
  <2> QED BY <2>3, <2>5
<1>13. /\ D \in DirSet /\ D.pdes[i] = Pde(t, TRUE)
       /\ \A k \in Pdes \ {i} : D.pdes[k] = mem[dir].pdes[k]
  <2>1. Pde(t, TRUE) \in PdeSet
    BY DEF Pde, PdeSet
  <2>2. PICK S, e : S = mem[dir] /\ e = Pde(t, TRUE)
    OBVIOUS
  <2>3. D = WithPde(S, i, e) /\ S \in DirSet /\ e \in PdeSet
    BY <1>4, <1>6, <2>1, <2>2 DEF WithPde
  <2>4. /\ D \in DirSet /\ D.pdes[i] = e
        /\ \A k \in Pdes \ {i} : D.pdes[k] = S.pdes[k]
    BY <1>2, <2>3, DirUpdate
  <2> QED BY <2>2, <2>4
<1>14. frame_bitmap' = frame_bitmap \union {t} /\ Free' \subseteq Free /\ t \in Taken'
  <2>1. frame_bitmap' = frame_bitmap \union {t}
    BY DEF pfa_alloc, MarkUsed
  <2> QED BY <1>3, <2>1 DEF Free, Taken
<1>15. MemInv'
  <2>1. mem[KernelDir].kind = "dir" /\ KernelDir \in Frames \ {t}
    BY <1>3 DEF SpaceInv, TypeInv, MemInv
  <2>2. mem'[KernelDir].kind = "dir"
    BY <1>10, <1>13, <2>1 DEF DirSet
  <2>3. /\ frame_bitmap' \subseteq Frames /\ KernelDir \in frame_bitmap'
        /\ \A f \in Free' : f \in MinFree .. MaxFree
    BY <1>14 DEF SpaceInv, TypeInv, MemInv
  <2> QED BY <1>10, <2>2, <2>3 DEF MemInv
<1>16. \A d \in Dirs : /\ t # d
                       /\ \A p \in Pages : HasTable(d, p) => PdeOf(d, p).pt # t
  <2>1. \A g \in Taken : g # t
    BY <1>3 DEF Taken
  <2>2. \A d \in Dirs : GoodDir(d)
    BY DEF SpaceInv, DirsInv
  <2> QED BY <2>1, <2>2 DEF GoodDir
<1>17. t \in Nat /\ t # PS
  BY DEF Frames, PS
<1>18. Rewired(dir, page, frame, t)
  <2>1. ASSUME NEW q \in Pages, q \div PTES = i
        PROVE  PdeOf(dir, q)' = Pde(t, TRUE)
    BY <1>10, <1>13, <2>1 DEF PdeOf
  <2>2. ASSUME NEW q \in Pages, q \div PTES # i
        PROVE  /\ PdeOf(dir, q)' = PdeOf(dir, q)
               /\ HasTable(dir, q) => /\ PdeOf(dir, q).pt # t
                                      /\ mem'[PdeOf(dir, q).pt] = mem[PdeOf(dir, q).pt]
    <3>1. q \div PTES \in Pdes \ {i}
      BY <2>2, PageSplit
    <3>2. mem'[dir].pdes[q \div PTES] = mem[dir].pdes[q \div PTES]
      BY <1>10, <1>13, <3>1
    <3>3. ASSUME HasTable(dir, q)
          PROVE  PdeOf(dir, q).pt \in Frames \ {t, dir}
      <4>1. PdeOf(dir, q).pt \in Taken /\ mem[PdeOf(dir, q).pt] \in TableSet
        BY <1>4, <3>3 DEF GoodDir
      <4>2. mem[PdeOf(dir, q).pt].kind = "table" /\ mem[dir].kind = "dir"
        BY <1>4, <4>1 DEF TableSet, DirSet
      <4> QED BY <1>4, <1>16, <3>3, <4>1, <4>2, FrameFacts
    <3> QED BY <1>10, <3>2, <3>3 DEF PdeOf
  <2>3. ASSUME NEW q \in Pages, q \div PTES = i, q # page
        PROVE  mem'[t].ptes[q % PTES] =
                 IF HasTable(dir, q) THEN PteOf(dir, q) ELSE Pte(q, FALSE)
    <3>1. ~HasTable(dir, q)
      BY <1>1, <1>5, <2>3 DEF HasTable, PdeOf
    <3>2. q % PTES # j
      BY <1>1, <1>2, <2>3, PageIs
    <3>3. q % PTES \in (0 .. PTES - 1) \ {j}
      BY <3>2, PageSplit
    <3>4. T.ptes[q % PTES] = SplitTable(i).ptes[q % PTES]
      BY <1>12, <3>3
    <3>5. SplitTable(i).ptes[q % PTES] = Pte(q, FALSE)
      BY <1>1, <1>2, <2>3, SplitFacts
    <3> QED BY <1>10, <3>1, <3>4, <3>5
  <2> QED BY <1>1, <1>10, <1>12, <1>13, <1>14, <1>17, <2>1, <2>2, <2>3 DEF Rewired
<1>19. ~UserFrame(t)
  BY <1>3 DEF UserFrame, Taken
<1>20. \A d \in OldDirs : t # d /\ \A p \in Pages : PdeOf(d, p).pt # t
  BY <1>16, <1>17 DEF Dirs, HasTable
<1> QED BY <1>10, <1>14, <1>15, <1>18, <1>19, <1>20, WritesMap

\* paging_map_4k in a table that is there.
OldTableWrites(dir, page, frame, t) ==
  mem' = [mem EXCEPT
    ![Reached(dir)].pdes[page \div PTES].user = TRUE,
    ![Reached(t)].ptes[page % PTES] = Pte(frame, TRUE)]

LEMMA OldTableMaps ==
  ASSUME SpaceInv, HasDir, NEW dir, dir = job.dir,
         NEW page \in UserPages, NEW frame, UserFrame(frame), NEW t,
         t = mem[Reached(dir)].pdes[page \div PTES].pt, t # PS,
         OldTableWrites(dir, page, frame, t),
         UNCHANGED pfaVars
  PROVE  Maps(dir, page, frame)
<1>1. PICK i, j : i = page \div PTES /\ j = page % PTES
  OBVIOUS
<1>2. page \in Pages /\ i \in Pdes /\ j \in 0 .. PTES - 1
  BY <1>1, PageSplit DEF UserPages
<1>3. dir \in Dirs /\ OldDirs \subseteq Dirs /\ dir \notin OldDirs
  BY DEF Dirs, SpaceInv, DirsInv
<1>4. GoodDir(dir)
  BY <1>3 DEF SpaceInv, DirsInv
<1>5. dir \in Taken /\ mem[dir] \in DirSet /\ dir \in Frames
  BY <1>4, FrameFacts DEF GoodDir
<1>6. Reached(dir) = dir
  BY <1>5, ReachedIs
<1>7. t = PdeOf(dir, page).pt /\ HasTable(dir, page)
  BY <1>6 DEF PdeOf, HasTable
<1>8. /\ t \in Taken /\ mem[t] \in TableSet /\ t \in Frames
      /\ mem[dir].pdes[i].user
  <2>1. t \in Taken /\ mem[t] \in TableSet /\ PdeOf(dir, page).user
    BY <1>2, <1>4, <1>7 DEF GoodDir
  <2>2. t \in Frames
    BY <2>1, FrameFacts
  <2>3. mem[dir].pdes[i].user
    BY <1>1, <2>1 DEF PdeOf
  <2> QED BY <2>1, <2>2, <2>3
<1>9. Reached(t) = t
  BY <1>8, ReachedIs
<1>10. mem[t].kind = "table" /\ mem[dir].kind = "dir" /\ t # dir
  BY <1>5, <1>8 DEF TableSet, DirSet
<1>11. PICK T, D : /\ T = [mem[t] EXCEPT !.ptes[j] = Pte(frame, TRUE)]
                   /\ D = [mem[dir] EXCEPT !.pdes[i].user = TRUE]
  OBVIOUS
<1>12. mem = [g \in Frames |-> mem[g]]
  BY DEF SpaceInv, TypeInv, MemInv
<1>13. mem' = [[mem EXCEPT ![dir].pdes[i].user = TRUE]
                 EXCEPT ![t].ptes[j] = Pte(frame, TRUE)]
  BY <1>1, <1>6, <1>9 DEF OldTableWrites
<1>14. mem' = [g \in Frames |-> IF g = dir THEN D ELSE IF g = t THEN T ELSE mem[g]]
  BY <1>5, <1>8, <1>10, <1>11, <1>12, <1>13
<1>15. /\ mem'[dir] = D /\ mem'[t] = T
       /\ \A g \in Frames \ {t, dir} : mem'[g] = mem[g]
       /\ mem' = [g \in Frames |-> mem'[g]]
  BY <1>5, <1>8, <1>10, <1>14
<1>16. frame \in Frames
  BY FrameFacts DEF UserFrame
<1>17. /\ T \in TableSet /\ T.ptes[j] = Pte(frame, TRUE)
       /\ \A k \in (0 .. PTES - 1) \ {j} : T.ptes[k] = mem[t].ptes[k]
  <2>1. PICK S, e : S = mem[t] /\ e = Pte(frame, TRUE)
    OBVIOUS
  <2>2. T = WithPte(S, j, e) /\ S \in TableSet
    BY <1>8, <1>11, <2>1 DEF WithPte
  <2>3. e \in PteSet
    BY <1>16, <2>1 DEF Pte, PteSet
  <2>4. /\ T \in TableSet /\ T.ptes[j] = e
        /\ \A k \in (0 .. PTES - 1) \ {j} : T.ptes[k] = S.ptes[k]
    BY <1>2, <2>2, <2>3, TableUpdate
  <2> QED BY <2>1, <2>4
<1>18. /\ D \in DirSet /\ D.pdes[i] = Pde(t, TRUE)
       /\ \A k \in Pdes \ {i} : D.pdes[k] = mem[dir].pdes[k]
  <2>1. PICK S, e : S = mem[dir] /\ e = [mem[dir].pdes[i] EXCEPT !.user = TRUE]
    OBVIOUS
  <2>2. D = WithPde(S, i, e) /\ S \in DirSet
    BY <1>5, <1>11, <2>1 DEF WithPde
  <2>3. mem[dir].pdes[i] \in PdeSet /\ mem[dir].pdes[i].pt = t
    BY <1>1, <1>2, <1>5, <1>7 DEF DirSet, PdeOf
  <2>4. e = Pde(t, TRUE) /\ e \in PdeSet
    BY <1>8, <2>1, <2>3 DEF PdeSet, Pde
  <2>5. i \in Pdes /\ e \in PdeSet
    BY <1>2, <2>4
  <2>6. /\ D \in DirSet /\ D.pdes[i] = e
        /\ \A k \in Pdes \ {i} : D.pdes[k] = S.pdes[k]
    BY <2>2, <2>5, DirUpdate
  <2> QED BY <2>1, <2>4, <2>6
<1>19. frame_bitmap' = frame_bitmap /\ Free' = Free /\ Taken' = Taken
  BY DEF pfaVars, Free, Taken
<1>20. MemInv'
  <2>1. mem[KernelDir].kind = "dir" /\ KernelDir \in Frames \ {t}
    BY <1>10 DEF SpaceInv, TypeInv, MemInv
  <2>2. mem'[KernelDir].kind = "dir"
    BY <1>15, <1>18, <2>1 DEF DirSet
  <2> QED BY <1>15, <1>19, <2>2 DEF SpaceInv, TypeInv, MemInv
<1>21. ASSUME NEW d \in OldDirs PROVE t # d /\ \A p \in Pages : PdeOf(d, p).pt # t
  <2>1. mem[d].kind = "dir" /\ Apart(dir, d)
    BY <1>3 DEF SpaceInv, DirsInv, GoodDir, DirSet
  <2> QED BY <1>2, <1>7, <1>10, <2>1 DEF Apart
<1>22. t # PS
  OBVIOUS
<1>23. Rewired(dir, page, frame, t)
  <2>1. ASSUME NEW q \in Pages, q \div PTES = i
        PROVE  PdeOf(dir, q)' = Pde(t, TRUE)
    BY <1>15, <1>18, <2>1 DEF PdeOf
  <2>2. ASSUME NEW q \in Pages, q \div PTES # i
        PROVE  /\ PdeOf(dir, q)' = PdeOf(dir, q)
               /\ HasTable(dir, q) => /\ PdeOf(dir, q).pt # t
                                      /\ mem'[PdeOf(dir, q).pt] = mem[PdeOf(dir, q).pt]
    <3>1. q \div PTES \in Pdes \ {i}
      BY <2>2, PageSplit
    <3>2. mem'[dir].pdes[q \div PTES] = mem[dir].pdes[q \div PTES]
      BY <1>15, <1>18, <3>1
    <3>3. ASSUME HasTable(dir, q)
          PROVE  PdeOf(dir, q).pt \in Frames \ {t, dir}
      <4>1. PdeOf(dir, q).pt \in Taken /\ mem[PdeOf(dir, q).pt] \in TableSet
        BY <1>4, <3>3 DEF GoodDir
      <4>2. mem[PdeOf(dir, q).pt].kind = "table"
        BY <4>1 DEF TableSet
      <4>3. PdeOf(dir, q).pt # t
        BY <1>1, <1>2, <1>4, <1>7, <2>2 DEF GoodDir
      <4> QED BY <1>10, <4>1, <4>2, <4>3, FrameFacts
    <3> QED BY <1>15, <3>2, <3>3 DEF PdeOf
  <2>3. ASSUME NEW q \in Pages, q \div PTES = i, q # page
        PROVE  mem'[t].ptes[q % PTES] =
                 IF HasTable(dir, q) THEN PteOf(dir, q) ELSE Pte(q, FALSE)
    <3>1. PdeOf(dir, q) = PdeOf(dir, page)
      BY <1>1, <2>3 DEF PdeOf
    <3>2. HasTable(dir, q) /\ PteOf(dir, q) = mem[t].ptes[q % PTES]
      BY <1>7, <3>1 DEF HasTable, PteOf
    <3>3. q % PTES # j
      BY <1>1, <1>2, <2>3, PageIs
    <3>4. q % PTES \in (0 .. PTES - 1) \ {j}
      BY <3>3, PageSplit
    <3>5. T.ptes[q % PTES] = mem[t].ptes[q % PTES]
      BY <1>17, <3>4
    <3> QED BY <1>15, <3>2, <3>5
  <2> QED BY <1>1, <1>8, <1>15, <1>17, <1>18, <1>19, <1>22, <2>1, <2>2, <2>3 DEF Rewired
<1>24. ~UserFrame(t)
  BY <1>10 DEF UserFrame
<1> QED BY <1>15, <1>19, <1>20, <1>21, <1>23, <1>24, WritesMap

\* paging_map_4k in the directory under construction.
LEMMA MapStep ==
  ASSUME SpaceInv, HasDir, NEW dir, dir = job.dir,
         NEW page \in UserPages, NEW frame, UserFrame(frame),
         paging_map_4k(dir, page, frame)
  PROVE  Maps(dir, page, frame)
<1>1. CASE mem[Reached(dir)].pdes[page \div PTES].pt = PS /\ NoFrameFree /\ UNCHANGED mem
  <2>1. DataKept /\ (\A d : SameView(d)) /\ Free' = Free /\ MemInv' /\ Free = {}
    BY <1>1, SameMemory DEF NoFrameFree, pfaVars
  <2>2. dir \in Dirs /\ OldDirs \subseteq Dirs /\ dir \notin OldDirs
    BY DEF Dirs, SpaceInv, DirsInv
  <2>3. \A d \in Dirs :
          /\ GoodDir(d)'
          /\ \A p \in Pages : /\ PdeOf(d, p)' = PdeOf(d, p)
                              /\ HasTable(d, p)' <=> HasTable(d, p)
    BY <2>1, ViewKept
  <2>4. ASSUME NEW d \in OldDirs, NEW p \in Pages, NEW q \in Pages, HasTable(dir, p)'
        PROVE  PdeOf(dir, p)'.pt # PdeOf(d, q)'.pt
    <3>1. Apart(dir, d)
      BY <2>2 DEF SpaceInv, DirsInv
    <3> QED BY <2>2, <2>3, <2>4, <3>1 DEF Apart
  <2> QED BY <2>1, <2>2, <2>3, <2>4 DEF Maps
<1>2. CASE /\ mem[Reached(dir)].pdes[page \div PTES].pt = PS
           /\ \E t \in Frames :
                /\ pfa_alloc(t)
                /\ mem' = [mem EXCEPT
                     ![Reached(t)] = [SplitTable(page \div PTES) EXCEPT
                                        !.ptes[page % PTES] = Pte(frame, TRUE)],
                     ![Reached(dir)].pdes[page \div PTES] = Pde(t, TRUE)]
  BY <1>2, NewTableMaps
<1>3. CASE /\ mem[Reached(dir)].pdes[page \div PTES].pt # PS
           /\ mem' = [mem EXCEPT
                ![Reached(dir)].pdes[page \div PTES].user = TRUE,
                ![Reached(mem[Reached(dir)].pdes[page \div PTES].pt)].ptes[page % PTES] =
                   Pte(frame, TRUE)]
           /\ UNCHANGED pfaVars
  BY <1>3, OldTableMaps DEF OldTableWrites
<1> QED BY <1>1, <1>2, <1>3 DEF paging_map_4k

\* What user mode reaches through the directory afterwards, and the code
\* that stays where it is.
LEMMA MapsReach ==
  ASSUME SpaceInv, HasDir, NEW dir, dir = job.dir,
         NEW page \in UserPages, NEW frame, Maps(dir, page, frame)
  PROVE  /\ \A p \in Pages : UserMay(dir, p)' =>
              \/ p = page /\ Phys(dir, p)' = frame
              \/ UserMay(dir, p) /\ Phys(dir, p)' = Phys(dir, p)
         /\ \A p \in Pages \ {page} : UserMay(dir, p) =>
              UserMay(dir, p)' /\ Phys(dir, p)' = Phys(dir, p)
         /\ \A p \in Pages : UserMay(dir, p) => mem'[Phys(dir, p)] = mem[Phys(dir, p)]
<1>1. dir \in Dirs /\ DataKept
  BY DEF Dirs, Maps
<1>2. GoodDir(dir)
  BY <1>1 DEF SpaceInv, DirsInv
<1>3. ASSUME NEW p \in Pages, UserMay(dir, p)
      PROVE  mem'[Phys(dir, p)] = mem[Phys(dir, p)]
  <2>1. UserFrame(Phys(dir, p))
    BY <1>2, <1>3, UserReach
  <2>2. Phys(dir, p) \in Frames
    BY <2>1, FrameFacts DEF UserFrame
  <2> QED BY <1>1, <2>1, <2>2 DEF DataKept
<1>4. CASE OnlyMaps(dir, page, frame)
  <2>1. \A p \in Pages : UserMay(dir, p)' =>
          \/ p = page /\ Phys(dir, p)' = frame
          \/ UserMay(dir, p) /\ Phys(dir, p)' = Phys(dir, p)
    BY <1>4 DEF OnlyMaps
  <2>2. \A p \in Pages \ {page} : UserMay(dir, p) =>
          UserMay(dir, p)' /\ Phys(dir, p)' = Phys(dir, p)
    BY <1>4 DEF OnlyMaps
  <2> QED BY <1>3, <2>1, <2>2
<1>5. CASE SameView(dir)
  <2>1. \A p \in Pages : /\ Phys(dir, p)' = Phys(dir, p)
                         /\ UserMay(dir, p)' <=> UserMay(dir, p)
    BY <1>1, <1>5, ViewKept
  <2> QED BY <1>3, <2>1
<1> QED BY <1>4, <1>5 DEF Maps

\* The code pages that were mapped stay mapped.
LEMMA MapsKeepsCode ==
  ASSUME SpaceInv, HasDir, NEW dir, dir = job.dir,
         NEW page \in UserPages, NEW frame, Maps(dir, page, frame),
         NEW name, NEW n \in Nat, n <= MAX_FRAMES, n <= page, CodeIn(dir, name, n)
  PROVE  CodeIn(dir, name, n)'
<1> SUFFICES ASSUME NEW k \in 0 .. n - 1
             PROVE  UserMay(dir, k)' /\ mem'[Phys(dir, k)'] = Code(name, k)
  BY DEF CodeIn
<1>1. UserMay(dir, k) /\ mem[Phys(dir, k)] = Code(name, k)
  BY DEF CodeIn
<1>2. page \in Nat
  BY DEF UserPages, Pages, Frames
<1>3. k \in Pages \ {page}
  BY <1>2, PfaAssumption DEF Pages, Frames
<1> QED BY <1>1, <1>3, MapsReach

\* The invariant survives the mapping, but for what it says of the call.
LEMMA MapsInv ==
  ASSUME SpaceInv, job.step \in {"map", "mapstack"}, NEW dir, dir = job.dir,
         NEW page \in UserPages, NEW frame, frame = job.frame,
         Maps(dir, page, frame), UNCHANGED <<procs, current, cr3>>,
         job' \in Job, job'.step \in {"code", "stack", "commit"},
         job'.dir = dir, job'.kstack = job.kstack
  PROVE  TypeInv' /\ DirsInv' /\ StacksInv' /\ FrameInv' /\ LoadedInv'
<1>1. HasDir /\ HasDir' /\ HasStack /\ HasStack'
  BY DEF HasDir, HasStack, Steps
<1>2. LiveSlots' = LiveSlots /\ OldDirs' = OldDirs
  BY SameSpaces
<1>3. Dirs = OldDirs \union {dir} /\ Dirs' = Dirs /\ Stacks' = Stacks
  BY <1>1, <1>2 DEF Dirs, Stacks
<1>4. OldDirs \in SUBSET Dirs /\ dir \in Dirs /\ dir \notin OldDirs
  BY <1>1, <1>3 DEF SpaceInv, DirsInv
<1>5. /\ MemInv' /\ Free' \subseteq Free /\ DataKept
      /\ \A d \in OldDirs : SameView(d)
      /\ GoodDir(dir)'
      /\ \A d \in OldDirs : \A p, q \in Pages :
           HasTable(dir, p)' => PdeOf(dir, p)'.pt # PdeOf(d, q)'.pt
  BY DEF Maps
<1>6. /\ \A d \in OldDirs : GoodDir(d)'
      /\ \A d, e \in OldDirs : d # e => Apart(d, e)'
      /\ \A k \in Stacks : /\ k \in Taken' /\ mem'[k].kind = "zeroed"
                           /\ \A d \in OldDirs : Clean(d, k)'
      /\ \A d \in OldDirs : \A name : \A n \in Nat :
           n <= MAX_FRAMES /\ CodeIn(d, name, n) => CodeIn(d, name, n)'
      /\ \A d \in OldDirs : \A f : StackIn(d, f) => StackIn(d, f)'
  BY <1>4, <1>5, ViewsKept
<1>7. \A p \in Pages : UserMay(dir, p)' =>
        \/ p = page /\ Phys(dir, p)' = frame
        \/ UserMay(dir, p) /\ Phys(dir, p)' = Phys(dir, p)
  BY <1>1, MapsReach
<1>8. frame \notin Stacks /\ \A d \in Dirs : Clean(d, frame)
  BY DEF SpaceInv, FrameInv
<1>9. ASSUME NEW d \in OldDirs PROVE Apart(dir, d)' /\ Apart(d, dir)'
  <2>1. \A p \in Pages : /\ PdeOf(d, p)' = PdeOf(d, p)
                         /\ Phys(d, p)' = Phys(d, p)
                         /\ UserMay(d, p)' <=> UserMay(d, p)
    BY <1>4, <1>5, ViewKept
  <2>2. Apart(dir, d) /\ Clean(d, frame)
    BY <1>4, <1>8 DEF SpaceInv, DirsInv
  <2>3. ASSUME NEW p \in Pages, NEW q \in Pages, UserMay(dir, p)', UserMay(d, q)'
        PROVE  Phys(dir, p)' # Phys(d, q)'
    <3>1. UserMay(d, q) /\ Phys(d, q)' = Phys(d, q)
      BY <2>1, <2>3
    <3>2. CASE Phys(dir, p)' = frame
      BY <2>2, <3>1, <3>2 DEF Clean
    <3>3. CASE UserMay(dir, p) /\ Phys(dir, p)' = Phys(dir, p)
      BY <2>2, <3>1, <3>3 DEF Apart
    <3> QED BY <1>7, <2>3, <3>2, <3>3
  <2>4. ASSUME NEW p \in Pages, NEW q \in Pages, HasTable(d, p)'
        PROVE  PdeOf(d, p)'.pt # PdeOf(dir, q)'.pt
    <3>1. HasTable(dir, q)' => PdeOf(dir, q)'.pt # PdeOf(d, p)'.pt
      BY <1>5
    <3>2. ~HasTable(dir, q)' => PdeOf(dir, q)'.pt = PS
      BY DEF HasTable
    <3>3. PdeOf(d, p)'.pt # PS
      BY <2>4 DEF HasTable
    <3> QED BY <3>1, <3>2, <3>3
  <2>5. Apart(dir, d)'
    BY <1>5, <2>3 DEF Apart
  <2>6. Apart(d, dir)'
    BY <2>3, <2>4 DEF Apart
  <2> QED BY <2>5, <2>6
<1>10. DirsInv'
  <2>1. \A d \in Dirs' : GoodDir(d)'
    BY <1>3, <1>5, <1>6
  <2>2. \A d, e \in Dirs' : d # e => Apart(d, e)'
    BY <1>3, <1>6, <1>9
  <2>3. \A s, t \in LiveSlots' : s # t => procs'[s].page_dir # procs'[t].page_dir
    BY <1>2 DEF SpaceInv, DirsInv
  <2> QED BY <1>2, <1>4, <2>1, <2>2, <2>3 DEF DirsInv
<1>11. StacksInv'
  <2>1. ASSUME NEW k \in Stacks PROVE Clean(dir, k)'
    <3>1. Clean(dir, k)
      BY <1>4 DEF SpaceInv, StacksInv
    <3> QED BY <1>7, <1>8, <3>1 DEF Clean
  <2> QED BY <1>3, <1>6, <2>1 DEF StacksInv
<1>12. LoadedInv'
  <2> SUFFICES ASSUME NEW s \in LiveSlots
               PROVE  /\ CodeIn(procs[s].page_dir, procs[s].name,
                                CodePages[procs[s].name])'
                      /\ StackIn(procs[s].page_dir, procs[s].stack)' \/ Free' = {}
    BY <1>2 DEF LoadedInv
  <2>1. PICK d, name, g : d = procs[s].page_dir /\ name = procs[s].name
                          /\ g = procs[s].stack
    OBVIOUS
  <2>2. d \in OldDirs /\ name \in Files
    BY <2>1, LiveProcess DEF OldDirs, Process
  <2>3. CodeIn(d, name, CodePages[name]) /\ (StackIn(d, g) \/ Free = {})
    BY <2>1 DEF SpaceInv, LoadedInv
  <2>4. CodeIn(d, name, CodePages[name])' /\ (StackIn(d, g)' \/ Free' = {})
    BY <1>5, <1>6, <2>2, <2>3, CodeSmall DEF SpaceInv
  <2> QED BY <2>1, <2>4
<1>13. FrameInv'
  BY DEF FrameInv
<1>14. TypeInv'
  BY <1>5 DEF SpaceInv, TypeInv
<1> QED BY <1>10, <1>11, <1>12, <1>13, <1>14

\* A code page.
LEMMA MapCodeInv == ASSUME SpaceInv, MapCode PROVE SpaceInv'
<1>1. /\ job.step = "map" /\ paging_map_4k(job.dir, job.i, job.frame)
      /\ job' = [job EXCEPT !.step = CodeOrStack(job.i + 1), !.i = job.i + 1]
      /\ UNCHANGED <<procs, current, cr3>>
  BY DEF MapCode
<1>2. /\ job \in Job /\ ~Live(job.slot)
      /\ job.i < CodePages[job.name] /\ CodeIn(job.dir, job.name, job.i)
  BY <1>1, JobRecord DEF SpaceInv, JobInv, Steps
<1>3. PICK dir, page, frame, name :
        dir = job.dir /\ page = job.i /\ frame = job.frame /\ name = job.name
  OBVIOUS
<1>4. /\ name \in Files /\ page \in Nat /\ CodePages[name] \in Nat
      /\ CodePages[name] <= MAX_FRAMES /\ page < CodePages[name]
      /\ page \in UserPages
  <2>1. name \in Files /\ page \in Nat
    BY <1>2, <1>3 DEF Job
  <2>2. CodePages[name] \in Nat /\ CodePages[name] <= MAX_FRAMES
    BY <2>1, CodeSmall DEF SpaceInv
  <2>3. page \in 0 .. CodePages[name] - 1
    BY <1>2, <1>3, <2>1, <2>2
  <2> QED BY <1>2, <1>3, <2>1, <2>2, <2>3, CodeSmall DEF SpaceInv
<1>5. /\ UserFrame(frame) /\ mem[frame] = Code(name, page)
  BY <1>1, <1>3 DEF SpaceInv, FrameInv
<1>6. HasDir
  BY <1>1 DEF HasDir, Steps
<1>7. Maps(dir, page, frame)
  BY <1>1, <1>3, <1>4, <1>5, <1>6, MapStep
<1>8. \/ CodeOrStack(page + 1) = "code" /\ page + 1 < CodePages[name]
      \/ CodeOrStack(page + 1) = "stack" /\ page + 1 = CodePages[name]
  BY <1>3, <1>4 DEF CodeOrStack
<1>9. /\ job' \in Job /\ job'.step = CodeOrStack(page + 1) /\ job'.slot = job.slot
      /\ job'.i = page + 1 /\ job'.kstack = job.kstack /\ job'.name = name
      /\ job'.dir = dir
  <2>1. PICK step, k : step = CodeOrStack(page + 1) /\ k = page + 1
    OBVIOUS
  <2>2. job' = [job EXCEPT !.step = step, !.i = k]
    BY <1>1, <1>3, <2>1
  <2>3. step \in Steps /\ k \in Nat
    BY <1>4, <1>8, <2>1 DEF Steps
  <2>4. /\ job' \in Job /\ job'.step = step /\ job'.slot = job.slot /\ job'.i = k
        /\ job'.kstack = job.kstack /\ job'.name = job.name /\ job'.dir = job.dir
    BY <1>2, <2>2, <2>3 DEF Job
  <2> QED BY <1>3, <2>1, <2>4
<1>10. TypeInv' /\ DirsInv' /\ StacksInv' /\ FrameInv' /\ LoadedInv'
  <2>1. job.step \in {"map", "mapstack"} /\ job'.step \in {"code", "stack", "commit"}
    BY <1>1, <1>8, <1>9
  <2> QED BY <1>1, <1>3, <1>4, <1>7, <1>9, <2>1, MapsInv
<1>11. CodeIn(dir, name, page + 1)' \/ Free' = {}
  <2>1. CASE SameView(dir) /\ Free' = {}
    BY <2>1
  <2>2. CASE OnlyMaps(dir, page, frame)
    <3>1. CodeIn(dir, name, page)
      BY <1>2, <1>3
    <3>2. CodeIn(dir, name, page)'
      <4>1. page <= MAX_FRAMES /\ page <= page /\ page \in Nat /\ page \in UserPages
        BY <1>4, PfaAssumption
      <4> QED BY <1>3, <1>6, <1>7, <3>1, <4>1, MapsKeepsCode
    <3>3. UserMay(dir, page)' /\ Phys(dir, page)' = frame
      BY <2>2 DEF OnlyMaps
    <3>4. mem'[frame] = Code(name, page)
      BY <1>5, <1>7, FrameFacts DEF Maps, DataKept, UserFrame
    <3>5. \A k \in 0 .. (page + 1) - 1 : k \in 0 .. page - 1 \/ k = page
      BY <1>4
    <3>6. \A k \in 0 .. (page + 1) - 1 :
            UserMay(dir, k)' /\ mem'[Phys(dir, k)'] = Code(name, k)
      BY <3>2, <3>3, <3>4, <3>5 DEF CodeIn
    <3> QED BY <3>6 DEF CodeIn
  <2> QED BY <1>7, <2>1, <2>2 DEF Maps
<1>12. JobInv'
  <2>1. ~Live(job.slot)'
    BY <1>1, <1>2, <1>9 DEF Live
  <2>2. CodeIn(job.dir, job.name, job.i)' \/ Free' = {}
    BY <1>9, <1>11
  <2>3. \/ job'.step = "code" /\ job'.i < CodePages[job'.name]
        \/ job'.step = "stack" /\ job'.i = CodePages[job'.name]
    BY <1>8, <1>9
  <2> QED BY <2>1, <2>2, <2>3 DEF JobInv
<1> QED BY <1>10, <1>12 DEF SpaceInv

\* The user stack.
LEMMA MapUserStackInv == ASSUME SpaceInv, MapUserStack PROVE SpaceInv'
<1>1. /\ job.step = "mapstack" /\ paging_map_4k(job.dir, StackPage, job.frame)
      /\ job' = [job EXCEPT !.step = "commit"]
      /\ UNCHANGED <<procs, current, cr3>>
  BY DEF MapUserStack, Goto
<1>2. /\ job \in Job /\ ~Live(job.slot)
      /\ job.i = CodePages[job.name] /\ CodeIn(job.dir, job.name, job.i)
  BY <1>1, JobRecord DEF SpaceInv, JobInv, Steps
<1>3. PICK dir, frame, name, n :
        dir = job.dir /\ frame = job.frame /\ name = job.name /\ n = job.i
  OBVIOUS
<1>4. /\ name \in Files /\ n \in Nat /\ n <= MAX_FRAMES /\ n <= StackPage
      /\ n = CodePages[name] /\ StackPage \in UserPages
  <2>1. name \in Files /\ n \in Nat
    BY <1>2, <1>3 DEF Job
  <2> QED BY <1>2, <1>3, <2>1, CodeSmall DEF SpaceInv
<1>5. UserFrame(frame)
  BY <1>1, <1>3 DEF SpaceInv, FrameInv
<1>6. HasDir
  BY <1>1 DEF HasDir, Steps
<1>7. Maps(dir, StackPage, frame)
  BY <1>1, <1>3, <1>4, <1>5, <1>6, MapStep
<1>8. /\ job' \in Job /\ job'.step = "commit" /\ job'.slot = job.slot
      /\ job'.i = n /\ job'.kstack = job.kstack /\ job'.name = name
      /\ job'.dir = dir /\ job'.frame = frame
  BY <1>1, <1>2, <1>3 DEF Job, Steps
<1>9. TypeInv' /\ DirsInv' /\ StacksInv' /\ FrameInv' /\ LoadedInv'
  <2>1. job.step \in {"map", "mapstack"} /\ job'.step \in {"code", "stack", "commit"}
    BY <1>1, <1>8
  <2> QED BY <1>1, <1>3, <1>4, <1>7, <1>8, <2>1, MapsInv
<1>10. CodeIn(dir, name, n)'
  <2>1. CodeIn(dir, name, n)
    BY <1>2, <1>3
  <2> QED BY <1>3, <1>4, <1>6, <1>7, <2>1, MapsKeepsCode
<1>11. StackIn(dir, frame)' \/ Free' = {}
  BY <1>7 DEF Maps, OnlyMaps, StackIn
<1>12. JobInv'
  <2>1. ~Live(job.slot)'
    BY <1>1, <1>2, <1>8 DEF Live
  <2>2. /\ CodeIn(job.dir, job.name, job.i)'
        /\ StackIn(job.dir, job.frame)' \/ Free' = {}
    BY <1>8, <1>10, <1>11
  <2> QED BY <1>4, <1>8, <2>1, <2>2 DEF JobInv
<1> QED BY <1>9, <1>12 DEF SpaceInv

-----------------------------------------------------------------------------
(* The steps that change no memory                                         *)

\* The call is over: the directory is a live process's.
LEMMA CreateCommitsInv == ASSUME SpaceInv, CreateCommits PROVE SpaceInv'
<1>1. PICK slot, dir, kstack, frame, name :
        /\ slot = job.slot /\ dir = job.dir /\ kstack = job.kstack
        /\ frame = job.frame /\ name = job.name
  OBVIOUS
<1>2. /\ job.step = "commit" /\ job' = NoJob
      /\ procs' = [procs EXCEPT ![slot] =
           [live |-> TRUE, name |-> name, page_dir |-> dir,
            kernel_stack |-> kstack, stack |-> frame]]
      /\ UNCHANGED <<mem, frame_bitmap, current, cr3>>
  BY <1>1 DEF CreateCommits, pfaVars
<1>3. /\ slot \in Slots /\ ~Live(slot) /\ dir \in Frames /\ kstack \in Frames
      /\ frame \in Frames /\ name \in Files
  <2>1. job \in Job /\ job.slot \in Slots /\ ~Live(job.slot)
    BY <1>2, JobRecord DEF Steps
  <2> QED BY <1>1, <2>1 DEF Job
<1>4. /\ CodeIn(dir, name, CodePages[name])
      /\ StackIn(dir, frame) \/ Free = {}
  BY <1>1, <1>2 DEF SpaceInv, JobInv, Steps
<1>5. DataKept /\ (\A d : SameView(d)) /\ Free' = Free /\ MemInv'
  BY <1>2, SameMemory
<1>6. HasDir /\ ~HasDir' /\ HasStack /\ ~HasStack' /\ job'.step \notin Steps
  BY <1>2 DEF HasDir, HasStack, Steps, NoJob
<1>7. procs \in [Slots -> Process \union {Dead}]
  BY DEF SpaceInv, TypeInv
<1>8. /\ procs'[slot] = [live |-> TRUE, name |-> name, page_dir |-> dir,
                         kernel_stack |-> kstack, stack |-> frame]
      /\ \A s \in Slots \ {slot} : procs'[s] = procs[s]
  BY <1>2, <1>3, <1>7
<1>9. /\ procs'[slot].live = TRUE /\ procs'[slot].name = name
      /\ procs'[slot].page_dir = dir /\ procs'[slot].kernel_stack = kstack
      /\ procs'[slot].stack = frame
  BY <1>8
<1>10. LiveSlots' = LiveSlots \union {slot} /\ slot \notin LiveSlots
  <2>1. slot \in LiveSlots' /\ slot \notin LiveSlots
    BY <1>3, <1>9 DEF LiveSlots, Live
  <2>2. \A s \in Slots \ {slot} : s \in LiveSlots' <=> s \in LiveSlots
    BY <1>8 DEF LiveSlots, Live
  <2> QED BY <2>1, <2>2 DEF LiveSlots
<1>11. \A s \in LiveSlots : procs'[s] = procs[s]
  BY <1>8, <1>10 DEF LiveSlots
<1>12. OldDirs' = OldDirs \union {dir} /\ dir \notin OldDirs
  <2>1. dir \notin OldDirs
    BY <1>1, <1>6 DEF SpaceInv, DirsInv
  <2>2. {procs'[s].page_dir : s \in LiveSlots'} =
          {procs[s].page_dir : s \in LiveSlots} \union {dir}
    BY <1>9, <1>10, <1>11
  <2> QED BY <1>2, <2>1, <2>2 DEF OldDirs
<1>13. Dirs' = Dirs
  BY <1>1, <1>6, <1>12 DEF Dirs
<1>14. Stacks' = Stacks
  <2>1. {procs'[s].kernel_stack : s \in LiveSlots'} =
          {procs[s].kernel_stack : s \in LiveSlots} \union {kstack}
    BY <1>9, <1>10, <1>11
  <2> QED BY <1>1, <1>6, <2>1 DEF Stacks
<1>15. Dirs \in SUBSET Dirs
  OBVIOUS
<1>16. /\ \A d \in Dirs : GoodDir(d)'
       /\ \A d, e \in Dirs : d # e => Apart(d, e)'
       /\ \A k \in Stacks : /\ k \in Taken' /\ mem'[k].kind = "zeroed"
                            /\ \A d \in Dirs : Clean(d, k)'
       /\ \A d \in Dirs : \A nm : \A n \in Nat :
            n <= MAX_FRAMES /\ CodeIn(d, nm, n) => CodeIn(d, nm, n)'
       /\ \A d \in Dirs : \A f : StackIn(d, f) => StackIn(d, f)'
  BY <1>5, <1>15, ViewsKept
<1>17. DirsInv'
  <2>1. ASSUME NEW s \in LiveSlots', NEW t \in LiveSlots', s # t
        PROVE  procs'[s].page_dir # procs'[t].page_dir
    <3>1. CASE s \in LiveSlots /\ t \in LiveSlots
      BY <1>11, <2>1, <3>1 DEF SpaceInv, DirsInv
    <3>2. \A u \in LiveSlots : procs'[u].page_dir # dir
      BY <1>11, <1>12 DEF OldDirs
    <3>3. CASE s = slot /\ t \in LiveSlots
      BY <1>9, <3>2, <3>3
    <3>4. CASE t = slot /\ s \in LiveSlots
      BY <1>9, <3>2, <3>4
    <3> QED BY <1>10, <2>1, <3>1, <3>3, <3>4
  <2> QED BY <1>6, <1>13, <1>16, <2>1 DEF DirsInv
<1>18. StacksInv'
  BY <1>13, <1>14, <1>16 DEF StacksInv
<1>19. LoadedInv'
  <2> SUFFICES ASSUME NEW s \in LiveSlots'
               PROVE  /\ CodeIn(procs[s].page_dir, procs[s].name,
                                CodePages[procs[s].name])'
                      /\ StackIn(procs[s].page_dir, procs[s].stack)' \/ Free' = {}
    BY DEF LoadedInv
  <2>1. PICK d, nm, g : /\ d = procs'[s].page_dir /\ nm = procs'[s].name
                        /\ g = procs'[s].stack
    OBVIOUS
  <2>2. d \in Dirs /\ nm \in Files /\ CodeIn(d, nm, CodePages[nm])
          /\ (StackIn(d, g) \/ Free = {})
    <3>1. CASE s = slot
      <4>1. d = dir /\ nm = name /\ g = frame
        BY <1>9, <2>1, <3>1
      <4> QED BY <1>1, <1>3, <1>4, <1>6, <4>1 DEF Dirs
    <3>2. CASE s \in LiveSlots
      <4>1. d = procs[s].page_dir /\ nm = procs[s].name /\ g = procs[s].stack
        BY <1>11, <2>1, <3>2
      <4>2. d \in Dirs
        BY <3>2, <4>1 DEF Dirs, OldDirs
      <4>3. nm \in Files
        BY <3>2, <4>1, LiveProcess DEF Process
      <4> QED BY <3>2, <4>1, <4>2, <4>3 DEF SpaceInv, LoadedInv
    <3> QED BY <1>10, <3>1, <3>2
  <2>3. CodePages[nm] \in Nat /\ CodePages[nm] <= MAX_FRAMES
    BY <2>2, CodeSmall DEF SpaceInv
  <2>4. CodeIn(d, nm, CodePages[nm])' /\ (StackIn(d, g)' \/ Free' = {})
    BY <1>5, <1>16, <2>2, <2>3
  <2> QED BY <2>1, <2>4
<1>20. FrameInv' /\ JobInv'
  BY <1>6 DEF FrameInv, JobInv, Steps
<1>21. TypeInv'
  <2>1. procs'[slot] \in Process
    BY <1>3, <1>8 DEF Process
  <2>2. procs' \in [Slots -> Process \union {Dead}]
    BY <1>2, <1>3, <1>7, <1>8, <2>1
  <2> QED BY <1>2, <1>5, <2>2 DEF SpaceInv, TypeInv
<1> QED BY <1>17, <1>18, <1>19, <1>20, <1>21 DEF SpaceInv

\* A call begins.
LEMMA ProcessCreateInv ==
  ASSUME SpaceInv, NEW name \in Files, process_create(name)
  PROVE  SpaceInv'
<1>1. /\ job = BootJob \/ job = NoJob
      /\ UNCHANGED <<mem, frame_bitmap, procs, current, cr3>>
  BY DEF process_create, pfaVars, Idle
<1>2. PICK slot \in Slots :
        /\ ~Live(slot)
        /\ job' = [step |-> "kstack", name |-> name, slot |-> slot,
                   kstack |-> 0, dir |-> 0, i |-> 0, frame |-> 0,
                   avail |-> Cardinality(Free)]
  BY DEF process_create
<1>3. 0 \in Frames /\ Cardinality(Free) \in Nat
  <2>1. IsFiniteSet(Frames)
    BY FS_Interval, PfaAssumption DEF Frames
  <2>2. IsFiniteSet(Free)
    BY <2>1, FS_Subset DEF Free
  <2> QED BY <2>2, FS_CardinalityType, PfaAssumption DEF Frames
<1>4. job' \in Job /\ job'.step = "kstack" /\ job'.i = 0 /\ job'.slot = slot
  BY <1>2, <1>3 DEF Job, Steps
<1>5. ~HasDir /\ ~HasDir' /\ ~HasStack /\ ~HasStack'
  BY <1>1, <1>4 DEF HasDir, HasStack, Steps, NoJob, BootJob
<1>6. DataKept /\ (\A d : SameView(d)) /\ Free' = Free /\ MemInv'
  BY <1>1, SameMemory
<1>7. Dirs' = Dirs /\ Stacks' = Stacks
  BY <1>1, <1>5, SameSpaces DEF Dirs, Stacks
<1>8. \A s \in Slots : Live(s)' => Live(s) /\ procs'[s] = procs[s]
  BY <1>1 DEF Live
<1>9. DirsInv' /\ LoadedInv' /\ StacksInv'
  BY <1>5, <1>6, <1>7, <1>8, KeepStep
<1>10. ~Live(job.slot)'
  BY <1>1, <1>2, <1>4 DEF Live
<1>11. FrameInv' /\ JobInv'
  BY <1>4, <1>10 DEF FrameInv, JobInv
<1>12. TypeInv'
  BY <1>1, <1>4, <1>6 DEF SpaceInv, TypeInv
<1> QED BY <1>9, <1>11, <1>12 DEF SpaceInv

\* Between calls, processes end and CR3 goes from one to the other.
LEMMA BetweenCallsInv ==
  ASSUME SpaceInv, Idle, UNCHANGED <<mem, frame_bitmap, job>>,
         procs' \in [Slots -> Process \union {Dead}],
         current' \in Slots \union {NoProc},
         \A s \in Slots : Live(s)' => Live(s) /\ procs'[s] = procs[s],
         cr3' \in OldDirs
  PROVE  SpaceInv'
<1>1. ~HasDir /\ ~HasDir' /\ ~HasStack /\ ~HasStack'
  BY DEF HasDir, HasStack, Steps, Idle, NoJob
<1>2. DataKept /\ (\A d : SameView(d)) /\ Free' = Free /\ MemInv'
  BY SameMemory
<1>3. LiveSlots' \subseteq LiveSlots /\ \A s \in LiveSlots' : procs'[s] = procs[s]
  BY DEF LiveSlots
<1>4. Dirs' \subseteq Dirs /\ Stacks' \subseteq Stacks
  BY <1>1, <1>3 DEF Dirs, OldDirs, Stacks
<1>5. DirsInv' /\ LoadedInv' /\ StacksInv'
  BY <1>1, <1>2, <1>4, KeepStep
<1>6. FrameInv' /\ JobInv'
  BY DEF FrameInv, JobInv, Steps, Idle, NoJob
<1>7. TypeInv'
  BY <1>2 DEF SpaceInv, TypeInv
<1> QED BY <1>5, <1>6, <1>7 DEF SpaceInv

LEMMA SwitchToInv ==
  ASSUME SpaceInv, NEW s \in Slots, SwitchTo(s) PROVE SpaceInv'
<1>1. /\ Idle /\ Live(s) /\ current' = s /\ cr3' = procs[s].page_dir
      /\ UNCHANGED <<mem, frame_bitmap, procs, job>>
  BY DEF SwitchTo, pfaVars
<1>2. cr3' \in OldDirs
  BY <1>1 DEF OldDirs, LiveSlots
<1>3. \A t \in Slots : Live(t)' => Live(t) /\ procs'[t] = procs[t]
  BY <1>1 DEF Live
<1>4. procs' \in [Slots -> Process \union {Dead}]
  BY <1>1 DEF SpaceInv, TypeInv
<1> QED BY <1>1, <1>2, <1>3, <1>4, BetweenCallsInv

LEMMA ExitInv == ASSUME SpaceInv, Exit PROVE SpaceInv'
<1>1. /\ Idle /\ current # NoProc /\ procs' = [procs EXCEPT ![current] = Dead]
      /\ UNCHANGED <<mem, frame_bitmap, job>>
  BY DEF Exit, pfaVars
<1>2. current \in Slots /\ procs \in [Slots -> Process \union {Dead}]
  BY <1>1 DEF SpaceInv, TypeInv
<1>3. procs' \in [Slots -> Process \union {Dead}]
  BY <1>1, <1>2
<1>4. \A s \in Slots : Live(s)' => Live(s) /\ procs'[s] = procs[s]
  <2>1. procs'[current] = Dead /\ \A s \in Slots \ {current} : procs'[s] = procs[s]
    BY <1>1, <1>2
  <2>2. Dead.live = FALSE
    BY DEF Dead
  <2> QED BY <2>1, <2>2 DEF Live
<1>5. current' \in Slots /\ cr3' \in OldDirs
  <2>1. CASE \E s \in Slots \ {current} :
               Live(s) /\ current' = s /\ cr3' = procs[s].page_dir
    BY <2>1 DEF OldDirs, LiveSlots
  <2>2. CASE UNCHANGED <<current, cr3>>
    BY <1>2, <2>2 DEF OldDirs
  <2> QED BY <2>1, <2>2 DEF Exit
<1> QED BY <1>1, <1>3, <1>4, <1>5, BetweenCallsInv

-----------------------------------------------------------------------------
(* The invariant                                                           *)

\* The boot directory maps nothing for the user.
LEMMA BootDir ==
  ASSUME KernelDir \in Taken, mem[KernelDir] = page_directory
  PROVE  GoodDir(KernelDir)
<1>1. page_directory \in DirSet
  BY DEF page_directory, Dir, DirSet, PdeSet, Pde
<1>2. ASSUME NEW p \in Pages PROVE PdeOf(KernelDir, p).pt = PS
  <2>1. PICK i : i = p \div PTES
    OBVIOUS
  <2>2. i \in Pdes
    BY <2>1, PageSplit
  <2>3. mem[KernelDir].pdes = [k \in Pdes |-> Pde(PS, FALSE)]
    BY DEF page_directory, Dir
  <2>4. mem[KernelDir].pdes[i] = Pde(PS, FALSE)
    BY <2>2, <2>3
  <2> QED BY <2>1, <2>4 DEF PdeOf, Pde
<1>3. \A p \in Pages : ~HasTable(KernelDir, p)
  BY <1>2 DEF HasTable
<1> QED BY <1>1, <1>3 DEF GoodDir

LEMMA SpaceInit == ASSUME NoShadow, Init PROVE SpaceInv
<1>1. PICK top \in MinFree - 1 .. MaxFree :
        frame_bitmap = Frames \ (MinFree .. top \ {KernelDir})
  BY DEF Init
<1>2. /\ frame_bitmap \subseteq Frames /\ KernelDir \in frame_bitmap
      /\ MinFree \in Nat /\ MaxFree \in Int /\ KernelDir \in Frames
  BY <1>1, AddressSpaceAssumption
<1>3. \A f \in Free : f \in MinFree .. MaxFree
  BY <1>1, <1>2 DEF Free
<1>4. /\ mem = [f \in Frames |-> IF f = KernelDir THEN page_directory ELSE Unused]
      /\ procs = [s \in Slots |-> Dead] /\ current = NoProc
      /\ cr3 = KernelDir /\ job = BootJob
  BY DEF Init
<1>5. mem[KernelDir] = page_directory /\ mem = [f \in Frames |-> mem[f]]
  BY <1>2, <1>4
<1>6. mem[KernelDir].kind = "dir"
  BY <1>5 DEF page_directory, Dir
<1>7. TypeInv
  <2>1. procs \in [Slots -> Process \union {Dead}]
    BY <1>4
  <2> QED BY <1>2, <1>3, <1>4, <1>5, <1>6, <2>1 DEF TypeInv, MemInv
<1>8. job.step \notin Steps /\ ~HasDir /\ ~HasStack
  BY <1>4 DEF BootJob, Steps, HasDir, HasStack
<1>9. LiveSlots = {}
  BY <1>4 DEF LiveSlots, Live, Dead
<1>10. OldDirs = {KernelDir} /\ Dirs = {KernelDir} /\ Stacks = {}
  BY <1>4, <1>8, <1>9 DEF OldDirs, Dirs, Stacks
<1>11. GoodDir(KernelDir)
  <2>1. KernelDir \in Taken
    BY <1>2, KernelDirNotUser, AddressSpaceAssumption DEF Taken
  <2> QED BY <1>5, <2>1, BootDir
<1>12. DirsInv
  BY <1>8, <1>9, <1>10, <1>11 DEF DirsInv
<1>13. StacksInv /\ LoadedInv
  BY <1>9, <1>10 DEF StacksInv, LoadedInv
<1>14. FrameInv /\ JobInv
  BY <1>8 DEF FrameInv, JobInv, Steps
<1> QED BY <1>7, <1>12, <1>13, <1>14 DEF SpaceInv

LEMMA SpaceStutter == ASSUME SpaceInv, UNCHANGED vars PROVE SpaceInv'
<1>1. UNCHANGED <<frame_bitmap, mem, procs, current, cr3, job>>
  BY DEF vars, pfaVars
<1>2. DataKept /\ (\A d : SameView(d)) /\ Free' = Free /\ MemInv'
  BY <1>1, SameMemory
<1>3. /\ LiveSlots' = LiveSlots /\ OldDirs' = OldDirs /\ Dirs' = Dirs
      /\ Stacks' = Stacks /\ Taken' = Taken
  BY <1>1, SameSpaces DEF Dirs, Stacks, HasDir, HasStack, Taken
<1>4. HasDir' => job'.dir \notin OldDirs'
  BY <1>1, <1>3 DEF HasDir, SpaceInv, DirsInv
<1>5. DirsInv' /\ LoadedInv' /\ StacksInv'
  BY <1>1, <1>2, <1>3, <1>4, KeepStep DEF Live
<1>6. TypeInv'
  BY <1>1, <1>2 DEF SpaceInv, TypeInv
<1>7. \A d, f : Clean(d, f) => Clean(d, f)'
  BY <1>1 DEF Clean, UserMay, Phys, PdeOf
<1>8. \A f : UserFrame(f) => UserFrame(f)'
  BY <1>1, <1>3 DEF UserFrame
<1>9. PICK frame : frame = job.frame
  OBVIOUS
<1>10. FrameInv'
  BY <1>1, <1>3, <1>7, <1>8, <1>9 DEF SpaceInv, FrameInv
<1>11. \A d, name, n : CodeIn(d, name, n) => CodeIn(d, name, n)'
  BY <1>1 DEF CodeIn, UserMay, Phys, PdeOf
<1>12. \A d, f : StackIn(d, f) => StackIn(d, f)'
  BY <1>1 DEF StackIn, UserMay, Phys, PdeOf
<1>13. PICK dir, name, i, slot :
         dir = job.dir /\ name = job.name /\ i = job.i /\ slot = job.slot
  OBVIOUS
<1>14. JobInv'
  BY <1>1, <1>2, <1>9, <1>11, <1>12, <1>13 DEF SpaceInv, JobInv, Live
<1> QED BY <1>5, <1>6, <1>10, <1>14 DEF SpaceInv

\* What process_create, the scheduler and SYS_EXIT keep of the address
\* spaces: every directory in use identity-maps the kernel's frames, and no
\* two of them share a page table or a user frame.
THEOREM SpaceInvariance == NoShadow /\ Spec => []SpaceInv
<1>1. NoShadow /\ Init => SpaceInv
  BY SpaceInit
<1>2. SpaceInv /\ [Next]_vars => SpaceInv'
  <2> SUFFICES ASSUME SpaceInv, [Next]_vars PROVE SpaceInv'
    OBVIOUS
  <2>1. CASE \E name \in Files : process_create(name)
    BY <2>1, ProcessCreateInv
  <2>2. CASE CreateKernelStack
    BY <2>2, KernelStackInv
  <2>3. CASE CreateKernelDir
    BY <2>3, KernelDirInv
  <2>4. CASE LoadCode \/ CreateUserStack
    BY <2>4, DataFrameInv
  <2>5. CASE MapCode
    BY <2>5, MapCodeInv
  <2>6. CASE MapUserStack
    BY <2>6, MapUserStackInv
  <2>7. CASE CreateCommits
    BY <2>7, CreateCommitsInv
  <2>8. CASE \E s \in Slots : SwitchTo(s)
    BY <2>8, SwitchToInv
  <2>9. CASE Exit
    BY <2>9, ExitInv
  <2>10. CASE UNCHANGED vars
    BY <2>10, SpaceStutter
  <2> QED BY <2>1, <2>2, <2>3, <2>4, <2>5, <2>6, <2>7, <2>8, <2>9, <2>10
          DEF Next, CreateStep
<1> QED BY <1>1, <1>2, PTL DEF Spec

-----------------------------------------------------------------------------
(* What follows from it                                                    *)

\* Every directory entry is some page's.
LEMMA PageOfPde ==
  ASSUME NEW i \in Pdes
  PROVE  \E p \in Pages : p \div PTES = i
<1>1. PTES \in Nat /\ PTES > 0 /\ i \in Nat
  BY PfaAssumption, AddressSpaceAssumption DEF Pdes
<1>2. PICK p : p = i * PTES
  OBVIOUS
<1>3. p \in Pages
  <2> DEFINE n == MAX_FRAMES \div PTES
             k == MAX_FRAMES % PTES
  <2>1. n \in Nat /\ MAX_FRAMES \in Nat /\ MAX_FRAMES = PTES * n + k /\ k = 0
    BY <1>1, PfaAssumption, AddressSpaceAssumption
  <2>2. i + 1 <= n
    BY <1>1, <2>1 DEF Pdes
  <2> HIDE DEF n, k
  <2>3. PTES * (i + 1) <= PTES * n
    BY <1>1, <2>1, <2>2
  <2>4. p + PTES = PTES * (i + 1) /\ p \in Nat
    BY <1>1, <1>2
  <2> QED BY <1>1, <2>1, <2>3, <2>4 DEF Pages, Frames
<1>4. PICK d, m : d = p \div PTES /\ m = p % PTES
  OBVIOUS
<1>5. d \in Nat /\ m \in 0 .. PTES - 1 /\ d * PTES + m = i * PTES
  BY <1>1, <1>2, <1>3, <1>4, PageSplit DEF Pdes
<1>6. ~(d < i)
  <2> SUFFICES ASSUME d + 1 <= i PROVE FALSE
    BY <1>1, <1>5
  <2>1. (d + 1) * PTES <= i * PTES
    BY <1>1, <1>5
  <2>2. (d + 1) * PTES = d * PTES + PTES
    BY <1>1, <1>5
  <2> QED BY <1>1, <1>5, <2>1, <2>2
<1>7. ~(d > i)
  <2> SUFFICES ASSUME i + 1 <= d PROVE FALSE
    BY <1>1, <1>5
  <2>1. (i + 1) * PTES <= d * PTES
    BY <1>1, <1>5
  <2>2. (i + 1) * PTES = i * PTES + PTES
    BY <1>1, <1>5
  <2> QED BY <1>1, <1>5, <2>1, <2>2
<1>8. d = i
  BY <1>1, <1>5, <1>6, <1>7
<1>9. p \div PTES = i
  BY <1>4, <1>8
<1> QED BY <1>3, <1>9

\* The page tables of a directory.
LEMMA TablesTaken ==
  ASSUME NEW d, GoodDir(d), NEW t \in TablesOf(d)
  PROVE  t \in Taken /\ mem[t].kind = "table"
<1>1. PICK i \in Pdes : t = mem[d].pdes[i].pt /\ t # PS
  BY DEF TablesOf
<1>2. PICK p \in Pages : p \div PTES = i
  BY PageOfPde
<1>3. PdeOf(d, p).pt = t /\ HasTable(d, p)
  BY <1>1, <1>2 DEF PdeOf, HasTable
<1>4. t \in Taken /\ mem[t] \in TableSet
  BY <1>3 DEF GoodDir
<1> QED BY <1>4 DEF TableSet

\* A frame only the kernel may write is in use or free, and user mode reaches
\* it through no directory.
LEMMA KernelFrameKinds ==
  ASSUME SpaceInv, NEW f \in KernelFrames, NEW d \in OldDirs
  PROVE  /\ f = 0 \/ f \in Taken \/ f \in Free
         /\ Clean(d, f)
<1>1. d \in Dirs /\ GoodDir(d)
  BY DEF SpaceInv, DirsInv, Dirs
<1>2. \A g : UserFrame(g) => /\ g \in Taken /\ g # 0 /\ g \notin Free
                             /\ mem[g].kind \in {"code", "zeroed"}
  BY DEF UserFrame, Taken, Free
<1>3. ASSUME NEW g, ~UserFrame(g) PROVE Clean(d, g)
  BY <1>1, <1>3, UserReach DEF Clean
<1>4. CASE f = 0
  BY <1>2, <1>3, <1>4
<1>5. CASE f = KernelDir
  <2>1. KernelDir \in Taken /\ mem[KernelDir].kind = "dir"
    BY FrameFacts DEF SpaceInv, TypeInv, MemInv
  <2> QED BY <1>2, <1>3, <1>5, <2>1
<1>6. CASE f \in Free
  BY <1>2, <1>3, <1>6
<1>7. ASSUME NEW s \in LiveSlots,
             f \in {procs[s].page_dir, procs[s].kernel_stack}
                     \union TablesOf(procs[s].page_dir)
      PROVE  f \in Taken /\ Clean(d, f)
  <2>1. GoodDir(procs[s].page_dir) /\ procs[s].kernel_stack \in Stacks
    BY DEF SpaceInv, DirsInv, Dirs, OldDirs, Stacks
  <2>2. CASE f = procs[s].page_dir
    <3>1. f \in Taken /\ mem[f].kind = "dir"
      BY <2>1, <2>2 DEF GoodDir, DirSet
    <3> QED BY <1>2, <1>3, <3>1
  <2>3. CASE f = procs[s].kernel_stack
    BY <1>1, <2>1, <2>3 DEF SpaceInv, StacksInv
  <2>4. CASE f \in TablesOf(procs[s].page_dir)
    <3>1. f \in Taken /\ mem[f].kind = "table"
      BY <2>1, <2>4, TablesTaken
    <3> QED BY <1>2, <1>3, <3>1
  <2> QED BY <1>7, <2>2, <2>3, <2>4
<1>8. \/ f = 0 \/ f = KernelDir \/ f \in Free
      \/ \E s \in LiveSlots : f \in {procs[s].page_dir, procs[s].kernel_stack}
                                      \union TablesOf(procs[s].page_dir)
  BY DEF KernelFrames, LiveSlots
<1> QED BY <1>4, <1>5, <1>6, <1>7, <1>8, FrameFacts

LEMMA SpaceIsolation == ASSUME SpaceInv PROVE Isolation
<1>1. ASSUME NEW s \in Slots, Live(s)
      PROVE  UserFrames(s) \intersect KernelFrames = {}
  <2>1. procs[s].page_dir \in OldDirs
    BY <1>1 DEF OldDirs, LiveSlots
  <2>2. ASSUME NEW f \in UserFrames(s), f \in KernelFrames PROVE FALSE
    <3>1. Clean(procs[s].page_dir, f)
      BY <2>1, <2>2, KernelFrameKinds
    <3> QED BY <2>2, <3>1 DEF UserFrames, Clean
  <2> QED BY <2>2
<1>2. ASSUME NEW s \in Slots, NEW t \in Slots \ {s}, Live(s), Live(t)
      PROVE  UserFrames(s) \intersect UserFrames(t) = {}
  <2>1. Apart(procs[s].page_dir, procs[t].page_dir)
    BY <1>2 DEF SpaceInv, DirsInv, Dirs, OldDirs, LiveSlots
  <2> QED BY <2>1 DEF UserFrames, Apart
<1> QED BY <1>1, <1>2 DEF Isolation

LEMMA SpaceReachable == ASSUME SpaceInv PROVE KernelReachable
<1> SUFFICES ASSUME NEW d \in OldDirs, NEW f \in KernelFrames \ {0}
             PROVE  Phys(d, f) = f /\ ~UserMay(d, f)
  BY DEF KernelReachable, OldDirs, LiveSlots
<1>1. GoodDir(d)
  BY DEF SpaceInv, DirsInv, Dirs
<1>2. f \in Pages /\ f \notin UserPages
  BY KernelFrameKinds, FrameFacts
<1> QED BY <1>1, <1>2, IdentityMapped

LEMMA SpaceLoaded == ASSUME SpaceInv PROVE Loaded
<1> SUFFICES ASSUME NEW s \in Slots, Live(s)
             PROVE  CodeMapped(s) /\ (StackMapped(s) \/ Free = {})
  BY DEF Loaded
<1>1. s \in LiveSlots
  BY DEF LiveSlots
<1>2. /\ CodeIn(procs[s].page_dir, procs[s].name, CodePages[procs[s].name])
      /\ StackIn(procs[s].page_dir, procs[s].stack) \/ Free = {}
  BY <1>1 DEF SpaceInv, LoadedInv
<1> QED BY <1>2 DEF CodeIn, StackIn, CodeMapped, StackMapped

\* User mode reaches only the process's own code and stack: no frame of the
\* kernel's and no other process's, whichever allocation failed in a
\* process_create and in whatever order processes were created and ended.
THEOREM IsolationHolds == NoShadow /\ Spec => []Isolation
<1>1. SpaceInv => Isolation
  BY SpaceIsolation
<1> QED BY <1>1, SpaceInvariance, PTL

\* In every directory in use the kernel finds its frames at their own number,
\* and user mode finds none of them: process_create may write page tables and
\* kernel stacks under any process's CR3.
THEOREM KernelReachableHolds == NoShadow /\ Spec => []KernelReachable
<1>1. SpaceInv => KernelReachable
  BY SpaceReachable
<1> QED BY <1>1, SpaceInvariance, PTL

\* A process with a pid has its whole binary mapped, and its stack unless
\* memory ran out: no failed paging_map_4k goes unnoticed but the last.
THEOREM LoadedHolds == NoShadow /\ Spec => []Loaded
<1>1. SpaceInv => Loaded
  BY SpaceLoaded
<1> QED BY <1>1, SpaceInvariance, PTL

\* A step writes to no directory in use, to none of its tables and to no frame
\* that user mode reaches.
LEMMA StepViews ==
  ASSUME SpaceInv, Next
  PROVE  DataKept /\ \A d \in OldDirs : SameView(d)
<1>1. CASE UNCHANGED <<mem, frame_bitmap>>
  BY <1>1, SameMemory
<1>2. ASSUME NEW f \in Frames, NEW v, pfa_alloc(f),
             mem' = [mem EXCEPT ![Reached(f)] = v]
      PROVE  DataKept /\ \A d \in OldDirs : SameView(d)
  BY <1>2, FreshFrame DEF Dirs
<1>3. CASE CreateFails
  BY <1>1, <1>3 DEF CreateFails, NoFrameFree, pfaVars
<1>4. CASE \E name \in Files : process_create(name)
  BY <1>1, <1>4 DEF process_create, pfaVars
<1>5. CASE CreateKernelStack
  BY <1>2, <1>3, <1>5 DEF CreateKernelStack
<1>6. CASE CreateKernelDir
  BY <1>2, <1>3, <1>6 DEF CreateKernelDir
<1>7. CASE LoadCode
  BY <1>2, <1>3, <1>7 DEF LoadCode
<1>8. CASE CreateUserStack
  BY <1>2, <1>3, <1>8 DEF CreateUserStack
<1>9. CASE MapCode
  <2>1. job.step = "map" /\ paging_map_4k(job.dir, job.i, job.frame)
    BY <1>9 DEF MapCode
  <2>2. job.name \in Files /\ job.i \in Nat /\ job.i < CodePages[job.name]
    BY <2>1, JobRecord DEF SpaceInv, JobInv, Steps, Job
  <2>3. CodePages[job.name] \in Nat
    BY <2>2, CodeSmall DEF SpaceInv
  <2>4. job.i \in 0 .. CodePages[job.name] - 1
    BY <2>2, <2>3
  <2>5. job.i \in UserPages
    BY <2>2, <2>4, CodeSmall DEF SpaceInv
  <2>6. HasDir /\ UserFrame(job.frame)
    BY <2>1 DEF HasDir, Steps, SpaceInv, FrameInv
  <2>7. Maps(job.dir, job.i, job.frame)
    BY <2>1, <2>5, <2>6, MapStep
  <2> QED BY <2>7 DEF Maps
<1>10. CASE MapUserStack
  <2>1. job.step = "mapstack" /\ paging_map_4k(job.dir, StackPage, job.frame)
    BY <1>10 DEF MapUserStack
  <2>2. StackPage \in UserPages
    BY CodeSmall, AddressSpaceAssumption DEF SpaceInv
  <2>3. HasDir /\ UserFrame(job.frame)
    BY <2>1 DEF HasDir, Steps, SpaceInv, FrameInv
  <2>4. Maps(job.dir, StackPage, job.frame)
    BY <2>1, <2>2, <2>3, MapStep
  <2> QED BY <2>4 DEF Maps
<1>11. CASE CreateCommits
  BY <1>1, <1>11 DEF CreateCommits, pfaVars
<1>12. CASE \E s \in Slots : SwitchTo(s)
  BY <1>1, <1>12 DEF SwitchTo, pfaVars
<1>13. CASE Exit
  BY <1>1, <1>13 DEF Exit, pfaVars
<1> QED BY <1>4, <1>5, <1>6, <1>7, <1>8, <1>9, <1>10, <1>11, <1>12, <1>13
        DEF Next, CreateStep

\* Nothing that happens after process_create returned a pid moves a page of
\* the process or overwrites its code: later spawns write to fresh frames and
\* to their own directory, and nothing is ever freed.
THEOREM MappingsStableHolds == NoShadow /\ Spec => MappingsStable
<1>1. SpaceInv /\ Next =>
        \A s \in Slots : Live(s) /\ procs'[s] = procs[s] =>
          \A p \in Pages :
            /\ Phys(procs[s].page_dir, p)' = Phys(procs[s].page_dir, p)
            /\ UserMay(procs[s].page_dir, p)' = UserMay(procs[s].page_dir, p)
            /\ UserMay(procs[s].page_dir, p) =>
                 mem'[Phys(procs[s].page_dir, p)] = mem[Phys(procs[s].page_dir, p)]
  <2> SUFFICES ASSUME SpaceInv, Next, NEW s \in Slots, Live(s), procs'[s] = procs[s],
                      NEW p \in Pages
               PROVE  /\ Phys(procs[s].page_dir, p)' = Phys(procs[s].page_dir, p)
                      /\ UserMay(procs[s].page_dir, p)' = UserMay(procs[s].page_dir, p)
                      /\ UserMay(procs[s].page_dir, p) =>
                           mem'[Phys(procs[s].page_dir, p)] =
                             mem[Phys(procs[s].page_dir, p)]
    OBVIOUS
  <2>1. PICK d : d = procs[s].page_dir
    OBVIOUS
  <2>2. d \in OldDirs /\ d \in Dirs
    BY <2>1 DEF OldDirs, Dirs, LiveSlots
  <2>3. SameView(d) /\ DataKept
    BY <2>2, StepViews
  <2>4. /\ Phys(d, p)' = Phys(d, p)
        /\ UserMay(d, p)' <=> UserMay(d, p)
        /\ UserMay(d, p) => mem'[Phys(d, p)] = mem[Phys(d, p)]
    BY <2>2, <2>3, ViewKept
  <2>5. UserMay(d, p)' = UserMay(d, p)
    BY <2>4 DEF UserMay
  <2> QED BY <2>1, <2>4, <2>5
<1>2. SpaceInv /\ [Next]_vars =>
        [\A s \in Slots : Live(s) /\ procs'[s] = procs[s] =>
           LET d == procs[s].page_dir
           IN \A p \in Pages :
                /\ Phys(d, p)' = Phys(d, p)
                /\ UserMay(d, p)' = UserMay(d, p)
                /\ UserMay(d, p) => mem'[Phys(d, p)] = mem[Phys(d, p)]]_vars
  BY <1>1
<1> QED BY <1>2, SpaceInvariance, PTL DEF Spec, MappingsStable

-----------------------------------------------------------------------------
(* What a process_create costs                                             *)

\* The page tables that n code pages need: one, since they fit into it.
TablesFor(n) == IF n = 0 THEN 0 ELSE 1

\* The frames the call under way has obtained, if paging_map_4k got its own.
Spent ==
  CASE job.step = "kstack" -> 0
    [] job.step = "dir" -> 1
    [] job.step \in {"code", "stack"} -> 2 + job.i + TablesFor(job.i)
    [] OTHER -> 3 + job.i + TablesFor(job.i)

\* The frames that were free when the call began are free or spent.  Only
\* paging_map_4k goes on without the frame it asked for: for the table of the
\* first code page, so that the next allocation fails too, or for the table
\* of the user stack, so that the call still succeeds.
Accounted ==
  \/ job.step # "commit" /\ job.avail = Cardinality(Free) + Spent
  \/ /\ job.step \in {"code", "stack"} /\ job.i = 1
     /\ Cardinality(Free) = 0 /\ job.avail = 3
  \/ job.step = "commit" /\ job.avail = Cardinality(Free) + Spent + 1
  \/ job.step = "commit" /\ Cardinality(Free) = 0 /\ job.avail = Spent

\* The page tables the directory does not have yet.
TablesMissing ==
  HasDir /\ job.step # "commit" =>
    /\ ~HasTable(job.dir, StackPage)
    /\ job.i = 0 => ~HasTable(job.dir, 0)

CostInv == job.step \in Steps => Accounted /\ TablesMissing

\* Code pages share the first page table; the user stack has another.
LEMMA FirstTable ==
  ASSUME NEW name \in Files, NEW i \in Nat, i < CodePages[name]
  PROVE  /\ i \in Pages /\ 0 \in Pages /\ i \div PTES = 0 /\ 0 \div PTES = 0
         /\ StackPage \in Pages /\ StackPage \div PTES # 0
<1>1. /\ PTES \in Nat /\ PTES > 0 /\ PTES <= StackPage /\ StackPage \in Frames
      /\ MAX_FRAMES \in Nat /\ CodePages[name] \in 0 .. PTES
  BY PfaAssumption, AddressSpaceAssumption
<1>2. i < PTES /\ i \in Pages /\ 0 \in Pages /\ StackPage \in Pages
  BY <1>1 DEF Pages, Frames
<1>3. ASSUME NEW p \in Pages, p < PTES PROVE p \div PTES = 0
  <2>1. PICK d, m : d = p \div PTES /\ m = p % PTES
    OBVIOUS
  <2>2. d \in Nat /\ m \in Nat /\ d * PTES + m = p /\ p \in Nat
    BY <1>1, <2>1, PageSplit DEF Pdes
  <2>3. \A x \in Nat, y \in Nat : x > 0 => x * y >= y
    OBVIOUS
  <2>4. d > 0 => d * PTES >= PTES
    BY <1>1, <2>2, <2>3
  <2>5. d * PTES \in Nat
    BY <1>1, <2>2
  <2> QED BY <1>1, <1>3, <2>1, <2>2, <2>4, <2>5
<1>4. StackPage \div PTES # 0
  <2>1. PICK d, m : d = StackPage \div PTES /\ m = StackPage % PTES
    OBVIOUS
  <2>2. m \in 0 .. PTES - 1 /\ d * PTES + m = StackPage
    BY <1>2, <2>1, PageSplit
  <2>3. d = 0 => d * PTES = 0
    BY <1>1
  <2> QED BY <1>1, <2>1, <2>2, <2>3
<1> QED BY <1>1, <1>2, <1>3, <1>4

\* Free frames are counted.
LEMMA CountFree ==
  ASSUME SpaceInv
  PROVE  /\ IsFiniteSet(Free) /\ Cardinality(Free) \in Nat
         /\ Free = {} <=> Cardinality(Free) = 0
<1>1. IsFiniteSet(Frames)
  BY FS_Interval, PfaAssumption DEF Frames
<1>2. Free \subseteq Frames
  BY DEF Free
<1>3. IsFiniteSet(Free)
  BY <1>1, <1>2, FS_Subset
<1>4. Cardinality(Free) \in Nat
  BY <1>3, FS_CardinalityType
<1> QED BY <1>3, <1>4, FS_EmptySet

LEMMA CountAlloc ==
  ASSUME SpaceInv, NEW f, pfa_alloc(f)
  PROVE  /\ Cardinality(Free') \in Nat
         /\ Cardinality(Free) = Cardinality(Free') + 1
<1>1. f \in Free /\ frame_bitmap' = frame_bitmap \union {f}
  BY DEF pfa_alloc, LowestFree, MarkUsed
<1>2. Free' = Free \ {f}
  BY <1>1 DEF Free
<1>3. IsFiniteSet(Free)
  BY CountFree
<1>4. IsFiniteSet(Free \ {f}) /\ Cardinality(Free \ {f}) = Cardinality(Free) - 1
  BY <1>1, <1>3, FS_RemoveElement
<1>5. Cardinality(Free) \in Nat /\ Cardinality(Free \ {f}) \in Nat
  BY <1>3, <1>4, FS_CardinalityType
<1> QED BY <1>2, <1>4, <1>5

\* A frame for the kernel stack, the directory, a code page or the stack.
LEMMA AllocCost ==
  ASSUME SpaceInv, CostInv, NEW f \in Frames, NEW v, NEW step, NEW next,
         pfa_alloc(f), mem' = [mem EXCEPT ![Reached(f)] = v],
         step = job.step, step \in {"kstack", "dir", "code", "stack"},
         next = job'.step, job'.i = job.i, job'.avail = job.avail,
         \/ step = "kstack" /\ next = "dir"
         \/ step = "dir" /\ next \in {"code", "stack"}
         \/ step = "code" /\ next = "map"
         \/ step = "stack" /\ next = "mapstack"
  PROVE  Accounted'
<1>1. job \in Job /\ job.i \in Nat /\ job.avail \in Nat
  BY JobRecord DEF Steps, Job
<1>2. PICK c, d, i, a : /\ c = Cardinality(Free) /\ d = Cardinality(Free')
                        /\ i = job.i /\ a = job.avail
  OBVIOUS
<1>3. c \in Nat /\ d \in Nat /\ c = d + 1 /\ i \in Nat /\ a \in Nat
  BY <1>1, <1>2, CountAlloc
<1>4. a = c + Spent
  BY <1>2, <1>3 DEF CostInv, Accounted, Steps
<1>5. step \in {"kstack", "dir"} => i = 0
  BY <1>2 DEF SpaceInv, JobInv, Steps
<1>6. TablesFor(i) \in Nat /\ TablesFor(0) = 0
  BY DEF TablesFor
<1>7. Spent = IF step = "kstack" THEN 0 ELSE IF step = "dir" THEN 1
              ELSE 2 + i + TablesFor(i)
  BY <1>2 DEF Spent
<1>8. Spent' = IF next = "dir" THEN 1 ELSE IF next \in {"code", "stack"}
               THEN 2 + i + TablesFor(i) ELSE 3 + i + TablesFor(i)
  BY <1>2 DEF Spent, TablesFor
<1>9. Spent \in Nat /\ Spent' = Spent + 1
  BY <1>3, <1>5, <1>6, <1>7, <1>8
<1>10. a = d + Spent' /\ next # "commit"
  BY <1>3, <1>4, <1>9
<1> QED BY <1>2, <1>10 DEF Accounted

LEMMA KernelStackCost ==
  ASSUME SpaceInv, CostInv, CreateKernelStack PROVE CostInv'
<1>1. CASE CreateFails
  BY <1>1 DEF CreateFails, NoJob, CostInv, Steps
<1>2. ASSUME NEW f \in Frames, pfa_alloc(f),
             mem' = [mem EXCEPT ![Reached(f)] = Zeroed],
             job' = [job EXCEPT !.step = "dir", !.kstack = f], job.step = "kstack"
      PROVE  CostInv'
  <2>1. job \in Job
    BY <1>2, JobRecord DEF Steps
  <2>2. job'.step = "dir" /\ job'.i = job.i /\ job'.avail = job.avail
    BY <1>2, <2>1 DEF Job
  <2>3. Accounted'
    BY <1>2, <2>2, AllocCost
  <2>4. TablesMissing'
    BY <2>2 DEF TablesMissing, HasDir
  <2> QED BY <2>3, <2>4 DEF CostInv
<1> QED BY <1>1, <1>2 DEF CreateKernelStack

LEMMA KernelDirCost ==
  ASSUME SpaceInv, CostInv, CreateKernelDir PROVE CostInv'
<1>1. CASE CreateFails
  BY <1>1 DEF CreateFails, NoJob, CostInv, Steps
<1>2. ASSUME NEW f \in Frames, pfa_alloc(f),
             mem' = [mem EXCEPT ![Reached(f)] = paging_create_kernel_dir],
             job' = [job EXCEPT !.step = CodeOrStack(0), !.dir = f], job.step = "dir"
      PROVE  CostInv'
  <2>1. job \in Job
    BY <1>2, JobRecord DEF Steps
  <2>2. /\ job'.step \in {"code", "stack"} /\ job'.i = job.i /\ job'.avail = job.avail
        /\ job'.dir = f
    BY <1>2, <2>1 DEF Job, CodeOrStack
  <2>3. Accounted'
    BY <1>2, <2>2, AllocCost
  <2>4. f \in Taken' /\ mem'[f] = paging_create_kernel_dir
    BY <1>2, FreshFrame
  <2>5. \A p \in Pages : ~HasTable(f, p)'
    BY <2>4, FreshDir
  <2>6. StackPage \in Pages /\ 0 \in Pages
    BY PfaAssumption, AddressSpaceAssumption DEF Pages, Frames
  <2>7. TablesMissing'
    BY <2>2, <2>5, <2>6 DEF TablesMissing, HasTable, PdeOf
  <2> QED BY <2>3, <2>7 DEF CostInv
<1> QED BY <1>1, <1>2 DEF CreateKernelDir

LEMMA DataFrameCost ==
  ASSUME SpaceInv, CostInv, LoadCode \/ CreateUserStack PROVE CostInv'
<1>1. CASE CreateFails
  BY <1>1 DEF CreateFails, NoJob, CostInv, Steps
<1>2. ASSUME NEW f \in Frames, NEW v, NEW step, pfa_alloc(f),
             mem' = [mem EXCEPT ![Reached(f)] = v],
             job' = [job EXCEPT !.step = step, !.frame = f],
             \/ job.step = "code" /\ step = "map"
             \/ job.step = "stack" /\ step = "mapstack"
      PROVE  CostInv'
  <2>1. job \in Job
    BY <1>2, JobRecord DEF Steps
  <2>2. /\ job'.step = step /\ job'.i = job.i /\ job'.avail = job.avail
        /\ job'.dir = job.dir
    BY <1>2, <2>1 DEF Job
  <2>3. Accounted'
    BY <1>2, <2>2, AllocCost
  <2>4. HasDir /\ job.dir \in Dirs
    BY <1>2 DEF HasDir, Steps, Dirs
  <2>5. job.dir \in frame_bitmap /\ job.dir \in Frames
    <3>1. GoodDir(job.dir)
      BY <2>4 DEF SpaceInv, DirsInv
    <3> QED BY <3>1, FrameFacts DEF GoodDir, Taken
  <2>6. mem'[job.dir] = mem[job.dir]
    BY <1>2, <2>5, FreshFrame
  <2>7. TablesMissing
    BY <1>2 DEF CostInv, Steps
  <2>8. TablesMissing'
    BY <1>2, <2>2, <2>4, <2>6, <2>7 DEF TablesMissing, HasTable, PdeOf
  <2> QED BY <2>3, <2>8 DEF CostInv
<1> QED BY <1>1, <1>2 DEF LoadCode, CreateUserStack

\* paging_map_4k takes one frame where a page table is missing, if it can.
LEMMA MapCount ==
  ASSUME SpaceInv, HasDir, NEW dir, dir = job.dir, NEW page \in Pages, NEW frame,
         paging_map_4k(dir, page, frame)
  PROVE  /\ HasTable(dir, page) => Cardinality(Free') = Cardinality(Free)
         /\ ~HasTable(dir, page) =>
              \/ Cardinality(Free) = Cardinality(Free') + 1
              \/ Cardinality(Free) = 0 /\ Cardinality(Free') = 0
         /\ Cardinality(Free') \in Nat
<1>1. dir \in Taken
  <2>1. dir \in Dirs
    BY DEF Dirs
  <2> QED BY <2>1 DEF SpaceInv, DirsInv, GoodDir
<1>2. Reached(dir) = dir
  BY <1>1, ReachedIs
<1>3. PICK pt : pt = mem[Reached(dir)].pdes[page \div PTES].pt
  OBVIOUS
<1>4. HasTable(dir, page) <=> pt # PS
  BY <1>2, <1>3 DEF HasTable, PdeOf
<1>5. Cardinality(Free) \in Nat
  BY CountFree
<1>6. CASE pt = PS /\ NoFrameFree
  <2>1. Free = {} /\ Free' = Free
    BY <1>6 DEF NoFrameFree, pfaVars, Free
  <2> QED BY <1>4, <1>5, <1>6, <2>1, CountFree
<1>7. CASE pt = PS /\ \E t \in Frames : pfa_alloc(t)
  BY <1>4, <1>7, CountAlloc
<1>8. CASE pt # PS /\ UNCHANGED pfaVars
  <2>1. Free' = Free
    BY <1>8 DEF pfaVars, Free
  <2> QED BY <1>4, <1>5, <1>8, <2>1
<1> QED BY <1>3, <1>6, <1>7, <1>8 DEF paging_map_4k

LEMMA MapCodeCost ==
  ASSUME SpaceInv, CostInv, MapCode PROVE CostInv'
<1>1. PICK dir, i, frame, n, a :
        /\ dir = job.dir /\ i = job.i /\ frame = job.frame
        /\ n = CodePages[job.name] /\ a = job.avail
  OBVIOUS
<1>2. /\ job.step = "map" /\ paging_map_4k(dir, i, frame)
      /\ job' = [job EXCEPT !.step = CodeOrStack(i + 1), !.i = i + 1]
  BY <1>1 DEF MapCode
<1>3. /\ job \in Job /\ job.name \in Files /\ i \in Nat /\ a \in Nat /\ HasDir
      /\ i < n /\ CodeIn(dir, job.name, i)
  <2>1. job \in Job
    BY <1>2, JobRecord DEF Steps
  <2> QED BY <1>1, <1>2, <2>1 DEF Job, HasDir, Steps, SpaceInv, JobInv
<1>4. /\ job'.step \in {"code", "stack"} /\ job'.i = i + 1 /\ job'.avail = a
      /\ job'.dir = dir
  BY <1>1, <1>2, <1>3 DEF Job, CodeOrStack
<1>5. /\ i \in Pages /\ 0 \in Pages /\ i \div PTES = 0 /\ 0 \div PTES = 0
      /\ StackPage \in Pages /\ StackPage \div PTES # 0
  BY <1>1, <1>3, FirstTable
<1>6. HasTable(dir, i) <=> i # 0
  <2>1. HasTable(dir, i) <=> HasTable(dir, 0)
    BY <1>5 DEF HasTable, PdeOf
  <2>2. i # 0 => HasTable(dir, 0)
    <3>1. i # 0 => 0 \in 0 .. i - 1
      BY <1>3
    <3> QED BY <1>3, <3>1 DEF CodeIn, UserMay, HasTable
  <2>3. i = 0 => ~HasTable(dir, 0)
    BY <1>1, <1>2, <1>3 DEF CostInv, TablesMissing, Steps
  <2> QED BY <2>1, <2>2, <2>3
<1>7. PICK c, d : c = Cardinality(Free) /\ d = Cardinality(Free')
  OBVIOUS
<1>8. /\ c \in Nat /\ d \in Nat
      /\ i # 0 => d = c
      /\ i = 0 => c = d + 1 \/ (c = 0 /\ d = 0)
  BY <1>1, <1>2, <1>3, <1>5, <1>6, <1>7, CountFree, MapCount
<1>9. a = c + (3 + i + TablesFor(i))
  BY <1>1, <1>2, <1>7 DEF CostInv, Accounted, Spent, Steps
<1>10. Spent' = 2 + (i + 1) + TablesFor(i + 1)
  BY <1>4 DEF Spent, TablesFor
<1>11. TablesFor(i) = (IF i = 0 THEN 0 ELSE 1) /\ TablesFor(i + 1) = 1
  BY <1>3 DEF TablesFor
<1>12. a = d + Spent' \/ (i = 0 /\ d = 0 /\ a = 3)
  <2>1. CASE i = 0
    BY <1>3, <1>8, <1>9, <1>10, <1>11, <2>1
  <2>2. CASE i # 0
    BY <1>3, <1>8, <1>9, <1>10, <1>11, <2>2
  <2> QED BY <2>1, <2>2
<1>13. Accounted'
  <2>1. CASE a = d + Spent'
    BY <1>4, <1>7, <2>1 DEF Accounted
  <2>2. CASE i = 0 /\ d = 0 /\ a = 3
    BY <1>4, <1>7, <2>2 DEF Accounted
  <2> QED BY <1>12, <2>1, <2>2
<1>14. PdeOf(dir, StackPage)' = PdeOf(dir, StackPage)
  <2>1. i \in UserPages /\ UserFrame(frame)
    <3>1. i \in UserPages
      BY <1>1, <1>3, <1>5 DEF UserPages
    <3>2. UserFrame(frame)
      BY <1>1, <1>2 DEF SpaceInv, FrameInv
    <3> QED BY <3>1, <3>2
  <2>2. Maps(dir, i, frame)
    BY <1>1, <1>2, <1>3, <2>1, MapStep
  <2> QED BY <1>5, <2>2 DEF Maps
<1>15. ~HasTable(dir, StackPage)
  BY <1>1, <1>2, <1>3 DEF CostInv, TablesMissing, Steps
<1>16. TablesMissing'
  BY <1>3, <1>4, <1>14, <1>15 DEF TablesMissing, HasTable
<1> QED BY <1>13, <1>16 DEF CostInv

LEMMA MapUserStackCost ==
  ASSUME SpaceInv, CostInv, MapUserStack PROVE CostInv'
<1>1. PICK dir, i, frame, a :
        dir = job.dir /\ i = job.i /\ frame = job.frame /\ a = job.avail
  OBVIOUS
<1>2. /\ job.step = "mapstack" /\ paging_map_4k(dir, StackPage, frame)
      /\ job' = [job EXCEPT !.step = "commit"]
  BY <1>1 DEF MapUserStack, Goto
<1>3. job \in Job /\ i \in Nat /\ a \in Nat /\ HasDir
  <2>1. job \in Job
    BY <1>2, JobRecord DEF Steps
  <2> QED BY <1>1, <1>2, <2>1 DEF Job, HasDir, Steps
<1>4. job'.step = "commit" /\ job'.i = i /\ job'.avail = a
  BY <1>1, <1>2, <1>3 DEF Job
<1>5. StackPage \in Pages
  BY AddressSpaceAssumption DEF Pages
<1>6. ~HasTable(dir, StackPage)
  BY <1>1, <1>2, <1>3 DEF CostInv, TablesMissing, Steps
<1>7. PICK c, d : c = Cardinality(Free) /\ d = Cardinality(Free')
  OBVIOUS
<1>8. c \in Nat /\ d \in Nat /\ (c = d + 1 \/ (c = 0 /\ d = 0))
  BY <1>1, <1>2, <1>3, <1>5, <1>6, <1>7, CountFree, MapCount
<1>9. TablesFor(i) \in Nat /\ Spent = 3 + i + TablesFor(i) /\ Spent' = 3 + i + TablesFor(i)
  BY <1>1, <1>2, <1>4 DEF Spent, TablesFor
<1>10. a = c + Spent
  BY <1>1, <1>2, <1>7 DEF CostInv, Accounted, Steps
<1>11. a = d + Spent' + 1 \/ (d = 0 /\ a = Spent')
  BY <1>3, <1>8, <1>9, <1>10
<1>12. Accounted'
  BY <1>4, <1>7, <1>11 DEF Accounted
<1>13. TablesMissing'
  BY <1>4 DEF TablesMissing
<1> QED BY <1>12, <1>13 DEF CostInv

\* The call begins with all frames accounted for.
LEMMA ProcessCreateCost ==
  ASSUME SpaceInv, NEW name \in Files, process_create(name) PROVE CostInv'
<1>1. /\ job'.step = "kstack" /\ job'.avail = Cardinality(Free)
      /\ UNCHANGED frame_bitmap
  BY DEF process_create, pfaVars
<1>2. Free' = Free /\ Cardinality(Free) \in Nat
  BY <1>1, CountFree DEF Free
<1>3. Spent' = 0
  BY <1>1 DEF Spent
<1>4. job'.avail = Cardinality(Free') + Spent'
  BY <1>1, <1>2, <1>3
<1>5. Accounted'
  BY <1>1, <1>4 DEF Accounted
<1>6. TablesMissing'
  BY <1>1 DEF TablesMissing, HasDir
<1> QED BY <1>5, <1>6 DEF CostInv

LEMMA CostNext ==
  ASSUME SpaceInv, CostInv, [Next]_vars PROVE CostInv'
<1>1. CASE \E name \in Files : process_create(name)
  BY <1>1, ProcessCreateCost
<1>2. CASE CreateKernelStack
  BY <1>2, KernelStackCost
<1>3. CASE CreateKernelDir
  BY <1>3, KernelDirCost
<1>4. CASE LoadCode \/ CreateUserStack
  BY <1>4, DataFrameCost
<1>5. CASE MapCode
  BY <1>5, MapCodeCost
<1>6. CASE MapUserStack
  BY <1>6, MapUserStackCost
<1>7. CASE CreateCommits
  BY <1>7 DEF CreateCommits, NoJob, CostInv, Steps
<1>8. CASE (\E s \in Slots : SwitchTo(s)) \/ Exit
  BY <1>8 DEF SwitchTo, Exit, Idle, NoJob, CostInv, Steps
<1>9. CASE UNCHANGED vars
  <2>1. UNCHANGED <<mem, frame_bitmap, job>>
    BY <1>9 DEF vars, pfaVars
  <2> QED BY <2>1 DEF CostInv, Accounted, Spent, TablesMissing, HasDir, HasTable,
                       PdeOf, Free
<1> QED BY <1>1, <1>2, <1>3, <1>4, <1>5, <1>6, <1>7, <1>8, <1>9 DEF Next, CreateStep

\* The two ends of a call.
LEMMA CostAtEnd ==
  ASSUME SpaceInv, CostInv, Next, job.step \in Steps, job'.step = "idle"
  PROVE  /\ job.step = "commit" <=> job.avail >= FramesNeeded(job.name)
         /\ Cardinality(Free') =
              IF job.avail <= FramesNeeded(job.name)
                THEN 0 ELSE job.avail - FramesNeeded(job.name) - 1
<1>1. PICK i, n, a, c, need : /\ i = job.i /\ n = CodePages[job.name] /\ a = job.avail
                              /\ c = Cardinality(Free) /\ need = FramesNeeded(job.name)
  OBVIOUS
<1>2. job \in Job /\ job.name \in Files /\ i \in Nat /\ a \in Nat
  BY <1>1, JobRecord DEF Job
<1>3. n \in Nat /\ c \in Nat
  BY <1>1, <1>2, CodeType, CountFree
<1>4. need = 3 + n + TablesFor(n) /\ TablesFor(n) \in Nat
  BY <1>1, <1>3 DEF FramesNeeded, TablesFor
<1>5. \/ CreateFails /\ job.step \in {"kstack", "dir", "code", "stack"}
      \/ CreateCommits
  <2>1. ~Idle
    BY DEF Idle, NoJob, Steps
  <2>2. ASSUME NEW name \in Files, process_create(name) PROVE FALSE
    BY <2>2 DEF process_create, Idle, BootJob, NoJob, Steps
  <2>3. ~(\E s \in Slots : SwitchTo(s)) /\ ~Exit
    BY <2>1 DEF SwitchTo, Exit
  <2>4. ASSUME NEW x \in {"dir", "code", "stack", "map", "mapstack", "commit"},
               NEW k, NEW d, NEW j, NEW f,
               \/ job' = [job EXCEPT !.step = x, !.kstack = k]
               \/ job' = [job EXCEPT !.step = x, !.dir = d]
               \/ job' = [job EXCEPT !.step = x, !.frame = f]
               \/ job' = [job EXCEPT !.step = x, !.i = j]
               \/ job' = [job EXCEPT !.step = x]
        PROVE  FALSE
    BY <1>2, <2>4 DEF Job
  <2>5. CreateKernelStack \/ CreateKernelDir \/ LoadCode \/ CreateUserStack => CreateFails
    BY <2>4 DEF CreateKernelStack, CreateKernelDir, LoadCode, CreateUserStack, CodeOrStack
  <2>6. ~MapCode /\ ~MapUserStack
    BY <2>4 DEF MapCode, MapUserStack, Goto, CodeOrStack
  <2>7. CreateKernelStack \/ CreateKernelDir \/ LoadCode \/ CreateUserStack
          => job.step \in {"kstack", "dir", "code", "stack"}
    BY DEF CreateKernelStack, CreateKernelDir, LoadCode, CreateUserStack
  <2> QED BY <2>2, <2>3, <2>5, <2>6, <2>7 DEF Next, CreateStep
<1>6. Free' = Free
  <2>1. UNCHANGED frame_bitmap
    BY <1>5 DEF CreateFails, NoFrameFree, CreateCommits, pfaVars
  <2> QED BY <2>1 DEF Free
<1>7. Accounted
  BY DEF CostInv
<1>8. CASE CreateCommits
  <2>1. job.step = "commit"
    BY <1>8 DEF CreateCommits
  <2>2. i = n
    BY <1>1, <2>1 DEF SpaceInv, JobInv
  <2>3. Spent = need
    BY <1>1, <1>4, <2>1, <2>2 DEF Spent
  <2>4. a = c + need + 1 \/ (c = 0 /\ a = need)
    BY <1>1, <1>7, <2>1, <2>3 DEF Accounted
  <2>5. need \in Nat
    BY <1>3, <1>4
  <2>6. a >= need /\ c = IF a <= need THEN 0 ELSE a - need - 1
    BY <1>2, <1>3, <2>4, <2>5
  <2> QED BY <1>1, <1>6, <2>1, <2>6
<1>9. CASE CreateFails /\ job.step \in {"kstack", "dir", "code", "stack"}
  <2>1. c = 0
    BY <1>1, <1>9, CountFree DEF CreateFails, NoFrameFree
  <2>2. job.step = "code" => i < n
    BY <1>1 DEF SpaceInv, JobInv
  <2>3. job.step = "stack" => i = n
    BY <1>1 DEF SpaceInv, JobInv
  <2>4. TablesFor(i) = (IF i = 0 THEN 0 ELSE 1) /\ TablesFor(n) = (IF n = 0 THEN 0 ELSE 1)
    BY DEF TablesFor
  <2>5. /\ job.step = "kstack" => Spent = 0
        /\ job.step = "dir" => Spent = 1
        /\ job.step \in {"code", "stack"} => Spent = 2 + i + TablesFor(i)
    BY <1>1 DEF Spent
  <2>6. a = Spent \/ (job.step \in {"code", "stack"} /\ i = 1 /\ a = 3)
    <3>1. Spent \in Nat
      BY <1>2, <1>9, <2>4, <2>5
    <3> QED BY <1>1, <1>7, <1>9, <2>1, <3>1 DEF Accounted
  <2>7. a < need
    <3>1. CASE job.step \in {"kstack", "dir"}
      BY <1>2, <1>3, <1>4, <2>5, <2>6, <3>1
    <3>2. CASE job.step = "code"
      BY <1>2, <1>3, <1>4, <2>2, <2>4, <2>5, <2>6, <3>2
    <3>3. CASE job.step = "stack"
      BY <1>2, <1>3, <1>4, <2>3, <2>4, <2>5, <2>6, <3>3
    <3> QED BY <1>9, <3>1, <3>2, <3>3
  <2>8. ~(a >= need) /\ a <= need /\ need \in Nat
    BY <1>2, <1>3, <1>4, <2>7
  <2> QED BY <1>1, <1>6, <1>9, <2>1, <2>8
<1> QED BY <1>5, <1>8, <1>9

\* The frames of a process_create are accounted for at every step: what was
\* free when it began is free or spent on it, also when a page table was
\* refused.
THEOREM CostInvariance == NoShadow /\ Spec => []CostInv
<1>1. Init => CostInv
  BY DEF Init, BootJob, CostInv, Steps
<1>2. SpaceInv /\ CostInv /\ [Next]_vars => CostInv'
  BY CostNext
<1> QED BY <1>1, <1>2, SpaceInvariance, PTL DEF Spec

\* process_create succeeds exactly if FramesNeeded frames are free, takes one
\* more for the user stack's table if there is one, and a call that fails has
\* used up all memory.
THEOREM CreateCostHolds == NoShadow /\ Spec => CreateCost
<1>1. SpaceInv /\ CostInv /\ Next =>
        (job.step \in Steps /\ job'.step = "idle" =>
           /\ job.step = "commit" <=> job.avail >= FramesNeeded(job.name)
           /\ Cardinality(Free') =
                IF job.avail <= FramesNeeded(job.name)
                  THEN 0 ELSE job.avail - FramesNeeded(job.name) - 1)
  BY CostAtEnd
<1>2. SpaceInv /\ CostInv /\ [Next]_vars =>
        [job.step \in Steps /\ job'.step = "idle" =>
           /\ job.step = "commit" <=> job.avail >= FramesNeeded(job.name)
           /\ Cardinality(Free') =
                IF job.avail <= FramesNeeded(job.name)
                  THEN 0 ELSE job.avail - FramesNeeded(job.name) - 1]_vars
  BY <1>1
<1> QED BY <1>2, SpaceInvariance, CostInvariance, PTL DEF Spec, CreateCost
=============================================================================
