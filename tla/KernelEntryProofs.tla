------------------------- MODULE KernelEntryProofs --------------------------
(***************************************************************************)
(* FramesMatch, StackDiscipline and Segments for every number of           *)
(* processes, every set of vectors and every address of the TSS.           *)
(*                                                                         *)
(* The inductive invariant gives the layout of every kernel stack, counted *)
(* from its bottom.  There the CPU's frame from ring 3 lies in the first   *)
(* five words and, when an interrupt ended the hlt of a system call, its   *)
(* frame from ring 0 above the eight words of the system call's stub.      *)
(* What lies on top depends on where the process will go on.               *)
(***************************************************************************)
EXTENDS KernelEntry, SequenceTheorems, TLAPS

Places == {"user", "stub", "interrupt_handler", "return", "syscall_handler",
           "dispatch", "hlt", "cli", "process_start_trampoline", "stopped"}

\* The words of a stack: what they are and their value.
Tags == {"ss", "esp", "eflags", "cs", "eip", "code", "int_no", "ret", "arg",
         "eax", "ebx", "ecx", "edx", "esi", "edi", "ebp"}
Values == Int \union Places \union {"never"}
Cells == Tags \X Values

\* The frame of the CPU's entry from ring 3, or of process_create.
UserWords(s) ==
  /\ s[1] = <<"ss", USER_DATA>> /\ s[2] = <<"esp", 0>>
  /\ s[3] = <<"eflags", 514>> /\ s[4] = <<"cs", USER_CODE>>
  /\ s[5] = <<"eip", "user">>

\* The frame of an interrupt that ended the hlt of a system call.
KernelWords(s) ==
  /\ s[14] = <<"eflags", 514>> /\ s[15] = <<"cs", KERNEL_CODE>>
  /\ s[16] = <<"eip", "cli">>

\* n words lie on the CPU's frame.
FrameUnder(s, n) ==
  /\ UserWords(s)
  /\ Len(s) = 5 + n \/ (Len(s) = 16 + n /\ KernelWords(s))

InStub(s, v) ==
  IF v \in error_code_interrupt
    THEN FrameUnder(s, 1) /\ s[Len(s)][1] = "code"
    ELSE FrameUnder(s, 0)

InHandler(s, v) ==
  /\ FrameUnder(s, 9)
  /\ s[Len(s) - 7] = <<"int_no", v>>
  /\ s[Len(s) - 8][1] = "code"

InSyscall(s, n) == UserWords(s) /\ Len(s) = 5 + n

\* A stack that switch_context left, or process_create made.
Parked(s) ==
  /\ UserWords(s)
  /\ s[Len(s)] = <<"eflags", 2>>
  /\ \/ Len(s) = 20 /\ s[15] = <<"ret", "return">>
     \/ Len(s) = 19 /\ s[14] = <<"ret", "dispatch">>
     \/ Len(s) = 11 /\ s[6] = <<"ret", "process_start_trampoline">>

TypeInv ==
  /\ stack \in [Procs -> Seq(Cells)]
  /\ alive \subseteq Procs /\ cur \in Procs
  /\ at \in Places /\ vec \in 0 .. 255 /\ IF_flag \in BOOLEAN
  /\ tss_base \in TssBases

\* The layout of the stack in use.
Current ==
  LET s == stack[cur] IN
  /\ at = "user" => s = << >>
  /\ at = "stub" => InStub(s, vec)
  /\ at = "interrupt_handler" => InHandler(s, vec)
  /\ at = "return" => FrameUnder(s, 9)
  /\ at \in {"syscall_handler", "process_start_trampoline"} => InSyscall(s, 0)
  /\ at \in {"dispatch", "hlt", "cli", "stopped"} => InSyscall(s, 8)

\* The layout of the other stacks.
Others ==
  /\ \A p \in alive \ {cur} : Parked(stack[p])
  /\ \A p \in Procs : Len(stack[p]) <= MaxWords

\* Interrupts are on in ring 3 and in hlt, and nowhere else.
CpuState ==
  /\ esp0 = cur
  /\ IF_flag <=> at \in {"user", "hlt", "cli"}
  /\ cs = IF at = "user" THEN USER_CODE ELSE KERNEL_CODE
  /\ at # "process_start_trampoline" => ds = USER_DATA

EntryInv == TypeInv /\ Current /\ Others /\ CpuState

-----------------------------------------------------------------------------
(* Words and stacks                                                        *)

\* Selectors, flags and gates, decoded.
LEMMA Bits ==
  /\ Rpl(USER_CODE) = 3 /\ Rpl(KERNEL_CODE) = 0
  /\ HasIf(514) /\ ~HasIf(2)
  /\ DataDpl(USER_DATA) = 3
  /\ \A v : type_attr(v) % 16 # 15
  /\ \A v : Dpl(type_attr(v)) = 3 => v = 128
  /\ IF_flag => Eflags = 514
  /\ ~IF_flag => Eflags = 2
<1>1. Rpl(USER_CODE) = 3 /\ Rpl(KERNEL_CODE) = 0
  BY DEF Rpl, USER_CODE, KERNEL_CODE
<1>2. HasIf(514) /\ ~HasIf(2)
  BY DEF HasIf
<1>3. gdt[4].access = 242
  BY DEF gdt, gdt_set_gate
<1>4. DataDpl(USER_DATA) = 3
  BY <1>3 DEF DataDpl, USER_DATA, Dpl
<1>5. \A v : type_attr(v) % 16 # 15 /\ (Dpl(type_attr(v)) = 3 => v = 128)
  BY DEF type_attr, Dpl
<1>6. (IF_flag => Eflags = 514) /\ (~IF_flag => Eflags = 2)
  BY DEF Eflags
<1> QED BY <1>1, <1>2, <1>4, <1>5, <1>6

\* r is the stack s with the words t pushed.
OnTop(r, s, t) ==
  /\ r \in Seq(Cells)
  /\ Len(s) \in Nat /\ Len(t) \in Nat
  /\ Len(r) = Len(s) + Len(t)
  /\ \A i \in 1 .. Len(s) : r[i] = s[i]
  /\ \A i \in 1 .. Len(t) : r[Len(s) + i] = t[i]

LEMMA Pushed ==
  ASSUME NEW s \in Seq(Cells), NEW t \in Seq(Cells)
  PROVE  OnTop(s \o t, s, t)
BY DEF OnTop

\* Words popped off a stack.
LEMMA Popped ==
  ASSUME NEW s \in Seq(Cells), NEW n \in Nat, n <= Len(s)
  PROVE  /\ Pop(s, n) \in Seq(Cells)
         /\ Len(s) \in Nat
         /\ Len(Pop(s, n)) = Len(s) - n
         /\ \A i \in 1 .. Len(s) - n : Pop(s, n)[i] = s[i]
BY DEF Pop

\* The words the assembly pushes.
LEMMA PushedWords ==
  /\ Registers \in Seq(Cells) /\ Len(Registers) = 7
  /\ \A ret \in Values : \A f \in Int :
       /\ SwitchFrame(ret, f) \in Seq(Cells)
       /\ Len(SwitchFrame(ret, f)) = 6
       /\ SwitchFrame(ret, f)[1] = <<"ret", ret>>
       /\ SwitchFrame(ret, f)[6] = <<"eflags", f>>
  /\ FirstFrame \in Seq(Cells) /\ Len(FirstFrame) = 11
  /\ UserWords(FirstFrame)
  /\ FirstFrame[6] = <<"ret", "process_start_trampoline">>
  /\ FirstFrame[11] = <<"eflags", 2>>
<1>1. Registers \in Seq(Cells) /\ Len(Registers) = 7
  BY DEF Registers, Cells, Tags, Values
<1>2. ASSUME NEW ret \in Values, NEW f \in Int
      PROVE  /\ SwitchFrame(ret, f) \in Seq(Cells)
             /\ Len(SwitchFrame(ret, f)) = 6
             /\ SwitchFrame(ret, f)[1] = <<"ret", ret>>
             /\ SwitchFrame(ret, f)[6] = <<"eflags", f>>
  BY DEF SwitchFrame, Cells, Tags, Values
<1> DEFINE u == <<<<"ss", USER_DATA>>, <<"esp", 0>>, <<"eflags", 514>>,
                  <<"cs", USER_CODE>>, <<"eip", "user">>>>
           w == SwitchFrame("process_start_trampoline", 2)
<1>3. u \in Seq(Cells) /\ Len(u) = 5 /\ UserWords(u)
  BY DEF Cells, Tags, Values, Places, UserWords, USER_DATA, USER_CODE
<1>4. /\ w \in Seq(Cells) /\ Len(w) = 6
      /\ w[1] = <<"ret", "process_start_trampoline">> /\ w[6] = <<"eflags", 2>>
  <2>1. "process_start_trampoline" \in Values
    BY DEF Values, Places
  <2> QED BY <1>2, <2>1
<1>5. FirstFrame = u \o w
  BY DEF FirstFrame
<1> HIDE DEF u, w
<1>6. /\ FirstFrame \in Seq(Cells) /\ Len(FirstFrame) = 11
      /\ \A i \in 1 .. 5 : FirstFrame[i] = u[i]
      /\ \A i \in 1 .. 6 : FirstFrame[5 + i] = w[i]
  <2>1. u \in Seq(Cells) /\ w \in Seq(Cells)
    BY <1>3, <1>4
  <2>2. /\ FirstFrame \in Seq(Cells)
        /\ Len(FirstFrame) = Len(u) + Len(w)
        /\ \A i \in 1 .. Len(u) : FirstFrame[i] = u[i]
        /\ \A i \in 1 .. Len(w) : FirstFrame[Len(u) + i] = w[i]
    BY <1>5, <2>1, Pushed DEF OnTop
  <2>3. Len(u) = 5 /\ Len(w) = 6
    BY <1>3, <1>4
  <2> QED BY <2>2, <2>3
<1>7. UserWords(FirstFrame)
  BY <1>3, <1>6 DEF UserWords
<1>8. FirstFrame[6] = w[1] /\ FirstFrame[11] = w[6]
  BY <1>6
<1> QED BY <1>1, <1>2, <1>4, <1>6, <1>7, <1>8

\* The stack without the n words on its frame is the CPU's frame.
LEMMA FrameFound ==
  ASSUME NEW s \in Seq(Cells), NEW n \in Nat, FrameUnder(s, n)
  PROVE  Pop(s, n) \in Seq(Cells) /\ FrameUnder(Pop(s, n), 0)
<1>1. Len(s) \in Nat /\ n <= Len(s)
  BY DEF FrameUnder
<1>2. /\ Pop(s, n) \in Seq(Cells) /\ Len(Pop(s, n)) = Len(s) - n
      /\ \A i \in 1 .. Len(s) - n : Pop(s, n)[i] = s[i]
  BY <1>1, Popped
<1>3. UserWords(s) /\ Len(s) >= 5 + n
  BY DEF FrameUnder
<1>4. UserWords(Pop(s, n))
  BY <1>2, <1>3 DEF UserWords
<1>5. Len(s) = 16 + n /\ KernelWords(s) => KernelWords(Pop(s, n))
  BY <1>2 DEF KernelWords
<1> QED BY <1>2, <1>4, <1>5 DEF FrameUnder

-----------------------------------------------------------------------------
(* What the invariant implies                                              *)

\* The words where interrupt_handler and iret look for them.
LEMMA FramesFromInv == EntryInv => FramesMatch
<1> SUFFICES ASSUME EntryInv PROVE FramesMatch
  OBVIOUS
<1> DEFINE s == stack[cur]
<1>1. s \in Seq(Cells)
  BY DEF EntryInv, TypeInv
<1>2. ASSUME NEW r \in Seq(Cells), FrameUnder(r, 0)
      PROVE  IretFrame(r)
  <2>1. CASE Len(r) = 5
    <3>1. /\ Word(r, 1) = r[5] /\ Word(r, 2) = r[4] /\ Word(r, 3) = r[3]
          /\ Word(r, 4) = r[2] /\ Word(r, 5) = r[1]
      BY <2>1 DEF Word
    <3> QED BY <1>2, <2>1, <3>1 DEF FrameUnder, UserWords, IretFrame
  <2>2. CASE Len(r) = 16 /\ KernelWords(r)
    <3>1. Word(r, 1) = r[16] /\ Word(r, 2) = r[15] /\ Word(r, 3) = r[14]
      BY <2>2 DEF Word
    <3>2. Rpl(Word(r, 2)[2]) # 3
      BY <2>2, <3>1, Bits DEF KernelWords
    <3> QED BY <2>2, <3>1, <3>2 DEF KernelWords, IretFrame
  <2> QED BY <1>2, <2>1, <2>2 DEF FrameUnder
<1>3. ASSUME NEW n \in Nat, NEW r \in Seq(Cells), FrameUnder(r, n)
      PROVE  IretFrame(Pop(r, n))
  BY <1>2, <1>3, FrameFound
<1>4. HandlerArguments
  <2> SUFFICES ASSUME at = "interrupt_handler"
               PROVE  /\ int_no = <<"int_no", vec>>
                      /\ Word(s, 9)[1] = "code"
                      /\ IretFrame(Pop(s, 9))
    BY DEF HandlerArguments
  <2>1. InHandler(s, vec)
    BY DEF EntryInv, Current
  <2>2. Len(s) \in Nat
    BY <1>1
  <2> QED BY <1>1, <1>3, <2>1, <2>2 DEF InHandler, int_no, Word
<1>5. Balanced
  <2>1. at = "return" => FrameUnder(s, 9)
    BY DEF EntryInv, Current
  <2>2. at = "dispatch" => FrameUnder(s, 8)
    BY DEF EntryInv, Current, InSyscall, FrameUnder
  <2>3. at = "process_start_trampoline" => FrameUnder(s, 0)
    BY DEF EntryInv, Current, InSyscall, FrameUnder
  <2> QED BY <1>1, <1>2, <1>3, <2>1, <2>2, <2>3 DEF Balanced, ReturnWords
<1> QED BY <1>4, <1>5 DEF FramesMatch

\* Empty in ring 3, parked elsewhere, and never too deep.
LEMMA DisciplineFromInv == EntryInv => StackDiscipline
<1> SUFFICES ASSUME EntryInv PROVE StackDiscipline
  OBVIOUS
<1>1. at = "user" => stack[cur] = << >> /\ esp0 = cur
  BY DEF EntryInv, Current, CpuState
<1>2. ASSUME NEW p \in alive \ {cur}
      PROVE  /\ Len(stack[p]) > 6
             /\ Word(stack[p], 6)[1] = "ret"
             /\ ~HasIf(Word(stack[p], 1)[2])
  <2>1. Parked(stack[p]) /\ Len(stack[p]) \in Nat
    BY DEF EntryInv, Others, TypeInv
  <2>2. Word(stack[p], 1) = stack[p][Len(stack[p])]
    BY <2>1 DEF Word
  <2>3. Word(stack[p], 1)[2] = 2
    BY <2>1, <2>2 DEF Parked
  <2>4. Len(stack[p]) > 6 /\ Word(stack[p], 6)[1] = "ret"
    <3>1. Word(stack[p], 6) = stack[p][Len(stack[p]) - 5]
      BY <2>1 DEF Word
    <3>2. CASE Len(stack[p]) = 20 /\ stack[p][15] = <<"ret", "return">>
      BY <3>1, <3>2
    <3>3. CASE Len(stack[p]) = 19 /\ stack[p][14] = <<"ret", "dispatch">>
      BY <3>1, <3>3
    <3>4. CASE /\ Len(stack[p]) = 11
               /\ stack[p][6] = <<"ret", "process_start_trampoline">>
      BY <3>1, <3>4
    <3> QED BY <2>1, <3>2, <3>3, <3>4 DEF Parked
  <2> QED BY <2>3, <2>4, Bits
<1> QED BY <1>1, <1>2 DEF StackDiscipline, EntryInv, Others

LEMMA HalvesNat == \A x \in Halves : x \in Nat
BY SMTT(30) DEF Halves

\* The segments of ring 3, and what the CPU reads in the table.
LEMMA SegmentsFromInv == EntryInv => Segments
<1> SUFFICES ASSUME EntryInv PROVE Segments
  OBVIOUS
<1>1. UserSegments
  BY DEF EntryInv, CpuState, UserSegments
<1>2. tss_base \in Halves \X Halves
  BY KernelEntryAssumption DEF EntryInv, TypeInv
<1>3. BaseOf(gdt[5]) = tss_base
  <2> DEFINE x == tss_base[1]
             d == x \div 256
             m == x % 256
  <2>1. x \in Halves
    BY <1>2
  <2> HIDE DEF x
  <2>2. x \in Nat
    BY <2>1, HalvesNat
  <2>3. d \in Int /\ m = x - 256 * d
    BY <2>2
  <2>4. gdt[5] = gdt_set_gate(tss_base, <<0, TSS_SIZE - 1>>, 137, 0)
    BY DEF gdt
  <2>5. gdt[5].base_high = d /\ gdt[5].base_middle = m
    BY <2>4 DEF gdt_set_gate, x
  <2>6. gdt[5].base_low = tss_base[2]
    BY <2>4 DEF gdt_set_gate
  <2> HIDE DEF d, m
  <2>7. d * 256 + m = x
    BY <2>2, <2>3
  <2>8. tss_base = <<x, tss_base[2]>>
    BY <1>2 DEF x
  <2> QED BY <2>5, <2>6, <2>7, <2>8 DEF BaseOf
<1>4. LimitOf(gdt[5]) = <<0, TSS_SIZE - 1>>
  BY DEF gdt, gdt_set_gate, LimitOf, TSS_SIZE
<1>5. ASSUME NEW sel \in {KERNEL_CODE, KERNEL_DATA, USER_CODE, USER_DATA}
      PROVE  LET d == gdt[sel \div 8] IN
             /\ BaseOf(d) = <<0, 0>> /\ LimitOf(d) = <<15, 65535>>
             /\ Present(d.access) /\ Dpl(d.access) = Rpl(sel)
  BY DEF KERNEL_CODE, KERNEL_DATA, USER_CODE, USER_DATA, gdt, gdt_set_gate,
         Flat, BaseOf, LimitOf, Present, Dpl, Rpl
<1> QED BY <1>1, <1>3, <1>4, <1>5 DEF Segments, DescriptorsDecode

-----------------------------------------------------------------------------
(* The steps                                                               *)

\* Only the stack in use changes, and not beyond its limit.
LEMMA OneStack ==
  ASSUME EntryInv, NEW r \in Seq(Cells), Len(r) <= MaxWords,
         stack' = [stack EXCEPT ![cur] = r], UNCHANGED <<alive, cur>>
  PROVE  /\ stack' \in [Procs -> Seq(Cells)] /\ stack'[cur] = r
         /\ Others'
<1>1. /\ stack \in [Procs -> Seq(Cells)] /\ cur \in Procs /\ alive \subseteq Procs
      /\ Others
  BY DEF EntryInv, TypeInv
<1>2. stack' \in [Procs -> Seq(Cells)] /\ stack'[cur] = r
  BY <1>1
<1>3. \A p \in Procs : p # cur => stack'[p] = stack[p]
  BY <1>1
<1>4. \A p \in alive \ {cur} : Parked(stack'[p])
  BY <1>1, <1>3 DEF Others
<1>5. \A p \in Procs : Len(stack'[p]) <= MaxWords
  BY <1>1, <1>2, <1>3 DEF Others
<1> QED BY <1>2, <1>4, <1>5 DEF Others

\* What is pushed lies above the CPU's frame.
LEMMA FrameGrows ==
  ASSUME NEW r, NEW s, NEW t, OnTop(r, s, t), NEW n \in Nat
  PROVE  /\ FrameUnder(s, n) => FrameUnder(r, n + Len(t))
         /\ InSyscall(s, n) => InSyscall(r, n + Len(t))
<1>1. /\ Len(s) \in Nat /\ Len(t) \in Nat
      /\ Len(r) = Len(s) + Len(t)
      /\ \A i \in 1 .. Len(s) : r[i] = s[i]
  BY DEF OnTop
<1>2. Len(s) >= 5 /\ UserWords(s) => UserWords(r)
  BY <1>1 DEF UserWords
<1>3. Len(s) >= 16 /\ KernelWords(s) => KernelWords(r)
  BY <1>1 DEF KernelWords
<1>4. FrameUnder(s, n) => FrameUnder(r, n + Len(t))
  BY <1>1, <1>2, <1>3 DEF FrameUnder
<1>5. InSyscall(s, n) => InSyscall(r, n + Len(t))
  BY <1>1, <1>2 DEF InSyscall
<1> QED BY <1>4, <1>5

\* Nine words above the CPU's frame fit the stack.
LEMMA FrameFits ==
  ASSUME NEW s \in Seq(Cells), NEW n \in 0 .. 9, FrameUnder(s, n)
  PROVE  Len(s) <= MaxWords
BY DEF FrameUnder, MaxWords

\* An entry, from ring 3 or when an interrupt ends a hlt.
LEMMA EnterKeeps ==
  ASSUME EntryInv, NEW v \in 0 .. 255, NEW code \in Seq(Cells),
         v \in error_code_interrupt => Len(code) = 1 /\ code[1][1] = "code",
         v \notin error_code_interrupt => Len(code) = 0,
         at = "user" \/ (at \in {"hlt", "cli"} /\ v # 128),
         Enter(v, code)
  PROVE  EntryInv'
<1> DEFINE ring3 == <<<<"ss", USER_DATA>>, <<"esp", 0>>>>
           from == IF Rpl(cs) = 3 THEN ring3 ELSE stack[cur]
           b == from \o Interrupted
           r == b \o code
<1>1. /\ stack \in [Procs -> Seq(Cells)] /\ cur \in Procs /\ esp0 = cur
      /\ IF_flag /\ Eflags = 514
  BY Bits DEF EntryInv, TypeInv, CpuState
<1>2. stack' = [stack EXCEPT ![cur] = r]
  BY <1>1 DEF Enter
<1>3. /\ Interrupted \in Seq(Cells) /\ Len(Interrupted) = 3
      /\ Interrupted[1] = <<"eflags", 514>> /\ Interrupted[2] = <<"cs", cs>>
      /\ Interrupted[3] = <<"eip", IF at = "hlt" THEN "cli" ELSE at>>
  <2> DEFINE e == IF at = "hlt" THEN "cli" ELSE at
  <2>1. cs \in Int /\ e \in Values
    BY DEF EntryInv, TypeInv, CpuState, Values, Places, USER_CODE, KERNEL_CODE
  <2>2. Interrupted = <<<<"eflags", 514>>, <<"cs", cs>>, <<"eip", e>>>>
    BY <1>1 DEF Interrupted
  <2>3. /\ <<"eflags", 514>> \in Cells /\ <<"cs", cs>> \in Cells
        /\ <<"eip", e>> \in Cells
    BY <2>1 DEF Cells, Tags, Values
  <2> HIDE DEF e
  <2>4. Interrupted \in Seq(Cells)
    BY <2>2, <2>3
  <2>5. /\ Len(Interrupted) = 3
        /\ Interrupted[1] = <<"eflags", 514>> /\ Interrupted[2] = <<"cs", cs>>
        /\ Interrupted[3] = <<"eip", e>>
    BY <2>2
  <2> QED BY <2>4, <2>5 DEF e
<1> HIDE DEF ring3, from, b, r
<1>4. b \in Seq(Cells) /\ FrameUnder(b, 0)
  <2>1. CASE at = "user"
    <3>1. cs = USER_CODE /\ from = ring3
      BY <2>1, Bits DEF EntryInv, CpuState, from
    <3>2. /\ ring3 \in Seq(Cells) /\ Len(ring3) = 2
          /\ ring3[1] = <<"ss", USER_DATA>> /\ ring3[2] = <<"esp", 0>>
      BY DEF ring3, Cells, Tags, Values, USER_DATA
    <3>3. OnTop(b, ring3, Interrupted)
      BY <1>3, <3>1, <3>2, Pushed DEF b
    <3>4. Len(ring3) = 2 /\ Len(Interrupted) = 3
      BY <1>3, <3>2
    <3>5. /\ b[1] = ring3[1] /\ b[2] = ring3[2] /\ b[3] = Interrupted[1]
          /\ b[4] = Interrupted[2] /\ b[5] = Interrupted[3] /\ Len(b) = 5
      BY <3>3, <3>4 DEF OnTop
    <3>6. UserWords(b)
      BY <1>3, <2>1, <3>1, <3>2, <3>5 DEF UserWords
    <3>7. b \in Seq(Cells)
      BY <3>3 DEF OnTop
    <3>8. Len(b) = 5 + 0
      BY <3>5
    <3> QED BY <3>6, <3>7, <3>8 DEF FrameUnder
  <2>2. CASE at \in {"hlt", "cli"}
    <3>1. cs = KERNEL_CODE /\ from = stack[cur]
      BY <2>2, Bits DEF EntryInv, CpuState, from
    <3>2. stack[cur] \in Seq(Cells) /\ InSyscall(stack[cur], 8)
      BY <1>1, <2>2 DEF EntryInv, Current
    <3>3. OnTop(b, stack[cur], Interrupted)
      BY <1>3, <3>1, <3>2, Pushed DEF b
    <3>4. Len(stack[cur]) = 13 /\ Len(Interrupted) = 3
      BY <1>3, <3>2 DEF InSyscall
    <3>5. /\ b[14] = Interrupted[1] /\ b[15] = Interrupted[2]
          /\ b[16] = Interrupted[3] /\ Len(b) = 16
      BY <3>3, <3>4 DEF OnTop
    <3>6. KernelWords(b)
      BY <1>3, <2>2, <3>1, <3>5 DEF KernelWords
    <3>7. UserWords(b)
      <4>1. 8 \in Nat
        OBVIOUS
      <4>2. InSyscall(b, 8 + Len(Interrupted))
        BY <3>2, <3>3, <4>1, FrameGrows
      <4> QED BY <4>2 DEF InSyscall
    <3>8. b \in Seq(Cells)
      BY <3>3 DEF OnTop
    <3>9. Len(b) = 16 + 0
      BY <3>5
    <3> QED BY <3>6, <3>7, <3>8, <3>9 DEF FrameUnder
  <2> QED BY <2>1, <2>2
<1>5. OnTop(r, b, code)
  BY <1>4, Pushed DEF r
<1>6. r \in Seq(Cells) /\ FrameUnder(r, Len(code)) /\ Len(code) \in {0, 1}
  <2>1. FrameUnder(r, 0 + Len(code))
    BY <1>4, <1>5, FrameGrows
  <2>2. Len(code) \in {0, 1}
    OBVIOUS
  <2>3. 0 + Len(code) = Len(code)
    BY <2>2
  <2>4. r \in Seq(Cells)
    BY <1>5 DEF OnTop
  <2> QED BY <2>1, <2>2, <2>3, <2>4
<1>7. InStub(r, v)
  <2>1. CASE v \in error_code_interrupt
    <3>1. r[Len(r)] = code[1]
      <4>1. Len(code) = 1
        BY <2>1
      <4>2. Len(r) = Len(b) + 1 /\ r[Len(b) + 1] = code[1]
        BY <1>5, <4>1 DEF OnTop
      <4> QED BY <4>2
    <3>2. Len(code) = 1 /\ code[1][1] = "code"
      BY <2>1
    <3> QED BY <1>6, <2>1, <3>1, <3>2 DEF InStub
  <2>2. CASE v \notin error_code_interrupt
    BY <1>6, <2>2 DEF InStub
  <2> QED BY <2>1, <2>2
<1>8. at = "user" => Len(b) = 5
  <2> SUFFICES ASSUME at = "user" PROVE Len(b) = 5
    OBVIOUS
  <2>1. from = ring3
    BY Bits DEF EntryInv, CpuState, from
  <2>2. ring3 \in Seq(Cells) /\ Len(ring3) = 2
    BY DEF ring3, Cells, Tags, Values, USER_DATA
  <2>3. OnTop(b, ring3, Interrupted)
    BY <1>3, <2>1, <2>2, Pushed DEF b
  <2> QED BY <1>3, <2>2, <2>3 DEF OnTop
<1>9. v = 128 => InSyscall(r, 0)
  BY <1>5, <1>6, <1>8 DEF InSyscall, FrameUnder, error_code_interrupt, OnTop
<1>10. Len(r) <= MaxWords
  <2>1. Len(code) \in 0 .. 9
    BY <1>6
  <2> QED BY <1>6, <2>1, FrameFits
<1>11. /\ UNCHANGED <<alive, cur, esp0, ds, tss_base>> /\ vec' = v
       /\ cs' = KERNEL_CODE /\ at' = IF v = 128 THEN "syscall_handler" ELSE "stub"
       /\ ~IF_flag' /\ IF_flag' \in BOOLEAN
  <2>1. type_attr(v) % 16 # 15
    BY Bits
  <2>2. ~IF_flag' /\ IF_flag' \in BOOLEAN
    BY <2>1 DEF Enter
  <2> QED BY <2>2 DEF Enter
<1>12. /\ stack' \in [Procs -> Seq(Cells)] /\ stack'[cur] = r
       /\ Others'
  BY <1>2, <1>6, <1>10, <1>11, OneStack
<1>13. TypeInv'
  BY <1>11, <1>12 DEF EntryInv, TypeInv, Places
<1>14. Current'
  BY <1>7, <1>9, <1>11, <1>12 DEF Current
<1>15. CpuState'
  BY <1>11 DEF EntryInv, CpuState
<1> QED BY <1>12, <1>13, <1>14, <1>15 DEF EntryInv

\* iret, to ring 3 or to the cli behind a hlt.
LEMMA IretKeeps ==
  ASSUME EntryInv, NEW s \in Seq(Cells), FrameUnder(s, 0), Iret(s, USER_DATA)
  PROVE  EntryInv'
<1>1. UNCHANGED <<alive, cur, esp0, vec, tss_base>>
  BY DEF Iret
<1>2. ds' = USER_DATA
  BY Bits DEF Iret
<1>3. CASE Len(s) = 5
  <2>1. Word(s, 1) = s[5] /\ Word(s, 2) = s[4] /\ Word(s, 3) = s[3]
    BY <1>3 DEF Word
  <2>2. /\ Word(s, 1)[2] = "user" /\ Word(s, 2)[2] = USER_CODE
        /\ Word(s, 3)[2] = 514
    BY <2>1 DEF FrameUnder, UserWords
  <2>3. Rpl(Word(s, 2)[2]) = 3
    BY <2>2, Bits
  <2>4. at' = "user" /\ cs' = USER_CODE /\ IF_flag' = HasIf(514)
    BY <2>2 DEF Iret
  <2>5. IF_flag' = TRUE
    BY <2>4, Bits DEF HasIf
  <2> DEFINE r == Pop(s, 5)
  <2>6. r \in Seq(Cells) /\ Len(r) = 0
    <3>1. 5 \in Nat /\ 5 <= Len(s)
      BY <1>3
    <3>2. r \in Seq(Cells) /\ Len(r) = Len(s) - 5
      BY <3>1, Popped
    <3> QED BY <1>3, <3>2
  <2>7. stack' = [stack EXCEPT ![cur] = r]
    BY <2>3 DEF Iret
  <2> HIDE DEF r
  <2>8. r = << >> /\ Len(r) <= MaxWords
    BY <2>6 DEF MaxWords
  <2>9. /\ stack' \in [Procs -> Seq(Cells)] /\ stack'[cur] = r
        /\ Others'
    BY <1>1, <2>6, <2>7, <2>8, OneStack
  <2>10. TypeInv'
    BY <1>1, <2>4, <2>5, <2>9 DEF EntryInv, TypeInv, Places
  <2>11. Current'
    BY <1>1, <2>4, <2>8, <2>9 DEF Current
  <2>12. CpuState'
    BY <1>1, <1>2, <2>4, <2>5 DEF EntryInv, CpuState
  <2> QED BY <2>9, <2>10, <2>11, <2>12 DEF EntryInv
<1>4. CASE Len(s) = 16 /\ KernelWords(s)
  <2>1. Word(s, 1) = s[16] /\ Word(s, 2) = s[15] /\ Word(s, 3) = s[14]
    BY <1>4 DEF Word
  <2>2. /\ Word(s, 1)[2] = "cli" /\ Word(s, 2)[2] = KERNEL_CODE
        /\ Word(s, 3)[2] = 514
    BY <1>4, <2>1 DEF KernelWords
  <2>3. Rpl(Word(s, 2)[2]) # 3
    BY <2>2, Bits
  <2>4. at' = "cli" /\ cs' = KERNEL_CODE /\ IF_flag' = HasIf(514)
    BY <2>2 DEF Iret
  <2>5. IF_flag' = TRUE
    BY <2>4, Bits DEF HasIf
  <2> DEFINE r == Pop(s, 3)
  <2>6. /\ r \in Seq(Cells) /\ Len(r) = 13
        /\ \A i \in 1 .. 13 : r[i] = s[i]
    <3>1. 3 \in Nat /\ 3 <= Len(s)
      BY <1>4
    <3>2. /\ r \in Seq(Cells) /\ Len(r) = Len(s) - 3
          /\ \A i \in 1 .. Len(s) - 3 : r[i] = s[i]
      BY <3>1, Popped
    <3> QED BY <1>4, <3>2
  <2>7. stack' = [stack EXCEPT ![cur] = r]
    BY <2>3 DEF Iret
  <2> HIDE DEF r
  <2>8. InSyscall(r, 8) /\ Len(r) <= MaxWords
    <3>1. UserWords(s)
      BY <1>4 DEF FrameUnder
    <3>2. /\ r[1] = s[1] /\ r[2] = s[2] /\ r[3] = s[3]
          /\ r[4] = s[4] /\ r[5] = s[5]
      BY <2>6
    <3>3. UserWords(r)
      BY <3>1, <3>2 DEF UserWords
    <3> QED BY <2>6, <3>3 DEF MaxWords, InSyscall
  <2>9. /\ stack' \in [Procs -> Seq(Cells)] /\ stack'[cur] = r
        /\ Others'
    BY <1>1, <2>6, <2>7, <2>8, OneStack
  <2>10. TypeInv'
    BY <1>1, <2>4, <2>5, <2>9 DEF EntryInv, TypeInv, Places
  <2>11. Current'
    BY <1>1, <2>4, <2>8, <2>9 DEF Current
  <2>12. CpuState'
    BY <1>1, <1>2, <2>4, <2>5 DEF EntryInv, CpuState
  <2> QED BY <2>9, <2>10, <2>11, <2>12 DEF EntryInv
<1> QED BY <1>3, <1>4 DEF FrameUnder

\* switch_context: the caller's stack is parked (or abandoned), the other
\* one goes on where its frame says.
LEMMA SwitchKeeps ==
  ASSUME EntryInv, NEW p \in Procs, NEW ret, NEW n,
         switch_context(p, ret, alive \ {cur}),
         \/ ret = "return" /\ n = 9
         \/ ret \in {"dispatch", "never"} /\ n = 8,
         ret # "never" => alive' = alive,
         ret = "never" => alive' = alive \ {cur},
         ~IF_flag, at # "user", at # "process_start_trampoline",
         InSyscall(stack[cur], n)
  PROVE  EntryInv'
<1> DEFINE f == SwitchFrame(ret, 2)
           r == stack[cur] \o f
           q == Pop(stack[p], 6)
<1>1. /\ stack \in [Procs -> Seq(Cells)] /\ cur \in Procs /\ p # cur /\ p \in alive
      /\ alive \subseteq Procs
  BY DEF EntryInv, TypeInv, switch_context
<1>2. Eflags = 2
  BY Bits
<1>3. stack' = [stack EXCEPT ![cur] = r, ![p] = q]
  BY <1>1, <1>2 DEF switch_context
<1>4. /\ f \in Seq(Cells) /\ Len(f) = 6
      /\ f[1] = <<"ret", ret>> /\ f[6] = <<"eflags", 2>>
  <2>1. ret \in Values
    BY DEF Values, Places
  <2> QED BY <2>1, PushedWords
<1> HIDE DEF f
<1>5. OnTop(r, stack[cur], f)
  BY <1>1, <1>4, Pushed
<1>6. Len(stack[cur]) = 5 + n /\ UserWords(stack[cur])
  BY DEF InSyscall
<1> HIDE DEF r
<1>7. InSyscall(r, n + Len(f)) /\ n \in Nat
  <2>1. n \in Nat
    OBVIOUS
  <2> QED BY <1>5, <2>1, FrameGrows
<1>8. Len(r) = 11 + n /\ UserWords(r) /\ r \in Seq(Cells)
  BY <1>4, <1>5, <1>7 DEF InSyscall, OnTop
<1>9. r[6 + n] = <<"ret", ret>> /\ r[11 + n] = <<"eflags", 2>>
  <2>1. /\ Len(stack[cur]) + 1 = 6 + n /\ Len(stack[cur]) + 6 = 11 + n
    BY <1>6, <1>7
  <2>2. r[Len(stack[cur]) + 1] = f[1] /\ r[Len(stack[cur]) + 6] = f[6]
    <3>1. \A i \in 1 .. Len(f) : r[Len(stack[cur]) + i] = f[i]
      BY <1>5 DEF OnTop
    <3> QED BY <1>4, <3>1
  <2> QED BY <1>4, <2>1, <2>2
<1>10. ret # "never" => Parked(r)
  BY <1>8, <1>9 DEF Parked
<1>11. Len(r) <= MaxWords
  BY <1>8 DEF MaxWords
<1>12. Parked(stack[p]) /\ stack[p] \in Seq(Cells)
  BY <1>1 DEF EntryInv, Others
<1>13. /\ q \in Seq(Cells) /\ Len(stack[p]) \in Nat /\ Len(q) = Len(stack[p]) - 6
       /\ \A i \in 1 .. Len(stack[p]) - 6 : q[i] = stack[p][i]
  <2>1. Len(stack[p]) \in {20, 19, 11}
    BY <1>12 DEF Parked
  <2>2. \A k \in {20, 19, 11} : 6 <= k
    OBVIOUS
  <2>3. 6 \in Nat /\ 6 <= Len(stack[p])
    BY <2>1, <2>2
  <2> QED BY <1>12, <2>3, Popped
<1> HIDE DEF q
<1>14. /\ stack' \in [Procs -> Seq(Cells)]
       /\ stack'[p] = q /\ stack'[cur] = r
       /\ \A t \in Procs : t # p /\ t # cur => stack'[t] = stack[t]
  BY <1>1, <1>3, <1>8, <1>13
<1>15. UserWords(q) /\ Len(q) <= MaxWords
  <2>1. Len(stack[p]) \in {20, 19, 11} /\ UserWords(stack[p])
    BY <1>12 DEF Parked
  <2>2. Len(q) \in {14, 13, 5}
    BY <1>13, <2>1
  <2>3. \A k \in {14, 13, 5} : k <= MaxWords
    BY DEF MaxWords
  <2>4. \A k \in {20, 19, 11} : \A i \in 1 .. 5 : i \in 1 .. k - 6
    OBVIOUS
  <2>5. \A i \in 1 .. 5 : q[i] = stack[p][i]
    BY <1>13, <2>1, <2>4
  <2>6. UserWords(q)
    BY <2>1, <2>5 DEF UserWords
  <2> QED BY <2>2, <2>3, <2>6
<1>16. \/ at' = "return" /\ InSyscall(q, 9)
       \/ at' = "dispatch" /\ InSyscall(q, 8)
       \/ at' = "process_start_trampoline" /\ InSyscall(q, 0)
  <2>1. at' = stack[p][Len(stack[p]) - 5][2]
    BY <1>13 DEF switch_context, Word
  <2>2. CASE Len(stack[p]) = 20 /\ stack[p][15] = <<"ret", "return">>
    BY <1>13, <1>15, <2>1, <2>2 DEF InSyscall
  <2>3. CASE Len(stack[p]) = 19 /\ stack[p][14] = <<"ret", "dispatch">>
    BY <1>13, <1>15, <2>1, <2>3 DEF InSyscall
  <2>4. CASE /\ Len(stack[p]) = 11
             /\ stack[p][6] = <<"ret", "process_start_trampoline">>
    BY <1>13, <1>15, <2>1, <2>4 DEF InSyscall
  <2> QED BY <1>12, <2>2, <2>3, <2>4 DEF Parked
<1>17. IF_flag' = FALSE
  <2>1. IF_flag' = HasIf(stack[p][Len(stack[p])][2])
    BY <1>13 DEF switch_context, Word
  <2>2. stack[p][Len(stack[p])][2] = 2
    BY <1>12 DEF Parked
  <2>3. HasIf(2) = FALSE
    BY Bits DEF HasIf
  <2> QED BY <2>1, <2>2, <2>3
<1>18. cur' = p /\ esp0' = p /\ UNCHANGED <<cs, ds, vec, tss_base>>
  BY DEF switch_context, tss_set_kernel_stack
<1>19. /\ alive' \subseteq alive /\ (ret = "never" => cur \notin alive')
  OBVIOUS
<1>20. Others'
  <2>1. \A t \in alive' \ {p} : Parked(stack'[t])
    BY <1>1, <1>10, <1>14, <1>19 DEF EntryInv, Others
  <2>2. \A t \in Procs : Len(stack'[t]) <= MaxWords
    BY <1>11, <1>14, <1>15 DEF EntryInv, Others
  <2> QED BY <1>18, <2>1, <2>2 DEF Others
<1>21. TypeInv'
  BY <1>1, <1>14, <1>16, <1>17, <1>18, <1>19 DEF EntryInv, TypeInv, Places
<1>22. Current'
  <2>1. InSyscall(q, 9) => FrameUnder(q, 9)
    BY DEF InSyscall, FrameUnder
  <2> QED BY <1>14, <1>16, <1>18, <2>1 DEF Current
<1>23. CpuState'
  BY <1>16, <1>17, <1>18 DEF EntryInv, CpuState
<1> QED BY <1>20, <1>21, <1>22, <1>23 DEF EntryInv

\* An interrupt, an int instruction or a fault.
LEMMA EntrySteps ==
  ASSUME EntryInv,
         \/ \E v \in {32, 33} : Irq(v)
         \/ \E n \in Vectors : SoftwareInterrupt(n)
         \/ \E v \in Vectors \intersect (0 .. 19) : Fault(v)
  PROVE  EntryInv'
<1> DEFINE none == << >>
           one(x) == <<<<"code", x>>>>
<1>1. none \in Seq(Cells) /\ Len(none) = 0
  OBVIOUS
<1>2. ASSUME NEW x \in Int
      PROVE  one(x) \in Seq(Cells) /\ Len(one(x)) = 1 /\ one(x)[1][1] = "code"
  <2>1. <<"code", x>> \in Cells
    BY <1>2 DEF Cells, Tags, Values
  <2> QED BY <2>1
<1> HIDE DEF none, one
<1>3. CASE \E v \in {32, 33} : Irq(v)
  <2>1. PICK v \in {32, 33} : Irq(v)
    BY <1>3
  <2>2. v \in 0 .. 255 /\ v # 128 /\ v \notin error_code_interrupt
    BY DEF error_code_interrupt
  <2>3. at = "user" \/ at \in {"hlt", "cli"}
    BY <2>1 DEF Irq, EntryInv, CpuState
  <2>4. Enter(v, none)
    BY <2>1 DEF Irq, none
  <2>5. at = "user" \/ (at \in {"hlt", "cli"} /\ v # 128)
    BY <2>2, <2>3
  <2>6. /\ v \in error_code_interrupt => Len(none) = 1 /\ none[1][1] = "code"
        /\ v \notin error_code_interrupt => Len(none) = 0
    BY <1>1, <2>2
  <2>7. v \in 0 .. 255 /\ none \in Seq(Cells)
    BY <1>1, <2>2
  <2> QED BY <2>4, <2>5, <2>6, <2>7, EnterKeeps
<1>4. CASE \E n \in Vectors : SoftwareInterrupt(n)
  <2>1. PICK n \in Vectors : SoftwareInterrupt(n)
    BY <1>4
  <2>2. at = "user" /\ n \in 0 .. 255 /\ n \in Int
    BY <2>1, KernelEntryAssumption DEF SoftwareInterrupt
  <2>3. CASE n = 128 /\ Enter(n, none)
    <3>1. n \notin error_code_interrupt
      BY <2>3 DEF error_code_interrupt
    <3> QED BY <1>1, <2>2, <2>3, <3>1, EnterKeeps
  <2>4. CASE Enter(13, one(n))
    <3>1. 13 \in 0 .. 255 /\ 13 \in error_code_interrupt
      BY DEF error_code_interrupt
    <3> QED BY <1>2, <2>2, <2>4, <3>1, EnterKeeps
  <2>5. Dpl(type_attr(n)) = 3 => n = 128
    BY Bits
  <2> QED BY <2>1, <2>3, <2>4, <2>5 DEF SoftwareInterrupt, none, one
<1>5. CASE \E v \in Vectors \intersect (0 .. 19) : Fault(v)
  <2>1. PICK v \in Vectors \intersect (0 .. 19) : Fault(v)
    BY <1>5
  <2>2. at = "user" /\ v \in 0 .. 255
    BY <2>1 DEF Fault
  <2>3. CASE v \in PushesErrorCode
    <3>1. v \in error_code_interrupt /\ Enter(v, one(0))
      BY <2>1, <2>3 DEF Fault, PushesErrorCode, error_code_interrupt, one
    <3>2. one(0) \in Seq(Cells) /\ Len(one(0)) = 1 /\ one(0)[1][1] = "code"
      BY <1>2
    <3> QED BY <2>2, <3>1, <3>2, EnterKeeps
  <2>4. CASE v \notin PushesErrorCode
    <3>1. v \notin error_code_interrupt /\ Enter(v, none)
      BY <2>1, <2>4 DEF Fault, PushesErrorCode, error_code_interrupt, none
    <3> QED BY <1>1, <2>2, <3>1, EnterKeeps
  <2> QED BY <2>3, <2>4
<1> QED BY <1>3, <1>4, <1>5

\* A step that pushes words and stays in the kernel.
LEMMA PushStep ==
  ASSUME EntryInv, NEW words \in Seq(Cells), Push(words),
         UNCHANGED <<alive, cur, esp0, cs, ds, IF_flag, vec, tss_base>>,
         \/ at = "stub" /\ at' = "interrupt_handler"
         \/ at = "syscall_handler" /\ at' = "dispatch",
         NEW r, r = stack[cur] \o words,
         at = "stub" => InHandler(r, vec),
         at = "syscall_handler" => InSyscall(r, 8)
  PROVE  EntryInv'
<1>1. stack \in [Procs -> Seq(Cells)] /\ cur \in Procs
  BY DEF EntryInv, TypeInv
<1>2. stack' = [stack EXCEPT ![cur] = r]
  BY <1>1 DEF Push
<1>3. r \in Seq(Cells)
  BY <1>1, Pushed DEF OnTop
<1>4. Len(r) <= MaxWords
  <2>1. \E n \in 0 .. 9 : FrameUnder(r, n)
    <3>1. CASE at = "stub"
      BY <3>1 DEF InHandler
    <3>2. CASE at = "syscall_handler"
      <4>1. FrameUnder(r, 8)
        BY <3>2 DEF InSyscall, FrameUnder
      <4> QED BY <4>1
    <3> QED BY <3>1, <3>2
  <2> QED BY <1>3, <2>1, FrameFits
<1>5. /\ stack' \in [Procs -> Seq(Cells)] /\ stack'[cur] = r
      /\ Others'
  BY <1>2, <1>3, <1>4, OneStack
<1>6. TypeInv'
  BY <1>5 DEF EntryInv, TypeInv, Places
<1>7. Current'
  BY <1>5 DEF Current
<1>8. CpuState'
  BY DEF EntryInv, CpuState
<1> QED BY <1>5, <1>6, <1>7, <1>8 DEF EntryInv

\* Pushing one after the other is pushing both.
LEMMA PushedTwice ==
  ASSUME NEW s \in Seq(Cells), NEW t \in Seq(Cells), NEW u \in Seq(Cells)
  PROVE  s \o (t \o u) = (s \o t) \o u
BY ConcatAssociative

\* The common stub: an error code, the vector and the registers.
LEMMA StubStep == ASSUME EntryInv, common_interrupt_handler PROVE EntryInv'
<1> DEFINE zero == <<<<"code", 0>>>>
           code == IF vec \in error_code_interrupt THEN << >> ELSE zero
           number == <<<<"int_no", vec>>>>
           w == code \o number
           words == w \o Registers
           s == stack[cur]
           sc == s \o code
           sn == sc \o number
           r == s \o words
<1>1. s \in Seq(Cells) /\ InStub(s, vec) /\ vec \in Int
  BY DEF EntryInv, TypeInv, Current, common_interrupt_handler
<1>2. zero \in Seq(Cells) /\ Len(zero) = 1 /\ zero[1][1] = "code"
  BY DEF Cells, Tags, Values
<1>3. number \in Seq(Cells) /\ Len(number) = 1 /\ number[1] = <<"int_no", vec>>
  <2>1. <<"int_no", vec>> \in Cells
    BY <1>1 DEF Cells, Tags, Values
  <2> QED BY <2>1
<1> HIDE DEF zero, number, s
<1>4. code \in Seq(Cells)
  BY <1>2
<1>5. Registers \in Seq(Cells) /\ Len(Registers) = 7
  BY PushedWords
<1> HIDE DEF code
<1>6. w \in Seq(Cells) /\ sc \in Seq(Cells) /\ OnTop(sc, s, code)
  BY <1>1, <1>3, <1>4, Pushed DEF OnTop
<1>7. words \in Seq(Cells) /\ sn \in Seq(Cells) /\ OnTop(sn, sc, number)
  BY <1>3, <1>5, <1>6, Pushed DEF OnTop
<1>8. r = sn \o Registers
  <2>1. s \o (w \o Registers) = (s \o w) \o Registers
    <3> HIDE DEF w
    <3> QED BY <1>1, <1>5, <1>6, PushedTwice
  <2>2. s \o (code \o number) = (s \o code) \o number
    BY <1>1, <1>3, <1>4, PushedTwice
  <2> QED BY <2>1, <2>2
<1> HIDE DEF w, words, sc, sn, r
<1>9. OnTop(r, sn, Registers)
  BY <1>5, <1>7, <1>8, Pushed
<1>10. FrameUnder(sc, 1) /\ sc[Len(sc)][1] = "code"
  <2>1. CASE vec \in error_code_interrupt
    <3>1. code = << >> /\ sc = s
      BY <1>1, <2>1 DEF code, sc
    <3> QED BY <1>1, <2>1, <3>1 DEF InStub
  <2>2. CASE vec \notin error_code_interrupt
    <3>1. code = zero
      BY <2>2 DEF code
    <3>2. FrameUnder(s, 0)
      BY <1>1, <2>2 DEF InStub
    <3>3. FrameUnder(sc, 0 + Len(code))
      BY <1>6, <3>2, FrameGrows
    <3>4. Len(code) = 1 /\ code[1][1] = "code"
      BY <1>2, <3>1
    <3>5. Len(sc) = Len(s) + 1 /\ sc[Len(s) + 1] = code[1]
      BY <1>6, <3>4 DEF OnTop
    <3>6. FrameUnder(sc, 1)
      BY <3>3, <3>4
    <3> QED BY <3>4, <3>5, <3>6
  <2> QED BY <2>1, <2>2
<1>11. FrameUnder(r, 9)
  <2>1. FrameUnder(sn, 1 + Len(number))
    BY <1>7, <1>10, FrameGrows
  <2>2. FrameUnder(sn, 2)
    BY <1>3, <2>1
  <2>3. FrameUnder(r, 2 + Len(Registers))
    BY <1>9, <2>2, FrameGrows
  <2> QED BY <1>5, <2>3
<1>12. InHandler(r, vec)
  <2>1. /\ Len(sc) \in Nat /\ Len(sc) > 0
        /\ Len(sn) = Len(sc) + 1 /\ sn[Len(sc) + 1] = number[1]
        /\ sn[Len(sc)] = sc[Len(sc)]
    <3>1. Len(sc) \in Nat /\ Len(sc) > 0
      BY <1>6, <1>10 DEF FrameUnder
    <3> QED BY <1>3, <1>7, <3>1 DEF OnTop
  <2>2. /\ Len(r) = Len(sn) + 7
        /\ r[Len(sc) + 1] = sn[Len(sc) + 1] /\ r[Len(sc)] = sn[Len(sc)]
    <3>1. Len(sc) + 1 \in 1 .. Len(sn) /\ Len(sc) \in 1 .. Len(sn)
      BY <2>1
    <3>2. /\ Len(r) = Len(sn) + Len(Registers)
          /\ \A i \in 1 .. Len(sn) : r[i] = sn[i]
      BY <1>9 DEF OnTop
    <3> QED BY <1>5, <3>1, <3>2
  <2>3. Len(r) - 7 = Len(sc) + 1 /\ Len(r) - 8 = Len(sc)
    BY <2>1, <2>2
  <2> QED BY <1>3, <1>10, <1>11, <2>1, <2>2, <2>3 DEF InHandler
<1>13. Push(words)
  BY DEF common_interrupt_handler, words, w, code, zero, number
<1>14. r = stack[cur] \o words
  BY DEF r, s
<1> QED BY <1>7, <1>12, <1>13, <1>14, PushStep DEF common_interrupt_handler

\* The stub of int 0x80.
LEMMA SyscallStubStep == ASSUME EntryInv, syscall_handler_128 PROVE EntryInv'
<1> DEFINE arg == <<<<"arg", 0>>>>
           words == Registers \o arg
           s == stack[cur]
           r == s \o words
<1>1. s \in Seq(Cells) /\ InSyscall(s, 0)
  BY DEF EntryInv, TypeInv, Current, syscall_handler_128
<1>2. arg \in Seq(Cells) /\ Len(arg) = 1
  BY DEF Cells, Tags, Values
<1>3. Registers \in Seq(Cells) /\ Len(Registers) = 7
  BY PushedWords
<1> HIDE DEF arg, s
<1>4. words \in Seq(Cells) /\ Len(words) = 8
  <2>1. OnTop(words, Registers, arg)
    BY <1>2, <1>3, Pushed
  <2> QED BY <1>2, <1>3, <2>1 DEF OnTop
<1>5. Push(words)
  BY DEF syscall_handler_128, arg
<1> HIDE DEF words
<1>6. OnTop(r, s, words)
  BY <1>1, <1>4, Pushed
<1>7. InSyscall(r, 0 + Len(words))
  BY <1>1, <1>6, FrameGrows
<1>8. InSyscall(r, 8)
  BY <1>4, <1>7
<1>9. r = stack[cur] \o words
  BY DEF s
<1> HIDE DEF r
<1> QED BY <1>4, <1>5, <1>8, <1>9, PushStep DEF syscall_handler_128

\* A step that changes no stack.
LEMMA QuietEntryStep ==
  ASSUME EntryInv, UNCHANGED <<stack, cur, esp0, cs, ds, vec, tss_base>>,
         alive' \subseteq alive, IF_flag' \in BOOLEAN,
         at' \in Places, at # "user", at' # "user",
         at # "process_start_trampoline", at' # "process_start_trampoline",
         IF_flag' <=> at' \in {"hlt", "cli"},
         NEW n \in {8, 9},
         n = 8 => /\ at \in {"dispatch", "hlt", "cli", "stopped"}
                  /\ at' \in {"dispatch", "hlt", "cli", "stopped"},
         n = 9 => at = "interrupt_handler" /\ at' = "return"
  PROVE  EntryInv'
<1>1. TypeInv'
  BY DEF EntryInv, TypeInv
<1>2. Others'
  BY DEF EntryInv, Others
<1>3. CpuState'
  BY DEF EntryInv, CpuState
<1>4. Current'
  <2>1. CASE n = 8
    BY <2>1 DEF EntryInv, Current
  <2>2. CASE n = 9
    BY <2>2 DEF EntryInv, Current, InHandler
  <2> QED BY <2>1, <2>2
<1> QED BY <1>1, <1>2, <1>3, <1>4 DEF EntryInv

\* The C handler: preemption from ring 3, or back.
LEMMA HandlerStep == ASSUME EntryInv, interrupt_handler PROVE EntryInv'
<1>1. /\ at = "interrupt_handler" /\ InHandler(stack[cur], vec) /\ ~IF_flag
      /\ stack[cur] \in Seq(Cells)
  BY DEF EntryInv, TypeInv, Current, CpuState, interrupt_handler
<1>2. CASE /\ Rpl(stack_cs[2]) = 3 /\ UNCHANGED alive
           /\ \E p \in Procs : switch_context(p, "return", alive \ {cur})
  <2>1. Len(stack[cur]) \in Nat /\ FrameUnder(stack[cur], 9)
    BY <1>1 DEF InHandler
  <2>2. stack_cs = stack[cur][Len(stack[cur]) - 10]
    BY <2>1 DEF stack_cs, Word
  <2>3. ~(Len(stack[cur]) = 16 + 9 /\ KernelWords(stack[cur]))
    <3> SUFFICES ASSUME Len(stack[cur]) = 16 + 9, KernelWords(stack[cur])
                 PROVE  FALSE
      OBVIOUS
    <3>1. Len(stack[cur]) - 10 = 15
      OBVIOUS
    <3>2. stack_cs[2] = KERNEL_CODE
      BY <2>2, <3>1 DEF KernelWords
    <3> QED BY <1>2, <3>2, Bits
  <2>4. InSyscall(stack[cur], 9)
    BY <2>1, <2>3 DEF FrameUnder, InSyscall
  <2>5. PICK p \in Procs : switch_context(p, "return", alive \ {cur})
    BY <1>2
  <2> QED BY <1>1, <1>2, <2>4, <2>5, SwitchKeeps
<1>3. CASE /\ at' = "return"
           /\ UNCHANGED <<stack, alive, cur, esp0, cs, ds, IF_flag, vec, tss_base>>
  <2>1. IF_flag' \in BOOLEAN /\ ~IF_flag' /\ alive' \subseteq alive
    BY <1>1, <1>3 DEF EntryInv, TypeInv
  <2> QED BY <1>1, <1>3, <2>1, QuietEntryStep DEF Places
<1> QED BY <1>2, <1>3 DEF interrupt_handler

\* The steps inside a system call, but for spawn.
LEMMA DispatchSteps ==
  ASSUME EntryInv, DispatchSwitch \/ DispatchHalt \/ DispatchExit
  PROVE  EntryInv'
<1>1. CASE DispatchSwitch
  <2>1. at = "dispatch" /\ InSyscall(stack[cur], 8) /\ ~IF_flag
    BY <1>1 DEF DispatchSwitch, EntryInv, Current, CpuState
  <2>2. PICK p \in Procs : switch_context(p, "dispatch", alive \ {cur})
    BY <1>1 DEF DispatchSwitch
  <2>3. alive' = alive
    BY <1>1 DEF DispatchSwitch
  <2> QED BY <2>1, <2>2, <2>3, SwitchKeeps
<1>2. CASE DispatchHalt
  <2>1. /\ UNCHANGED <<stack, alive, cur, esp0, cs, ds, vec, tss_base>>
        /\ at \in {"dispatch", "cli"}
    BY <1>2 DEF DispatchHalt
  <2>2. /\ IF_flag' \in BOOLEAN /\ at' \in {"dispatch", "hlt"}
        /\ IF_flag' <=> at' \in {"hlt", "cli"}
    BY <1>2 DEF DispatchHalt
  <2>3. alive' \subseteq alive /\ at' \in Places
    BY <2>1, <2>2 DEF Places
  <2> QED BY <2>1, <2>2, <2>3, QuietEntryStep
<1>3. CASE DispatchExit
  <2>1. at = "dispatch" /\ InSyscall(stack[cur], 8) /\ ~IF_flag
    BY <1>3 DEF DispatchExit, EntryInv, Current, CpuState
  <2>2. alive' = alive \ {cur}
    BY <1>3 DEF DispatchExit
  <2>3. CASE \E p \in Procs : switch_context(p, "never", alive \ {cur})
    <3>1. PICK p \in Procs : switch_context(p, "never", alive \ {cur})
      BY <2>3
    <3> QED BY <2>1, <2>2, <3>1, SwitchKeeps
  <2>4. CASE /\ at' = "stopped"
             /\ UNCHANGED <<stack, cur, esp0, cs, ds, IF_flag, vec, tss_base>>
    <3>1. IF_flag' \in BOOLEAN /\ ~IF_flag' /\ alive' \subseteq alive
      BY <2>1, <2>2, <2>4 DEF EntryInv, TypeInv
    <3> QED BY <2>1, <2>4, <3>1, QuietEntryStep DEF Places
  <2> QED BY <1>3, <2>3, <2>4 DEF DispatchExit
<1> QED BY <1>1, <1>2, <1>3

\* process_create parks a whole first frame on the new stack.
LEMMA SpawnStep == ASSUME EntryInv, DispatchSpawn PROVE EntryInv'
<1>1. PICK p \in Procs \ (alive \union {cur}) :
        /\ alive' = alive \union {p}
        /\ stack' = [stack EXCEPT ![p] = FirstFrame]
  BY DEF DispatchSpawn
<1>2. UNCHANGED <<cur, esp0, cs, ds, IF_flag, at, vec, tss_base>>
  BY DEF DispatchSpawn
<1>3. /\ stack \in [Procs -> Seq(Cells)] /\ cur \in Procs /\ alive \subseteq Procs
  BY DEF EntryInv, TypeInv
<1>4. /\ FirstFrame \in Seq(Cells) /\ Len(FirstFrame) = 11
      /\ Parked(FirstFrame)
  <2>1. /\ FirstFrame \in Seq(Cells) /\ Len(FirstFrame) = 11
        /\ UserWords(FirstFrame)
        /\ FirstFrame[6] = <<"ret", "process_start_trampoline">>
        /\ FirstFrame[11] = <<"eflags", 2>>
    BY PushedWords
  <2> QED BY <2>1 DEF Parked
<1>5. /\ stack' \in [Procs -> Seq(Cells)] /\ stack'[p] = FirstFrame
      /\ \A t \in Procs : t # p => stack'[t] = stack[t]
  BY <1>1, <1>3, <1>4
<1>6. TypeInv'
  BY <1>1, <1>2, <1>3, <1>5 DEF EntryInv, TypeInv
<1>7. Current'
  <2>1. stack'[cur] = stack[cur]
    BY <1>1, <1>3, <1>5
  <2> QED BY <1>2, <2>1 DEF EntryInv, Current
<1>8. Others'
  <2>1. \A t \in alive' \ {cur} : Parked(stack'[t])
    BY <1>1, <1>3, <1>4, <1>5 DEF EntryInv, Others
  <2>2. \A t \in Procs : Len(stack'[t]) <= MaxWords
    <3>1. Len(FirstFrame) <= MaxWords
      BY <1>4 DEF MaxWords
    <3> QED BY <1>5, <3>1 DEF EntryInv, Others
  <2> QED BY <1>2, <2>1, <2>2 DEF Others
<1>9. CpuState'
  BY <1>2 DEF EntryInv, CpuState
<1> QED BY <1>6, <1>7, <1>8, <1>9 DEF EntryInv

\* The three irets of the kernel.
LEMMA ReturnSteps ==
  ASSUME EntryInv,
         ReturnFromInterrupt \/ ReturnFromSyscall \/ process_start_trampoline
  PROVE  EntryInv'
<1>1. stack[cur] \in Seq(Cells)
  BY DEF EntryInv, TypeInv
<1>2. CASE ReturnFromInterrupt
  <2>1. FrameUnder(stack[cur], 9) /\ ds = USER_DATA
    BY <1>2 DEF ReturnFromInterrupt, EntryInv, Current, CpuState
  <2>2. Iret(Pop(stack[cur], 9), USER_DATA)
    BY <1>2, <2>1 DEF ReturnFromInterrupt, ReturnWords
  <2> QED BY <1>1, <2>1, <2>2, FrameFound, IretKeeps
<1>3. CASE ReturnFromSyscall
  <2>1. InSyscall(stack[cur], 8) /\ ds = USER_DATA
    BY <1>3 DEF ReturnFromSyscall, EntryInv, Current, CpuState
  <2>2. FrameUnder(stack[cur], 8)
    BY <2>1 DEF InSyscall, FrameUnder
  <2>3. Iret(Pop(stack[cur], 8), USER_DATA)
    BY <1>3, <2>1 DEF ReturnFromSyscall
  <2> QED BY <1>1, <2>2, <2>3, FrameFound, IretKeeps
<1>4. CASE process_start_trampoline
  <2>1. InSyscall(stack[cur], 0)
    BY <1>4 DEF process_start_trampoline, EntryInv, Current
  <2>2. FrameUnder(stack[cur], 0)
    BY <2>1 DEF InSyscall, FrameUnder
  <2>3. Iret(stack[cur], USER_DATA)
    BY <1>4 DEF process_start_trampoline, TrampolineData
  <2> QED BY <1>1, <2>2, <2>3, IretKeeps
<1> QED BY <1>2, <1>3, <1>4

-----------------------------------------------------------------------------
(* The theorems                                                            *)

\* jump_to_process finds the first frame of the first process.
LEMMA EntryInit == Init => EntryInv
<1> SUFFICES ASSUME Init PROVE EntryInv
  OBVIOUS
<1> DEFINE u == Pop(FirstFrame, 6)
<1>1. PICK p \in Procs :
        /\ alive = {p} /\ cur = p /\ esp0 = p
        /\ stack = [q \in Procs |-> IF q = p THEN u ELSE << >>]
  BY DEF Init
<1>2. u \in Seq(Cells) /\ Len(u) = 5 /\ UserWords(u)
  <2>1. /\ FirstFrame \in Seq(Cells) /\ Len(FirstFrame) = 11
        /\ UserWords(FirstFrame)
    BY PushedWords
  <2>2. 6 \in Nat /\ 6 <= Len(FirstFrame)
    BY <2>1
  <2>3. /\ u \in Seq(Cells) /\ Len(u) = Len(FirstFrame) - 6
        /\ \A i \in 1 .. Len(FirstFrame) - 6 : u[i] = FirstFrame[i]
    BY <2>1, <2>2, Popped
  <2>4. Len(u) = 5 /\ \A i \in 1 .. 5 : u[i] = FirstFrame[i]
    BY <2>1, <2>3
  <2> HIDE DEF u
  <2> QED BY <2>1, <2>3, <2>4 DEF UserWords
<1> HIDE DEF u
<1>3. << >> \in Seq(Cells) /\ Len(<< >>) = 0
  OBVIOUS
<1>4. /\ cs = KERNEL_CODE /\ IF_flag = FALSE /\ vec = 0
      /\ at = "process_start_trampoline" /\ tss_base \in TssBases
  BY DEF Init
<1>5. /\ stack \in [Procs -> Seq(Cells)] /\ stack[cur] = u
      /\ \A q \in Procs : stack[q] = u \/ stack[q] = << >>
  BY <1>1, <1>2, <1>3
<1>6. TypeInv
  <2>1. alive \subseteq Procs /\ cur \in Procs
    BY <1>1
  <2>2. at \in Places /\ vec \in 0 .. 255
    BY <1>4 DEF Places
  <2>3. IF_flag \in BOOLEAN
    BY <1>4
  <2> QED BY <1>4, <1>5, <2>1, <2>2, <2>3 DEF TypeInv
<1>7. Current
  BY <1>2, <1>4, <1>5 DEF Current, InSyscall
<1>8. Others
  <2>1. Len(u) <= MaxWords /\ Len(<< >>) <= MaxWords
    BY <1>2, <1>3 DEF MaxWords
  <2> QED BY <1>1, <1>5, <2>1 DEF Others
<1>9. CpuState
  BY <1>1, <1>4 DEF CpuState
<1> QED BY <1>6, <1>7, <1>8, <1>9 DEF EntryInv

\* The layout of the stacks is inductive.
LEMMA EntryNext == EntryInv /\ [Next]_vars => EntryInv'
<1> SUFFICES ASSUME EntryInv, [Next]_vars PROVE EntryInv'
  OBVIOUS
<1>1. CASE UNCHANGED vars
  BY <1>1 DEF vars, EntryInv, TypeInv, Current, Others, CpuState
<1>2. CASE Stopped
  BY <1>1, <1>2 DEF Stopped
<1> QED BY <1>1, <1>2, EntrySteps, StubStep, HandlerStep, ReturnSteps,
           SyscallStubStep, DispatchSteps, SpawnStep DEF Next

\* The layout of every stack, at every step.
THEOREM EntryInvariance == Spec => []EntryInv
BY EntryInit, EntryNext, PTL DEF Spec

\* The C handler finds its arguments and every iret its frame, for every
\* vector, from both rings and across any switches.
THEOREM FramesMatchHolds == Spec => []FramesMatch
BY EntryInvariance, FramesFromInv, PTL

\* An entry overwrites no frame, and no kernel stack outgrows MaxWords.
THEOREM StackDisciplineHolds == Spec => []StackDiscipline
BY EntryInvariance, DisciplineFromInv, PTL

\* Ring 3 runs with its own segments and interrupts on, and the descriptors
\* decode to what the kernel meant wherever the TSS lies.
THEOREM SegmentsHold == Spec => []Segments
BY EntryInvariance, SegmentsFromInv, PTL
=============================================================================
