------------------------------ MODULE Session -------------------------------
(***************************************************************************)
(* The programs of programs/ on top of the scheduler: the shell, the       *)
(* process viewer top, and the demonstration programs, which write a text  *)
(* and exit.  Sched lets a program make any call at any time; here every   *)
(* process executes the text of its own program, in user mode, one system  *)
(* call per step, and is preempted between any two of them.                *)
(*                                                                         *)
(* A command is a character here: the line <<"top">> is what a user types  *)
(* to run top.  SYS_WRITE, SYS_CLEAR and SYS_LISTFILES change the screen,  *)
(* which is state of Console, and nothing of this module.                  *)
(***************************************************************************)
EXTENDS Sched

CONSTANTS Top,        \* the name of programs/top.c's binary
          Space,      \* ' '
          Builtins,   \* "help", "ls" and "clear"
          ExitWord,   \* "exit"
          Quit,       \* top's 'q'
          NoSuchFile, \* any name that no file of the image has
          MAX_ROWS    \* entries of top's array procs

ASSUME SessionAssumption ==
  /\ Top \in Files /\ Shell \in Files /\ Top # Shell
  /\ NoSuchFile \in Names \ Files
  /\ ExitWord \notin Files \union Builtins
  /\ Chars \subseteq Names \union Builtins \union {Space, ExitWord, Quit}
  /\ MAX_ROWS \in Nat /\ MAX_PROCESSES <= MAX_ROWS  \* both are 16

(***************************************************************************)
(* user[s] is the program slot s was loaded with: its name, where it is    *)
(* between two of its system calls ("start", "read", "got", "spawned" or   *)
(* "exit"; "none" if nothing was loaded), the line it has read, the pid    *)
(* its spawn returned and the rows top shows.                              *)
(***************************************************************************)
VARIABLE user

sessionVars == <<vars, user>>

At(place) == InUser /\ user[current].at = place

Runs(name) == user[current].name = name

GoTo(place) == user' = [user EXCEPT ![current].at = place]

-----------------------------------------------------------------------------
(* Loading, and the return of a system call that blocked                   *)

Fresh(name) ==
  [name |-> name, at |-> "start", line |-> << >>, pid |-> 0, rows |-> << >>]

\* process_create wrote the slots whose pid changed.
Created == {s \in Slots : procs'[s].pid # procs[s].pid}

Load(name) == [s \in Slots |-> IF s \in Created THEN Fresh(name) ELSE user[s]]

\* SYS_READ: the line is copied when the call returns, not before.
AfterRead ==
  IF kb_line_complete /\ ~kb_line_complete'
    THEN [user EXCEPT ![current].at = "got", ![current].line = kb_line_buf]
    ELSE user

\* Faulty variant: the shell forgets that it has waited.
AfterWaitFaulty == user

\* SYS_WAIT: the shell goes on to its next prompt.
AfterWait ==
  IF pc' = "user" /\ current' = current
    THEN [user EXCEPT ![current].at = "start", ![current].pid = 0]
    ELSE user

-----------------------------------------------------------------------------
(* shell.c                                                                 *)

\* The banner or the prompt: SYS_WRITE, and on to read().
Prompt ==
  /\ At("start")
  /\ Runs(Shell)
  /\ GoTo("read")
  /\ UNCHANGED vars

\* read() of the shell and of top.
Read ==
  /\ At("read")
  /\ SysRead
  /\ user' = AfterRead

\* The line without its trailing spaces: up to its last other character.
Stripped(line) ==
  LET kept == {i \in DOMAIN line : \E j \in DOMAIN line : i <= j /\ line[j] # Space}
  IN SubSeq(line, 1, Cardinality(kept))

Command == Stripped(user[current].line)

\* What fs_find is asked for: only a line of one command can name a file.
NameOf(cmd) ==
  IF Len(cmd) = 1 /\ cmd[1] \in Names THEN cmd[1] ELSE NoSuchFile

\* Back to the top of the loop, the line forgotten.
Again == [user EXCEPT ![current].at = "start", ![current].line = << >>]

\* len <= 0, len == 0 after stripping, or a built-in that only writes.
BlankOrBuiltin ==
  /\ At("got")
  /\ Runs(Shell)
  /\ Command = << >> \/ \E b \in Builtins : Command = <<b>>
  /\ user' = Again
  /\ UNCHANGED vars

ExitCommand ==
  /\ At("got")
  /\ Runs(Shell)
  /\ Command = <<ExitWord>>
  /\ user' = [user EXCEPT ![current].at = "exit", ![current].line = << >>]
  /\ UNCHANGED vars

\* Faulty variant: the shell does not wait for what it spawned.
AfterSpawnFaulty(s) == [Again EXCEPT ![s].pid = next_pid]

\* The shell has its child's pid and has not yet called wait().
AfterSpawn(s) == [Again EXCEPT ![s].at = "spawned", ![s].pid = next_pid]

\* spawn(): a negative result prints "Unknown command".
RunProgram ==
  /\ At("got")
  /\ Runs(Shell)
  /\ Command # << >>
  /\ \A b \in Builtins \union {ExitWord} : Command # <<b>>
  /\ SysSpawn(NameOf(Command))
  /\ user' = IF Created = {} THEN Again
             ELSE [s \in Slots |-> IF s \in Created THEN Fresh(NameOf(Command))
                                   ELSE AfterSpawn(current)[s]]

Wait ==
  /\ At("spawned")
  /\ SysWait(user[current].pid)
  /\ user' = AfterWait

-----------------------------------------------------------------------------
(* top.c, hello.c and program.c                                            *)

\* Faulty variant: the loop stops one slot too early.
ListedShort == {s \in Slots : s < MAX_PROCESSES - 1 /\ Live(s)}

Listed == {s \in Slots : Live(s)}

\* The rows process_get_info(buf, max) fills in: the first max live slots.
process_get_info(max) ==
  LET Nth(i) == CHOOSE s \in Listed :
                  Cardinality({t \in Listed : t < s}) = i - 1
      count == IF Cardinality(Listed) < max THEN Cardinality(Listed) ELSE max
  IN [i \in 1 .. count |->
        [pid |-> procs[Nth(i)].pid, state |-> procs[Nth(i)].state,
         name |-> user[Nth(i)].name]]

\* clear, header, getprocs, rows and the question.
Draw ==
  /\ At("start")
  /\ Runs(Top)
  /\ user' = [user EXCEPT ![current].at = "read",
                          ![current].rows = process_get_info(MAX_ROWS)]
  /\ UNCHANGED vars

Answer ==
  /\ At("got")
  /\ Runs(Top)
  /\ LET line == user[current].line
         quits == line # << >> /\ line[1] = Quit
     IN user' = [user EXCEPT ![current].at = IF quits THEN "exit" ELSE "start",
                             ![current].line = << >>]
  /\ UNCHANGED vars

\* hello.c and program.c write one text.
Greet ==
  /\ At("start")
  /\ user[current].name \notin {Shell, Top}
  /\ GoTo("exit")
  /\ UNCHANGED vars

\* exit() of every program.
ProgramExit ==
  /\ At("exit")
  /\ SysExit
  /\ user' = [user EXCEPT ![current] = [Fresh("none") EXCEPT !.at = "none"]]

-----------------------------------------------------------------------------
SessionInit ==
  /\ Init
  /\ user = [s \in Slots |-> [Fresh("none") EXCEPT !.at = "none"]]

UserStep ==
  \/ Prompt \/ Read \/ BlankOrBuiltin \/ ExitCommand \/ RunProgram \/ Wait
  \/ Draw \/ Answer \/ Greet \/ ProgramExit

SessionKernelStep ==
  \/ BootCreate /\ user' = Load(Shell)
  \/ (ReadResumed \/ ReadWoken) /\ user' = AfterRead
  \/ (WaitResumed \/ WaitWoken) /\ user' = AfterWait
  \/ /\ BootPit \/ scheduler_start \/ jump_to_process \/ ReturnToUser
     /\ UNCHANGED user

SessionInterrupt == Interrupt /\ UNCHANGED user

SessionDevice(n) == DeviceRaises(n) /\ UNCHANGED user

SessionNext ==
  \/ SessionKernelStep
  \/ UserStep
  \/ SessionInterrupt
  \/ \E n \in {TIMER, KEYBOARD} : SessionDevice(n)

SessionSafe == SessionInit /\ [][SessionNext]_sessionVars

(***************************************************************************)
(* The fairness of Sched, and strong fairness of every program: a process  *)
(* that is in user mode again and again executes its next system call,     *)
(* because ticks are 20 ms apart.  The user at the keyboard owes nothing.  *)
(***************************************************************************)
SessionSpec ==
  /\ SessionSafe
  /\ WF_sessionVars(SessionDevice(TIMER))
  /\ WF_sessionVars(SessionInterrupt)
  /\ SF_sessionVars(SessionKernelStep)
  /\ \A s \in Slots : SF_sessionVars(current = s /\ UserStep)

-----------------------------------------------------------------------------
(* Properties                                                              *)

Pids == {procs[s].pid : s \in {t \in Slots : Live(t)}}

\* The youngest process is in the foreground and every other one waits, or is
\* about to wait, for the next younger live one: spawn and wait are two calls
\* with a preemption between them, yet the waits always form one chain. So no
\* two processes ever wait for each other, and no two ever read: a typed line
\* cannot go to the wrong program.
OneForeground ==
  \A s \in Slots :
    LET younger == {p \in Pids : p > procs[s].pid}
    IN Live(s) /\ younger # {} =>
         /\ user[s].at = "spawned"
         /\ user[s].pid \in younger
         /\ \A p \in younger : user[s].pid <= p

\* While top waits for its answer the table on the screen stays true: the
\* rows are exactly the live processes, top itself the only RUNNING one.
TableTrue ==
  \A s \in Slots : Live(s) /\ user[s].name = Top /\ user[s].at = "read" =>
    LET rows == user[s].rows
    IN /\ {rows[i].pid : i \in DOMAIN rows} = Pids
       /\ \A i \in DOMAIN rows :
            rows[i].state = "RUNNING" <=> rows[i].pid = procs[s].pid

Halted == pc \in {"exit", "halt"}

\* A live process whose stack or code is not mapped faults for ever.
Stuck == \E s \in Slots : Live(s) /\ ~procs[s].mapped

Asking(s) == Live(s) /\ user[s].at = "read"

\* Unless the machine has halted or memory ran out under a program, somebody
\* asks for input again and again: after every built-in, every failed spawn
\* and every child's exit a prompt comes back, whatever is typed and however
\* the ticks fall.
PromptReturns == []<>(Halted \/ Stuck \/ \E s \in Slots : Asking(s))

=============================================================================
