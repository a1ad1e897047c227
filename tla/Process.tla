------------------------------ MODULE Process ------------------------------
(***************************************************************************)
(* The process system of the 32-bit AJOS kernel (src/kernel.c): the        *)
(* process table, the round-robin scheduler, the timer interrupt that      *)
(* wakes and preempts, the ring-3 system calls sleep / getkey / exit /     *)
(* fork / execve / waitpid and the shell commands run3 / wait / kill / run.*)
(*                                                                         *)
(* There is one CPU.  Kernel code is never preempted, but it runs with     *)
(* interrupts enabled (int 0x80 is a trap gate), so the timer interrupt    *)
(* can fall between any two of its steps.  An SSH session runs shell       *)
(* commands inside that interrupt, with interrupts masked: RemoteCmds is   *)
(* the set of commands such a session may issue.                           *)
(*                                                                         *)
(* Every slot of the table has an execution context: the stack of          *)
(* activations on its kernel stack, the innermost last.  Only the context  *)
(* of the current process executes.  Activations that wait run the loop    *)
(*     while (condition) { schedule(); hlt; }                              *)
(* whose phases are "test", then a pushed "sched" activation that has      *)
(* chosen its target but not yet masked interrupts, then "hlt".            *)
(***************************************************************************)
EXTENDS Integers, FiniteSets, Sequences, FiniteSetsExt, SequencesExt

CONSTANTS
  NSlots,        \* MAX_PROCESSES: slots 0 (kernel), 1 (shell), 2.. (programs)
  Pages,         \* physical pages the PMM manages for processes
  WinPages,      \* USER_WIN_PAGES, frames backing a user window
  KStackPages,   \* pages of one kernel stack (USER_KSTACK_SIZE)
  PdPages,       \* pages of one private page directory
  Reserve,       \* the "+ 8" of the free-page guards
  TickMod,       \* pit_ticks wraps at this modulus (2^32)
  Quantum,       \* ring-3 ticks between preemptions (10)
  WaitTicks,     \* timeout of the wait command (10 * PIT_HZ)
  SleepTicks,    \* sleep lengths the programs ask for, in ticks
  Codes,         \* exit codes
  RemoteCmds,    \* subset of {"kill", "run3bg", "run3fg", "wait"}
  MaxPid         \* bound: no process is created once next_pid exceeds it

ASSUME ProcessAssumption ==
  /\ NSlots \in Nat /\ NSlots >= 2
  /\ IsFiniteSet(Pages)
  /\ {WinPages, KStackPages, PdPages, Reserve} \subseteq Nat \ {0}
  /\ Reserve >= KStackPages + PdPages
  /\ TickMod \in Nat /\ TickMod % 2 = 0 /\ TickMod > 0
  /\ Quantum \in Nat \ {0}
  /\ WaitTicks \in Nat
  /\ SleepTicks \subseteq 1 .. (TickMod \div 2 - 1)
  /\ 0 \in Codes
  /\ RemoteCmds \subseteq {"kill", "run3bg", "run3fg", "wait"}
  /\ MaxPid \in Nat \ {0}

Slots == 0 .. NSlots - 1
Pids == 0 .. MaxPid
Ticks == 0 .. TickMod - 1
ProcStates == {"DEAD", "RUNNING", "SLEEPING", "ZOMBIE"}
NoReport == <<>>
NoCode == -1

VARIABLES
  table,             \* process_table
  current,           \* current_process, as a slot
  current_user_pid,
  next_pid,
  pit_ticks,
  scheduler_ticks,   \* modulo Quantum
  freePages,         \* pages on the PMM's free lists
  cr3,               \* pages of the loaded private page directory; {} = kernel's
  intr,              \* EFLAGS.IF
  stack,             \* activations on each slot's kernel stack
  left,              \* history: ticks a sleeping process still asked for
  exited,            \* history: the code each unreaped pid exited with
  report             \* output of the last step: <<pid, code>> told to a waiter

cpuVars == <<current, current_user_pid, cr3, intr>>
timeVars == <<pit_ticks, scheduler_ticks>>
history == <<left, exited>>
vars == <<table, cpuVars, next_pid, timeVars, freePages, stack, history, report>>

-----------------------------------------------------------------------------
(* One entry of the table, struct process.  A window, a kernel stack and a  *)
(* page directory are the sets of pages they occupy; esp says whether a     *)
(* saved stack pointer is there to switch to.                               *)

ProcType ==
  [pid: Pids, ppid: Pids, state: ProcStates, in_use: BOOLEAN, esp: BOOLEAN,
   kstack: SUBSET Pages, frames: SUBSET Pages, pd: SUBSET Pages,
   exit_code: Codes, wake_tick: Ticks, user: BOOLEAN, bg: BOOLEAN]

EmptySlot ==
  [pid |-> 0, ppid |-> 0, state |-> "DEAD", in_use |-> FALSE, esp |-> FALSE,
   kstack |-> {}, frames |-> {}, pd |-> {}, exit_code |-> 0, wake_tick |-> 0,
   user |-> FALSE, bg |-> FALSE]

(* An activation: what it executes, its phase, the slot its process pointer *)
(* designates, the pid and the tick count it holds, and whether it runs     *)
(* with interrupts masked.                                                  *)
FrameType ==
  [pc: {"idle", "user", "sleep", "getkey", "waitpid", "exit", "build",
        "publish", "run3", "wait", "legacy", "sched", "tick"},
   ph: {"test", "hlt", "arm", "free", "fork", "run3fg", "run3bg"},
   p: Slots, pid: Pids, t: Ticks, masked: BOOLEAN]

Frame(pc, ph) ==
  [pc |-> pc, ph |-> ph, p |-> 0, pid |-> 0, t |-> 0, masked |-> ~intr]

Top == Last(stack[current])
Push(stk, s, f) == [stk EXCEPT ![s] = Append(@, f)]
Pop(stk, s) == [stk EXCEPT ![s] = Front(@)]
SetTop(stk, s, f) == [stk EXCEPT ![s] = Append(Front(@), f)]

OnlyStackChanges ==
  /\ report' = NoReport
  /\ UNCHANGED <<table, cpuVars, next_pid, timeVars, freePages, history>>

At(pc, ph) == stack[current] # <<>> /\ Top.pc = pc /\ Top.ph = ph

Init ==
  /\ table = [s \in Slots |->
       IF s \in {0, 1}
         THEN [EmptySlot EXCEPT !.pid = s, !.state = "RUNNING", !.in_use = TRUE]
         ELSE EmptySlot]
  /\ current = 1 /\ current_user_pid = 0 /\ next_pid = 2
  /\ pit_ticks = 0 /\ scheduler_ticks = 0
  /\ freePages = Pages /\ cr3 = {} /\ intr = TRUE
  /\ stack = [s \in Slots |->
       IF s = 1
         THEN <<[pc |-> "idle", ph |-> "test", p |-> 0, pid |-> 0, t |-> 0,
                 masked |-> FALSE]>>
         ELSE <<>>]
  /\ left = [s \in Slots |-> 0]
  /\ exited = [p \in Pids |-> NoCode]
  /\ report = NoReport

-----------------------------------------------------------------------------
(* Table operations. *)

(* process_get: the slot of an in-use pid, if any. *)
SlotsOf(tab, pid) == {s \in Slots : tab[s].in_use /\ tab[s].pid = pid}
Exists(tab, pid) == SlotsOf(tab, pid) # {}
process_get(tab, pid) == Min(SlotsOf(tab, pid))

(* process_alloc: the first free slot takes the next pid; the parent is the *)
(* running user program, else the process that is dispatching.              *)
FreeSlots == {s \in Slots : ~table[s].in_use}
CanAlloc == FreeSlots # {} /\ next_pid <= MaxPid
process_alloc ==
  [EmptySlot EXCEPT
     !.pid = next_pid,
     !.ppid = IF current_user_pid # 0 THEN current_user_pid
                                      ELSE table[current].pid,
     !.state = "RUNNING", !.in_use = TRUE]

(* pmm_alloc_page for n pages: which ones is immaterial. *)
SomePages(n, avail) == CHOOSE S \in SUBSET avail : Cardinality(S) = n
Enough(avail) == Cardinality(avail) >= WinPages + Reserve

(* user_free_memory: give back the window and the page directory; leave the *)
(* page directory first if it is the loaded one.                            *)
user_free_memory_KeepsFrames(p) == [p EXCEPT !.pd = {}]   \* mutant
user_free_memory(p) == [p EXCEPT !.pd = {}, !.frames = {}]
MemoryOf(p) == p.pd \cup p.frames
Cr3Without_NoReload(p) == cr3   \* mutant: stays on the freed page directory
Cr3Without(p) == IF p.pd # {} /\ p.pd = cr3 THEN {} ELSE cr3

(* process_free: the slot afterwards (what the code leaves behind in it is  *)
(* never read while it is free), the pages given back (never the kernel     *)
(* stack that is executing), and who is current then.                       *)
process_free(p) ==
  [user_free_memory(p) EXCEPT !.state = "DEAD", !.in_use = FALSE, !.esp = FALSE,
     !.kstack = {}, !.exit_code = 0, !.user = FALSE,
     !.pid = 0, !.ppid = 0, !.wake_tick = 0, !.bg = FALSE]
PagesFreed_NoStack(s) == MemoryOf(table[s])   \* mutant: the kernel stack leaks
PagesFreed(s) ==
  MemoryOf(table[s]) \cup (IF s = current THEN {} ELSE table[s].kstack)
CurrentWithout(s) == IF s = current THEN 0 ELSE current
StackWithout(stk, s) ==
  IF s = current THEN [stk EXCEPT ![0] = stk[s], ![s] = <<>>]
                 ELSE [stk EXCEPT ![s] = <<>>]

(* Free slot s as part of a step whose stack update is stk. *)
FreeSlot(s, stk) ==
  /\ table' = [table EXCEPT ![s] = process_free(@)]
  /\ freePages' = freePages \cup PagesFreed(s)
  /\ current' = CurrentWithout(s)
  /\ stack' = StackWithout(stk, s)
  /\ cr3' = Cr3Without(table[s])
  /\ exited' = [exited EXCEPT ![table[s].pid] = NoCode]

(* The innermost activation returns, freeing nothing; or by process_free of *)
(* the process pid names, if it still exists.                               *)
JustReturn ==
  /\ stack' = Pop(stack, current)
  /\ UNCHANGED <<table, freePages, current, cr3, exited>>
ReturnFreeing(pid) ==
  IF Exists(table, pid)
    THEN FreeSlot(process_get(table, pid), Pop(stack, current))
    ELSE JustReturn

-----------------------------------------------------------------------------
(* The scheduler. *)

(* The slot schedule() picks: the first runnable one after the current slot *)
(* in round-robin order, the current one itself when there is no other.     *)
Runnable(tab, s) == tab[s].in_use /\ tab[s].state = "RUNNING" /\ tab[s].esp
SchedPick_FromStart(tab) ==   \* mutant: scans from slot 0, no rotation
  LET others == {s \in Slots \ {current} : Runnable(tab, s)}
  IN  IF others = {} THEN current ELSE Min(others)
SchedPick(tab) ==
  LET after == {i \in 1 .. NSlots : Runnable(tab, (current + i) % NSlots)}
  IN  IF after = {} THEN current ELSE (current + Min(after)) % NSlots

(* The masked part of schedule(): current_process, current_user_pid, the    *)
(* page directory, then switch_to.  A suspended context resumes after its   *)
(* own schedule() with the interrupt flag it had; a fresh program starts in *)
(* ring 3 with interrupts enabled; a slot without a context is garbage.     *)
SwitchTo(tab, stk, next) ==
  /\ table' = [tab EXCEPT ![current].esp = TRUE]
  /\ current' = next
  /\ current_user_pid' = IF tab[next].user THEN tab[next].pid ELSE 0
  /\ cr3' = tab[next].pd
  /\ IF stk[next] # <<>> /\ Last(stk[next]).pc = "sched"
       THEN stack' = Pop(stk, next) /\ intr' = ~Last(stk[next]).masked
       ELSE stack' = stk /\ intr' = (stk[next] # <<>>)

(* The wait of a foreground run3, on its process pointer. *)
StillRuns_InUse(q) == q.in_use   \* mutant: a zombie is waited for, forever
StillRuns(q) == q.in_use /\ q.state # "ZOMBIE"

(* Whether the waiting loop of activation f goes round once more. *)
Waits(f) ==
  LET me == table[current]
      q  == table[f.p]
  IN  CASE f.pc \in {"idle", "getkey", "exit"} -> TRUE
        [] f.pc = "sleep" -> me.state = "SLEEPING"
        [] f.pc = "waitpid" ->
             LET kids == {s \in Slots : /\ table[s].in_use /\ s # current
                                        /\ table[s].ppid = me.pid
                                        /\ f.pid \in {0, table[s].pid}}
             IN  kids # {} /\ \A s \in kids : table[s].state # "ZOMBIE"
        [] f.pc = "run3" -> StillRuns(q)
        [] f.pc = "wait" ->
             /\ q.in_use /\ q.state \in {"RUNNING", "SLEEPING"}
             /\ (pit_ticks - f.t) % TickMod <= WaitTicks
        [] OTHER -> FALSE

(* schedule() in a waiting loop, up to the choice of its target. *)
Yield ==
  /\ stack[current] # <<>> /\ Top.ph = "test" /\ Top.pc # "user" /\ Waits(Top)
  /\ LET next == SchedPick(table)
         halt == SetTop(stack, current, [Top EXCEPT !.ph = "hlt"])
     IN  stack' = IF next = current THEN halt
                  ELSE Push(halt, current, [Frame("sched", "test") EXCEPT !.p = next])
  /\ OnlyStackChanges

(* schedule() from sched_int_lock on: the target was chosen before. *)
Switch ==
  /\ At("sched", "test")
  /\ SwitchTo(table, stack, Top.p)
  /\ report' = NoReport
  /\ UNCHANGED <<next_pid, timeVars, freePages, history>>

-----------------------------------------------------------------------------
(* The timer interrupt. *)

(* Sleepers whose wake_tick is not in the future become RUNNING; the        *)
(* comparison is the sign of a wrapping difference.                         *)
Wake_Late(tab, now) ==   \* mutant: > for >=
  [s \in Slots |->
     IF /\ tab[s].in_use /\ tab[s].state = "SLEEPING"
        /\ (now - tab[s].wake_tick) % TickMod \in 1 .. (TickMod \div 2 - 1)
       THEN [tab[s] EXCEPT !.state = "RUNNING"] ELSE tab[s]]
Wake(tab, now) ==
  [s \in Slots |->
     IF /\ tab[s].in_use /\ tab[s].state = "SLEEPING"
        /\ (now - tab[s].wake_tick) % TickMod < TickMod \div 2
       THEN [tab[s] EXCEPT !.state = "RUNNING"] ELSE tab[s]]

(* timer_handler after the network poll, in a machine with table tab and    *)
(* contexts stk: wake, then every Quantum-th tick that interrupted ring 3   *)
(* preempts.  A preempted program resumes straight into ring 3.  The        *)
(* interrupt ends a hlt.                                                    *)
TickRest(tab, stk, now) ==
  LET woken == Wake(tab, now)
      top   == Last(stk[current])
      ring3 == top.pc = "user"
      next  == SchedPick(woken)
      seen  == IF top.ph = "hlt"
                 THEN SetTop(stk, current, [top EXCEPT !.ph = "test"]) ELSE stk
  IN  /\ scheduler_ticks' = (scheduler_ticks + (IF ring3 THEN 1 ELSE 0)) % Quantum
      /\ IF ring3 /\ scheduler_ticks' = 0 /\ next # current
           THEN SwitchTo(woken, Push(seen, current,
                           [Frame("sched", "test") EXCEPT !.p = next]), next)
           ELSE /\ table' = woken /\ stack' = seen /\ intr' = TRUE
                /\ UNCHANGED <<current, current_user_pid, cr3>>

Now_Unwrapped == pit_ticks + 1   \* mutant: a counter wider than 32 bits
Now == (pit_ticks + 1) % TickMod
CountDown(h) == [s \in Slots |-> IF h[s] > 0 THEN h[s] - 1 ELSE 0]
Interruptible == intr /\ stack[current] # <<>>

(* A tick whose network poll runs no command. *)
Tick ==
  /\ Interruptible
  /\ pit_ticks' = Now
  /\ TickRest(table, stack, Now)
  /\ left' = CountDown(left)
  /\ report' = NoReport
  /\ UNCHANGED <<next_pid, freePages, exited>>

-----------------------------------------------------------------------------
(* System calls of the current ring-3 program. *)

InUser == stack[current] # <<>> /\ Top.pc = "user"

(* sys_sleep marks the caller SLEEPING, then computes its wake-up tick. *)
SysSleep(n) ==
  /\ InUser
  /\ table' = [table EXCEPT ![current].state = "SLEEPING"]
  /\ stack' = Push(stack, current, [Frame("sleep", "arm") EXCEPT !.t = n])
  /\ left' = [left EXCEPT ![current] = n]
  /\ report' = NoReport
  /\ UNCHANGED <<cpuVars, next_pid, timeVars, freePages, exited>>

SleepArm ==
  /\ At("sleep", "arm")
  /\ table' = [table EXCEPT ![current].wake_tick = (pit_ticks + Top.t) % TickMod]
  /\ stack' = SetTop(stack, current, [Top EXCEPT !.ph = "test"])
  /\ report' = NoReport
  /\ UNCHANGED <<cpuVars, next_pid, timeVars, freePages, history>>

SleepReturn ==
  /\ At("sleep", "test") /\ ~Waits(Top)
  /\ stack' = Pop(stack, current)
  /\ OnlyStackChanges

(* sys_getkey waits in input_getkey, yielding, until a key arrives. *)
SysGetkey ==
  /\ InUser
  /\ stack' = Push(stack, current, Frame("getkey", "test"))
  /\ OnlyStackChanges

GetkeyReturn ==
  /\ At("getkey", "test")
  /\ stack' = Pop(stack, current)
  /\ OnlyStackChanges

(* user_process_exit: free the memory, then record the code and turn into a *)
(* zombie that yields forever.                                              *)
SysExit(code) ==
  /\ InUser
  /\ table' = [table EXCEPT ![current] = [user_free_memory(@) EXCEPT !.exit_code = code]]
  /\ freePages' = freePages \cup MemoryOf(table[current])
  /\ cr3' = Cr3Without(table[current])
  /\ stack' = SetTop(stack, current, Frame("exit", "free"))
  /\ report' = NoReport
  /\ UNCHANGED <<current, current_user_pid, intr, next_pid, timeVars, history>>

ExitZombie_KeepsUserPid ==   \* mutant: current_user_pid is not reset
  /\ At("exit", "free")
  /\ table' = [table EXCEPT ![current].state = "ZOMBIE"]
  /\ stack' = SetTop(stack, current, [Top EXCEPT !.ph = "test"])
  /\ exited' = [exited EXCEPT ![table[current].pid] = table[current].exit_code]
  /\ report' = NoReport
  /\ UNCHANGED <<cpuVars, next_pid, timeVars, freePages, left>>

ExitZombie ==
  /\ At("exit", "free")
  /\ table' = [table EXCEPT ![current].state = "ZOMBIE"]
  /\ current_user_pid' = 0
  /\ stack' = SetTop(stack, current, [Top EXCEPT !.ph = "test"])
  /\ exited' = [exited EXCEPT ![table[current].pid] = table[current].exit_code]
  /\ report' = NoReport
  /\ UNCHANGED <<current, cr3, intr, next_pid, timeVars, freePages, left>>

(* sys_waitpid: reap the first zombie child that matches, or fail at once   *)
(* when no child matches.                                                   *)
SysWaitpid(pid) ==
  /\ InUser
  /\ stack' = Push(stack, current, [Frame("waitpid", "test") EXCEPT !.pid = pid])
  /\ OnlyStackChanges

Zombies(pid) ==
  {s \in Slots : /\ table[s].in_use /\ s # current
                 /\ table[s].ppid = table[current].pid
                 /\ pid \in {0, table[s].pid}
                 /\ table[s].state = "ZOMBIE"}

WaitpidReturn ==
  /\ At("waitpid", "test") /\ ~Waits(Top)
  /\ IF Zombies(Top.pid) # {}
       THEN LET z == Min(Zombies(Top.pid))
            IN  /\ FreeSlot(z, Pop(stack, current))
                /\ report' = <<table[z].pid, table[z].exit_code>>
       ELSE report' = NoReport /\ JustReturn
  /\ UNCHANGED <<current_user_pid, intr, next_pid, timeVars, left>>

(* sys_execve past its checks: every frame of the window is replaced.  The  *)
(* early returns change nothing.                                            *)
SysExecve ==
  /\ InUser /\ table[current].pd # {} /\ Enough(freePages)
  /\ LET old == table[current].frames
         new == SomePages(WinPages, freePages \cup old)
     IN  /\ table' = [table EXCEPT ![current].frames = new]
         /\ freePages' = (freePages \cup old) \ new
  /\ report' = NoReport
  /\ UNCHANGED <<cpuVars, next_pid, timeVars, stack, history>>

-----------------------------------------------------------------------------
(* Creating a program: user_spawn for run3, sys_fork for fork.  The slot is *)
(* in use and RUNNING from the first step; esp keeps the scheduler away     *)
(* from it until the last one.                                              *)

(* Take a slot and a pid; the caller's stack becomes stk with the rest of   *)
(* the creation on top.                                                     *)
SpawnAlloc_SamePid(kind, stk, masked) ==   \* mutant: next_pid is not advanced
  /\ CanAlloc
  /\ LET s == Min(FreeSlots)
     IN  /\ table' = [table EXCEPT ![s] = process_alloc]
         /\ stack' = Push(stk, current, [Frame("build", kind) EXCEPT
                            !.p = s, !.pid = next_pid, !.masked = masked])
  /\ UNCHANGED next_pid
SpawnAlloc(kind, stk, masked) ==
  /\ CanAlloc
  /\ LET s == Min(FreeSlots)
     IN  /\ table' = [table EXCEPT ![s] = process_alloc]
         /\ stack' = Push(stk, current, [Frame("build", kind) EXCEPT
                            !.p = s, !.pid = next_pid, !.masked = masked])
  /\ next_pid' = next_pid + 1

(* sys_fork; its early returns change nothing. *)
SysFork ==
  /\ InUser /\ table[current].pd # {} /\ Enough(freePages)
  /\ SpawnAlloc("fork", stack, ~intr)
  /\ report' = NoReport
  /\ UNCHANGED <<cpuVars, timeVars, freePages, history>>

(* cmd_run3 at the console. *)
CmdRun3(kind) ==
  /\ At("idle", "test")
  /\ SpawnAlloc(kind, stack, ~intr)
  /\ report' = NoReport
  /\ UNCHANGED <<cpuVars, timeVars, freePages, history>>

(* Whether the allocations of the creation go through: the kernel stack     *)
(* first, then (run3 only) the free-page guard, the window and the page     *)
(* directory.                                                               *)
MemoryFor(kind) ==
  LET rest == Cardinality(freePages) - KStackPages
  IN  /\ rest >= WinPages + PdPages
      /\ kind # "fork" => rest >= WinPages + Reserve

SpawnBuild ==
  /\ stack[current] # <<>> /\ Top.pc = "build" /\ MemoryFor(Top.ph)
  /\ LET k == SomePages(KStackPages, freePages)
         w == SomePages(WinPages, freePages \ k)
         d == SomePages(PdPages, freePages \ (k \cup w))
     IN  /\ table' = [table EXCEPT ![Top.p].kstack = k, ![Top.p].frames = w,
                                   ![Top.p].pd = d]
         /\ freePages' = freePages \ (k \cup w \cup d)
  /\ stack' = SetTop(stack, current, [Top EXCEPT !.pc = "publish"])
  /\ report' = NoReport
  /\ UNCHANGED <<cpuVars, next_pid, timeVars, history>>

(* An allocation fails (kmalloc may for want of two adjacent pages):        *)
(* process_free gives everything back.                                      *)
SpawnFail ==
  /\ stack[current] # <<>> /\ Top.pc = "build"
  /\ ReturnFreeing(Top.pid)
  /\ report' = NoReport
  /\ UNCHANGED <<current_user_pid, intr, next_pid, timeVars, left>>

(* The new context is in place: esp, is_user_prog, is_background.  A        *)
(* foreground run3 goes on to wait for the program.                         *)
SpawnPublish ==
  /\ stack[current] # <<>> /\ Top.pc = "publish"
  /\ table' = [table EXCEPT ![Top.p] = [@ EXCEPT
        !.esp = TRUE, !.user = TRUE, !.state = "RUNNING",
        !.bg = CASE Top.ph = "fork" -> table[current].bg
                 [] Top.ph = "run3bg" -> TRUE [] OTHER -> FALSE]]
  /\ LET fresh == [Frame("user", "test") EXCEPT !.masked = FALSE]
         after == IF Top.ph = "run3fg" /\ Exists(table, Top.pid)
                    THEN SetTop(stack, current, [Top EXCEPT !.pc = "run3",
                            !.ph = "test", !.p = process_get(table, Top.pid)])
                    ELSE Pop(stack, current)
     IN  stack' = [after EXCEPT ![Top.p] = <<fresh>>]
  /\ report' = NoReport
  /\ UNCHANGED <<cpuVars, next_pid, timeVars, freePages, history>>

-----------------------------------------------------------------------------
(* Shell commands, at the console or under an SSH session's tick. *)

(* cmd_run3 in the foreground: the exit code is read through the process    *)
(* pointer, the slot is freed by pid.                                       *)
Run3Return_NoFree ==   \* mutant: the zombie stays, to be reaped again
  /\ At("run3", "test") /\ ~Waits(Top)
  /\ report' = <<Top.pid, table[Top.p].exit_code>>
  /\ JustReturn
  /\ UNCHANGED <<current_user_pid, intr, next_pid, timeVars, left>>
Run3Return ==
  /\ At("run3", "test") /\ ~Waits(Top)
  /\ report' = <<Top.pid, table[Top.p].exit_code>>
  /\ ReturnFreeing(Top.pid)
  /\ UNCHANGED <<current_user_pid, intr, next_pid, timeVars, left>>

(* The pid cmd_wait settles on: its argument, or the first background job. *)
BgJobs == {s \in Slots : table[s].in_use /\ table[s].bg}
WaitTarget(arg) ==
  IF arg # 0 THEN arg ELSE IF BgJobs = {} THEN 0 ELSE table[Min(BgJobs)].pid
Waitable(pid) ==
  pid # 0 /\ Exists(table, pid) /\ table[process_get(table, pid)].bg
WaitFrame(pid, now, masked) ==
  [Frame("wait", "test") EXCEPT !.p = process_get(table, pid), !.pid = pid,
                                !.t = now, !.masked = masked]

CmdWait(arg) ==
  /\ At("idle", "test") /\ Waitable(WaitTarget(arg))
  /\ stack' = Push(stack, current, WaitFrame(WaitTarget(arg), pit_ticks, ~intr))
  /\ OnlyStackChanges

(* cmd_wait after its loop: reap a zombie; otherwise (timeout, or the       *)
(* process is gone) just return.                                            *)
WaitReturn ==
  /\ At("wait", "test") /\ ~Waits(Top)
  /\ LET q == table[Top.p]
     IN  IF q.in_use /\ q.state = "ZOMBIE"
           THEN report' = <<Top.pid, q.exit_code>> /\ ReturnFreeing(Top.pid)
           ELSE report' = NoReport /\ JustReturn
  /\ UNCHANGED <<current_user_pid, intr, next_pid, timeVars, left>>

(* cmd_kill: refuses the system processes and the current one. *)
Killable(pid) ==
  pid \notin {0, 1} /\ Exists(table, pid) /\ process_get(table, pid) # current

CmdKill(pid) ==
  /\ At("idle", "test") /\ Killable(pid)
  /\ FreeSlot(process_get(table, pid), stack)
  /\ report' = NoReport
  /\ UNCHANGED <<current_user_pid, intr, next_pid, timeVars, left>>

(* cmd_run: a ring-0 program runs to completion on the shell's time; its    *)
(* slot has no context of its own.                                          *)
CmdRun(bg) ==
  /\ At("idle", "test") /\ CanAlloc
  /\ LET s == Min(FreeSlots)
     IN  table' = [table EXCEPT ![s] = [process_alloc EXCEPT !.bg = bg]]
  /\ next_pid' = next_pid + 1
  /\ stack' = Push(stack, current, [Frame("legacy", "test") EXCEPT !.pid = next_pid])
  /\ report' = NoReport
  /\ UNCHANGED <<cpuVars, timeVars, freePages, history>>

LegacyReturn ==
  /\ At("legacy", "test")
  /\ ReturnFreeing(Top.pid)
  /\ report' = NoReport
  /\ UNCHANGED <<current_user_pid, intr, next_pid, timeVars, left>>

-----------------------------------------------------------------------------
(* A tick whose network poll delivers a command line of an SSH session: the *)
(* command runs on the interrupted stack with interrupts masked, the rest   *)
(* of the tick after it.  One remote command runs at a time.                *)

NoRemote ==
  \A s \in Slots : \A i \in DOMAIN stack[s] : stack[s][i].pc # "tick"
UnderTick == Push(stack, current, [Frame("tick", "test") EXCEPT !.masked = TRUE])

RemoteTick(cmd) ==
  /\ cmd \in RemoteCmds /\ Interruptible /\ NoRemote
  /\ pit_ticks' = Now
  /\ left' = CountDown(left)
  /\ intr' = FALSE
  /\ report' = NoReport
  /\ UNCHANGED <<current_user_pid, scheduler_ticks>>

RemoteKill(pid) ==
  /\ RemoteTick("kill") /\ Killable(pid)
  /\ FreeSlot(process_get(table, pid), UnderTick)
  /\ UNCHANGED next_pid

RemoteRun3(kind) ==
  /\ RemoteTick(kind)
  /\ SpawnAlloc(kind, UnderTick, TRUE)
  /\ UNCHANGED <<current, cr3, freePages, exited>>

RemoteWait(arg) ==
  /\ RemoteTick("wait") /\ Waitable(WaitTarget(arg))
  /\ stack' = Push(UnderTick, current, WaitFrame(WaitTarget(arg), Now, TRUE))
  /\ UNCHANGED <<table, current, cr3, next_pid, freePages, exited>>

FinishTick ==
  /\ At("tick", "test") /\ Len(stack[current]) > 1   \* on what it interrupted
  /\ TickRest(table, Pop(stack, current), pit_ticks)
  /\ report' = NoReport
  /\ UNCHANGED <<next_pid, pit_ticks, freePages, history>>

-----------------------------------------------------------------------------
Syscall ==
  \/ \E n \in SleepTicks : SysSleep(n)
  \/ \E c \in Codes : SysExit(c)
  \/ \E pid \in Pids : SysWaitpid(pid)
  \/ SysGetkey \/ SysExecve \/ SysFork

ShellCommand ==
  \/ \E kind \in {"run3fg", "run3bg"} : CmdRun3(kind)
  \/ \E pid \in Pids : CmdWait(pid) \/ CmdKill(pid)
  \/ \E bg \in BOOLEAN : CmdRun(bg)

Remote ==
  \/ \E pid \in Pids : RemoteKill(pid) \/ RemoteWait(pid)
  \/ \E kind \in {"run3fg", "run3bg"} : RemoteRun3(kind)

(* What the kernel does by itself, given the CPU. *)
KernelStep ==
  \/ Yield \/ Switch
  \/ SleepArm \/ SleepReturn \/ ExitZombie \/ WaitpidReturn
  \/ SpawnBuild \/ SpawnFail \/ SpawnPublish
  \/ Run3Return \/ WaitReturn \/ FinishTick

Next ==
  Tick \/ KernelStep \/ Syscall \/ GetkeyReturn \/ ShellCommand \/ LegacyReturn
    \/ Remote

Spec == Init /\ [][Next]_vars

(* The timer keeps ticking while interrupts are enabled, and kernel code    *)
(* that can go on does.  The timer is not in step with the programs: of a   *)
(* program that returns to ring 3 again and again, some tick finds it       *)
(* there.  And nobody types so fast that the console never runs dry.        *)
FairSpec ==
  /\ Spec
  /\ WF_vars(Tick) /\ WF_vars(KernelStep)
  /\ SF_vars(InUser /\ Tick)
  /\ SF_vars(At("idle", "test") /\ Yield)

-----------------------------------------------------------------------------
(* Properties. *)

(* Every variable has its type. *)
TypeOK ==
  /\ table \in [Slots -> ProcType]
  /\ current \in Slots /\ current_user_pid \in Pids
  /\ next_pid \in 0 .. MaxPid + 1
  /\ pit_ticks \in Ticks /\ scheduler_ticks \in 0 .. Quantum - 1
  /\ freePages \in SUBSET Pages /\ cr3 \in SUBSET Pages
  /\ intr \in BOOLEAN
  /\ stack \in [Slots -> Seq(FrameType)]
  /\ left \in [Slots -> Nat]
  /\ exited \in [Pids -> Codes \cup {NoCode}]
  /\ report \in {NoReport} \cup (Pids \X Codes)

Owned(s) == table[s].kstack \cup table[s].frames \cup table[s].pd

(* No page has two owners: what process_free, user_free_memory, fork and    *)
(* execve hand to or take from the PMM never makes two processes share a    *)
(* frame, nor leaves a process holding a page that is on the free lists.    *)
PagesExclusive ==
  /\ \A s, t \in Slots : s # t => Owned(s) \cap Owned(t) = {}
  /\ \A s \in Slots : Owned(s) \cap freePages = {}
  /\ \A s \in Slots : /\ table[s].kstack \cap table[s].frames = {}
                      /\ table[s].kstack \cap table[s].pd = {}
                      /\ table[s].frames \cap table[s].pd = {}

(* No page is lost: a page that is not free belongs to a slot in use        *)
(* ("Free a process slot and all of its resources").                        *)
NoPageLost ==
  Pages = freePages \cup UNION {Owned(s) : s \in {t \in Slots : table[t].in_use}}

(* The CPU never executes for a slot that was given back: the current       *)
(* process is in use and has a context.                                     *)
CurrentIsLive == table[current].in_use /\ stack[current] # <<>>

(* The loaded page directory is the current process's own, so never one     *)
(* whose pages went back to the PMM.                                        *)
LoadedPdLive == cr3 = table[current].pd

(* A pid names at most one process in use, and pids are never reused. *)
PidsUnique ==
  /\ \A s, t \in Slots :
       table[s].in_use /\ table[t].in_use /\ table[s].pid = table[t].pid => s = t
  /\ \A s \in Slots : table[s].in_use => table[s].pid < next_pid

(* Interrupts masked and the CPU halted: nothing can wake it again.  The    *)
(* kernel must never get there ("pit_ticks is frozen and hlt would never    *)
(* wake", sleep_ms).                                                        *)
NeverHaltsMasked ==
  ~(~intr /\ stack[current] # <<>> /\ Top.ph = "hlt")

SleepFrames(s) ==
  {i \in DOMAIN stack[s] : stack[s][i].pc = "sleep" /\ stack[s][i].ph # "arm"}

(* No program is SLEEPING at or past its wake-up tick, across the wrap of   *)
(* pit_ticks: the timer's comparison misses nobody.                         *)
NoOversleep ==
  \A s \in Slots :
    (table[s].in_use /\ table[s].state = "SLEEPING" /\ SleepFrames(s) # {})
      => (table[s].wake_tick - pit_ticks) % TickMod \in 1 .. (TickMod \div 2)

(* sleep blocks for at least the ticks asked for: whoever is past the wait  *)
(* of sys_sleep has none left.                                              *)
SleepsFull ==
  \A s \in Slots :
    (table[s].in_use /\ table[s].state = "RUNNING" /\ SleepFrames(s) # {})
      => left[s] = 0

(* A program started by a shell command is the shell's child ("the shell,   *)
(* PID 1, for shell-issued commands", process_alloc).                       *)
ShellIsParent ==
  \A s \in Slots : \A i \in DOMAIN stack[s] :
    (stack[s][i].pc = "build" /\ stack[s][i].ph # "fork")
      => table[stack[s][i].p].ppid = 1

(* current_user_pid names the program that runs: getpid, and the parent of  *)
(* what it forks, are its own.                                              *)
UserPidRight ==
  current_user_pid = (IF table[current].user /\ table[current].state # "ZOMBIE"
                        THEN table[current].pid ELSE 0)

(* The table, read pid by pid, lives by ProcessLife: ordered and unique     *)
(* pids, one exit, one reaping, the right code told.                        *)
Life(p) ==
  IF p >= next_pid THEN "unborn"
  ELSE IF ~Exists(table, p) THEN "gone"
  ELSE IF table[process_get(table, p)].state = "ZOMBIE" THEN "zombie" ELSE "alive"
Lives == INSTANCE ProcessLife WITH life <- [p \in Pids |-> Life(p)],
                                   code <- exited
ImplementsLife == Lives!Spec

(* Nobody starves: a runnable program gets the CPU or is gone, provided no  *)
(* ring-0 program keeps the CPU for itself.                                 *)
InLegacy == stack[current] # <<>> /\ Top.pc = "legacy"
NoStarvation ==
  []<>~InLegacy =>
    \A s \in Slots : Runnable(table, s) ~> (current = s \/ ~Runnable(table, s))

(* A foreground run3 returns to the prompt once its program has exited. *)
ForegroundEnds ==
  []<>~InLegacy =>
    \A s \in Slots :
      (/\ Len(stack[1]) > 1 /\ stack[1][2].pc = "run3" /\ stack[1][2].p = s
       /\ table[s].state = "ZOMBIE")
      ~> (Len(stack[1]) <= 1)

(* What schedule, exit, kill and the timer each set in part agrees after     *)
(* every step: the current process is in use and has a context, the loaded   *)
(* page directory is its own, current_user_pid names it while it is a        *)
(* program that has not exited, and what a shell command is creating is the  *)
(* shell's child.                                                            *)
RunningRight ==
  /\ CurrentIsLive /\ LoadedPdLive
  /\ UserPidRight /\ ShellIsParent
=============================================================================
