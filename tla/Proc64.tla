------------------------------- MODULE Proc64 --------------------------------
(***************************************************************************)
(* The processes of the 64-bit kernel (src/src/proc64.c) on the frames of    *)
(* src/src/pmm64.c. The shell is kernel code: it lends the processor to the  *)
(* programs inside boot_test, shell_wait or shell_poll and gets it back      *)
(* through proc_restore_kernel. The timer reschedules only ring 3 code.      *)
(***************************************************************************)
EXTENDS Integers, FiniteSets, SequencesExt

CONSTANTS
  P64Slots,      \* MAX_PROCS
  P64Frames,     \* PMM64_FRAMES
  P64Pids,       \* bound: processes ever made
  P64Ticks,      \* bound: timer ticks
  P64Steps       \* bound: instructions a program runs

VARIABLES
  p64,           \* record: held, procs, pmm (bitmap, hint, count), mem (frame contents),
                 \* and told, a history: how often each end was reported
  current,       \* slot in ring 3, 0 while the kernel runs
  cpu,           \* the registers and the user window: at, code, stack
  lent,          \* the kernel call the programs run under (kernel_armed, shell_poll_mode,
                 \* focus_pid), and whether one runs, all sleep or the kernel has it back
  ticks64, slice, rr, next_pid,
  p64At          \* history: how far each pid has run

p64Vars == <<p64, current, cpu, lent, ticks64, slice, rr, next_pid, p64At>>

Slots64 == 1 .. P64Slots
Frames64 == 1 .. P64Frames
(* wake and wpid count only in SLEEP and WAIT, and are cleared after them.    *)
ProcFree == [st |-> "FREE", pid |-> 0, ppid |-> 0, wake |-> 0, wpid |-> 0, code |-> 0,
             at |-> 0, cf |-> 0, sf |-> 0]
Any64 == -1                       \* focus_pid 0xffffffff
Prompt == [by |-> "shell", focus |-> 0, now |-> "kernel"]
QUANTUM64 == 2
KernelCpu == [at |-> 0, code |-> 0, stack |-> 0]

(* ---- frames (pmm64.c): the search starts at the hint and does not wrap. -- *)
(* When processes start, held are the frames the page tables and the heap    *)
(* took (vm64.c).                                                            *)
pmm64_init(held) == [used |-> held, hint |-> 1, n |-> Cardinality(held)]
pmm64_found(pm) == {f \in Frames64 : f >= pm.hint /\ f \notin pm.used}
pmm64_alloc_frame(pm) ==
  LET free == pmm64_found(pm)
      f    == IF free = {} THEN 0 ELSE CHOOSE x \in free : \A y \in free : x <= y
  IN  IF f = 0 THEN [f |-> 0, pm |-> pm]
      ELSE [f |-> f, pm |-> [used |-> pm.used \cup {f}, n |-> pm.n + 1,
                             hint |-> IF f = P64Frames THEN 1 ELSE f + 1]]
pmm64_free_frame(pm, f) ==
  IF f \notin pm.used THEN pm
  ELSE [used |-> pm.used \ {f}, n |-> pm.n - 1, hint |-> IF f < pm.hint THEN f ELSE pm.hint]

(* proc_release: both frames and the slot. What a free frame holds does not  *)
(* matter, alloc_frames clears it. proc_slot only finds the slot.            *)
proc_release(s, i) ==
  [s EXCEPT !.pmm = pmm64_free_frame(pmm64_free_frame(@, s.procs[i].cf), s.procs[i].sf),
            !.mem = [f \in Frames64 |-> IF f = s.procs[i].sf THEN 0 ELSE @[f]],
            !.procs[i] = ProcFree]
proc_slot(s) ==
  LET free == {i \in Slots64 : s.procs[i].st = "FREE"}
  IN  IF free = {} THEN 0 ELSE CHOOSE i \in free : \A j \in free : i <= j

(* alloc_frames: on a failure what was taken is given back.                  *)
alloc_frames(s) ==
  LET c == pmm64_alloc_frame(s.pmm)  k == pmm64_alloc_frame(c.pm)
      ok == c.f # 0 /\ k.f # 0
  IN  [cf |-> c.f, sf |-> k.f, ok |-> ok,
       pm |-> IF ok THEN k.pm ELSE pmm64_free_frame(pmm64_free_frame(k.pm, c.f), k.f)]

(* spawn_image, and the copy sys_fork makes: the frames, the context and the *)
(* pages start as given. A pid is used up even when the frames run out.      *)
Made(s, pid, ppid, at, stack) ==
  LET i == proc_slot(s)  a == alloc_frames(s)
  IN  IF i = 0 \/ ~a.ok THEN [i |-> 0, s |-> [s EXCEPT !.pmm = a.pm]]
      ELSE [i |-> i,
            s |-> [s EXCEPT !.pmm = a.pm, !.mem = [@ EXCEPT ![a.cf] = 0, ![a.sf] = stack],
                            !.procs[i] = [ProcFree EXCEPT !.st = "RUN", !.pid = pid, !.ppid = ppid,
                                            !.at = at, !.cf = a.cf, !.sf = a.sf]]]

(* ---- waking and reaping -------------------------------------------------- *)
wake_sleepers(s) ==
  [s EXCEPT !.procs = [i \in Slots64 |-> IF @[i].st = "SLEEP" /\ ticks64 >= @[i].wake
                                         THEN [@[i] EXCEPT !.st = "RUN", !.wake = 0] ELSE @[i]]]
is_child(s, c, p, pid) ==
  /\ s.procs[c].st # "FREE" /\ c # p /\ s.procs[c].ppid = s.procs[p].pid
  /\ pid \in {0, s.procs[c].pid}
has_child(s, p, pid) == \E c \in Slots64 : is_child(s, c, p, pid)
Zombies(s, p, pid) == {c \in Slots64 : is_child(s, c, p, pid) /\ s.procs[c].st = "ZOMBIE"}
First64(S) == CHOOSE i \in S : \A j \in S : i <= j
Reported(s, c) == [proc_release(s, c) EXCEPT !.told[s.procs[c].pid] = @ + 1]
reap_one(s, c) == Reported(s, c)

complete_wait(s, p) ==
  LET z == Zombies(s, p, s.procs[p].wpid)
  IN  IF s.procs[p].st # "WAIT" THEN s
      ELSE IF z # {} THEN [reap_one(s, First64(z)) EXCEPT
                             !.procs[p].st = "RUN", !.procs[p].wpid = 0]
      ELSE IF has_child(s, p, s.procs[p].wpid) THEN s
      ELSE [s EXCEPT !.procs[p].st = "RUN", !.procs[p].wpid = 0]
complete_waits_FirstOnly(s) ==                     \* mutant: stops after the first slot
  complete_wait(s, 1)
complete_waits(s) == FoldLeft(complete_wait, s, [i \in Slots64 |-> i])

(* pick_next: round robin after the running slot, or after the last picked.  *)
After(from, i) == ((from + i - 1) % P64Slots) + 1
Ready(s, cur) == {i \in Slots64 : s.procs[i].st = "RUN" /\ i # cur}
pick_next(s, cur) ==
  LET from == IF cur # 0 THEN cur ELSE rr
      turn == {i \in Slots64 : After(from, i) \in Ready(s, cur)}
  IN  IF turn = {} THEN 0 ELSE After(from, First64(turn))

(* focus_done: the process the shell waits for is a zombie or gone.          *)
focus_done(s, focus) ==
  LET mine == {i \in Slots64 : /\ s.procs[i].st # "FREE" /\ s.procs[i].ppid = 0
                               /\ focus \in {Any64, s.procs[i].pid}}
  IN  focus # 0 /\ (mine = {} \/ \E i \in mine : s.procs[i].st = "ZOMBIE")

(* map_proc and iret: the slot's frames and saved context go to the CPU.     *)
OnCpu(p) == [at |-> p.at, code |-> p.cf, stack |-> p.sf]
RunSlot(s, n) == current' = n /\ rr' = n /\ p64' = s /\ cpu' = OnCpu(s.procs[n])
ToKernel(s) == current' = 0 /\ p64' = s /\ cpu' = KernelCpu /\ UNCHANGED rr

(* proc64_dispatch_next: to a program, back to the kernel, or halted until   *)
(* the next tick. A background pump never halts.                             *)
proc64_dispatch_next(s0, call) ==
  LET s == complete_waits(wake_sleepers(s0))
      n == pick_next(s, 0)
      done == focus_done(s, call.focus)
      asleep == \E i \in Slots64 : s.procs[i].st = "SLEEP"
      halts == ~done /\ n = 0 /\ call.by # "poll" /\ asleep
  IN  /\ lent' = [call EXCEPT !.now = IF halts THEN "halted"
                                     ELSE IF ~done /\ n # 0 THEN "user" ELSE "back"]
      /\ IF ~done /\ n # 0 THEN RunSlot(s, n) ELSE ToKernel(s)

(* ---- the timer (proc64_on_timer) ----------------------------------------- *)
Saved(s) == [s EXCEPT !.procs[current].at = cpu.at]
OnTimerRing3 ==
  LET s == complete_waits(wake_sleepers(p64))
      n == pick_next(s, current)
  IN  /\ current # 0
      /\ IF slice + 1 < QUANTUM64
         THEN slice' = slice + 1 /\ UNCHANGED <<p64, current, cpu, lent, rr>>
         ELSE /\ slice' = 0
              /\ IF lent.by = "poll"
                 THEN ToKernel(Saved(s)) /\ lent' = [lent EXCEPT !.now = "back"]
                 ELSE /\ UNCHANGED lent
                      /\ IF n = 0 THEN p64' = s /\ UNCHANGED <<current, cpu, rr>>
                         ELSE RunSlot(Saved(s), n)
proc64_on_timer ==
  /\ ticks64 < P64Ticks /\ ticks64' = ticks64 + 1 /\ UNCHANGED <<next_pid, p64At>>
  /\ \/ OnTimerRing3
     \/ current = 0 /\ UNCHANGED <<p64, current, cpu, lent, slice, rr>>
(* The loop of dispatch_next goes round after the halt. *)
Resumed == 
  /\ lent.now = "halted" /\ proc64_dispatch_next(p64, lent)
  /\ UNCHANGED <<ticks64, slice, next_pid, p64At>>

(* ---- system calls: the program at current, its registers in cpu ----------- *)
Me == p64.procs[current]
Trap == [p64 EXCEPT !.procs[current].at = cpu.at]       \* snap_to_ctx
UserStep ==                                             \* the program computes
  /\ current # 0 /\ cpu.at < P64Steps
  /\ cpu' = [cpu EXCEPT !.at = @ + 1]
  /\ p64' = [p64 EXCEPT !.mem[cpu.stack] = cpu.at + 1]
  /\ p64At' = [p64At EXCEPT ![Me.pid] = cpu.at + 1]
  /\ UNCHANGED <<current, lent, ticks64, slice, rr, next_pid>>
NextPid == next_pid' = next_pid + 1
sys_fork ==
  LET k == Made(p64, next_pid, Me.pid, cpu.at, p64.mem[Me.sf])
  IN  /\ current # 0 /\ next_pid <= P64Pids
      /\ IF proc_slot(p64) = 0 THEN UNCHANGED next_pid ELSE NextPid
      /\ p64' = k.s /\ p64At' = IF k.i = 0 THEN p64At ELSE [p64At EXCEPT ![next_pid] = cpu.at]
      /\ UNCHANGED <<current, cpu, lent, ticks64, slice, rr>>
sys_execve(found) ==                                    \* load_image, or -1 before any change
  /\ current # 0
  /\ IF ~found THEN UNCHANGED <<p64, cpu, p64At>>
     ELSE /\ p64' = [p64 EXCEPT !.mem = [@ EXCEPT ![Me.cf] = 0, ![Me.sf] = 0],
                               !.procs[current].at = 0]
          /\ cpu' = OnCpu([Me EXCEPT !.at = 0]) /\ p64At' = [p64At EXCEPT ![Me.pid] = 0]
  /\ UNCHANGED <<current, lent, ticks64, slice, rr, next_pid>>
sys_waitpid(pid) ==
  LET z == Zombies(p64, current, pid)
  IN  /\ current # 0 /\ UNCHANGED <<ticks64, slice, next_pid, p64At>>
      /\ IF z # {} THEN p64' = reap_one(p64, First64(z)) /\ UNCHANGED <<current, cpu, lent, rr>>
         ELSE IF ~has_child(p64, current, pid) THEN UNCHANGED <<p64, current, cpu, lent, rr>>
         ELSE proc64_dispatch_next([Trap EXCEPT !.procs[current].st = "WAIT",
                                                !.procs[current].wpid = pid], lent)
sys_exit(code) ==
  /\ current # 0 /\ UNCHANGED <<ticks64, slice, next_pid, p64At>>
  /\ proc64_dispatch_next([p64 EXCEPT !.procs[current].st = "ZOMBIE",
                                      !.procs[current].code = code], lent)
sys_sleep(n) ==
  /\ current # 0 /\ ticks64 + n <= P64Ticks /\ UNCHANGED <<ticks64, slice, next_pid, p64At>>
  /\ proc64_dispatch_next([Trap EXCEPT !.procs[current].st = "SLEEP", !.procs[current].wake = ticks64 + n], lent)

(* ---- the shell ------------------------------------------------------------ *)
AtPrompt == lent = Prompt
Lend(by, focus) == [by |-> by, focus |-> focus, now |-> "user"]
ShellChildren(pid) == {i \in Slots64 : /\ p64.procs[i].st # "FREE" /\ p64.procs[i].ppid = 0
                                       /\ pid \in {Any64, p64.procs[i].pid}}
(* proc64_boot_test, proc64_m17_test: run one program until nothing can run. *)
BootTest ==
  LET k == Made(p64, next_pid, 0, 0, 0)
  IN  /\ AtPrompt /\ next_pid = 1 /\ NextPid /\ k.i # 0 /\ UNCHANGED <<ticks64, p64At>> /\ slice' = 0
      /\ proc64_dispatch_next(k.s, Lend("boot", 0))
ReleaseAll(s) == FoldLeft(proc_release, s, [i \in Slots64 |-> i])
BootReturns ==
  /\ lent.by = "boot" /\ lent.now = "back" /\ lent' = Prompt
  /\ p64' = ReleaseAll(p64) /\ UNCHANGED <<current, cpu, ticks64, slice, rr, next_pid, p64At>>
(* proc64_spawn; in the foreground the wait follows. *)
proc64_spawn(bg) ==
  LET k == Made(p64, next_pid, 0, 0, 0)
  IN  /\ AtPrompt /\ next_pid <= P64Pids /\ p64' = k.s
      /\ IF proc_slot(p64) = 0 THEN UNCHANGED next_pid ELSE NextPid
      /\ lent' = IF k.i # 0 /\ ~bg THEN [Lend("wait", next_pid) EXCEPT !.now = "back"] ELSE lent
      /\ UNCHANGED <<current, cpu, ticks64, slice, rr, p64At>>
(* The `wait` command starts the same loop, for one pid or for any child.     *)
WaitCommand(pid) ==
  /\ AtPrompt /\ lent' = [Lend("wait", pid) EXCEPT !.now = "back"]
  /\ UNCHANGED <<p64, current, cpu, ticks64, slice, rr, next_pid, p64At>>
ShellWaitRound ==
  LET mine == ShellChildren(lent.focus)
      z    == {i \in mine : p64.procs[i].st = "ZOMBIE"}
  IN  /\ lent.by = "wait" /\ lent.now = "back" /\ UNCHANGED <<ticks64, slice, next_pid, p64At>>
      /\ IF z # {} THEN /\ p64' = Reported(p64, First64(z))
                         /\ lent' = Prompt /\ UNCHANGED <<current, cpu, rr>>
         ELSE IF mine = {} THEN lent' = Prompt /\ UNCHANGED <<p64, current, cpu, rr>>
         ELSE proc64_dispatch_next(p64, [lent EXCEPT !.now = "user"])
(* proc64_shell_poll wakes sleepers and looks for a runnable program before   *)
(* it completes any wait.                                                     *)
proc64_shell_poll ==
  LET s == wake_sleepers(p64)
  IN  /\ AtPrompt /\ UNCHANGED <<ticks64, next_pid, p64At>>
      /\ IF pick_next(s, 0) = 0 THEN p64' = s /\ UNCHANGED <<current, cpu, lent, slice, rr>>
         ELSE slice' = QUANTUM64 - 1 /\ proc64_dispatch_next(s, Lend("poll", 0))
PollReturns ==
  /\ lent.by = "poll" /\ lent.now = "back" /\ lent' = Prompt
  /\ UNCHANGED <<p64, current, cpu, ticks64, slice, rr, next_pid, p64At>>
proc64_kill(i) ==
  /\ AtPrompt /\ p64.procs[i].st \notin {"FREE", "ZOMBIE"}
  /\ p64' = [p64 EXCEPT !.procs[i].code = 9, !.procs[i].st = "ZOMBIE"]
  /\ UNCHANGED <<current, cpu, lent, ticks64, slice, rr, next_pid, p64At>>

P64Init ==
  /\ \E held \in {{}, {2}} : p64 = [held |-> held, procs |-> [i \in Slots64 |-> ProcFree], pmm |-> pmm64_init(held),
            mem |-> [f \in Frames64 |-> 0], told |-> [p \in 1 .. P64Pids + 1 |-> 0]]
  /\ current = 0 /\ cpu = KernelCpu /\ lent = Prompt
  /\ ticks64 = 0 /\ slice = 0 /\ rr = 1 /\ next_pid = 1
  /\ p64At = [p \in 1 .. P64Pids + 1 |-> 0]
P64Next ==
  \/ proc64_on_timer \/ Resumed \/ UserStep \/ sys_fork
  \/ \E f \in BOOLEAN : sys_execve(f) \/ proc64_spawn(f)
  \/ \E p \in 0 .. next_pid - 1 : sys_waitpid(p)
  \/ sys_exit(1) \/ sys_sleep(1)
  \/ BootTest \/ BootReturns \/ ShellWaitRound
  \/ \E p \in {Any64} \cup 1 .. next_pid - 1 : WaitCommand(p)
  \/ proc64_shell_poll \/ PollReturns \/ \E i \in Slots64 : proc64_kill(i)

(* The program on the CPU is runnable and runs under a call that can take    *)
(* the CPU back; live processes have distinct pids; a halt has a sleeper.    *)
P64TypeOK ==
  /\ current # 0 <=> lent.now = "user"
  /\ current # 0 => p64.procs[current].st = "RUN"
  /\ lent.now = "halted" => \E i \in Slots64 : p64.procs[i].st = "SLEEP"
  /\ \A i, j \in Slots64 : p64.procs[i].pid = p64.procs[j].pid => i = j \/ p64.procs[i].pid = 0
  /\ slice \in 0 .. QUANTUM64 - 1

(* Every used frame belongs to exactly one process and is found again when   *)
(* it is freed: nothing is free below the hint the search starts at          *)
(* (pmm64.c lowest_free_hint; proc64.c alloc_frames, proc_release).          *)
Frames64Right ==
  LET owned == [i \in Slots64 |-> {p64.procs[i].cf, p64.procs[i].sf} \ {0}]
  IN  /\ p64.pmm.used = p64.held \cup UNION {owned[i] : i \in Slots64}
      /\ \A i, j \in Slots64 : i # j => owned[i] \cap (owned[j] \cup p64.held) = {}
      /\ p64.pmm.n = Cardinality(p64.pmm.used)
      /\ \A f \in Frames64 \ p64.pmm.used : f >= p64.pmm.hint

(* A program goes on where it was interrupted, in its own memory, whoever    *)
(* ran in between (proc64_on_timer, snap_to_ctx, map_proc).                  *)
ResumesWhereLeft ==
  current # 0 => /\ cpu.at = p64At[Me.pid] /\ cpu.stack = Me.sf /\ cpu.code = Me.cf
                 /\ p64.mem[cpu.stack] = p64At[Me.pid]

(* While a program runs, every process in waitpid still has a child to wait  *)
(* for that has not ended (complete_waits before every switch).              *)
WaitersWaitForTheLiving ==
  current # 0 => \A p \in Slots64 : p64.procs[p].st = "WAIT" =>
    /\ has_child(p64, p, p64.procs[p].wpid) /\ Zombies(p64, p, p64.procs[p].wpid) = {}

(* The end of a process is told once, after which its pid is no process      *)
(* (reap_one, reap_ppid0, proc_release).                                     *)
ToldOnce ==
  \A p \in DOMAIN p64.told : p64.told[p] <= 1 /\
    (p64.told[p] = 1 => \A i \in Slots64 : p64.procs[i].pid # p)

(* shell_wait makes progress: the kernel gets the CPU back from a foreground *)
(* wait only when the process waited for has ended (focus_done); nobody can  *)
(* be left waiting with nothing runnable and nothing asleep.                 *)
ForegroundEnds ==
  [][lent.by = "wait" /\ lent'.now = "back" /\ lent.now # "back" /\ lent'.by = "wait"
       => \E i \in Slots64 : /\ p64'.procs[i].st = "ZOMBIE" /\ p64'.procs[i].ppid = 0
                              /\ lent.focus \in {Any64, p64'.procs[i].pid}]_p64Vars
=============================================================================
