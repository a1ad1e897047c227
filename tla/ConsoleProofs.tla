--------------------------- MODULE ConsoleProofs ---------------------------
(***************************************************************************)
(* The process system while commands come from the console only            *)
(* (RemoteCmds = {}), for every number of slots and pages: the CPU always  *)
(* runs a live process on its own page directory, no page is lost and no   *)
(* sleeper is missed.                                                      *)
(*                                                                         *)
(* Kernel code is not preempted.  So only the current process can be in    *)
(* the middle of a creation, and only it can have chosen a process to      *)
(* switch to without having switched yet: nothing that such a step relies  *)
(* on can change under it.  StacksRight says so of every activation.       *)
(***************************************************************************)
EXTENDS ProcessProofs

(* Activations that create a process, and that cannot yield. *)
Making == {"build", "publish", "legacy"}

(* The slot that activation f of slot s is filling in. *)
FillsIn(s, f) ==
  /\ f.p \notin {0, 1, s} /\ (f.ph # "fork" => s = 1)
  /\ table[f.p].in_use /\ table[f.p].pid = f.pid /\ stack[f.p] = <<>>
  /\ f.pc = "build" => Owned(f.p) = {}
  /\ f.pc = "build" /\ f.ph # "fork" => table[f.p].ppid = 1

FrameRight(s, i) ==
  LET f == stack[s][i]
  IN  /\ f.pc # "tick"
      /\ f.pc \in {"idle", "user", "exit"} <=> i = 1
      /\ f.pc \in {"idle", "run3", "wait", "legacy"} => s = 1
      /\ f.pc \in {"user", "exit", "sleep", "getkey", "waitpid"} => s # 1
      /\ f.pc \in Making \cup {"sched"} => i = Len(stack[s])
      /\ f.pc \in Making => s = current
      /\ f.pc \in Making \cup {"run3", "wait"} => f.pid \notin {0, 1}
      /\ f.pc \in {"build", "publish"} => FillsIn(s, f)
      /\ f.pc = "user" => table[s].state # "ZOMBIE"
      /\ f.pc = "sleep" /\ f.ph = "arm" => f.t \in SleepTicks

StacksRight == \A s \in Slots : \A i \in 1 .. Len(stack[s]) : FrameRight(s, i)

(* The kernel's slot and the shell's are for ever, and nobody has their pids. *)
SystemSlots ==
  /\ table[0].in_use /\ table[0].pid = 0 /\ table[0].state = "RUNNING"
  /\ table[1].in_use /\ table[1].pid = 1 /\ table[1].state = "RUNNING"
  /\ ~table[1].user /\ ~table[0].bg /\ ~table[1].bg /\ stack[0] = <<>>
  /\ \A s \in Slots \ {0, 1} : table[s].in_use => table[s].pid \notin {0, 1}

(* What can be switched to has a context, and what has one is in use. *)
ContextsRight ==
  /\ \A s \in Slots : /\ table[s].esp => stack[s] # <<>>
                      /\ stack[s] # <<>> => table[s].in_use
  /\ CurrentIsLive
  /\ Top.pc = "sched" => Top.p # current /\ Runnable(table, Top.p)

Console ==
  /\ TypeOK /\ PagesExclusive /\ PidsUnique
  /\ SystemSlots /\ ContextsRight /\ StacksRight

-----------------------------------------------------------------------------
(* The activation that executes. *)
LEMMA TopRight ==
  ASSUME Console
  PROVE  /\ current \in Slots \ {0} /\ table[current].in_use
         /\ stack \in Stacks /\ stack[current] \in Seq(FrameType)
         /\ stack[current] # <<>> /\ Len(stack[current]) \in Nat \ {0}
         /\ Top = stack[current][Len(stack[current])] /\ Top \in FrameType
         /\ FrameRight(current, Len(stack[current]))
<1>1. /\ current \in Slots /\ table[current].in_use /\ stack \in Stacks
      /\ stack[current] # <<>> /\ stack[0] = <<>>
  BY DEF Console, ContextsRight, CurrentIsLive, TypeOK, Stacks, SystemSlots
<1>2. stack[current] \in Seq(FrameType)
  BY <1>1 DEF Stacks
<1>3. /\ Len(stack[current]) \in Nat \ {0}
      /\ Top = stack[current][Len(stack[current])] /\ Top \in FrameType
  BY <1>1, <1>2, FrontFacts DEF Top
<1>4. FrameRight(current, Len(stack[current]))
  BY <1>1, <1>3 DEF Console, StacksRight
<1> QED BY <1>1, <1>2, <1>3, <1>4

(* An activation that stays where it is, and is not the innermost one of a  *)
(* creation, stays right.                                                   *)
OldFrame(s, i) ==
  /\ i \in 1 .. Len(stack[s]) /\ stack'[s][i] = stack[s][i]
  /\ stack[s][i].pc \notin Making
  /\ stack[s][i].pc = "sched" => i = Len(stack'[s])
  /\ stack[s][i].pc = "user" => table'[s].state # "ZOMBIE"

LEMMA OldFrameRight ==
  ASSUME Console, NEW s \in Slots, NEW i, OldFrame(s, i)
  PROVE  FrameRight(s, i)'
<1>1. FrameRight(s, i)
  BY DEF Console, StacksRight, OldFrame
<1> QED BY <1>1 DEF FrameRight, OldFrame, Making

(* The same for all of a stack below the top, and of a stack that is not    *)
(* the current one.                                                         *)
LEMMA FramesBelow ==
  ASSUME Console, NEW s \in Slots, NEW i \in 1 .. Len(stack[s]),
         s # current \/ i < Len(stack[s])
  PROVE  /\ stack[s][i].pc \notin Making
         /\ i < Len(stack[s]) => stack[s][i].pc # "sched"
<1>1. FrameRight(s, i) /\ Len(stack[s]) \in Nat
  BY DEF Console, StacksRight, TypeOK
<1> QED BY <1>1 DEF FrameRight, Making

-----------------------------------------------------------------------------
(* Steps of one context: the current process stays the same, and what it    *)
(* does to the table leaves who is in use and who has a context alone.      *)

KernelRight == SystemSlots /\ ContextsRight /\ StacksRight

SlotsKept ==
  \A s \in Slots :
    /\ table'[s].in_use = table[s].in_use /\ table'[s].pid = table[s].pid
    /\ table'[s].esp = table[s].esp
    /\ table'[s].user = table[s].user /\ table'[s].bg = table[s].bg
    /\ table[s].state = "RUNNING" /\ s # current => table'[s].state = "RUNNING"
    /\ table'[s].state = "ZOMBIE" /\ s # current => table[s].state = "ZOMBIE"

LEMMA LocalStep ==
  ASSUME Console, current' = current, SlotsKept,
         current = 1 => table'[1].state = "RUNNING",
         \A s \in Slots \ {current} : stack'[s] = stack[s],
         stack'[current] # <<>>,
         Last(stack'[current]).pc = "sched"
           => /\ Last(stack'[current]).p # current
              /\ Runnable(table', Last(stack'[current]).p),
         \A i \in 1 .. Len(stack'[current]) : FrameRight(current, i)'
  PROVE  KernelRight'
<1>1. SystemSlots'
  BY TopRight, ConstFacts DEF Console, SystemSlots, SlotsKept
<1>2. ContextsRight'
  BY TopRight DEF Console, ContextsRight, CurrentIsLive, SlotsKept, Top
<1>3. ASSUME NEW s \in Slots, NEW i \in 1 .. Len(stack'[s])
      PROVE  FrameRight(s, i)'
  <2>1. CASE s = current
    BY <2>1, <1>3
  <2>2. CASE s # current
    <3>1. stack'[s] = stack[s] /\ i \in 1 .. Len(stack[s])
      BY <2>2, <1>3
    <3>2. stack[s][i].pc \notin Making
      BY <3>1, <2>2, FramesBelow
    <3>3. FrameRight(s, i)
      BY <3>1 DEF Console, StacksRight
    <3>4. OldFrame(s, i)
      BY <3>1, <3>2, <3>3, <2>2 DEF OldFrame, FrameRight, SlotsKept
    <3> QED BY <3>4, OldFrameRight
  <2> QED BY <2>1, <2>2
<1> QED BY <1>1, <1>2, <1>3 DEF KernelRight, StacksRight

(* The top changes: a call, a return, another phase. *)
StaysUser == table'[current].state # "ZOMBIE" \/ table[current].state = "ZOMBIE"

LEMMA PushRight ==
  ASSUME Console, current' = current, StaysUser, NEW f \in FrameType,
         stack' = Push(stack, current, f), Top.pc \notin Making \cup {"sched"},
         FrameRight(current, Len(stack[current]))'
  PROVE  /\ \A i \in 1 .. Len(stack'[current]) : FrameRight(current, i)'
         /\ \A s \in Slots \ {current} : stack'[s] = stack[s]
         /\ stack'[current] # <<>> /\ Last(stack'[current]) = f
<1> DEFINE n == Len(stack[current])
<1>1. /\ current \in Slots /\ stack \in Stacks /\ n \in Nat \ {0}
      /\ Top = stack[current][n]
  BY TopRight
<1>2. /\ \A s \in Slots \ {current} : stack'[s] = stack[s]
      /\ stack'[current] # <<>> /\ Last(stack'[current]) = f
      /\ Len(stack'[current]) = n + 1 /\ stack'[current][n + 1] = f
      /\ \A i \in 1 .. n : stack'[current][i] = stack[current][i]
  BY <1>1, PushFacts
<1>3. ASSUME NEW i \in 1 .. n PROVE FrameRight(current, i)'
  <2>1. stack[current][i].pc \notin Making \cup {"sched"}
    BY <1>1, FramesBelow DEF Making
  <2>2. FrameRight(current, i)
    BY <1>1 DEF Console, StacksRight
  <2>3. OldFrame(current, i)
    BY <1>2, <2>1, <2>2 DEF OldFrame, FrameRight, StaysUser
  <2> QED BY <1>1, <2>3, OldFrameRight
<1>4. \A i \in 1 .. n + 1 : i \in 1 .. n \/ i = n + 1
  BY <1>1
<1> QED BY <1>2, <1>3, <1>4

LEMMA PopRight ==
  ASSUME Console, current' = current, StaysUser,
         stack'[current] = Pop(stack, current)[current],
         Top.pc \notin {"idle", "user", "exit"}
  PROVE  /\ \A i \in 1 .. Len(stack'[current]) : FrameRight(current, i)'
         /\ stack'[current] # <<>>
         /\ Last(stack'[current]).pc \notin Making \cup {"sched"}
<1> DEFINE n == Len(stack[current])
<1>1. /\ current \in Slots /\ stack \in Stacks /\ n \in Nat \ {0}
      /\ Top = stack[current][n] /\ FrameRight(current, n) /\ stack[current] # <<>>
  BY TopRight
<1>2. /\ Len(stack'[current]) = n - 1 /\ stack'[current] \in Seq(FrameType)
      /\ \A i \in 1 .. n - 1 : stack'[current][i] = stack[current][i]
  BY <1>1, PopFacts DEF Stacks
<1>3. n > 1
  <2>1. n # 1
    BY <1>1 DEF FrameRight
  <2>2. n \in Nat /\ n # 0
    BY <1>1
  <2> HIDE DEF n
  <2> QED BY <2>1, <2>2
<1>4. ASSUME NEW i \in 1 .. n - 1
      PROVE  FrameRight(current, i)' /\ stack'[current][i].pc \notin Making \cup {"sched"}
  <2>1. i \in 1 .. n /\ i < n
    BY <1>1
  <2>2. stack[current][i].pc \notin Making \cup {"sched"}
    BY <1>1, <2>1, FramesBelow
  <2>3. FrameRight(current, i)
    BY <1>1, <2>1 DEF Console, StacksRight
  <2>4. OldFrame(current, i)
    BY <1>2, <2>1, <2>2, <2>3 DEF OldFrame, FrameRight, StaysUser
  <2> QED BY <1>1, <1>2, <2>2, <2>4, OldFrameRight
<1>5. /\ stack'[current] # <<>>
      /\ Last(stack'[current]) = stack'[current][n - 1] /\ n - 1 \in 1 .. n - 1
  BY <1>2, <1>3 DEF Last
<1> QED BY <1>2, <1>4, <1>5

LEMMA SetTopHere ==
  ASSUME Console, current' = current, StaysUser, NEW f \in FrameType,
         stack'[current] = SetTop(stack, current, f)[current],
         FrameRight(current, Len(stack[current]))'
  PROVE  /\ \A i \in 1 .. Len(stack'[current]) : FrameRight(current, i)'
         /\ stack'[current] # <<>> /\ Last(stack'[current]) = f
<1> DEFINE n == Len(stack[current])
<1>1. /\ current \in Slots /\ stack \in Stacks /\ n \in Nat \ {0}
      /\ Top = stack[current][n] /\ stack[current] # <<>>
  BY TopRight
<1>2. /\ stack'[current] # <<>> /\ Last(stack'[current]) = f
      /\ Len(stack'[current]) = n /\ stack'[current][n] = f
      /\ \A i \in 1 .. n - 1 : stack'[current][i] = stack[current][i]
  BY <1>1, SetTopFacts
<1>3. ASSUME NEW i \in 1 .. n - 1 PROVE FrameRight(current, i)'
  <2>1. i \in 1 .. n /\ i < n
    BY <1>1
  <2>2. stack[current][i].pc \notin Making \cup {"sched"}
    BY <1>1, <2>1, FramesBelow
  <2>3. FrameRight(current, i)
    BY <1>1, <2>1 DEF Console, StacksRight
  <2>4. OldFrame(current, i)
    BY <1>2, <2>1, <2>2, <2>3 DEF OldFrame, FrameRight, StaysUser
  <2> QED BY <1>1, <2>4, OldFrameRight
<1>4. \A i \in 1 .. n : i \in 1 .. n - 1 \/ i = n
  BY <1>1
<1> QED BY <1>2, <1>3, <1>4

LEMMA SetTopRight ==
  ASSUME Console, current' = current, StaysUser, NEW f \in FrameType,
         stack' = SetTop(stack, current, f),
         FrameRight(current, Len(stack[current]))'
  PROVE  /\ \A i \in 1 .. Len(stack'[current]) : FrameRight(current, i)'
         /\ \A s \in Slots \ {current} : stack'[s] = stack[s]
         /\ stack'[current] # <<>> /\ Last(stack'[current]) = f
<1>1. \A s \in Slots \ {current} : stack'[s] = stack[s]
  BY TopRight, SetTopFacts
<1> QED BY <1>1, SetTopHere

(* A waiting activation between its phases. *)
LEMMA PhaseRight ==
  ASSUME Console, current' = current, StaysUser, Top.pc \notin Making \cup {"sched"},
         NEW ph \in {"test", "hlt"}, NEW n, n = Len(stack[current]),
         stack'[current][n] = [Top EXCEPT !.ph = ph]
  PROVE  FrameRight(current, n)'
<1>1. Top \in FrameType /\ FrameRight(current, n) /\ Top = stack[current][n]
  BY TopRight
<1>2. LET f == [Top EXCEPT !.ph = ph]
      IN  f.pc = Top.pc /\ f.ph = ph /\ f.p = Top.p /\ f.pid = Top.pid /\ f.t = Top.t
  BY <1>1 DEF FrameType
<1> QED BY <1>1, <1>2 DEF FrameRight, Making, StaysUser

LEMMA YieldRight == ASSUME Console, Yield PROVE KernelRight'
<1>0. PICK n \in Nat \ {0} : n = Len(stack[current])
  BY TopRight
<1> DEFINE next == SchedPick(table)
           h    == [Top EXCEPT !.ph = "hlt"]
           halt == SetTop(stack, current, h)
           g    == [Frame("sched", "test") EXCEPT !.p = next]
<1>1. /\ current \in Slots \ {0} /\ stack \in Stacks /\ stack[current] # <<>>
      /\ Top = stack[current][n] /\ Top \in FrameType /\ FrameRight(current, n)
  BY <1>0, TopRight
<1>2. Top.pc \in {"idle", "getkey", "exit", "sleep", "waitpid", "run3", "wait"}
  BY <1>1 DEF Yield, Waits, FrameType
<1>3. h \in FrameType
  BY <1>1 DEF FrameType
<1>4. /\ halt \in Stacks /\ \A t \in Slots \ {current} : halt[t] = stack[t]
      /\ Len(halt[current]) = n /\ halt[current][n] = h
      /\ \A i \in 1 .. n - 1 : halt[current][i] = stack[current][i]
      /\ halt[current] # <<>> /\ Last(halt[current]) = h
  <2> HIDE DEF h
  <2> QED BY <1>0, <1>1, <1>3, SetTopFacts
<1>5. /\ current' = current /\ table' = table
      /\ stack' = IF next = current THEN halt ELSE Push(halt, current, g)
  <2>1. OnlyStackChanges /\ stack' = IF next = current THEN halt ELSE Push(halt, current, g)
    BY DEF Yield
  <2> QED BY <2>1 DEF OnlyStackChanges, cpuVars
<1>6. SlotsKept /\ StaysUser
  BY <1>5 DEF SlotsKept, StaysUser
<1>7. ASSUME stack'[current][n] = h,
             \A i \in 1 .. n - 1 : stack'[current][i] = stack[current][i],
             NEW i \in 1 .. n
      PROVE  FrameRight(current, i)'
  <2>1. CASE i = n
    BY <1>0, <1>2, <1>5, <1>6, <1>7, <2>1, PhaseRight DEF Making
  <2>2. CASE i < n
    <3>1. i \in 1 .. n - 1
      BY <1>0, <2>2
    <3>2. stack[current][i].pc \notin Making \cup {"sched"} /\ FrameRight(current, i)
      BY <1>0, <1>1, <2>2, FramesBelow DEF Console, StacksRight
    <3>3. OldFrame(current, i)
      BY <1>0, <1>7, <3>1, <3>2, <1>5 DEF OldFrame, FrameRight
    <3> QED BY <1>1, <1>5, <3>3, OldFrameRight
  <2> QED BY <1>0, <2>1, <2>2
<1>8. current = 1 => table'[1].state = "RUNNING"
  BY <1>5 DEF Console, SystemSlots
<1>9. CASE next = current
  <2>1. stack' = halt
    BY <1>5, <1>9
  <2>2. h.pc # "sched"
    BY <1>1, <1>2 DEF FrameType
  <2>3. \A i \in 1 .. Len(stack'[current]) : FrameRight(current, i)'
    BY <1>4, <1>7, <2>1
  <2> HIDE DEF halt, h
  <2> QED BY <1>4, <1>5, <1>6, <1>8, <2>1, <2>2, <2>3, LocalStep
<1>10. CASE next # current
  <2>1. /\ next \in Slots /\ Runnable(table, next)
    BY <1>10, PickRunnable DEF Console, TypeOK, Tables
  <2>2. g \in FrameType /\ g.pc = "sched" /\ g.p = next
    <3>1. Frame("sched", "test") \in FrameType /\ Frame("sched", "test").pc = "sched"
      BY FrameMade DEF Console, Frame
    <3> HIDE DEF next
    <3> QED BY <2>1, <3>1 DEF FrameType
  <2>3. stack' = Push(halt, current, g)
    BY <1>5, <1>10
  <2>4. /\ \A t \in Slots \ {current} : stack'[t] = stack[t]
        /\ Len(stack'[current]) = n + 1 /\ stack'[current][n + 1] = g
        /\ \A i \in 1 .. n : stack'[current][i] = halt[current][i]
        /\ stack'[current] # <<>> /\ Last(stack'[current]) = g
    <3> HIDE DEF halt, g
    <3>1. halt \in Stacks /\ current \in Slots /\ g \in FrameType
      BY <1>1, <1>4, <2>2
    <3>2. /\ \A t \in Slots \ {current} : stack'[t] = halt[t]
          /\ Len(stack'[current]) = Len(halt[current]) + 1
          /\ stack'[current][Len(halt[current]) + 1] = g
          /\ \A i \in 1 .. Len(halt[current]) : stack'[current][i] = halt[current][i]
          /\ stack'[current] # <<>> /\ Last(stack'[current]) = g
      BY <2>3, <3>1, PushFacts
    <3> QED BY <1>4, <3>2
  <2>5. \A i \in 1 .. n : FrameRight(current, i)'
    <3>1. n \in 1 .. n /\ \A i \in 1 .. n - 1 : i \in 1 .. n
      BY <1>0
    <3> HIDE DEF halt, g, h
    <3> QED BY <1>4, <1>7, <2>4, <3>1
  <2>6. FrameRight(current, n + 1)'
    <3>1. n + 1 # 1
      BY <1>0
    <3> HIDE DEF g
    <3> QED BY <1>5, <2>2, <2>4, <3>1 DEF FrameRight, Making
  <2>7. \A i \in 1 .. n + 1 : i \in 1 .. n \/ i = n + 1
    BY <1>0
  <2>8. \A i \in 1 .. Len(stack'[current]) : FrameRight(current, i)'
    <3> HIDE DEF g
    <3> QED BY <2>4, <2>5, <2>6, <2>7
  <2> HIDE DEF g, next
  <2> QED BY <1>5, <1>6, <1>8, <1>10, <2>1, <2>2, <2>4, <2>8, LocalStep
<1> QED BY <1>9, <1>10

(* A system call pushes an activation, its return pops it. *)
LEMMA InUserSlot == ASSUME Console, InUser PROVE current \in Slots \ {0, 1} /\ Top.pc = "user"
BY TopRight DEF InUser, FrameRight

LEMMA CallRight ==
  ASSUME Console, InUser, current' = current, SlotsKept, StaysUser, NEW f \in FrameType,
         f.pc \in {"sleep", "getkey", "waitpid"},
         f.pc = "sleep" /\ f.ph = "arm" => f.t \in SleepTicks,
         stack' = Push(stack, current, f)
  PROVE  KernelRight'
<1>1. current \in Slots \ {0, 1} /\ Top.pc = "user"
  BY InUserSlot
<1>2. Top.pc \notin Making \cup {"sched"}
  BY <1>1 DEF Making
<1>3. FrameRight(current, Len(stack[current]))'
  <2>1. stack \in Stacks /\ Len(stack[current]) \in Nat \ {0}
    BY TopRight
  <2>2. /\ Len(stack'[current]) = Len(stack[current]) + 1
        /\ stack'[current][Len(stack[current]) + 1] = f
    BY <1>1, <2>1, PushFacts
  <2>3. Len(stack'[current]) # 1 /\ stack'[current][Len(stack'[current])] = f
    BY <2>1, <2>2
  <2> QED BY <1>1, <2>3 DEF FrameRight, Making
<1>4. /\ \A i \in 1 .. Len(stack'[current]) : FrameRight(current, i)'
      /\ \A s \in Slots \ {current} : stack'[s] = stack[s]
      /\ stack'[current] # <<>> /\ Last(stack'[current]) = f
  BY <1>2, <1>3, PushRight
<1> QED BY <1>1, <1>4, LocalStep

LEMMA ReturnRight ==
  ASSUME Console, current' = current, SlotsKept, StaysUser,
         current = 1 => table'[1].state = "RUNNING",
         stack' = Pop(stack, current), Top.pc \notin {"idle", "user", "exit"}
  PROVE  KernelRight'
<1>1. /\ \A i \in 1 .. Len(stack'[current]) : FrameRight(current, i)'
      /\ stack'[current] # <<>>
      /\ Last(stack'[current]).pc \notin Making \cup {"sched"}
  BY PopRight
<1>2. \A s \in Slots \ {current} : stack'[s] = stack[s]
  BY TopRight, PopFacts
<1> QED BY <1>1, <1>2, LocalStep

LEMMA SystemCallRight ==
  ASSUME Console,
         \/ \E n \in SleepTicks : SysSleep(n)
         \/ SysGetkey
         \/ \E pid \in Pids : SysWaitpid(pid)
  PROVE  KernelRight'
<1>1. current \in Slots \ {0, 1} /\ TypeOK /\ InUser
  <2>1. InUser
    BY DEF SysSleep, SysGetkey, SysWaitpid
  <2> QED BY <2>1, InUserSlot DEF Console
<1>2. ASSUME NEW n \in SleepTicks, SysSleep(n) PROVE KernelRight'
  <2> DEFINE f == [Frame("sleep", "arm") EXCEPT !.t = n]
  <2>1. /\ table' = [table EXCEPT ![current].state = "SLEEPING"]
        /\ stack' = Push(stack, current, f) /\ current' = current
    BY <1>2 DEF SysSleep, cpuVars
  <2>2. f \in FrameType /\ f.pc = "sleep" /\ f.t = n
    <3>1. Frame("sleep", "arm") \in FrameType /\ Frame("sleep", "arm").pc = "sleep"
      BY <1>1, FrameMade DEF Frame
    <3>2. n \in Ticks
      BY ConstFacts
    <3> QED BY <3>1, <3>2 DEF FrameType
  <2>3. SlotsKept /\ StaysUser
    BY <1>1, <2>1 DEF SlotsKept, StaysUser, TypeOK, ProcType
  <2> HIDE DEF f
  <2> QED BY <1>1, <2>1, <2>2, <2>3, CallRight
<1>3. ASSUME SysGetkey PROVE KernelRight'
  <2> DEFINE f == Frame("getkey", "test")
  <2>1. table' = table /\ stack' = Push(stack, current, f) /\ current' = current
    BY <1>3 DEF SysGetkey, OnlyStackChanges, cpuVars
  <2>2. f \in FrameType /\ f.pc = "getkey"
    BY <1>1, FrameMade DEF Frame
  <2>3. SlotsKept /\ StaysUser
    BY <2>1 DEF SlotsKept, StaysUser
  <2> HIDE DEF f
  <2> QED BY <1>1, <2>1, <2>2, <2>3, CallRight
<1>4. ASSUME NEW pid \in Pids, SysWaitpid(pid) PROVE KernelRight'
  <2> DEFINE f == [Frame("waitpid", "test") EXCEPT !.pid = pid]
  <2>1. table' = table /\ stack' = Push(stack, current, f) /\ current' = current
    BY <1>4 DEF SysWaitpid, OnlyStackChanges, cpuVars
  <2>2. f \in FrameType /\ f.pc = "waitpid"
    <3>1. Frame("waitpid", "test") \in FrameType /\ Frame("waitpid", "test").pc = "waitpid"
      BY <1>1, FrameMade DEF Frame
    <3> QED BY <3>1 DEF FrameType
  <2>3. SlotsKept /\ StaysUser
    BY <2>1 DEF SlotsKept, StaysUser
  <2> HIDE DEF f
  <2> QED BY <1>1, <2>1, <2>2, <2>3, CallRight
<1> QED BY <1>2, <1>3, <1>4

LEMMA CallReturnRight == ASSUME Console, SleepReturn \/ GetkeyReturn PROVE KernelRight'
<1>1. /\ table' = table /\ stack' = Pop(stack, current) /\ current' = current
      /\ Top.pc \notin {"idle", "user", "exit"}
  BY DEF SleepReturn, GetkeyReturn, OnlyStackChanges, cpuVars, At
<1>2. SlotsKept /\ StaysUser
  BY <1>1 DEF SlotsKept, StaysUser
<1>3. current = 1 => table'[1].state = "RUNNING"
  BY <1>1 DEF Console, SystemSlots
<1> QED BY <1>1, <1>2, <1>3, ReturnRight

LEMMA SleepArmRight == ASSUME Console, SleepArm PROVE KernelRight'
<1>0. PICK n \in Nat \ {0} : n = Len(stack[current])
  BY TopRight
<1> DEFINE f == [Top EXCEPT !.ph = "test"]
<1>1. /\ Top \in FrameType /\ Top.pc = "sleep" /\ current \in Slots \ {0} /\ stack \in Stacks
      /\ FrameRight(current, n) /\ Top = stack[current][n] /\ stack[current] # <<>>
  BY <1>0, TopRight DEF SleepArm, At
<1>2. /\ table' = [table EXCEPT ![current].wake_tick = (pit_ticks + Top.t) % TickMod]
      /\ stack' = SetTop(stack, current, f) /\ current' = current
  BY DEF SleepArm, cpuVars
<1>3. f \in FrameType /\ f.pc = "sleep"
  BY <1>1 DEF FrameType
<1>4. SlotsKept /\ StaysUser /\ table'[current].state = table[current].state
  BY <1>1, <1>2 DEF SlotsKept, StaysUser, Console, TypeOK, ProcType
<1>5. current # 1
  BY <1>1 DEF FrameRight
<1>6. Len(stack'[current]) = n /\ stack'[current][n] = f
  <2> HIDE DEF f
  <2> QED BY <1>0, <1>1, <1>2, <1>3, SetTopFacts
<1>7. FrameRight(current, n)'
  BY <1>0, <1>1, <1>2, <1>4, <1>6, PhaseRight DEF Making
<1>8. FrameRight(current, Len(stack[current]))'
  BY <1>2, <1>6, <1>7
<1>9. /\ \A i \in 1 .. Len(stack'[current]) : FrameRight(current, i)'
      /\ \A s \in Slots \ {current} : stack'[s] = stack[s]
      /\ stack'[current] # <<>> /\ Last(stack'[current]) = f
  <2> HIDE DEF f
  <2> QED BY <1>2, <1>3, <1>4, <1>8, SetTopRight
<1> QED BY <1>2, <1>3, <1>4, <1>5, <1>9, LocalStep

(* user_process_exit: the activation of the program becomes the last one. *)
LEMMA ExitRight == ASSUME Console, NEW c \in Codes, SysExit(c) PROVE KernelRight'
<1>0. PICK n \in Nat \ {0} : n = Len(stack[current])
  BY TopRight
<1> DEFINE f == Frame("exit", "free")
<1>1. /\ current \in Slots \ {0, 1} /\ Top.pc = "user" /\ stack \in Stacks
      /\ FrameRight(current, n) /\ Top = stack[current][n] /\ stack[current] # <<>>
  BY <1>0, TopRight, InUserSlot DEF SysExit
<1>2. /\ table' = [table EXCEPT ![current] = [user_free_memory(@) EXCEPT !.exit_code = c]]
      /\ stack' = SetTop(stack, current, f) /\ current' = current
  BY DEF SysExit
<1>3. f \in FrameType /\ f.pc = "exit"
  BY FrameMade DEF Frame, Console
<1>4. SlotsKept /\ StaysUser
  BY <1>1, <1>2 DEF SlotsKept, StaysUser, Console, TypeOK, ProcType, user_free_memory
<1>5. n = 1
  BY <1>1 DEF FrameRight
<1>6. Len(stack'[current]) = n /\ stack'[current][n] = f
  <2> HIDE DEF f
  <2> QED BY <1>0, <1>1, <1>2, <1>3, SetTopFacts
<1>7. FrameRight(current, Len(stack[current]))'
  <2> HIDE DEF f
  <2> QED BY <1>1, <1>2, <1>3, <1>5, <1>6 DEF FrameRight, Making
<1>8. /\ \A i \in 1 .. Len(stack'[current]) : FrameRight(current, i)'
      /\ \A s \in Slots \ {current} : stack'[s] = stack[s]
      /\ stack'[current] # <<>> /\ Last(stack'[current]) = f
  <2> HIDE DEF f
  <2> QED BY <1>2, <1>3, <1>4, <1>7, SetTopRight
<1> HIDE DEF f
<1> QED BY <1>1, <1>2, <1>3, <1>4, <1>8, LocalStep

LEMMA ZombieRight == ASSUME Console, ExitZombie PROVE KernelRight'
<1>0. PICK n \in Nat \ {0} : n = Len(stack[current])
  BY TopRight
<1> DEFINE f == [Top EXCEPT !.ph = "test"]
<1>1. /\ current \in Slots \ {0} /\ Top.pc = "exit" /\ stack \in Stacks /\ Top \in FrameType
      /\ FrameRight(current, n) /\ Top = stack[current][n] /\ stack[current] # <<>>
  BY <1>0, TopRight DEF ExitZombie, At
<1>2. /\ table' = [table EXCEPT ![current].state = "ZOMBIE"]
      /\ stack' = SetTop(stack, current, f) /\ current' = current
  BY DEF ExitZombie
<1>3. f \in FrameType /\ f.pc = "exit"
  BY <1>1 DEF FrameType
<1>4. SlotsKept
  BY <1>1, <1>2 DEF SlotsKept, Console, TypeOK, ProcType
<1>5. n = 1 /\ current # 1
  BY <1>1 DEF FrameRight
<1>6. /\ Len(stack'[current]) = n /\ stack'[current][n] = f
      /\ \A s \in Slots \ {current} : stack'[s] = stack[s]
      /\ stack'[current] # <<>> /\ Last(stack'[current]) = f
  <2> HIDE DEF f
  <2> QED BY <1>0, <1>1, <1>2, <1>3, SetTopFacts
<1>7. \A i \in 1 .. Len(stack'[current]) : FrameRight(current, i)'
  <2>1. \A i \in 1 .. 1 : i = 1
    OBVIOUS
  <2> HIDE DEF f
  <2> QED BY <1>1, <1>2, <1>3, <1>5, <1>6, <2>1 DEF FrameRight, Making
<1> HIDE DEF f
<1> QED BY <1>2, <1>3, <1>4, <1>5, <1>6, <1>7, LocalStep

LEMMA ExecveRight == ASSUME Console, SysExecve PROVE KernelRight'
<1>1. /\ current \in Slots \ {0, 1} /\ Top.pc = "user"
  BY InUserSlot DEF SysExecve
<1>2. PICK new : table' = [table EXCEPT ![current].frames = new]
  BY DEF SysExecve
<1>3. stack' = stack /\ current' = current
  BY DEF SysExecve, cpuVars
<1>4. SlotsKept /\ table'[current].state = table[current].state
  BY <1>1, <1>2 DEF SlotsKept, Console, TypeOK, ProcType
<1>5. ASSUME NEW i \in 1 .. Len(stack'[current]) PROVE FrameRight(current, i)'
  <2>1. FrameRight(current, i) /\ i \in 1 .. Len(stack[current])
    BY <1>1, <1>3 DEF Console, StacksRight
  <2>2. stack[current][i].pc \notin Making
    <3>1. CASE i = Len(stack[current])
      BY <1>1, <3>1, TopRight DEF Making
    <3>2. CASE i < Len(stack[current])
      BY <1>1, <2>1, <3>2, FramesBelow
    <3> QED BY <2>1, <3>1, <3>2, TopRight
  <2>3. OldFrame(current, i)
    BY <1>3, <1>4, <2>1, <2>2 DEF OldFrame, FrameRight
  <2> QED BY <1>1, <1>3, <2>3, OldFrameRight
<1>6. stack'[current] # <<>> /\ Last(stack'[current]).pc # "sched"
  BY <1>1, <1>3, TopRight DEF Top
<1> QED BY <1>1, <1>3, <1>4, <1>5, <1>6, LocalStep

(* At the prompt the shell runs, and no command names a system process. *)
LEMMA AtPrompt ==
  ASSUME Console, At("idle", "test")
  PROVE  current = 1 /\ Top.pc = "idle" /\ Top.pc \notin Making \cup {"sched"}
BY TopRight DEF At, FrameRight, Making

LEMMA SystemPid ==
  ASSUME Console, NEW pid, Exists(table, pid)
  PROVE  /\ process_get(table, pid) = 0 <=> pid = 0
         /\ process_get(table, pid) = 1 <=> pid = 1
         /\ process_get(table, pid) \in Slots
         /\ table[process_get(table, pid)].in_use
         /\ table[process_get(table, pid)].pid = pid
BY SlotOfPid DEF Console, SystemSlots

LEMMA CmdWaitRight == ASSUME Console, NEW arg \in Pids, CmdWait(arg) PROVE KernelRight'
<1> DEFINE pid == WaitTarget(arg)
           f == WaitFrame(pid, pit_ticks, ~intr)
<1>1. current = 1 /\ Top.pc = "idle" /\ Top.pc \notin Making \cup {"sched"}
  BY AtPrompt DEF CmdWait
<1>2. pid # 0 /\ Exists(table, pid) /\ table[process_get(table, pid)].bg
  BY DEF CmdWait, Waitable
<1>3. pid \notin {0, 1}
  BY <1>2, SystemPid DEF Console, SystemSlots
<1>4. /\ table' = table /\ current' = current /\ stack' = Push(stack, current, f)
  BY DEF CmdWait, OnlyStackChanges, cpuVars
<1>5. f \in FrameType
  BY WaitFrameType DEF CmdWait, Console, TypeOK
<1>6. f.pc = "wait" /\ f.pid = pid
  BY DEF WaitFrame, Frame
<1>7. SlotsKept /\ StaysUser
  BY <1>4 DEF SlotsKept, StaysUser
<1>8. FrameRight(current, Len(stack[current]))'
  <2>1. stack \in Stacks /\ Len(stack[current]) \in Nat \ {0} /\ current \in Slots
    BY TopRight
  <2>2. /\ Len(stack'[current]) = Len(stack[current]) + 1
        /\ stack'[current][Len(stack[current]) + 1] = f
    <3> HIDE DEF f
    <3> QED BY <1>4, <1>5, <2>1, PushFacts
  <2>3. Len(stack'[current]) # 1 /\ stack'[current][Len(stack'[current])] = f
    BY <2>1, <2>2
  <2> HIDE DEF f, pid
  <2> QED BY <1>1, <1>3, <1>4, <1>6, <2>3 DEF FrameRight, Making
<1>9. /\ \A i \in 1 .. Len(stack'[current]) : FrameRight(current, i)'
      /\ \A s \in Slots \ {current} : stack'[s] = stack[s]
      /\ stack'[current] # <<>> /\ Last(stack'[current]) = f
  <2> HIDE DEF f
  <2> QED BY <1>1, <1>4, <1>5, <1>7, <1>8, PushRight
<1>10. table'[1].state = "RUNNING"
  BY <1>4 DEF Console, SystemSlots
<1> HIDE DEF f
<1> QED BY <1>4, <1>6, <1>7, <1>9, <1>10, LocalStep

-----------------------------------------------------------------------------
(* process_free, of a program that is not the current process. *)

LEMMA FreedRow ==
  ASSUME TypeOK, NEW s \in Slots, NEW stk, FreeSlot(s, stk)
  PROVE  /\ \A t \in Slots \ {s} : table'[t] = table[t]
         /\ ~table'[s].in_use /\ ~table'[s].esp /\ table'[s].state = "DEAD"
         /\ Owned(s)' = {}
<1>1. /\ table[s] \in ProcType /\ table' = [table EXCEPT ![s] = process_free(table[s])]
      /\ table \in [Slots -> ProcType]
  BY DEF TypeOK, FreeSlot
<1>2. table'[s] = process_free(table[s]) /\ \A t \in Slots \ {s} : table'[t] = table[t]
  BY <1>1
<1>3. LET r == process_free(table[s])
      IN  ~r.in_use /\ ~r.esp /\ r.state = "DEAD" /\ r.kstack = {} /\ r.frames = {} /\ r.pd = {}
  BY <1>1 DEF process_free, user_free_memory, ProcType
<1> QED BY <1>2, <1>3 DEF Owned

LEMMA FreeRight ==
  ASSUME Console, NEW s \in Slots \ {0, 1, current},
         \/ /\ FreeSlot(s, Pop(stack, current))
            /\ Top.pc \notin {"idle", "user", "exit"}
         \/ /\ FreeSlot(s, stack)
            /\ Top.pc \notin Making \cup {"sched"}
  PROVE  KernelRight'
<1> DEFINE n == Len(stack[current])
<1>1. /\ current \in Slots \ {0} /\ stack \in Stacks /\ stack[current] # <<>>
      /\ n \in Nat \ {0} /\ table[current].in_use
      /\ FrameRight(current, n) /\ Top = stack[current][n]
  BY TopRight
<1>2. PICK stk \in {stack, Pop(stack, current)} :
        /\ FreeSlot(s, stk)
        /\ \/ stk = Pop(stack, current) /\ Top.pc \notin {"idle", "user", "exit"}
           \/ stk = stack /\ Top.pc \notin Making \cup {"sched"}
  OBVIOUS
<1>3. /\ current' = current /\ stack' = [stk EXCEPT ![s] = <<>>]
  BY <1>2 DEF FreeSlot, CurrentWithout, StackWithout
<1>4. /\ \A t \in Slots \ {s} : table'[t] = table[t]
      /\ ~table'[s].in_use /\ ~table'[s].esp
  BY <1>2, FreedRow DEF Console
<1>5. stk \in Stacks /\ \A t \in Slots \ {current} : stk[t] = stack[t]
  BY <1>1, <1>2, PopFacts
<1>6. /\ stack'[s] = <<>> /\ stack'[current] = stk[current]
      /\ \A t \in Slots \ {s, current} : stack'[t] = stack[t]
  BY <1>1, <1>3, <1>5 DEF Stacks
<1>7. /\ \A i \in 1 .. Len(stack'[current]) : FrameRight(current, i)'
      /\ stack'[current] # <<>>
      /\ Last(stack'[current]).pc \notin Making \cup {"sched"}
  <2>1. StaysUser
    BY <1>1, <1>4 DEF StaysUser
  <2>2. CASE stk = Pop(stack, current) /\ Top.pc \notin {"idle", "user", "exit"}
    BY <1>3, <1>6, <2>1, <2>2, PopRight
  <2>3. CASE stk = stack /\ Top.pc \notin Making \cup {"sched"}
    <3>1. stack'[current] = stack[current]
      BY <1>6, <2>3
    <3>2. ASSUME NEW i \in 1 .. n PROVE FrameRight(current, i)'
      <4>1. stack[current][i].pc \notin Making \cup {"sched"} /\ FrameRight(current, i)
        <5>1. CASE i = n
          BY <1>1, <2>3, <5>1
        <5>2. CASE i < n
          BY <1>1, <5>2, FramesBelow DEF Console, StacksRight
        <5> QED BY <1>1, <5>1, <5>2
      <4>2. OldFrame(current, i)
        BY <1>1, <1>4, <3>1, <4>1 DEF OldFrame, FrameRight
      <4> QED BY <1>1, <1>3, <4>2, OldFrameRight
    <3> QED BY <1>1, <2>3, <3>1, <3>2 DEF Top
  <2> QED BY <1>2, <2>2, <2>3
<1>8. SystemSlots'
  BY <1>1, <1>4, <1>6, ConstFacts DEF Console, SystemSlots
<1>9. ContextsRight'
  <2>1. \A t \in Slots : /\ table'[t].esp => stack'[t] # <<>>
                         /\ stack'[t] # <<>> => table'[t].in_use
    BY <1>1, <1>4, <1>6, <1>7 DEF Console, ContextsRight
  <2>2. CurrentIsLive' /\ Top'.pc # "sched"
    BY <1>1, <1>3, <1>4, <1>7 DEF CurrentIsLive, Top
  <2> QED BY <2>1, <2>2 DEF ContextsRight
<1>10. ASSUME NEW t \in Slots, NEW i \in 1 .. Len(stack'[t]) PROVE FrameRight(t, i)'
  <2>1. CASE t = current
    BY <1>3, <1>7, <1>10, <2>1
  <2>2. CASE t = s
    <3>1. Len(stack'[t]) = 0
      BY <1>6, <2>2
    <3> QED BY <1>10, <3>1
  <2>3. CASE t \notin {s, current}
    <3>1. stack'[t] = stack[t] /\ i \in 1 .. Len(stack[t]) /\ table'[t] = table[t]
      BY <1>4, <1>6, <1>10, <2>3
    <3>2. stack[t][i].pc \notin Making /\ FrameRight(t, i)
      BY <2>3, <3>1, FramesBelow DEF Console, StacksRight
    <3>3. OldFrame(t, i)
      BY <3>1, <3>2 DEF OldFrame, FrameRight
    <3> QED BY <3>3, OldFrameRight
  <2> QED BY <2>1, <2>2, <2>3
<1> QED BY <1>8, <1>9, <1>10 DEF KernelRight, StacksRight

(* An activation that returns, with or without freeing the process pid. *)
LEMMA JustReturnRight ==
  ASSUME Console, JustReturn, Top.pc \notin {"idle", "user", "exit"}
  PROVE  KernelRight'
<1>1. table' = table /\ stack' = Pop(stack, current) /\ current' = current
  BY DEF JustReturn
<1>2. SlotsKept /\ StaysUser
  BY <1>1 DEF SlotsKept, StaysUser
<1>3. current = 1 => table'[1].state = "RUNNING"
  BY <1>1 DEF Console, SystemSlots
<1> QED BY <1>1, <1>2, <1>3, ReturnRight

(* What is freed by pid is neither a system process nor the current one.    *)
LEMMA Freed ==
  ASSUME Console, Exists(table, Top.pid),
         Top.pc \in {"run3", "wait", "legacy", "build"}
  PROVE  /\ process_get(table, Top.pid) \in Slots \ {0, 1, current}
         /\ Top.pc = "build" => process_get(table, Top.pid) = Top.p
<1>1. /\ current \in Slots \ {0} /\ Top \in FrameType /\ table[current].in_use
      /\ FrameRight(current, Len(stack[current])) /\ Top = stack[current][Len(stack[current])]
  BY TopRight
<1>2. Top.pid \notin {0, 1}
  BY <1>1 DEF FrameRight, Making
<1>3. /\ process_get(table, Top.pid) \in Slots \ {0, 1}
      /\ table[process_get(table, Top.pid)].in_use
      /\ table[process_get(table, Top.pid)].pid = Top.pid
  BY <1>2, SystemPid
<1>4. CASE Top.pc \in {"run3", "wait", "legacy"}
  BY <1>1, <1>3, <1>4 DEF FrameRight
<1>5. CASE Top.pc = "build"
  <2>1. /\ Top.p \in Slots /\ Top.p # current
        /\ table[Top.p].in_use /\ table[Top.p].pid = Top.pid
    BY <1>1, <1>5 DEF FrameRight, FillsIn, FrameType
  <2>2. process_get(table, Top.pid) = Top.p
    BY <1>3, <2>1 DEF Console, PidsUnique
  <2> QED BY <1>3, <2>1, <2>2
<1> QED BY <1>4, <1>5

LEMMA ReturnFreeingRight ==
  ASSUME Console, ReturnFreeing(Top.pid), Top.pc \in {"run3", "wait", "legacy", "build"}
  PROVE  KernelRight'
<1>1. CASE Exists(table, Top.pid)
  <2>1. FreeSlot(process_get(table, Top.pid), Pop(stack, current))
    BY <1>1 DEF ReturnFreeing
  <2> QED BY <1>1, <2>1, Freed, FreeRight
<1>2. CASE ~Exists(table, Top.pid)
  BY <1>2, JustReturnRight DEF ReturnFreeing
<1> QED BY <1>1, <1>2

LEMMA EndRight ==
  ASSUME Console,
         \/ WaitpidReturn \/ SpawnFail \/ Run3Return \/ WaitReturn \/ LegacyReturn
         \/ \E pid \in Pids : CmdKill(pid)
  PROVE  KernelRight'
<1>1. ASSUME WaitpidReturn PROVE KernelRight'
  <2>1. Top.pc = "waitpid"
    BY <1>1 DEF WaitpidReturn, At
  <2>2. CASE Zombies(Top.pid) # {}
    <3> DEFINE z == Min(Zombies(Top.pid))
    <3>1. Zombies(Top.pid) \in SUBSET Nat
      BY ConstFacts DEF Zombies, Slots
    <3>2. z \in Zombies(Top.pid)
      BY <2>2, <3>1, MinIn
    <3>3. z \in Slots \ {0, 1, current}
      BY <3>2 DEF Zombies, Console, SystemSlots
    <3>4. FreeSlot(z, Pop(stack, current))
      BY <1>1, <2>2 DEF WaitpidReturn
    <3>5. Top.pc \notin {"idle", "user", "exit"}
      BY <2>1
    <3> HIDE DEF z
    <3> QED BY <3>3, <3>4, <3>5, FreeRight
  <2>3. CASE Zombies(Top.pid) = {}
    BY <1>1, <2>1, <2>3, JustReturnRight DEF WaitpidReturn
  <2> QED BY <2>2, <2>3
<1>2. ASSUME SpawnFail PROVE KernelRight'
  BY <1>2, ReturnFreeingRight DEF SpawnFail
<1>3. ASSUME Run3Return PROVE KernelRight'
  BY <1>3, ReturnFreeingRight DEF Run3Return, At
<1>4. ASSUME WaitReturn PROVE KernelRight'
  <2>1. Top.pc = "wait" /\ (ReturnFreeing(Top.pid) \/ JustReturn)
    BY <1>4 DEF WaitReturn, At
  <2> QED BY <2>1, ReturnFreeingRight, JustReturnRight
<1>5. ASSUME LegacyReturn PROVE KernelRight'
  BY <1>5, ReturnFreeingRight DEF LegacyReturn, At
<1>6. ASSUME NEW pid \in Pids, CmdKill(pid) PROVE KernelRight'
  <2>1. Top.pc \notin Making \cup {"sched"}
    BY <1>6, AtPrompt DEF CmdKill
  <2>2. process_get(table, pid) \in Slots \ {0, 1, current}
    BY <1>6, SystemPid DEF CmdKill, Killable
  <2>3. FreeSlot(process_get(table, pid), stack)
    BY <1>6 DEF CmdKill
  <2> QED BY <2>1, <2>2, <2>3, FreeRight
<1> QED BY <1>1, <1>2, <1>3, <1>4, <1>5, <1>6

-----------------------------------------------------------------------------
(* Creation: a free slot is taken, filled in and given a context. *)

LEMMA AllocRight ==
  ASSUME Console, NEW s \in Slots, ~table[s].in_use, NEW row \in ProcType,
         row.in_use, row.pid \notin {0, 1}, ~row.esp, row.state = "RUNNING",
         table' = [table EXCEPT ![s] = row], current' = current,
         NEW f \in FrameType, stack' = Push(stack, current, f), f.pc # "sched",
         Top.pc \notin Making \cup {"sched"},
         FrameRight(current, Len(stack[current]))'
  PROVE  KernelRight'
<1>1. current \in Slots \ {0} /\ stack \in Stacks /\ stack[current] # <<>> /\ table[current].in_use
  BY TopRight
<1>2. s \notin {0, 1, current} /\ stack[s] = <<>>
  BY <1>1 DEF Console, SystemSlots, ContextsRight
<1>3. table'[s] = row /\ \A t \in Slots \ {s} : table'[t] = table[t]
  BY DEF Console, TypeOK
<1>4. StaysUser
  BY <1>1, <1>2, <1>3 DEF StaysUser
<1>5. /\ \A i \in 1 .. Len(stack'[current]) : FrameRight(current, i)'
      /\ \A t \in Slots \ {current} : stack'[t] = stack[t]
      /\ stack'[current] # <<>> /\ Last(stack'[current]) = f
  BY <1>4, PushRight
<1>6. SystemSlots'
  BY <1>1, <1>2, <1>3, <1>5, ConstFacts DEF Console, SystemSlots
<1>7. ContextsRight'
  BY <1>1, <1>2, <1>3, <1>5 DEF Console, ContextsRight, CurrentIsLive, Top
<1>8. ASSUME NEW t \in Slots, NEW i \in 1 .. Len(stack'[t]) PROVE FrameRight(t, i)'
  <2>1. CASE t = current
    BY <1>5, <1>8, <2>1
  <2>2. CASE t # current
    <3>1. stack'[t] = stack[t] /\ i \in 1 .. Len(stack[t])
      BY <1>5, <1>8, <2>2
    <3>2. t # s
      <4>1. Len(<<>>) = 0
        OBVIOUS
      <4> QED BY <1>2, <3>1, <4>1
    <3>3. stack[t][i].pc \notin Making /\ FrameRight(t, i)
      BY <2>2, <3>1, FramesBelow DEF Console, StacksRight
    <3>4. OldFrame(t, i)
      BY <1>3, <3>1, <3>2, <3>3 DEF OldFrame, FrameRight
    <3> QED BY <3>4, OldFrameRight
  <2> QED BY <2>1, <2>2
<1> QED BY <1>6, <1>7, <1>8 DEF KernelRight, StacksRight

(* What process_alloc puts into the slot. *)
LEMMA AllocRow ==
  ASSUME Console, CanAlloc
  PROVE  /\ process_alloc \in ProcType /\ process_alloc.in_use
         /\ process_alloc.pid = next_pid /\ next_pid \in Pids \ {0, 1}
         /\ ~process_alloc.esp /\ process_alloc.state = "RUNNING"
         /\ process_alloc.kstack = {} /\ process_alloc.frames = {} /\ process_alloc.pd = {}
         /\ process_alloc.ppid = IF current_user_pid # 0 THEN current_user_pid
                                                         ELSE table[current].pid
         /\ Min(FreeSlots) \in Slots /\ ~table[Min(FreeSlots)].in_use
<1>1. next_pid > 1 /\ next_pid \in Pids
  BY AllocType, ConstFacts DEF Console, PidsUnique, SystemSlots, TypeOK
<1> QED BY <1>1, AllocType, FirstFreeSlot DEF Console, process_alloc, EmptySlot

LEMMA SpawnRight ==
  ASSUME Console, UserPidRight, NEW kind \in {"fork", "run3fg", "run3bg"},
         NEW masked \in BOOLEAN, SpawnAlloc(kind, stack, masked), current' = current,
         \/ InUser /\ kind = "fork"
         \/ At("idle", "test")
  PROVE  KernelRight'
<1>s. PICK s : s = Min(FreeSlots)
  OBVIOUS
<1>f. PICK f : f = [Frame("build", kind) EXCEPT !.p = s, !.pid = next_pid, !.masked = masked]
  OBVIOUS
<1>1. /\ process_alloc \in ProcType /\ process_alloc.in_use
      /\ process_alloc.pid = next_pid /\ next_pid \in Pids \ {0, 1}
      /\ ~process_alloc.esp /\ process_alloc.state = "RUNNING"
      /\ process_alloc.kstack = {} /\ process_alloc.frames = {} /\ process_alloc.pd = {}
      /\ process_alloc.ppid = IF current_user_pid # 0 THEN current_user_pid
                                                      ELSE table[current].pid
      /\ s \in Slots /\ ~table[s].in_use
  BY <1>s, AllocRow DEF SpawnAlloc
<1>2. table' = [table EXCEPT ![s] = process_alloc] /\ stack' = Push(stack, current, f)
  BY <1>s, <1>f DEF SpawnAlloc
<1>3. /\ f \in FrameType /\ f.pc = "build" /\ f.ph = kind /\ f.p = s /\ f.pid = next_pid
  <2>1. Frame("build", kind) \in FrameType /\ Frame("build", kind).pc = "build"
        /\ Frame("build", kind).ph = kind
    BY FrameMade DEF Console, Frame
  <2> QED BY <1>1, <1>f, <2>1 DEF FrameType
<1>4. Top.pc \notin Making \cup {"sched"}
  BY AtPrompt, InUserSlot DEF Making
<1>5. kind # "fork" => process_alloc.ppid = 1 /\ current = 1
  BY <1>1, AtPrompt DEF UserPidRight, Console, SystemSlots
<1>6. FrameRight(current, Len(stack[current]))'
  <2>1. stack \in Stacks /\ Len(stack[current]) \in Nat \ {0} /\ current \in Slots \ {0}
        /\ table[current].in_use
    BY TopRight
  <2>2. /\ Len(stack'[current]) = Len(stack[current]) + 1
        /\ stack'[current][Len(stack[current]) + 1] = f
        /\ \A t \in Slots \ {current} : stack'[t] = stack[t]
    BY <1>2, <1>3, <2>1, PushFacts
  <2>3. Len(stack'[current]) # 1 /\ stack'[current][Len(stack'[current])] = f
    BY <2>1, <2>2
  <2>4. s \notin {0, 1, current} /\ stack'[s] = <<>>
    BY <1>1, <2>1, <2>2 DEF Console, SystemSlots, ContextsRight
  <2>5. table'[s] = process_alloc
    BY <1>1, <1>2 DEF Console, TypeOK
  <2>6. FillsIn(current, f)'
    BY <1>1, <1>3, <1>5, <2>4, <2>5 DEF FillsIn, Owned
  <2> QED BY <1>1, <1>3, <2>3, <2>6 DEF FrameRight, Making
<1> QED BY <1>1, <1>2, <1>3, <1>4, <1>6, AllocRight

LEMMA CreateRight ==
  ASSUME Console, UserPidRight,
         SysFork \/ \E kind \in {"run3fg", "run3bg"} : CmdRun3(kind)
  PROVE  KernelRight'
<1>1. (~intr) \in BOOLEAN
  OBVIOUS
<1>2. ASSUME SysFork PROVE KernelRight'
  BY <1>1, <1>2, SpawnRight DEF SysFork, cpuVars
<1>3. ASSUME NEW kind \in {"run3fg", "run3bg"}, CmdRun3(kind) PROVE KernelRight'
  BY <1>1, <1>3, SpawnRight DEF CmdRun3, cpuVars
<1> QED BY <1>2, <1>3

LEMMA CmdRunRight == ASSUME Console, NEW bg \in BOOLEAN, CmdRun(bg) PROVE KernelRight'
<1> DEFINE s == Min(FreeSlots)
           row == [process_alloc EXCEPT !.bg = bg]
           f == [Frame("legacy", "test") EXCEPT !.pid = next_pid]
<1>1. /\ process_alloc \in ProcType /\ process_alloc.in_use
      /\ process_alloc.pid = next_pid /\ next_pid \in Pids \ {0, 1}
      /\ ~process_alloc.esp /\ process_alloc.state = "RUNNING"
      /\ s \in Slots /\ ~table[s].in_use
  BY AllocRow DEF CmdRun
<1>2. /\ table' = [table EXCEPT ![s] = row] /\ stack' = Push(stack, current, f)
      /\ current' = current
  BY DEF CmdRun, cpuVars
<1>3. /\ f \in FrameType /\ f.pc = "legacy" /\ f.pid = next_pid
  <2>1. Frame("legacy", "test") \in FrameType /\ Frame("legacy", "test").pc = "legacy"
    BY FrameMade DEF Console, Frame
  <2> QED BY <1>1, <2>1 DEF FrameType
<1>4. /\ row \in ProcType /\ row.in_use /\ row.pid = next_pid /\ ~row.esp
      /\ row.state = "RUNNING"
  BY <1>1 DEF ProcType
<1>5. current = 1 /\ Top.pc \notin Making \cup {"sched"}
  BY AtPrompt DEF CmdRun
<1>6. FrameRight(current, Len(stack[current]))'
  <2>1. stack \in Stacks /\ Len(stack[current]) \in Nat \ {0} /\ current \in Slots
    BY TopRight
  <2>2. /\ Len(stack'[current]) = Len(stack[current]) + 1
        /\ stack'[current][Len(stack[current]) + 1] = f
    <3> HIDE DEF f
    <3> QED BY <1>2, <1>3, <2>1, PushFacts
  <2>3. Len(stack'[current]) # 1 /\ stack'[current][Len(stack'[current])] = f
    BY <2>1, <2>2
  <2> HIDE DEF f
  <2> QED BY <1>1, <1>2, <1>3, <1>5, <2>3 DEF FrameRight, Making
<1> HIDE DEF f, s, row
<1> QED BY <1>1, <1>2, <1>3, <1>4, <1>5, <1>6, AllocRight

LEMMA BuildRight == ASSUME Console, SpawnBuild PROVE KernelRight'
<1>0. PICK n \in Nat \ {0} : n = Len(stack[current])
  BY TopRight
<1>p. PICK p : p = Top.p
  OBVIOUS
<1>f. PICK f : f = [Top EXCEPT !.pc = "publish"]
  OBVIOUS
<1>1. /\ current \in Slots \ {0} /\ stack \in Stacks /\ stack[current] # <<>>
      /\ FrameRight(current, n) /\ Top = stack[current][n] /\ Top \in FrameType
      /\ Top.pc = "build"
  BY <1>0, TopRight DEF SpawnBuild
<1>2. FillsIn(current, Top) /\ n # 1 /\ Top.pid \notin {0, 1}
  BY <1>1 DEF FrameRight, Making
<1>3. /\ stack' = SetTop(stack, current, f) /\ current' = current
  BY <1>f DEF SpawnBuild, cpuVars
<1>4. \E k, w, d : table' = [table EXCEPT ![p].kstack = k, ![p].frames = w, ![p].pd = d]
  BY <1>p, BuildPages DEF Console
<1>5. /\ f \in FrameType /\ f.pc = "publish" /\ f.p = p /\ f.pid = Top.pid /\ f.ph = Top.ph
      /\ p \in Slots
  BY <1>1, <1>p, <1>f DEF FrameType
<1>6. SlotsKept /\ StaysUser /\ \A s \in Slots : table'[s].state = table[s].state
  BY <1>1, <1>4, <1>5 DEF SlotsKept, StaysUser, Console, TypeOK, ProcType
<1>7. /\ Len(stack'[current]) = n /\ stack'[current][n] = f
      /\ \A s \in Slots \ {current} : stack'[s] = stack[s]
  BY <1>0, <1>1, <1>3, <1>5, SetTopFacts
<1>8. FillsIn(current, f)'
  BY <1>1, <1>2, <1>p, <1>3, <1>5, <1>6, <1>7 DEF FillsIn, SlotsKept
<1>9. FrameRight(current, Len(stack[current]))'
  BY <1>2, <1>3, <1>5, <1>7, <1>8 DEF FrameRight, Making
<1>10. /\ \A i \in 1 .. Len(stack'[current]) : FrameRight(current, i)'
       /\ stack'[current] # <<>> /\ Last(stack'[current]) = f
  BY <1>3, <1>5, <1>6, <1>9, SetTopRight
<1>11. table'[1].state = "RUNNING"
  BY <1>6, ConstFacts DEF Console, SystemSlots
<1> QED BY <1>3, <1>5, <1>6, <1>7, <1>10, <1>11, LocalStep

LEMMA PublishRight == ASSUME Console, SpawnPublish PROVE KernelRight'
<1>0. PICK n \in Nat \ {0} : n = Len(stack[current])
  BY TopRight
<1>p. PICK p : p = Top.p
  OBVIOUS
<1>g. PICK g : g = [Frame("user", "test") EXCEPT !.masked = FALSE]
  OBVIOUS
<1>r. PICK r : r = [Top EXCEPT !.pc = "run3", !.ph = "test", !.p = process_get(table, Top.pid)]
  OBVIOUS
<1>a. PICK after :
        /\ stack' = [after EXCEPT ![p] = <<g>>]
        /\ after = IF Top.ph = "run3fg" /\ Exists(table, Top.pid)
                     THEN SetTop(stack, current, r) ELSE Pop(stack, current)
  BY <1>p, <1>g, <1>r DEF SpawnPublish
<1>1. /\ current \in Slots \ {0} /\ stack \in Stacks /\ stack[current] # <<>>
      /\ FrameRight(current, n) /\ Top = stack[current][n] /\ Top \in FrameType
      /\ Top.pc = "publish" /\ table[current].in_use
  BY <1>0, TopRight DEF SpawnPublish
<1>2. FillsIn(current, Top) /\ n # 1 /\ Top.pid \notin {0, 1}
  BY <1>1 DEF FrameRight, Making
<1>3. /\ p \in Slots \ {0, 1, current} /\ table[p].in_use /\ stack[p] = <<>>
      /\ table[p].pid = Top.pid
  BY <1>1, <1>2, <1>p DEF FillsIn, FrameType
<1>4. current' = current
  BY DEF SpawnPublish, cpuVars
<1>5. PICK b : table' = [table EXCEPT ![p] = [@ EXCEPT !.esp = TRUE, !.user = TRUE,
                                                !.state = "RUNNING", !.bg = b]]
  BY <1>p DEF SpawnPublish
<1>6. /\ \A t \in Slots \ {p} : table'[t] = table[t]
      /\ table'[p].in_use /\ table'[p].state = "RUNNING" /\ table'[p].pid = table[p].pid
  BY <1>3, <1>5 DEF Console, TypeOK, ProcType
<1>7. g \in FrameType /\ g.pc = "user"
  <2>1. Frame("user", "test") \in FrameType /\ Frame("user", "test").pc = "user"
    BY FrameMade DEF Console, Frame
  <2> QED BY <1>g, <2>1 DEF FrameType
<1>8. StaysUser
  BY <1>3, <1>6, <1>1 DEF StaysUser
<1>9. /\ after \in Stacks /\ \A t \in Slots \ {current} : after[t] = stack[t]
      /\ stack'[current] = after[current] => 
           /\ \A i \in 1 .. Len(stack'[current]) : FrameRight(current, i)'
           /\ stack'[current] # <<>> /\ Last(stack'[current]).pc # "sched"
  <2>1. CASE Top.ph = "run3fg" /\ Exists(table, Top.pid)
    <3>1. after = SetTop(stack, current, r)
      BY <1>a, <2>1
    <3>2. process_get(table, Top.pid) \in Slots
      BY <2>1, SystemPid
    <3>3. r \in FrameType /\ r.pc = "run3" /\ r.pid = Top.pid
      BY <1>1, <1>r, <3>2 DEF FrameType
    <3>4. /\ after \in Stacks /\ \A t \in Slots \ {current} : after[t] = stack[t]
          /\ Len(after[current]) = n /\ after[current][n] = r
      BY <1>0, <1>1, <3>1, <3>3, SetTopFacts
    <3>5. current = 1
      BY <1>2, <2>1 DEF FillsIn
    <3>6. ASSUME stack'[current] = after[current]
          PROVE  FrameRight(current, Len(stack[current]))'
      BY <1>2, <1>4, <3>3, <3>4, <3>5, <3>6 DEF FrameRight, Making
    <3>7. ASSUME stack'[current] = after[current]
          PROVE  /\ \A i \in 1 .. Len(stack'[current]) : FrameRight(current, i)'
                 /\ stack'[current] # <<>> /\ Last(stack'[current]) = r
      BY <1>4, <1>8, <3>1, <3>3, <3>6, <3>7, SetTopHere
    <3> QED BY <3>3, <3>4, <3>7
  <2>2. CASE ~(Top.ph = "run3fg" /\ Exists(table, Top.pid))
    <3>1. after = Pop(stack, current)
      BY <1>a, <2>2
    <3>2. after \in Stacks /\ \A t \in Slots \ {current} : after[t] = stack[t]
      BY <1>1, <3>1, PopFacts
    <3>3. ASSUME stack'[current] = after[current]
          PROVE  /\ \A i \in 1 .. Len(stack'[current]) : FrameRight(current, i)'
                 /\ stack'[current] # <<>> /\ Last(stack'[current]).pc # "sched"
      BY <1>1, <1>4, <1>8, <3>1, <3>3, PopRight
    <3> QED BY <3>2, <3>3
  <2> QED BY <2>1, <2>2
<1>10. /\ stack'[p] = <<g>> /\ stack'[current] = after[current]
       /\ \A t \in Slots \ {p, current} : stack'[t] = stack[t]
  BY <1>1, <1>3, <1>9, <1>a DEF Stacks
<1>11. SystemSlots'
  BY <1>2, <1>3, <1>6, <1>10, <1>1, ConstFacts DEF Console, SystemSlots
<1>12. ContextsRight'
  <2>1. \A t \in Slots : /\ table'[t].esp => stack'[t] # <<>>
                         /\ stack'[t] # <<>> => table'[t].in_use
    BY <1>1, <1>3, <1>6, <1>9, <1>10 DEF Console, ContextsRight
  <2>2. CurrentIsLive' /\ Top'.pc # "sched"
    BY <1>1, <1>3, <1>4, <1>6, <1>9, <1>10 DEF CurrentIsLive, Top
  <2> QED BY <2>1, <2>2 DEF ContextsRight
<1>13. ASSUME NEW t \in Slots, NEW i \in 1 .. Len(stack'[t]) PROVE FrameRight(t, i)'
  <2>1. CASE t = current
    BY <1>4, <1>9, <1>10, <1>13, <2>1
  <2>2. CASE t = p
    <3>1. Len(stack'[t]) = 1 /\ stack'[t][1] = g
      <4>1. Len(<<g>>) = 1 /\ <<g>>[1] = g
        OBVIOUS
      <4>2. stack'[t] = <<g>>
        BY <1>10, <2>2
      <4> QED BY <4>1, <4>2, Zenon
    <3>2. i = 1
      <4>1. \A j \in 1 .. 1 : j = 1
        OBVIOUS
      <4> QED BY <1>13, <3>1, <4>1
    <3> QED BY <1>3, <1>6, <1>7, <2>2, <3>1, <3>2 DEF FrameRight, Making
  <2>3. CASE t \notin {p, current}
    <3>1. stack'[t] = stack[t] /\ i \in 1 .. Len(stack[t]) /\ table'[t] = table[t]
      BY <1>6, <1>10, <1>13, <2>3
    <3>2. stack[t][i].pc \notin Making /\ FrameRight(t, i)
      BY <2>3, <3>1, FramesBelow DEF Console, StacksRight
    <3>3. OldFrame(t, i)
      BY <3>1, <3>2 DEF OldFrame, FrameRight
    <3> QED BY <3>3, OldFrameRight
  <2> QED BY <2>1, <2>2, <2>3
<1> QED BY <1>11, <1>12, <1>13 DEF KernelRight, StacksRight

-----------------------------------------------------------------------------
(* The switch, by schedule() or by the timer interrupt. *)

(* An activation of a process that is not creating another one. *)
FrameFits(tab, stk, s, i) ==
  LET f == stk[s][i]
  IN  /\ f.pc \notin Making \cup {"tick"}
      /\ f.pc \in {"idle", "user", "exit"} <=> i = 1
      /\ f.pc \in {"idle", "run3", "wait"} => s = 1
      /\ f.pc \in {"user", "exit", "sleep", "getkey", "waitpid"} => s # 1
      /\ f.pc = "sched" => i = Len(stk[s])
      /\ f.pc \in {"run3", "wait"} => f.pid \notin {0, 1}
      /\ f.pc = "user" => tab[s].state # "ZOMBIE"
      /\ f.pc = "sleep" /\ f.ph = "arm" => f.t \in SleepTicks

RowsKept(tab) ==
  \A s \in Slots :
    /\ tab[s].in_use = table[s].in_use /\ tab[s].pid = table[s].pid
    /\ tab[s].esp = table[s].esp /\ tab[s].pd = table[s].pd
    /\ tab[s].user = table[s].user /\ tab[s].bg = table[s].bg
    /\ tab[s].ppid = table[s].ppid
    /\ tab[s].kstack = table[s].kstack /\ tab[s].frames = table[s].frames
    /\ tab[s].wake_tick = table[s].wake_tick /\ tab[s].exit_code = table[s].exit_code
    /\ table[s].state = "RUNNING" => tab[s].state = "RUNNING"
    /\ tab[s].state = "ZOMBIE" <=> table[s].state = "ZOMBIE"
    /\ tab[s].state = "SLEEPING" => table[s].state = "SLEEPING"

LEMMA FittingFrame ==
  ASSUME NEW tab, NEW stk, NEW s, NEW i, FrameFits(tab, stk, s, i),
         stack'[s][i] = stk[s][i], stk[s][i].pc = "sched" => i = Len(stack'[s]),
         table'[s].state = tab[s].state
  PROVE  FrameRight(s, i)'
BY DEF FrameFits, FrameRight, Making

LEMMA OthersFit ==
  ASSUME Console, NEW tab, RowsKept(tab), NEW s \in Slots \ {current},
         NEW i \in 1 .. Len(stack[s])
  PROVE  FrameFits(tab, stack, s, i)
<1>1. FrameRight(s, i) /\ stack[s][i].pc \notin Making
  BY FramesBelow DEF Console, StacksRight
<1> QED BY <1>1 DEF FrameFits, FrameRight, RowsKept, Making

LEMMA SwitchToRight ==
  ASSUME Console, NEW tab \in Tables, RowsKept(tab), NEW stk \in Stacks,
         NEW next \in Slots \ {current}, Runnable(tab, next), SwitchTo(tab, stk, next),
         \A s \in Slots \ {current} : stk[s] = stack[s], stk[current] # <<>>,
         \A i \in 1 .. Len(stk[current]) : FrameFits(tab, stk, current, i)
  PROVE  KernelRight'
<1>1. current \in Slots \ {0} /\ table[current].in_use
  BY TopRight
<1>2. /\ table' = [tab EXCEPT ![current].esp = TRUE] /\ current' = next
  BY DEF SwitchTo
<1>3. /\ \A s \in Slots \ {current} : table'[s] = tab[s]
      /\ table'[current].in_use /\ table'[current].pid = tab[current].pid
      /\ table'[current].state = tab[current].state /\ table'[current].user = tab[current].user
      /\ table'[current].bg = tab[current].bg
  BY <1>1, <1>2 DEF Tables, ProcType, RowsKept
<1>4. stk[next] = stack[next] /\ stack[next] # <<>>
  BY DEF Runnable, RowsKept, Console, ContextsRight
<1>5. \A s \in Slots : \A i \in 1 .. Len(stk[s]) : FrameFits(tab, stk, s, i)
  <2> SUFFICES ASSUME NEW s \in Slots, NEW i \in 1 .. Len(stk[s]) PROVE FrameFits(tab, stk, s, i)
    OBVIOUS
  <2>1. CASE s # current
    <3>1. stk[s] = stack[s] /\ FrameFits(tab, stack, s, i)
      BY <2>1, OthersFit
    <3> QED BY <3>1 DEF FrameFits
  <2> QED BY <2>1
<1>6. PICK m \in Nat \ {0} : m = Len(stk[next])
  BY <1>4, FrontFacts DEF Stacks
<1>7. Last(stk[next]) = stk[next][m] /\ m \in 1 .. m
  <2>1. stk[next] \in Seq(FrameType) /\ stk[next] # <<>>
    BY <1>4 DEF Stacks
  <2>2. Last(stk[next]) = stk[next][Len(stk[next])]
    BY <2>1, FrontFacts
  <2> QED BY <1>6, <2>2
<1>8. /\ \A s \in Slots \ {next} : stack'[s] = stk[s]
      /\ stack'[next] # <<>> /\ Last(stack'[next]).pc # "sched"
      /\ \A i \in 1 .. Len(stack'[next]) :
           /\ i \in 1 .. m /\ stack'[next][i] = stk[next][i]
           /\ stk[next][i].pc # "sched"
  <2>1. CASE Last(stk[next]).pc = "sched"
    <3>1. stack' = Pop(stk, next)
      BY <1>4, <2>1 DEF SwitchTo
    <3>2. /\ \A s \in Slots \ {next} : stack'[s] = stk[s]
          /\ Len(stack'[next]) = m - 1 /\ stack'[next] \in Seq(FrameType)
          /\ \A i \in 1 .. m - 1 : stack'[next][i] = stk[next][i]
      BY <1>4, <1>6, <3>1, PopFacts DEF Stacks
    <3>3. m # 1
      BY <1>5, <1>6, <1>7, <2>1 DEF FrameFits
    <3>4. \A i \in 1 .. m - 1 : i \in 1 .. m /\ stk[next][i].pc # "sched"
      BY <1>5, <1>6 DEF FrameFits
    <3>5. /\ stack'[next] # <<>> /\ Last(stack'[next]) = stack'[next][m - 1]
          /\ m - 1 \in 1 .. m - 1
      <4>1. m - 1 \in 1 .. m - 1 /\ m - 1 # 0
        <5>1. m \in Nat /\ m # 0 /\ m # 1
          BY <1>6, <3>3
        <5>2. \A k \in Nat : k # 0 /\ k # 1 => k - 1 \in 1 .. k - 1 /\ k - 1 # 0
          OBVIOUS
        <5> QED BY <5>1, <5>2
      <4>2. Len(<<>>) = 0
        OBVIOUS
      <4>3. Last(stack'[next]) = stack'[next][Len(stack'[next])]
        BY DEF Last
      <4> QED BY <3>2, <4>1, <4>2, <4>3, Zenon
    <3> QED BY <3>2, <3>4, <3>5
  <2>2. CASE Last(stk[next]).pc # "sched"
    <3>1. stack' = stk
      BY <2>2 DEF SwitchTo
    <3>2. \A i \in 1 .. m : stk[next][i].pc # "sched"
      BY <1>5, <1>6, <1>7, <2>2 DEF FrameFits
    <3> QED BY <1>4, <1>6, <2>2, <3>1, <3>2
  <2> QED BY <2>1, <2>2
<1>9. SystemSlots'
  BY <1>1, <1>3, <1>4, <1>8, ConstFacts DEF Console, SystemSlots, RowsKept
<1>10. ContextsRight'
  <2>1. \A t \in Slots : /\ table'[t].esp => stack'[t] # <<>>
                         /\ stack'[t] # <<>> => table'[t].in_use
    BY <1>1, <1>3, <1>4, <1>8 DEF Console, ContextsRight, RowsKept
  <2>2. CurrentIsLive' /\ Top'.pc # "sched"
    BY <1>2, <1>3, <1>8 DEF CurrentIsLive, Top, Runnable
  <2> QED BY <2>1, <2>2 DEF ContextsRight
<1>11. ASSUME NEW s \in Slots, NEW i \in 1 .. Len(stack'[s]) PROVE FrameRight(s, i)'
  <2>1. table'[s].state = tab[s].state
    BY <1>3
  <2>2. CASE s = next
    <3>1. /\ i \in 1 .. Len(stk[s]) /\ stack'[s][i] = stk[s][i]
          /\ stk[s][i].pc # "sched"
      BY <1>6, <1>8, <1>11, <2>2
    <3> QED BY <1>5, <2>1, <3>1, FittingFrame
  <2>3. CASE s # next
    <3>1. i \in 1 .. Len(stk[s]) /\ stack'[s] = stk[s]
      BY <1>8, <1>11, <2>3
    <3>2. FrameFits(tab, stk, s, i)
      BY <1>5, <3>1
    <3>3. stk[s][i].pc = "sched" => i = Len(stack'[s])
      BY <3>1, <3>2 DEF FrameFits
    <3> QED BY <2>1, <3>1, <3>2, <3>3, FittingFrame
  <2> QED BY <2>2, <2>3
<1> QED BY <1>9, <1>10, <1>11 DEF KernelRight, StacksRight

LEMMA SwitchRight == ASSUME Console, Switch PROVE KernelRight'
<1> DEFINE n == Len(stack[current])
<1>1. /\ current \in Slots /\ stack \in Stacks /\ stack[current] # <<>> /\ Top \in FrameType
      /\ n \in Nat \ {0} /\ Top = stack[current][n] /\ Top.pc = "sched"
  BY TopRight DEF Switch, At
<1>2. Top.p \in Slots \ {current} /\ Runnable(table, Top.p)
  BY <1>1 DEF Console, ContextsRight, FrameType
<1>3. table \in Tables /\ RowsKept(table)
  BY DEF Console, TypeOK, Tables, RowsKept
<1>4. ASSUME NEW i \in 1 .. n PROVE FrameFits(table, stack, current, i)
  <2>1. FrameRight(current, i) /\ stack[current][i].pc \notin Making
    <3>1. CASE i = n
      BY <1>1, <3>1 DEF Console, StacksRight, Making
    <3>2. CASE i < n
      BY <1>1, <3>2, FramesBelow DEF Console, StacksRight
    <3> QED BY <1>1, <3>1, <3>2
  <2> QED BY <2>1 DEF FrameFits, FrameRight, Making
<1>5. SwitchTo(table, stack, Top.p)
  BY DEF Switch
<1> QED BY <1>1, <1>2, <1>3, <1>4, <1>5, SwitchToRight

(* The timer interrupt wakes sleepers and leaves the rest of the table alone. *)
LEMMA WakeKeeps ==
  ASSUME TypeOK, NEW now \in Ticks
  PROVE  Wake(table, now) \in Tables /\ RowsKept(Wake(table, now))
<1>1. table \in Tables
  BY DEF TypeOK, Tables
<1>2. Wake(table, now) \in Tables
  BY <1>1, WakeType
<1>3. ASSUME NEW s \in Slots
      PROVE  \/ Wake(table, now)[s] = table[s]
             \/ /\ table[s].state = "SLEEPING"
                /\ Wake(table, now)[s] = [table[s] EXCEPT !.state = "RUNNING"]
  BY DEF Wake
<1> DEFINE Kept(s, r) ==
      /\ r.in_use = table[s].in_use /\ r.pid = table[s].pid
      /\ r.esp = table[s].esp /\ r.pd = table[s].pd
      /\ r.user = table[s].user /\ r.bg = table[s].bg /\ r.ppid = table[s].ppid
      /\ r.kstack = table[s].kstack /\ r.frames = table[s].frames
      /\ r.wake_tick = table[s].wake_tick /\ r.exit_code = table[s].exit_code
      /\ r.state \in {table[s].state, "RUNNING"}
      /\ r.state # table[s].state => table[s].state = "SLEEPING"
<1>4. ASSUME NEW s \in Slots PROVE Kept(s, Wake(table, now)[s])
  <2>1. PICK r : r = Wake(table, now)[s]
    OBVIOUS
  <2>2. \/ r = table[s]
        \/ table[s].state = "SLEEPING" /\ r = [table[s] EXCEPT !.state = "RUNNING"]
    BY <1>3, <2>1
  <2>3. Kept(s, r)
    BY <1>1, <2>2 DEF Tables, ProcType
  <2> HIDE DEF Kept
  <2> QED BY <2>1, <2>3
<1>5. RowsKept(Wake(table, now))
  <2>1. ASSUME NEW tab, \A s \in Slots : Kept(s, tab[s]) PROVE RowsKept(tab)
    BY <2>1 DEF RowsKept
  <2> HIDE DEF Kept
  <2> QED BY <1>4, <2>1
<1> QED BY <1>2, <1>5

LEMMA TickRight == ASSUME Console, Tick PROVE KernelRight'
<1>0. PICK n \in Nat \ {0} : n = Len(stack[current])
  BY TopRight
<1>w. PICK woken : woken = Wake(table, Now)
  OBVIOUS
<1>x. PICK next : next = SchedPick(woken)
  OBVIOUS
<1>h. PICK h : h = [Top EXCEPT !.ph = "test"]
  OBVIOUS
<1>g. PICK g : g = [Frame("sched", "test") EXCEPT !.p = next]
  OBVIOUS
<1>s. PICK seen : seen = IF Top.ph = "hlt" THEN SetTop(stack, current, h) ELSE stack
  OBVIOUS
<1>1. /\ current \in Slots \ {0} /\ stack \in Stacks /\ stack[current] # <<>>
      /\ Top = stack[current][n] /\ Top \in FrameType /\ FrameRight(current, n)
  BY <1>0, TopRight
<1>2. woken \in Tables /\ RowsKept(woken)
  BY <1>w, CountDownType, WakeKeeps DEF Console
<1>3. TickRest(table, stack, Now) /\ Last(stack[current]) = Top
  BY DEF Tick, Top
<1>4. \/ /\ Top.pc = "user" /\ next # current
         /\ SwitchTo(woken, Push(seen, current, g), next)
      \/ /\ table' = woken /\ stack' = seen /\ current' = current
  BY <1>3, <1>w, <1>x, <1>h, <1>g, <1>s DEF TickRest
<1>5. CASE table' = woken /\ stack' = seen /\ current' = current
  <2>1. SlotsKept /\ StaysUser
    BY <1>1, <1>2, <1>5 DEF RowsKept, SlotsKept, StaysUser
  <2>2. table'[1].state = "RUNNING"
    BY <1>2, <1>5, ConstFacts DEF Console, SystemSlots, RowsKept
  <2>3. CASE Top.ph = "hlt"
    <3>1. stack' = SetTop(stack, current, h)
      BY <1>5, <1>s, <2>3
    <3>2. h \in FrameType /\ h.pc = Top.pc
      BY <1>1, <1>h DEF FrameType
    <3>3. Top.pc = "sched" => h.p # current /\ Runnable(table', h.p)
      BY <1>1, <1>2, <1>5, <1>h DEF Console, ContextsRight, Runnable, RowsKept, FrameType
    <3>4. /\ Len(stack'[current]) = n /\ stack'[current][n] = h
      BY <1>0, <1>1, <3>1, <3>2, SetTopFacts
    <3>5. FrameRight(current, n)'
      <4>1. /\ h.pc = Top.pc /\ h.ph = "test" /\ h.p = Top.p /\ h.pid = Top.pid
            /\ h.p \in Slots
        BY <1>1, <1>h DEF FrameType
      <4>2. \A s \in Slots \ {current} : stack'[s] = stack[s]
        BY <1>1, <3>1, <3>2, SetTopFacts
      <4>3. FillsIn(current, Top) => FillsIn(current, h)'
        <5>1. /\ table'[h.p].in_use = table[h.p].in_use /\ table'[h.p].pid = table[h.p].pid
              /\ table'[h.p].ppid = table[h.p].ppid /\ table'[h.p].pd = table[h.p].pd
              /\ table'[h.p].kstack = table[h.p].kstack /\ table'[h.p].frames = table[h.p].frames
          BY <1>2, <1>5, <4>1 DEF RowsKept
        <5>2. h.p \notin {0, 1, current} => stack'[h.p] = stack[h.p]
          BY <4>1, <4>2
        <5>3. Owned(h.p)' = Owned(h.p)
          BY <5>1 DEF Owned
        <5>4. ASSUME FillsIn(current, Top) PROVE FillsIn(current, h)'
          <6>1. /\ h.p \notin {0, 1, current} /\ (Top.ph # "fork" => current = 1)
                /\ table[h.p].in_use /\ table[h.p].pid = h.pid /\ stack[h.p] = <<>>
                /\ h.pc = "build" => Owned(h.p) = {}
                /\ h.pc = "build" /\ Top.ph # "fork" => table[h.p].ppid = 1
            BY <4>1, <5>4 DEF FillsIn
          <6> QED BY <1>5, <2>3, <4>1, <5>1, <5>2, <5>3, <6>1 DEF FillsIn
        <5> QED BY <5>4
      <4> QED BY <1>0, <1>1, <1>2, <1>5, <3>4, <4>1, <4>3 DEF FrameRight, RowsKept
    <3>6. FrameRight(current, Len(stack[current]))'
      BY <1>5, <3>4, <3>5
    <3>7. /\ \A i \in 1 .. Len(stack'[current]) : FrameRight(current, i)'
          /\ \A s \in Slots \ {current} : stack'[s] = stack[s]
          /\ stack'[current] # <<>> /\ Last(stack'[current]) = h
      BY <1>5, <2>1, <3>1, <3>2, <3>6, SetTopRight
    <3> QED BY <1>5, <2>1, <2>2, <3>2, <3>3, <3>7, LocalStep
  <2>4. CASE Top.ph # "hlt"
    <3>1. stack' = stack
      BY <1>5, <1>s, <2>4
    <3>2. ASSUME NEW i \in 1 .. n PROVE FrameRight(current, i)'
      <4>1. FrameRight(current, i)
        BY <1>0, <1>1 DEF Console, StacksRight
      <4>2. stack[current][i].p \in Slots
        <5>1. stack[current] \in Seq(FrameType) /\ i \in 1 .. Len(stack[current])
          BY <1>0, TopRight
        <5>2. stack[current][i] \in FrameType
          BY <5>1, ElementOfSeq
        <5> QED BY <5>2 DEF FrameType
      <4>3. FillsIn(current, stack[current][i]) => FillsIn(current, stack[current][i])'
        <5>1. PICK q \in Slots : q = stack[current][i].p
          BY <4>2
        <5>2. /\ table'[q].in_use = table[q].in_use /\ table'[q].pid = table[q].pid
              /\ table'[q].ppid = table[q].ppid /\ table'[q].pd = table[q].pd
              /\ table'[q].kstack = table[q].kstack /\ table'[q].frames = table[q].frames
          BY <1>2, <1>5 DEF RowsKept
        <5>3. Owned(q)' = Owned(q)
          BY <5>2 DEF Owned
        <5> QED BY <1>5, <3>1, <5>1, <5>2, <5>3 DEF FillsIn
      <4> QED BY <1>1, <1>2, <1>5, <3>1, <4>1, <4>3 DEF FrameRight, RowsKept
    <3>3. Top.pc = "sched" => /\ Top.p # current /\ Runnable(table', Top.p)
      BY <1>1, <1>2, <1>5 DEF Console, ContextsRight, Runnable, RowsKept, FrameType
    <3> QED BY <1>0, <1>1, <1>5, <2>1, <2>2, <3>1, <3>2, <3>3, LocalStep DEF Top
  <2> QED BY <2>3, <2>4
<1>6. CASE Top.pc = "user" /\ next # current /\ SwitchTo(woken, Push(seen, current, g), next)
  <2>k. PICK stk : stk = Push(seen, current, g)
    OBVIOUS
  <2>1. next \in Slots \ {current} /\ Runnable(woken, next)
    BY <1>2, <1>6, <1>x, PickRunnable DEF Console
  <2>2. g \in FrameType /\ g.pc = "sched"
    <3>1. Frame("sched", "test") \in FrameType /\ Frame("sched", "test").pc = "sched"
      BY FrameMade DEF Console, Frame
    <3> QED BY <1>g, <2>1, <3>1 DEF FrameType
  <2>3. /\ seen \in Stacks /\ seen[current] # <<>> /\ Len(seen[current]) = 1
        /\ seen[current][1].pc = "user"
        /\ \A t \in Slots \ {current} : seen[t] = stack[t]
    <3>1. n = 1
      BY <1>1, <1>6 DEF FrameRight
    <3>2. h \in FrameType /\ h.pc = "user"
      BY <1>1, <1>6, <1>h DEF FrameType
    <3>3. CASE Top.ph = "hlt"
      <4>1. seen = SetTop(stack, current, h)
        BY <1>s, <3>3
      <4>2. /\ seen \in Stacks /\ seen[current] # <<>> /\ Len(seen[current]) = n
            /\ seen[current][n] = h
            /\ \A t \in Slots \ {current} : seen[t] = stack[t]
        BY <1>0, <1>1, <3>2, <4>1, SetTopFacts
      <4> QED BY <3>1, <3>2, <4>2
    <3>4. CASE Top.ph # "hlt"
      BY <1>0, <1>1, <1>6, <1>s, <3>1, <3>4
    <3> QED BY <3>3, <3>4
  <2>4. /\ stk \in Stacks /\ \A t \in Slots \ {current} : stk[t] = stack[t]
        /\ Len(stk[current]) = 2 /\ stk[current][2] = g /\ stk[current] # <<>>
        /\ stk[current][1] = seen[current][1]
    <3>0. 1 + 1 = 2 /\ 1 \in 1 .. 1
      OBVIOUS
    <3>1. current \in Slots /\ seen \in Stacks /\ g \in FrameType
      BY <1>1, <2>2, <2>3
    <3>2. /\ stk \in Stacks /\ \A t \in Slots \ {current} : stk[t] = seen[t]
          /\ Len(stk[current]) = Len(seen[current]) + 1
          /\ stk[current][Len(seen[current]) + 1] = g
          /\ \A i \in 1 .. Len(seen[current]) : stk[current][i] = seen[current][i]
          /\ stk[current] # <<>>
      BY <2>k, <3>1, PushFacts
    <3> QED BY <2>3, <3>0, <3>2
  <2>5. ASSUME NEW i \in 1 .. Len(stk[current]) PROVE FrameFits(woken, stk, current, i)
    <3>1. current # 1
      BY <1>1, <1>6 DEF FrameRight
    <3>2. woken[current].state # "ZOMBIE"
      BY <1>1, <1>2, <1>6 DEF FrameRight, RowsKept
    <3>3. CASE i = 1
      BY <2>3, <2>4, <3>1, <3>2, <3>3 DEF FrameFits, Making
    <3>4. CASE i = 2
      BY <2>2, <2>4, <3>1, <3>4 DEF FrameFits, Making
    <3>5. \A j \in 1 .. 2 : j = 1 \/ j = 2
      OBVIOUS
    <3> QED BY <2>4, <3>3, <3>4, <3>5
  <2>6. SwitchTo(woken, stk, next)
    BY <1>6, <2>k
  <2> QED BY <1>2, <2>1, <2>4, <2>5, <2>6, SwitchToRight
<1> QED BY <1>4, <1>5, <1>6

(* Every step of a kernel that runs no command under the timer interrupt. *)
LEMMA NoRemoteSteps ==
  ASSUME Console, RemoteCmds = {} PROVE ~Remote /\ ~FinishTick
<1>1. ~Remote
  BY DEF Remote, RemoteKill, RemoteWait, RemoteRun3, RemoteTick
<1>2. ~FinishTick
  BY TopRight DEF FinishTick, At, FrameRight
<1> QED BY <1>1, <1>2

LEMMA KernelNext ==
  ASSUME Console, UserPidRight, RemoteCmds = {}, [Next]_vars
  PROVE  KernelRight'
<1>1. CASE KernelStep
  BY <1>1, YieldRight, SwitchRight, SleepArmRight, CallReturnRight, ZombieRight, EndRight,
     BuildRight, PublishRight, NoRemoteSteps DEF KernelStep
<1>2. CASE Syscall
  BY <1>2, SystemCallRight, ExitRight, ExecveRight, CreateRight DEF Syscall
<1>3. CASE ShellCommand
  BY <1>3, CreateRight, CmdWaitRight, EndRight, CmdRunRight DEF ShellCommand
<1>4. CASE Tick \/ GetkeyReturn \/ LegacyReturn
  BY <1>4, TickRight, CallReturnRight, EndRight
<1>5. CASE UNCHANGED vars
  <2>1. /\ table' = table /\ stack' = stack /\ current' = current /\ cr3' = cr3
        /\ current_user_pid' = current_user_pid /\ next_pid' = next_pid
        /\ freePages' = freePages
    BY <1>5 DEF vars, cpuVars
  <2>2. SystemSlots' /\ ContextsRight'
    BY <2>1 DEF Console, SystemSlots, ContextsRight, CurrentIsLive, Top, Runnable
  <2>3. StacksRight'
    <3>1. ASSUME NEW s \in Slots, NEW i \in 1 .. Len(stack[s]) PROVE FrameRight(s, i)'
      <4>1. FrameRight(s, i)
        BY DEF Console, StacksRight
      <4>2. FillsIn(s, stack[s][i])' = FillsIn(s, stack[s][i])
        BY <2>1 DEF FillsIn, Owned
      <4> QED BY <2>1, <4>1, <4>2 DEF FrameRight
    <3> QED BY <2>1, <3>1 DEF StacksRight
  <2> QED BY <2>2, <2>3 DEF KernelRight
<1> QED BY <1>1, <1>2, <1>3, <1>4, <1>5, NoRemoteSteps DEF Next

-----------------------------------------------------------------------------
(* What a step does to the CPU's registers and to the pages: nothing, a     *)
(* switch, the release of one slot, the taking of one, or what exit,        *)
(* execve and the steps of a creation do.                                   *)

RowStill(s) ==
  /\ table'[s].in_use = table[s].in_use /\ table'[s].pid = table[s].pid
  /\ table'[s].user = table[s].user /\ table'[s].kstack = table[s].kstack
  /\ table'[s].frames = table[s].frames /\ table'[s].pd = table[s].pd

Quiet ==
  /\ UNCHANGED <<current, current_user_pid, cr3, freePages>>
  /\ \A s \in Slots : RowStill(s)
  /\ table'[current].state = "ZOMBIE" <=> table[current].state = "ZOMBIE"

Switching ==
  \E tab \in Tables, next \in Slots : \E stk :
    RowsKept(tab) /\ Runnable(tab, next) /\ SwitchTo(tab, stk, next) /\ freePages' = freePages

Returning == JustReturn /\ UNCHANGED current_user_pid

Freeing ==
  \E s \in Slots \ {0, 1, current}, stk \in {stack, Pop(stack, current)} :
    FreeSlot(s, stk) /\ UNCHANGED current_user_pid

Taking ==
  \E s \in Slots, row \in ProcType :
    /\ ~table[s].in_use /\ row.in_use
    /\ row.kstack = {} /\ row.frames = {} /\ row.pd = {}
    /\ table' = [table EXCEPT ![s] = row]
    /\ UNCHANGED <<current, current_user_pid, cr3, freePages>>

LEMMA QuietSteps ==
  ASSUME Console,
         \/ Yield \/ SleepReturn \/ SysGetkey \/ GetkeyReturn \/ SleepArm
         \/ \E n \in SleepTicks : SysSleep(n)
         \/ \E pid \in Pids : SysWaitpid(pid) \/ CmdWait(pid)
  PROVE  Quiet
<1>1. CASE \/ Yield \/ SleepReturn \/ SysGetkey \/ GetkeyReturn
           \/ \E pid \in Pids : SysWaitpid(pid) \/ CmdWait(pid)
  BY <1>1 DEF Yield, SleepReturn, SysGetkey, GetkeyReturn, SysWaitpid, CmdWait,
              OnlyStackChanges, cpuVars, Quiet, RowStill
<1>2. CASE SleepArm
  BY <1>2 DEF SleepArm, cpuVars, Quiet, RowStill, Console, TypeOK, ProcType
<1>3. CASE \E n \in SleepTicks : SysSleep(n)
  <2>1. table[current].state # "ZOMBIE"
    BY <1>3, TopRight DEF SysSleep, InUser, FrameRight
  <2> QED BY <1>3, <2>1 DEF SysSleep, cpuVars, Quiet, RowStill, Console, TypeOK, ProcType
<1> QED BY <1>1, <1>2, <1>3

LEMMA SwitchSteps == ASSUME Console, Switch \/ Tick PROVE Quiet \/ Switching
<1>1. CASE Switch
  <2>1. Top.p \in Slots /\ Runnable(table, Top.p) /\ stack \in Stacks
    BY <1>1, TopRight DEF Switch, At, Console, ContextsRight, FrameType
  <2>2. table \in Tables /\ RowsKept(table)
    BY DEF Console, TypeOK, Tables, RowsKept
  <2> QED BY <1>1, <2>1, <2>2 DEF Switch, Switching
<1>2. CASE Tick
  <2>1. PICK woken \in Tables : woken = Wake(table, Now) /\ RowsKept(woken)
    BY CountDownType, WakeKeeps DEF Console
  <2>2. freePages' = freePages /\ TickRest(table, stack, Now)
    BY <1>2 DEF Tick
  <2>3. CASE table' = woken /\ UNCHANGED <<current, current_user_pid, cr3>>
    <3>1. current \in Slots
      BY TopRight
    <3> QED BY <2>1, <2>2, <2>3, <3>1 DEF Quiet, RowStill, RowsKept
  <2>4. CASE SchedPick(woken) # current /\ \E stk : SwitchTo(woken, stk, SchedPick(woken))
    <3>1. SchedPick(woken) \in Slots /\ Runnable(woken, SchedPick(woken))
      BY <2>1, <2>4, PickRunnable DEF Console
    <3> QED BY <2>1, <2>2, <2>4, <3>1 DEF Switching
  <2>5. \/ SchedPick(woken) # current /\ \E stk : SwitchTo(woken, stk, SchedPick(woken))
        \/ table' = woken /\ UNCHANGED <<current, current_user_pid, cr3>>
    BY <2>1, <2>2 DEF TickRest
  <2> QED BY <2>3, <2>4, <2>5
<1> QED BY <1>1, <1>2

LEMMA FreeingSteps ==
  ASSUME Console,
         \/ WaitpidReturn \/ SpawnFail \/ Run3Return \/ WaitReturn \/ LegacyReturn
         \/ \E pid \in Pids : CmdKill(pid)
  PROVE  Returning \/ Freeing
<1>1. ASSUME JustReturn, UNCHANGED current_user_pid PROVE Returning
  BY <1>1 DEF Returning
<1>2. ASSUME ReturnFreeing(Top.pid), UNCHANGED current_user_pid,
             Top.pc \in {"run3", "wait", "legacy", "build"}
      PROVE  Returning \/ Freeing
  BY <1>1, <1>2, Freed DEF ReturnFreeing, Freeing
<1>3. CASE WaitpidReturn /\ Zombies(Top.pid) = {}
  BY <1>1, <1>3 DEF WaitpidReturn
<1>4. CASE WaitpidReturn /\ Zombies(Top.pid) # {}
  <2>1. Zombies(Top.pid) \in SUBSET Nat
    BY ConstFacts DEF Zombies, Slots
  <2>2. PICK z : z = Min(Zombies(Top.pid))
    OBVIOUS
  <2>3. z \in Zombies(Top.pid)
    BY <1>4, <2>1, <2>2, MinIn
  <2>4. z \in Slots \ {0, 1, current}
    BY <2>3 DEF Zombies, Console, SystemSlots
  <2>5. FreeSlot(z, Pop(stack, current)) /\ UNCHANGED current_user_pid
    BY <1>4, <2>2 DEF WaitpidReturn
  <2> QED BY <2>4, <2>5 DEF Freeing
<1>5. CASE SpawnFail \/ Run3Return \/ WaitReturn \/ LegacyReturn
  <2>1. Top.pc \in {"run3", "wait", "legacy", "build"} /\ UNCHANGED current_user_pid
        /\ (ReturnFreeing(Top.pid) \/ JustReturn)
    BY <1>5 DEF SpawnFail, Run3Return, WaitReturn, LegacyReturn, At
  <2> QED BY <1>1, <1>2, <2>1
<1>6. ASSUME NEW pid \in Pids, CmdKill(pid) PROVE Freeing
  <2>1. process_get(table, pid) \in Slots \ {0, 1, current}
    BY <1>6, SystemPid DEF CmdKill, Killable
  <2> QED BY <1>6, <2>1 DEF CmdKill, Freeing
<1> QED BY <1>3, <1>4, <1>5, <1>6

LEMMA ReturningQuiet == ASSUME Returning PROVE Quiet
BY DEF Returning, JustReturn, Quiet, RowStill

LEMMA TakingSteps ==
  ASSUME Console,
         \/ SysFork \/ \E kind \in {"run3fg", "run3bg"} : CmdRun3(kind)
         \/ \E bg \in BOOLEAN : CmdRun(bg)
  PROVE  Taking
<1>1. CanAlloc /\ UNCHANGED <<current, current_user_pid, cr3, freePages>>
  BY DEF SysFork, CmdRun3, CmdRun, SpawnAlloc, cpuVars
<1>2. PICK s : s = Min(FreeSlots)
  OBVIOUS
<1>3. PICK bg \in BOOLEAN : \/ table' = [table EXCEPT ![s] = process_alloc]
                            \/ table' = [table EXCEPT ![s] = [process_alloc EXCEPT !.bg = bg]]
  BY <1>2 DEF SysFork, CmdRun3, CmdRun, SpawnAlloc
<1>4. /\ process_alloc \in ProcType /\ process_alloc.in_use
      /\ process_alloc.kstack = {} /\ process_alloc.frames = {} /\ process_alloc.pd = {}
      /\ s \in Slots /\ ~table[s].in_use
  BY <1>1, <1>2, AllocRow
<1>5. LET row == [process_alloc EXCEPT !.bg = bg]
      IN  /\ row \in ProcType /\ row.in_use
          /\ row.kstack = {} /\ row.frames = {} /\ row.pd = {}
  BY <1>4 DEF ProcType
<1> QED BY <1>1, <1>3, <1>4, <1>5 DEF Taking

-----------------------------------------------------------------------------
(* current_user_pid and the loaded page directory follow the current        *)
(* process, and no page leaves both the free lists and the table.           *)

Registers == UserPidRight /\ LoadedPdLive

(* Every page is free or somebody's, put with a witness. *)
LEMMA LostFacts ==
  ASSUME TypeOK
  PROVE  NoPageLost <=> \A q \in Pages : q \in freePages \/
                          \E s \in Slots : table[s].in_use /\ q \in Owned(s)
<1>1. freePages \subseteq Pages /\ \A s \in Slots : Owned(s) \subseteq Pages
  BY DEF TypeOK, ProcType, Owned
<1> QED BY <1>1 DEF NoPageLost

LEMMA FoundAgain ==
  ASSUME TypeOK', \A q \in Pages : q \in freePages' \/
                    \E s \in Slots : table'[s].in_use /\ q \in Owned(s)'
  PROVE  NoPageLost'
<1>1. freePages' \subseteq Pages /\ \A s \in Slots : Owned(s)' \subseteq Pages
  BY DEF TypeOK, ProcType, Owned
<1> QED BY <1>1 DEF NoPageLost

LEMMA QuietKeeps ==
  ASSUME Console, Registers, NoPageLost, TypeOK', Quiet
  PROVE  Registers' /\ NoPageLost'
<1>1. Registers'
  BY TopRight DEF Registers, UserPidRight, LoadedPdLive, Quiet, RowStill
<1>2. \A s \in Slots : Owned(s)' = Owned(s)
  BY DEF Quiet, RowStill, Owned
<1>3. NoPageLost'
  BY <1>2 DEF NoPageLost, Quiet, RowStill
<1> QED BY <1>1, <1>3

LEMMA SwitchingKeeps ==
  ASSUME Console, Registers, NoPageLost, TypeOK', Switching
  PROVE  Registers' /\ NoPageLost'
<1>1. PICK tab \in Tables, next \in Slots : \E stk :
         RowsKept(tab) /\ Runnable(tab, next) /\ SwitchTo(tab, stk, next) /\ freePages' = freePages
  BY DEF Switching
<1>2. /\ table' = [tab EXCEPT ![current].esp = TRUE] /\ current' = next
      /\ current_user_pid' = (IF tab[next].user THEN tab[next].pid ELSE 0)
      /\ cr3' = tab[next].pd
  BY <1>1 DEF SwitchTo
<1>3. \A s \in Slots :
        /\ table'[s].in_use = tab[s].in_use /\ table'[s].pid = tab[s].pid
        /\ table'[s].user = tab[s].user /\ table'[s].state = tab[s].state
        /\ table'[s].kstack = tab[s].kstack /\ table'[s].frames = tab[s].frames
        /\ table'[s].pd = tab[s].pd
  BY <1>2, TopRight DEF Tables, ProcType
<1>4. Registers'
  BY <1>1, <1>2, <1>3 DEF Registers, UserPidRight, LoadedPdLive, Runnable
<1>5. \A s \in Slots : Owned(s)' = Owned(s) /\ table'[s].in_use = table[s].in_use
  BY <1>1, <1>3 DEF RowsKept, Owned
<1>6. NoPageLost'
  BY <1>1, <1>5 DEF NoPageLost
<1> QED BY <1>4, <1>6

(* Giving a slot back leaves the current page directory loaded: nobody      *)
(* else can hold its pages.                                                 *)
LEMMA FreeingKeeps ==
  ASSUME Console, Registers, NoPageLost, TypeOK', Freeing
  PROVE  Registers' /\ NoPageLost'
<1>1. PICK s \in Slots \ {0, 1, current} :
        (\E stk : FreeSlot(s, stk)) /\ UNCHANGED current_user_pid
  BY DEF Freeing
<1>2. /\ \A t \in Slots \ {s} : table'[t] = table[t]
      /\ Owned(s)' = {}
  BY <1>1, FreedRow DEF Console
<1>3. /\ current' = current /\ cr3' = Cr3Without(table[s])
      /\ freePages' = freePages \cup Owned(s)
  BY <1>1 DEF FreeSlot, CurrentWithout, PagesFreed, MemoryOf, Owned
<1>4. current \in Slots
  BY TopRight
<1>5. cr3' = cr3
  <2>1. Owned(s) \cap Owned(current) = {}
    BY <1>4 DEF Console, PagesExclusive
  <2>2. table[s].pd # {} => table[s].pd # table[current].pd
    BY <2>1 DEF Owned
  <2> QED BY <1>3, <2>2 DEF Registers, LoadedPdLive, Cr3Without
<1>6. Registers'
  BY <1>1, <1>2, <1>3, <1>4, <1>5 DEF Registers, UserPidRight, LoadedPdLive
<1>7. \A t \in Slots \ {s} : Owned(t)' = Owned(t)
  BY <1>2 DEF Owned
<1>8. NoPageLost'
  <2>1. ASSUME NEW q \in Pages
        PROVE  q \in freePages' \/ \E t \in Slots : table'[t].in_use /\ q \in Owned(t)'
    <3>1. q \in freePages \/ \E t \in Slots : table[t].in_use /\ q \in Owned(t)
      BY LostFacts DEF Console
    <3> QED BY <1>2, <1>3, <1>7, <3>1
  <2> QED BY <2>1, FoundAgain
<1> QED BY <1>6, <1>8

LEMMA TakingKeeps ==
  ASSUME Console, Registers, NoPageLost, TypeOK', Taking
  PROVE  Registers' /\ NoPageLost'
<1>1. PICK s \in Slots, row \in ProcType :
         /\ ~table[s].in_use /\ row.in_use
         /\ row.kstack = {} /\ row.frames = {} /\ row.pd = {}
         /\ table' = [table EXCEPT ![s] = row]
         /\ UNCHANGED <<current, current_user_pid, cr3, freePages>>
  BY DEF Taking
<1>2. /\ \A t \in Slots \ {s} : table'[t] = table[t]
      /\ table'[s] = row
  BY <1>1 DEF Console, TypeOK
<1>3. current \in Slots \ {s}
  BY <1>1, TopRight
<1>4. Registers'
  BY <1>1, <1>2, <1>3 DEF Registers, UserPidRight, LoadedPdLive
<1>5. \A t \in Slots \ {s} : Owned(t)' = Owned(t)
  BY <1>2 DEF Owned
<1>6. NoPageLost'
  <2>1. ASSUME NEW q \in Pages
        PROVE  q \in freePages' \/ \E t \in Slots : table'[t].in_use /\ q \in Owned(t)'
    <3>1. q \in freePages \/ \E t \in Slots : table[t].in_use /\ q \in Owned(t)
      BY LostFacts DEF Console
    <3> QED BY <1>1, <1>2, <1>5, <3>1
  <2> QED BY <2>1, FoundAgain
<1> QED BY <1>4, <1>6

LEMMA ExitKeeps ==
  ASSUME Console, Registers, NoPageLost, TypeOK', NEW c \in Codes, SysExit(c)
  PROVE  Registers' /\ NoPageLost'
<1> DEFINE row == [user_free_memory(table[current]) EXCEPT !.exit_code = c]
<1>1. table \in [Slots -> ProcType] /\ current \in Slots /\ table[current] \in ProcType
  BY DEF Console, TypeOK
<1>2. /\ row.kstack = table[current].kstack /\ row.frames = {} /\ row.pd = {}
      /\ row.user = table[current].user /\ row.state = table[current].state
      /\ row.pid = table[current].pid /\ row.in_use = table[current].in_use
  BY <1>1 DEF user_free_memory, ProcType
<1>3. /\ table' = [table EXCEPT ![current] = row]
      /\ freePages' = freePages \cup MemoryOf(table[current])
      /\ current' = current /\ current_user_pid' = current_user_pid
      /\ cr3' = Cr3Without(table[current])
  BY DEF SysExit
<1> HIDE DEF row
<1>4. \A t \in Slots : IF t = current THEN table'[t] = row ELSE table'[t] = table[t]
  BY <1>1, <1>3
<1>5. Registers'
  BY <1>1, <1>2, <1>3, <1>4 DEF Registers, UserPidRight, LoadedPdLive, Cr3Without
<1>6. NoPageLost'
  <2>1. ASSUME NEW q \in Pages
        PROVE  q \in freePages' \/ \E t \in Slots : table'[t].in_use /\ q \in Owned(t)'
    <3>1. CASE q \in freePages
      BY <1>3, <3>1
    <3>2. ASSUME NEW t \in Slots, table[t].in_use, q \in Owned(t)
          PROVE  q \in freePages' \/ (q \in Owned(t)' /\ table'[t].in_use)
      BY <1>2, <1>3, <1>4, <3>2 DEF Owned, MemoryOf
    <3> QED BY <3>1, <3>2, LostFacts DEF Console
  <2> QED BY <2>1, FoundAgain
<1> QED BY <1>5, <1>6

LEMMA ExecveKeeps ==
  ASSUME Console, Registers, NoPageLost, TypeOK', SysExecve
  PROVE  Registers' /\ NoPageLost'
<1>1. PICK new \in SUBSET (freePages \cup table[current].frames) :
        /\ table' = [table EXCEPT ![current].frames = new]
        /\ freePages' = (freePages \cup table[current].frames) \ new
  BY ExecvePages DEF Console
<1>2. table \in [Slots -> ProcType] /\ current \in Slots
  BY DEF Console, TypeOK
<1>3. \A t \in Slots :
        /\ table'[t].kstack = table[t].kstack /\ table'[t].pd = table[t].pd
        /\ table'[t].frames = IF t = current THEN new ELSE table[t].frames
        /\ table'[t].user = table[t].user /\ table'[t].state = table[t].state
        /\ table'[t].pid = table[t].pid /\ table'[t].in_use = table[t].in_use
  BY <1>1, <1>2 DEF ProcType
<1>4. Registers'
  BY <1>2, <1>3 DEF SysExecve, cpuVars, Registers, UserPidRight, LoadedPdLive
<1>5. ASSUME NEW q \in Pages
      PROVE  q \in freePages' \/ \E t \in Slots : table'[t].in_use /\ q \in Owned(t)'
  <2>0. table'[current].in_use /\ table'[current].frames = new
    BY <1>2, <1>3, TopRight
  <2>1. ASSUME q \in freePages PROVE q \in freePages' \/ q \in Owned(current)'
    <3>1. q \in freePages' \/ q \in new
      BY <1>1, <2>1
    <3>2. current' = current
      BY DEF SysExecve, cpuVars
    <3> QED BY <2>0, <3>1, <3>2 DEF Owned
  <2>2. ASSUME NEW t \in Slots, table[t].in_use, q \in Owned(t)
        PROVE  q \in freePages' \/ (q \in Owned(t)' /\ table'[t].in_use)
    BY <1>1, <1>2, <1>3, <2>2 DEF Owned
  <2>3. current' = current
    BY DEF SysExecve, cpuVars
  <2>4. q \in freePages \/ \E t \in Slots : table[t].in_use /\ q \in Owned(t)
    BY LostFacts DEF Console
  <2> QED BY <1>2, <2>0, <2>1, <2>2, <2>3, <2>4
<1> QED BY <1>4, <1>5, FoundAgain

LEMMA BuildKeeps ==
  ASSUME Console, Registers, NoPageLost, TypeOK', SpawnBuild
  PROVE  Registers' /\ NoPageLost'
<1>1. PICK k, w, d \in SUBSET freePages :
        /\ table' = [table EXCEPT ![Top.p].kstack = k, ![Top.p].frames = w,
                                  ![Top.p].pd = d]
        /\ freePages' = freePages \ (k \cup w \cup d)
  BY BuildPages DEF Console
<1>2. /\ Top.p \in Slots /\ Top.p # current /\ table[Top.p].in_use /\ Owned(Top.p) = {}
      /\ table \in [Slots -> ProcType] /\ current \in Slots
  <2>1. FillsIn(current, Top) /\ Top.pc = "build" /\ Top \in FrameType
    BY TopRight DEF SpawnBuild, FrameRight
  <2> QED BY <2>1 DEF FillsIn, FrameType, Console, TypeOK
<1>3. \A t \in Slots :
        /\ table'[t].kstack = IF t = Top.p THEN k ELSE table[t].kstack
        /\ table'[t].frames = IF t = Top.p THEN w ELSE table[t].frames
        /\ table'[t].pd = IF t = Top.p THEN d ELSE table[t].pd
        /\ table'[t].user = table[t].user /\ table'[t].state = table[t].state
        /\ table'[t].pid = table[t].pid /\ table'[t].in_use = table[t].in_use
  BY <1>1, <1>2 DEF ProcType
<1>4. Registers'
  BY <1>2, <1>3 DEF SpawnBuild, cpuVars, Registers, UserPidRight, LoadedPdLive
<1>5. \A t \in Slots : Owned(t)' = IF t = Top.p THEN k \cup w \cup d ELSE Owned(t)
  BY <1>3 DEF Owned
<1>6. ASSUME NEW q \in Pages
      PROVE  q \in freePages' \/ \E t \in Slots : table'[t].in_use /\ q \in Owned(t)'
  <2>1. CASE q \in freePages
    BY <1>1, <1>2, <1>3, <1>5, <2>1
  <2>2. ASSUME NEW t \in Slots, table[t].in_use, q \in Owned(t)
        PROVE  q \in Owned(t)' /\ table'[t].in_use
    BY <1>2, <1>3, <1>5, <2>2
  <2> QED BY <2>1, <2>2, LostFacts DEF Console
<1> QED BY <1>4, <1>6, FoundAgain

(* Publishing a new program and turning into a zombie move no page. *)
LEMMA PublishKeeps ==
  ASSUME Console, Registers, NoPageLost, SpawnPublish \/ ExitZombie
  PROVE  Registers' /\ NoPageLost'
<1>1. table \in [Slots -> ProcType] /\ current \in Slots
  BY DEF Console, TypeOK
<1>2. CASE SpawnPublish
  <2>1. Top.p \in Slots /\ Top.p # current
    <3>1. FillsIn(current, Top) /\ Top \in FrameType
      BY <1>2, TopRight DEF SpawnPublish, FrameRight
    <3> QED BY <3>1 DEF FillsIn, FrameType
  <2>2. PICK b : table' = [table EXCEPT ![Top.p] = [@ EXCEPT
                    !.esp = TRUE, !.user = TRUE, !.state = "RUNNING", !.bg = b]]
    BY <1>2 DEF SpawnPublish
  <2>3. \A s \in Slots : /\ table'[s].kstack = table[s].kstack
                         /\ table'[s].frames = table[s].frames
                         /\ table'[s].pd = table[s].pd
                         /\ table'[s].in_use = table[s].in_use
    BY <1>1, <2>1, <2>2 DEF ProcType
  <2>4. table'[current] = table[current]
    BY <1>1, <2>1, <2>2
  <2>5. NoPageLost'
    BY <1>2, <2>3 DEF SpawnPublish, NoPageLost, Owned
  <2>6. Registers'
    BY <1>2, <2>4 DEF SpawnPublish, cpuVars, Registers, UserPidRight, LoadedPdLive
  <2> QED BY <2>5, <2>6
<1>3. CASE ExitZombie
  <2>1. table' = [table EXCEPT ![current].state = "ZOMBIE"]
    BY <1>3 DEF ExitZombie
  <2>2. \A s \in Slots : /\ table'[s].kstack = table[s].kstack
                         /\ table'[s].frames = table[s].frames
                         /\ table'[s].pd = table[s].pd
                         /\ table'[s].in_use = table[s].in_use
    BY <1>1, <2>1 DEF ProcType
  <2>3. table'[current].state = "ZOMBIE"
    BY <1>1, <2>1 DEF ProcType
  <2>4. NoPageLost'
    BY <1>3, <2>2 DEF ExitZombie, NoPageLost, Owned
  <2>5. Registers'
    BY <1>1, <1>3, <2>2, <2>3 DEF ExitZombie, Registers, UserPidRight, LoadedPdLive
  <2> QED BY <2>4, <2>5
<1> QED BY <1>2, <1>3

LEMMA ConsoleNext ==
  ASSUME Console, Registers, NoPageLost, RemoteCmds = {}, [Next]_vars
  PROVE  Console' /\ Registers' /\ NoPageLost'
<1>1. TypeOK' /\ PagesExclusive' /\ PidsUnique'
  BY TypeNext, ExclusiveNext, UniqueNext DEF Console
<1>2. Console'
  BY <1>1, KernelNext DEF Console, Registers, KernelRight
<1>3. CASE KernelStep
  BY <1>1, <1>3, QuietSteps, SwitchSteps, FreeingSteps, ReturningQuiet, QuietKeeps, SwitchingKeeps,
     FreeingKeeps, BuildKeeps, PublishKeeps, NoRemoteSteps, <1>2 DEF KernelStep
<1>4. CASE Syscall
  BY <1>1, <1>2, <1>4, QuietSteps, QuietKeeps, TakingSteps, TakingKeeps, ExitKeeps, ExecveKeeps
     DEF Syscall
<1>5. CASE ShellCommand
  BY <1>1, <1>2, <1>5, QuietSteps, QuietKeeps, TakingSteps, TakingKeeps, FreeingSteps,
     ReturningQuiet, FreeingKeeps DEF ShellCommand
<1>6. CASE Tick \/ GetkeyReturn \/ LegacyReturn
  BY <1>1, <1>2, <1>6, SwitchSteps, SwitchingKeeps, QuietSteps, QuietKeeps, FreeingSteps,
     ReturningQuiet, FreeingKeeps
<1>7. CASE UNCHANGED vars
  BY <1>2, <1>7 DEF vars, cpuVars, Registers, UserPidRight, LoadedPdLive, NoPageLost, Owned
<1> QED BY <1>3, <1>4, <1>5, <1>6, <1>7, NoRemoteSteps DEF Next

LEMMA ConsoleInit == ASSUME Init PROVE Console /\ Registers /\ NoPageLost
<1>0. PICK idle : idle = [pc |-> "idle", ph |-> "test", p |-> 0, pid |-> 0, t |-> 0, masked |-> FALSE]
  OBVIOUS
<1>1. TypeOK /\ {0, 1} \subseteq Slots
  BY TypeInit, ConstFacts
<1>2. /\ \A s \in Slots : /\ table[s].esp = FALSE /\ table[s].user = FALSE
                          /\ table[s].kstack = {} /\ table[s].frames = {} /\ table[s].pd = {}
                          /\ table[s].bg = FALSE
                          /\ table[s].in_use <=> s \in {0, 1}
                          /\ s \in {0, 1} => table[s].pid = s /\ table[s].state = "RUNNING"
      /\ \A s \in Slots \ {1} : stack[s] = <<>>
      /\ stack[1] = <<idle>> /\ current = 1
      /\ next_pid = 2 /\ current_user_pid = 0 /\ cr3 = {} /\ freePages = Pages
  BY <1>0, <1>1 DEF Init, EmptySlot
<1>3. PagesExclusive /\ PidsUnique
  BY <1>1, <1>2 DEF PagesExclusive, PidsUnique, Owned
<1>4. SystemSlots /\ Registers
  BY <1>1, <1>2 DEF SystemSlots, Registers, UserPidRight, LoadedPdLive
<1>5. Len(<<idle>>) = 1 /\ <<idle>>[1] = idle /\ idle.pc = "idle" /\ <<idle>> # <<>>
      /\ Last(<<idle>>) = idle /\ Len(<<>>) = 0
  BY <1>0 DEF Last
<1>6. ContextsRight
  BY <1>1, <1>2, <1>5 DEF ContextsRight, CurrentIsLive, Top
<1>7. StacksRight
  <2>1. \A i \in 1 .. 1 : i = 1
    OBVIOUS
  <2>2. FrameRight(1, 1)
    BY <1>2, <1>5 DEF FrameRight, Making
  <2>3. \A s \in Slots \ {1} : \A i \in 1 .. Len(stack[s]) : FALSE
    BY <1>2, <1>5
  <2>4. \A i \in 1 .. Len(stack[1]) : FrameRight(1, i)
    <3>1. Len(stack[1]) = 1
      BY <1>2, <1>5, Zenon
    <3> QED BY <2>1, <2>2, <3>1
  <2> QED BY <2>3, <2>4 DEF StacksRight
<1>8. NoPageLost
  BY <1>1, <1>2, LostFacts
<1> QED BY <1>1, <1>3, <1>4, <1>6, <1>7, <1>8 DEF Console

-----------------------------------------------------------------------------
(* With commands from the console only, at every moment: the current        *)
(* process is in use and has a context, the page directory the CPU works on *)
(* is that process's own, current_user_pid names the program that runs, and *)
(* what a shell command is creating is the shell's child.                   *)
THEOREM ConsoleRunsRight == ASSUME RemoteCmds = {} PROVE Spec => []RunningRight
<1> DEFINE Inv == Console /\ Registers /\ NoPageLost
<1>1. Init => Inv
  BY ConsoleInit
<1>2. Inv /\ [Next]_vars => Inv'
  BY ConsoleNext
<1>3. Inv => RunningRight
  <2> SUFFICES ASSUME Inv PROVE RunningRight
    OBVIOUS
  <2>1. ShellIsParent
    <3> SUFFICES ASSUME NEW s \in Slots, NEW i \in DOMAIN stack[s],
                        stack[s][i].pc = "build", stack[s][i].ph # "fork"
                 PROVE  table[stack[s][i].p].ppid = 1
      BY DEF ShellIsParent
    <3>1. stack[s] \in Seq(FrameType)
      BY DEF Console, TypeOK
    <3>2. i \in 1 .. Len(stack[s])
      BY <3>1, LenProperties
    <3>3. FrameRight(s, i)
      BY <3>2 DEF Console, StacksRight
    <3> QED BY <3>3 DEF FrameRight, FillsIn
  <2> QED BY <2>1 DEF RunningRight, Console, ContextsRight, Registers
<1> QED BY <1>1, <1>2, <1>3, PTL DEF Spec

(* With commands from the console only, no page is lost: whatever is not on *)
(* the free lists belongs to a slot in use, through failed creations, kills *)
(* and exits alike.                                                         *)
THEOREM ConsoleLosesNoPage == ASSUME RemoteCmds = {} PROVE Spec => []NoPageLost
<1> DEFINE Inv == Console /\ Registers /\ NoPageLost
<1>1. Init => Inv
  BY ConsoleInit
<1>2. Inv /\ [Next]_vars => Inv'
  BY ConsoleNext
<1> QED BY <1>1, <1>2, PTL DEF Spec

-----------------------------------------------------------------------------
(***************************************************************************)
(* On top of that invariant: the timer misses no sleeper, and the table    *)
(* implements ProcessLife.                                                 *)
(*                                                                         *)
(* The second needs LifeRight: what the shell's command in progress holds  *)
(* on to is still its own, and a zombie's row has the code it exited with. *)
(* Most steps are Calm: they touch neither rows, pids nor commands.        *)
(***************************************************************************)

(* Wrapping differences of tick counts. *)
LEMMA ModBase == ASSUME NEW M \in Nat, M > 0, NEW x \in 0 .. M - 1 PROVE x % M = x
OBVIOUS

LEMMA ModNeg ==
  ASSUME NEW M \in Nat, M > 0, NEW x \in Int, -M <= x, x < 0 PROVE x % M = x + M
OBVIOUS

LEMMA ModOver ==
  ASSUME NEW M \in Nat, M > 0, NEW x \in Int, M <= x, x < 2 * M PROVE x % M = x - M
OBVIOUS

LEMMA TickModFacts ==
  /\ TickMod \in Nat /\ TickMod > 0 /\ TickMod \div 2 \in Nat
  /\ 2 * (TickMod \div 2) = TickMod
BY ProcessAssumption

(* A deadline that the timer's comparison calls future lies at most half    *)
(* the counter's range ahead.                                               *)
LEMMA FutureDeadline ==
  ASSUME NEW now \in Ticks, NEW wake \in Ticks,
         ~((now - wake) % TickMod < TickMod \div 2)
  PROVE  (wake - now) % TickMod \in 1 .. (TickMod \div 2)
<1>1. now \in 0 .. TickMod - 1 /\ wake \in 0 .. TickMod - 1
  BY DEF Ticks
<1>2. PICK M, H \in Nat : M = TickMod /\ H = TickMod \div 2 /\ M > 0 /\ 2 * H = M
  BY TickModFacts
<1>3. now \in Int /\ wake \in Int /\ now - wake \in Int /\ wake - now \in Int
      /\ 0 <= now /\ now < M /\ 0 <= wake /\ wake < M
  BY <1>1, <1>2
<1>4. CASE wake <= now
  <2>1. now - wake \in 0 .. M - 1
    BY <1>2, <1>3, <1>4
  <2>2. (now - wake) % M = now - wake
    BY <1>2, <2>1, ModBase
  <2>3. now - wake >= H /\ now - wake > 0
    BY <1>2, <1>3, <2>2
  <2>4. (wake - now) % M = wake - now + M
    BY <1>2, <1>3, <2>3, ModNeg
  <2> QED BY <1>2, <1>3, <2>3, <2>4
<1>5. CASE wake > now
  <2>1. (now - wake) % M = now - wake + M
    BY <1>2, <1>3, <1>5, ModNeg
  <2>2. now - wake + M >= H
    BY <1>2, <1>3, <2>1
  <2>3. wake - now \in 0 .. M - 1
    BY <1>2, <1>3, <1>5
  <2>4. (wake - now) % M = wake - now
    BY <1>2, <2>3, ModBase
  <2> QED BY <1>2, <1>3, <1>5, <2>2, <2>4
<1> QED BY <1>3, <1>4, <1>5

(* The deadline sys_sleep stores is as far ahead as was asked for. *)
LEMMA NewDeadline ==
  ASSUME NEW now \in Ticks, NEW t \in SleepTicks
  PROVE  (((now + t) % TickMod) - now) % TickMod \in 1 .. (TickMod \div 2)
<1>1. PICK M, H \in Nat : M = TickMod /\ H = TickMod \div 2 /\ M > 0 /\ 2 * H = M
  BY TickModFacts
<1>2. now \in Int /\ 0 <= now /\ now < M /\ t \in Int /\ 1 <= t /\ t < H
  BY <1>1, ProcessAssumption DEF Ticks
<1>3. CASE now + t < M
  <2>1. (now + t) % M = now + t
    BY <1>1, <1>2, <1>3, ModBase
  <2>2. now + t - now = t /\ t \in 0 .. M - 1
    BY <1>1, <1>2
  <2>3. t % M = t
    BY <1>1, <2>2, ModBase
  <2> QED BY <1>1, <1>2, <2>1, <2>2, <2>3
<1>4. CASE now + t >= M
  <2>1. (now + t) % M = now + t - M
    BY <1>1, <1>2, <1>4, ModOver
  <2>2. now + t - M - now = t - M /\ t - M \in Int /\ -M <= t - M /\ t - M < 0
    BY <1>1, <1>2
  <2>3. (t - M) % M = t - M + M
    BY <1>1, <2>2, ModNeg
  <2> QED BY <1>1, <1>2, <2>1, <2>2, <2>3
<1> QED BY <1>1, <1>2, <1>3, <1>4

-----------------------------------------------------------------------------
(* Whether some activation of a stack waits in sys_sleep, deadline set. *)

Armed(f) == f.pc = "sleep" /\ f.ph # "arm"
Asleep(q) == \E i \in 1 .. Len(q) : Armed(q[i])

LEMMA AsleepFrames ==
  ASSUME NEW s, stack[s] \in Seq(FrameType)
  PROVE  SleepFrames(s) # {} <=> Asleep(stack[s])
<1>1. DOMAIN stack[s] = 1 .. Len(stack[s])
  BY LenProperties
<1> QED BY <1>1 DEF SleepFrames, Asleep, Armed

LEMMA PushAsleep ==
  ASSUME NEW stk \in Stacks, NEW s \in Slots, NEW f \in FrameType, ~Armed(f),
         NEW t \in Slots, Asleep(Push(stk, s, f)[t])
  PROVE  Asleep(stk[t])
<1>1. CASE t # s
  BY <1>1, PushFacts
<1>2. CASE t = s
  <2>1. PICK i \in 1 .. Len(Push(stk, s, f)[s]) : Armed(Push(stk, s, f)[s][i])
    BY <1>2 DEF Asleep
  <2>2. Len(stk[s]) \in Nat
    BY DEF Stacks
  <2>3. i \in 1 .. Len(stk[s]) \/ i = Len(stk[s]) + 1
    BY <2>2, PushFacts
  <2>4. i \in 1 .. Len(stk[s]) /\ Armed(stk[s][i])
    BY <2>1, <2>3, PushFacts
  <2> QED BY <1>2, <2>4 DEF Asleep
<1> QED BY <1>1, <1>2

LEMMA PopAsleep ==
  ASSUME NEW stk \in Stacks, NEW s \in Slots, stk[s] # <<>>,
         NEW t \in Slots, Asleep(Pop(stk, s)[t])
  PROVE  Asleep(stk[t])
<1>1. CASE t # s
  BY <1>1, PopFacts
<1>2. CASE t = s
  <2>1. PICK i \in 1 .. Len(Pop(stk, s)[s]) : Armed(Pop(stk, s)[s][i])
    BY <1>2 DEF Asleep
  <2>2. Len(stk[s]) \in Nat
    BY DEF Stacks
  <2>3. i \in 1 .. Len(stk[s]) - 1 /\ i \in 1 .. Len(stk[s])
    BY <2>2, PopFacts
  <2>4. Armed(stk[s][i])
    BY <2>1, <2>3, PopFacts
  <2> QED BY <1>2, <2>3, <2>4 DEF Asleep
<1> QED BY <1>1, <1>2

LEMMA SetTopAsleep ==
  ASSUME NEW stk \in Stacks, NEW s \in Slots, stk[s] # <<>>, NEW f \in FrameType,
         Armed(f) => Armed(Last(stk[s])),
         NEW t \in Slots, Asleep(SetTop(stk, s, f)[t])
  PROVE  Asleep(stk[t])
<1>1. CASE t # s
  BY <1>1, SetTopFacts
<1>2. CASE t = s
  <2>1. PICK i \in 1 .. Len(SetTop(stk, s, f)[s]) : Armed(SetTop(stk, s, f)[s][i])
    BY <1>2 DEF Asleep
  <2>2. Len(stk[s]) \in Nat /\ Last(stk[s]) = stk[s][Len(stk[s])]
    BY FrontFacts DEF Stacks
  <2>3. i \in 1 .. Len(stk[s]) /\ (i \in 1 .. Len(stk[s]) - 1 \/ i = Len(stk[s]))
    BY <2>2, SetTopFacts
  <2>4. Armed(stk[s][i])
    <3>1. CASE i \in 1 .. Len(stk[s]) - 1
      BY <2>1, <3>1, SetTopFacts
    <3>2. CASE i = Len(stk[s])
      BY <2>1, <2>2, <3>2, SetTopFacts
    <3> QED BY <2>3, <3>1, <3>2
  <2> QED BY <1>2, <2>3, <2>4 DEF Asleep
<1> QED BY <1>1, <1>2

-----------------------------------------------------------------------------
(* A step between ticks: whoever is asleep after it was so before, with the *)
(* same deadline.                                                           *)

Sleeps(s) == table[s].in_use /\ table[s].state = "SLEEPING" /\ Asleep(stack[s])
StaysAsleep(s) ==
  Sleeps(s)' => Sleeps(s) /\ table'[s].wake_tick = table[s].wake_tick

LEMMA NoOversleepFolded ==
  ASSUME TypeOK
  PROVE  NoOversleep <=> \A s \in Slots : Sleeps(s) =>
           (table[s].wake_tick - pit_ticks) % TickMod \in 1 .. (TickMod \div 2)
<1>1. \A s \in Slots : SleepFrames(s) # {} <=> Asleep(stack[s])
  BY AsleepFrames DEF TypeOK
<1> QED BY <1>1 DEF NoOversleep, Sleeps

LEMMA NoOversleepFoldedNext ==
  ASSUME TypeOK', \A s \in Slots : Sleeps(s)' =>
           (table'[s].wake_tick - pit_ticks') % TickMod \in 1 .. (TickMod \div 2)
  PROVE  NoOversleep'
<1>1. ASSUME NEW s \in Slots PROVE SleepFrames(s)' # {} <=> Asleep(stack'[s])
  <2>1. stack'[s] \in Seq(FrameType)
    BY DEF TypeOK
  <2>2. DOMAIN stack'[s] = 1 .. Len(stack'[s])
    BY <2>1, LenProperties
  <2> QED BY <2>2 DEF SleepFrames, Asleep, Armed
<1> QED BY <1>1 DEF NoOversleep, Sleeps

LEMMA AsleepKept ==
  ASSUME TypeOK, TypeOK', NoOversleep, pit_ticks' = pit_ticks,
         \A s \in Slots : StaysAsleep(s)
  PROVE  NoOversleep'
BY NoOversleepFolded, NoOversleepFoldedNext DEF StaysAsleep

(* Steps that leave the table alone and call, return or change phase. *)
LEMMA PlainAsleep ==
  ASSUME Console,
         \/ Yield \/ SleepReturn \/ SysGetkey \/ GetkeyReturn \/ Returning
         \/ \E pid \in Pids : SysWaitpid(pid) \/ CmdWait(pid)
  PROVE  \A s \in Slots : StaysAsleep(s)
<1>1. current \in Slots /\ stack \in Stacks /\ stack[current] # <<>> /\ Top \in FrameType
      /\ Last(stack[current]) = Top
  BY TopRight DEF Top
<1>2. table' = table
  BY DEF Yield, SleepReturn, SysGetkey, GetkeyReturn, SysWaitpid, CmdWait, OnlyStackChanges,
         Returning, JustReturn
<1>3. ASSUME NEW s \in Slots, Asleep(stack'[s]) PROVE Asleep(stack[s])
  <2>1. CASE SleepReturn \/ GetkeyReturn \/ Returning
    BY <1>1, <1>3, <2>1, PopAsleep DEF SleepReturn, GetkeyReturn, Returning, JustReturn
  <2>2. CASE SysGetkey
    <3>1. Frame("getkey", "test") \in FrameType /\ ~Armed(Frame("getkey", "test"))
      BY FrameMade DEF Console, Frame, Armed
    <3> QED BY <1>1, <1>3, <2>2, <3>1, PushAsleep DEF SysGetkey
  <2>3. ASSUME NEW pid \in Pids, SysWaitpid(pid) PROVE Asleep(stack[s])
    <3>1. PICK f : f = [Frame("waitpid", "test") EXCEPT !.pid = pid]
      OBVIOUS
    <3>2. f \in FrameType /\ ~Armed(f)
      <4>1. Frame("waitpid", "test") \in FrameType /\ Frame("waitpid", "test").pc = "waitpid"
        BY FrameMade DEF Console, Frame
      <4> QED BY <3>1, <4>1 DEF FrameType, Armed
    <3> QED BY <1>1, <1>3, <2>3, <3>1, <3>2, PushAsleep DEF SysWaitpid
  <2>4. ASSUME NEW pid \in Pids, CmdWait(pid) PROVE Asleep(stack[s])
    <3>1. PICK f : f = WaitFrame(WaitTarget(pid), pit_ticks, ~intr)
      OBVIOUS
    <3>2. f \in FrameType /\ ~Armed(f)
      BY <2>4, <3>1, WaitFrameType DEF CmdWait, Console, TypeOK, WaitFrame, Frame, Armed
    <3> QED BY <1>1, <1>3, <2>4, <3>1, <3>2, PushAsleep DEF CmdWait
  <2>5. CASE Yield
    <3>1. PICK h : h = [Top EXCEPT !.ph = "hlt"]
      OBVIOUS
    <3>2. PICK g : g = [Frame("sched", "test") EXCEPT !.p = SchedPick(table)]
      OBVIOUS
    <3>3. PICK halt : halt = SetTop(stack, current, h)
      OBVIOUS
    <3>4. h \in FrameType /\ (Armed(h) => Armed(Top))
      BY <1>1, <2>5, <3>1 DEF FrameType, Armed, Yield
    <3>5. g \in FrameType /\ ~Armed(g)
      <4>1. Frame("sched", "test") \in FrameType /\ Frame("sched", "test").pc = "sched"
        BY FrameMade DEF Console, Frame
      <4>2. SchedPick(table) \in Slots
        BY PickType DEF Console, TypeOK, Tables
      <4> QED BY <3>2, <4>1, <4>2 DEF FrameType, Armed
    <3>6. halt \in Stacks /\ (Asleep(halt[s]) => Asleep(stack[s]))
      BY <1>1, <3>3, <3>4, SetTopFacts, SetTopAsleep
    <3>7. stack' = halt \/ stack' = Push(halt, current, g)
      BY <2>5, <3>1, <3>2, <3>3 DEF Yield
    <3> QED BY <1>1, <1>3, <3>5, <3>6, <3>7, PushAsleep
  <2> QED BY <2>1, <2>2, <2>3, <2>4, <2>5
<1> QED BY <1>2, <1>3 DEF StaysAsleep, Sleeps

LEMMA SwitchAsleep == ASSUME Console, Switch PROVE \A s \in Slots : StaysAsleep(s)
<1>1. current \in Slots /\ stack \in Stacks /\ Top.p \in Slots
  BY TopRight DEF FrameType
<1>2. \A s \in Slots : /\ table'[s].in_use = table[s].in_use
                       /\ table'[s].state = table[s].state
                       /\ table'[s].wake_tick = table[s].wake_tick
  BY <1>1 DEF Switch, SwitchTo, Console, TypeOK, ProcType
<1>3. ASSUME NEW s \in Slots, Asleep(stack'[s]) PROVE Asleep(stack[s])
  <2>1. \/ stack[Top.p] # <<>> /\ stack' = Pop(stack, Top.p)
        \/ stack' = stack
    BY DEF Switch, SwitchTo
  <2> QED BY <1>1, <1>3, <2>1, PopAsleep
<1> QED BY <1>2, <1>3 DEF StaysAsleep, Sleeps

LEMMA FreeingAsleep == ASSUME Console, Freeing PROVE \A s \in Slots : StaysAsleep(s)
<1>1. PICK z \in Slots \ {0, 1, current}, stk \in {stack, Pop(stack, current)} : FreeSlot(z, stk)
  BY DEF Freeing
<1>2. /\ current \in Slots /\ stack \in Stacks /\ stack[current] # <<>>
  BY TopRight
<1>3. stk \in Stacks /\ \A s \in Slots : Asleep(stk[s]) => Asleep(stack[s])
  BY <1>1, <1>2, PopFacts, PopAsleep
<1>4. /\ \A t \in Slots \ {z} : table'[t] = table[t]
      /\ ~table'[z].in_use
  BY <1>1, FreedRow DEF Console
<1>5. \A t \in Slots \ {z} : stack'[t] = stk[t]
  BY <1>1, <1>3 DEF FreeSlot, StackWithout, Stacks
<1> QED BY <1>3, <1>4, <1>5 DEF StaysAsleep, Sleeps

LEMMA TakingAsleep ==
  ASSUME Console,
         \/ SysFork \/ \E kind \in {"run3fg", "run3bg"} : CmdRun3(kind)
         \/ \E bg \in BOOLEAN : CmdRun(bg)
  PROVE  \A s \in Slots : StaysAsleep(s)
<1>1. CanAlloc
  BY DEF SysFork, CmdRun3, CmdRun, SpawnAlloc
<1>2. PICK z : z = Min(FreeSlots)
  OBVIOUS
<1>3. PICK row : /\ row = process_alloc \/ \E bg \in BOOLEAN : row = [process_alloc EXCEPT !.bg = bg]
                 /\ table' = [table EXCEPT ![z] = row]
  BY <1>2 DEF SysFork, CmdRun3, CmdRun, SpawnAlloc
<1>4. process_alloc \in ProcType /\ process_alloc.state = "RUNNING" /\ z \in Slots
      /\ next_pid \in Pids
  BY <1>1, <1>2, AllocRow
<1>5. row.state = "RUNNING"
  BY <1>3, <1>4 DEF ProcType
<1>6. table'[z] = row /\ \A s \in Slots \ {z} : table'[s] = table[s]
  BY <1>3, <1>4 DEF Console, TypeOK
<1>7. PICK kind \in {"fork", "run3fg", "run3bg"} : \E f :
        /\ \/ f = [Frame("build", kind) EXCEPT !.p = z, !.pid = next_pid, !.masked = ~intr]
           \/ f = [Frame("legacy", "test") EXCEPT !.pid = next_pid]
        /\ stack' = Push(stack, current, f)
  BY <1>2 DEF SysFork, CmdRun3, CmdRun, SpawnAlloc
<1>f. PICK f :
        /\ \/ f = [Frame("build", kind) EXCEPT !.p = z, !.pid = next_pid, !.masked = ~intr]
           \/ f = [Frame("legacy", "test") EXCEPT !.pid = next_pid]
        /\ stack' = Push(stack, current, f)
  BY <1>7
<1>8. f \in FrameType /\ ~Armed(f)
  <2>1. /\ Frame("build", kind) \in FrameType /\ Frame("build", kind).pc = "build"
        /\ Frame("legacy", "test") \in FrameType /\ Frame("legacy", "test").pc = "legacy"
    BY FrameMade DEF Console, Frame
  <2>2. (~intr) \in BOOLEAN
    OBVIOUS
  <2> QED BY <1>4, <1>f, <2>1, <2>2 DEF FrameType, Armed
<1>9. \A s \in Slots : Asleep(stack'[s]) => Asleep(stack[s])
  BY <1>f, <1>8, TopRight, PushAsleep
<1> QED BY <1>5, <1>6, <1>9 DEF StaysAsleep, Sleeps

LEMMA ExitAsleep ==
  ASSUME Console, ExitZombie \/ \E c \in Codes : SysExit(c)
  PROVE  \A s \in Slots : StaysAsleep(s)
<1>1. current \in Slots /\ stack \in Stacks /\ stack[current] # <<>> /\ Top \in FrameType
      /\ table \in [Slots -> ProcType] /\ table[current] \in ProcType
  BY TopRight DEF Console, TypeOK
<1>2. ASSUME NEW s \in Slots
      PROVE  /\ table'[s].in_use = table[s].in_use
             /\ table'[s].state = "SLEEPING" => table[s].state = "SLEEPING"
             /\ table'[s].wake_tick = table[s].wake_tick
  <2>1. CASE ExitZombie
    BY <1>1, <2>1 DEF ExitZombie, ProcType
  <2>2. ASSUME NEW c \in Codes, SysExit(c)
        PROVE  /\ table'[s].in_use = table[s].in_use /\ table'[s].state = table[s].state
               /\ table'[s].wake_tick = table[s].wake_tick
    <3>1. PICK row : row = [user_free_memory(table[current]) EXCEPT !.exit_code = c]
      OBVIOUS
    <3>2. /\ row.in_use = table[current].in_use /\ row.state = table[current].state
          /\ row.wake_tick = table[current].wake_tick
      BY <1>1, <3>1 DEF user_free_memory, ProcType
    <3>3. table' = [table EXCEPT ![current] = row]
      BY <2>2, <3>1 DEF SysExit
    <3> QED BY <1>1, <3>2, <3>3
  <2> QED BY <2>1, <2>2
<1>3. PICK f \in FrameType : ~Armed(f) /\ stack' = SetTop(stack, current, f)
  <2>1. CASE ExitZombie
    <3>1. PICK f : f = [Top EXCEPT !.ph = "test"]
      OBVIOUS
    <3>2. f \in FrameType /\ ~Armed(f)
      BY <1>1, <2>1, <3>1 DEF ExitZombie, At, FrameType, Armed
    <3> QED BY <2>1, <3>1, <3>2 DEF ExitZombie
  <2>2. ASSUME NEW c \in Codes, SysExit(c)
        PROVE  \E f \in FrameType : ~Armed(f) /\ stack' = SetTop(stack, current, f)
    <3>1. Frame("exit", "free") \in FrameType /\ ~Armed(Frame("exit", "free"))
      BY FrameMade DEF Console, Frame, Armed
    <3> QED BY <2>2, <3>1 DEF SysExit
  <2> QED BY <2>1, <2>2
<1>4. \A s \in Slots : Asleep(stack'[s]) => Asleep(stack[s])
  BY <1>1, <1>3, SetTopAsleep
<1> QED BY <1>2, <1>4 DEF StaysAsleep, Sleeps

LEMMA MakingAsleep ==
  ASSUME Console, SysExecve \/ SpawnBuild \/ SpawnPublish
  PROVE  \A s \in Slots : StaysAsleep(s)
<1>1. current \in Slots /\ stack \in Stacks /\ stack[current] # <<>> /\ Top \in FrameType
      /\ table \in [Slots -> ProcType] /\ Top.p \in Slots
  BY TopRight DEF Console, TypeOK, FrameType
<1>2. CASE SysExecve
  <2>1. \E new : table' = [table EXCEPT ![current].frames = new]
    BY <1>2 DEF SysExecve
  <2>2. \A s \in Slots : /\ table'[s].in_use = table[s].in_use
                         /\ table'[s].state = table[s].state
                         /\ table'[s].wake_tick = table[s].wake_tick
    BY <1>1, <2>1 DEF ProcType
  <2> QED BY <1>2, <2>2 DEF SysExecve, StaysAsleep, Sleeps
<1>3. CASE SpawnBuild
  <2>1. \E k, w, d : table' = [table EXCEPT ![Top.p].kstack = k, ![Top.p].frames = w,
                                            ![Top.p].pd = d]
    BY <1>3 DEF SpawnBuild
  <2>2. \A s \in Slots : /\ table'[s].in_use = table[s].in_use
                         /\ table'[s].state = table[s].state
                         /\ table'[s].wake_tick = table[s].wake_tick
    BY <1>1, <2>1 DEF ProcType
  <2>3. PICK f : f = [Top EXCEPT !.pc = "publish"]
    OBVIOUS
  <2>4. f \in FrameType /\ ~Armed(f)
    BY <1>1, <2>3 DEF FrameType, Armed
  <2>5. stack' = SetTop(stack, current, f)
    BY <1>3, <2>3 DEF SpawnBuild
  <2>6. \A s \in Slots : Asleep(stack'[s]) => Asleep(stack[s])
    BY <1>1, <2>4, <2>5, SetTopAsleep
  <2> QED BY <2>2, <2>6 DEF StaysAsleep, Sleeps
<1>4. CASE SpawnPublish
  <2>1. PICK b : table' = [table EXCEPT ![Top.p] = [@ EXCEPT !.esp = TRUE, !.user = TRUE,
                                                     !.state = "RUNNING", !.bg = b]]
    BY <1>4 DEF SpawnPublish
  <2>2. table'[Top.p].state = "RUNNING" /\ \A s \in Slots \ {Top.p} : table'[s] = table[s]
    BY <1>1, <2>1 DEF ProcType
  <2>3. PICK r : r = [Top EXCEPT !.pc = "run3", !.ph = "test", !.p = process_get(table, Top.pid)]
    OBVIOUS
  <2>4. PICK after : /\ \E g : stack' = [after EXCEPT ![Top.p] = <<g>>]
                     /\ \/ Exists(table, Top.pid) /\ after = SetTop(stack, current, r)
                        \/ after = Pop(stack, current)
    BY <1>4, <2>3 DEF SpawnPublish
  <2>5. Exists(table, Top.pid) => r \in FrameType /\ ~Armed(r)
    <3>1. Exists(table, Top.pid) => process_get(table, Top.pid) \in Slots
      BY SystemPid
    <3> QED BY <1>1, <2>3, <3>1 DEF FrameType, Armed
  <2>6. after \in Stacks /\ \A s \in Slots : Asleep(after[s]) => Asleep(stack[s])
    BY <1>1, <2>4, <2>5, SetTopFacts, PopFacts, SetTopAsleep, PopAsleep
  <2>7. \A s \in Slots \ {Top.p} : stack'[s] = after[s]
    BY <1>1, <2>4, <2>6 DEF Stacks
  <2> QED BY <2>2, <2>6, <2>7 DEF StaysAsleep, Sleeps
<1> QED BY <1>2, <1>3, <1>4

(* sys_sleep, in its two steps. *)
LEMMA SysSleepAsleep ==
  ASSUME Console, NEW n \in SleepTicks, SysSleep(n)
  PROVE  \A s \in Slots : StaysAsleep(s)
<1>1. /\ current \in Slots /\ stack \in Stacks /\ Top.pc = "user"
      /\ Top = stack[current][Len(stack[current])]
      /\ FrameRight(current, Len(stack[current])) /\ table \in [Slots -> ProcType]
  BY TopRight DEF SysSleep, InUser, Console, TypeOK
<1>2. Len(stack[current]) = 1
  BY <1>1 DEF FrameRight
<1>3. ~Asleep(stack[current])
  <2>1. \A i \in 1 .. 1 : i = 1
    OBVIOUS
  <2>2. ~Armed(stack[current][1])
    BY <1>1, <1>2 DEF Armed
  <2> QED BY <1>2, <2>1, <2>2 DEF Asleep
<1>4. PICK f : f = [Frame("sleep", "arm") EXCEPT !.t = n]
  OBVIOUS
<1>5. f \in FrameType /\ ~Armed(f)
  <2>1. Frame("sleep", "arm") \in FrameType /\ Frame("sleep", "arm").ph = "arm"
    BY FrameMade DEF Console, Frame
  <2>2. n \in Ticks
    BY ConstFacts
  <2> QED BY <1>4, <2>1, <2>2 DEF FrameType, Armed
<1>6. stack' = Push(stack, current, f) /\ table' = [table EXCEPT ![current].state = "SLEEPING"]
  BY <1>4 DEF SysSleep
<1>7. \A s \in Slots : Asleep(stack'[s]) => Asleep(stack[s])
  BY <1>1, <1>5, <1>6, PushAsleep
<1>8. \A s \in Slots \ {current} : table'[s] = table[s]
  BY <1>1, <1>6
<1> QED BY <1>3, <1>7, <1>8 DEF StaysAsleep, Sleeps

LEMMA SleepArmOnTime ==
  ASSUME Console, TypeOK', NoOversleep, SleepArm
  PROVE  NoOversleep'
<1>1. /\ current \in Slots /\ stack \in Stacks /\ stack[current] # <<>> /\ Top \in FrameType
      /\ Last(stack[current]) = Top /\ Top.pc = "sleep" /\ Top.ph = "arm"
      /\ Top.t \in SleepTicks /\ table \in [Slots -> ProcType]
  BY TopRight DEF SleepArm, At, Top, FrameRight, Console, TypeOK
<1>2. /\ table' = [table EXCEPT ![current].wake_tick = (pit_ticks + Top.t) % TickMod]
      /\ pit_ticks' = pit_ticks /\ pit_ticks \in Ticks
      /\ stack' = SetTop(stack, current, [Top EXCEPT !.ph = "test"])
  BY DEF SleepArm, timeVars, Console, TypeOK
<1>3. [Top EXCEPT !.ph = "test"] \in FrameType
  BY <1>1 DEF FrameType
<1>4. /\ \A s \in Slots \ {current} : table'[s] = table[s] /\ stack'[s] = stack[s]
      /\ table'[current].wake_tick = (pit_ticks + Top.t) % TickMod
  <2>1. \A s \in Slots \ {current} : stack'[s] = stack[s]
    BY <1>1, <1>2, <1>3, SetTopFacts
  <2> QED BY <1>1, <1>2, <2>1 DEF ProcType
<1>5. (table'[current].wake_tick - pit_ticks) % TickMod \in 1 .. (TickMod \div 2)
  BY <1>1, <1>2, <1>4, NewDeadline
<1>6. ASSUME NEW s \in Slots, Sleeps(s)'
      PROVE  (table'[s].wake_tick - pit_ticks') % TickMod \in 1 .. (TickMod \div 2)
  <2>1. CASE s = current
    BY <1>2, <1>5, <2>1
  <2>2. CASE s # current
    <3>1. Sleeps(s)
      BY <1>4, <1>6, <2>2 DEF Sleeps
    <3> QED BY <1>2, <1>4, <2>2, <3>1, NoOversleepFolded DEF Console
  <2> QED BY <2>1, <2>2
<1> QED BY <1>6, NoOversleepFoldedNext

(* The timer: whoever it leaves asleep has a deadline in the future. *)
LEMMA TickOnTime == ASSUME Console, TypeOK', Tick PROVE NoOversleep'
<1>1. /\ pit_ticks' = Now /\ Now \in Ticks /\ TickRest(table, stack, Now)
      /\ table \in [Slots -> ProcType] /\ current \in Slots
  BY CountDownType DEF Tick, Console, TypeOK
<1>2. PICK woken \in Tables : woken = Wake(table, Now) /\ RowsKept(woken)
  BY CountDownType, WakeKeeps DEF Console
<1>3. table' = woken \/ table' = [woken EXCEPT ![current].esp = TRUE]
  BY <1>1, <1>2 DEF TickRest, SwitchTo
<1>4. \A s \in Slots : /\ table'[s].in_use = woken[s].in_use
                       /\ table'[s].state = woken[s].state
                       /\ table'[s].wake_tick = woken[s].wake_tick
  BY <1>1, <1>3 DEF Tables, ProcType
<1>5. ASSUME NEW s \in Slots, woken[s].in_use, woken[s].state = "SLEEPING"
      PROVE  (woken[s].wake_tick - Now) % TickMod \in 1 .. (TickMod \div 2)
  <2>1. table[s].in_use /\ table[s].state = "SLEEPING" /\ woken[s].wake_tick = table[s].wake_tick
    BY <1>2, <1>5 DEF RowsKept
  <2>2. table[s].wake_tick \in Ticks /\ table[s] \in ProcType
    BY <1>1 DEF ProcType
  <2>3. ~((Now - table[s].wake_tick) % TickMod < TickMod \div 2)
    <3> SUFFICES ASSUME (Now - table[s].wake_tick) % TickMod < TickMod \div 2 PROVE FALSE
      OBVIOUS
    <3>1. woken[s] = [table[s] EXCEPT !.state = "RUNNING"]
      BY <1>2, <2>1 DEF Wake
    <3> QED BY <1>5, <2>2, <3>1 DEF ProcType
  <2> QED BY <1>1, <2>1, <2>2, <2>3, FutureDeadline
<1>6. ASSUME NEW s \in Slots, Sleeps(s)'
      PROVE  (table'[s].wake_tick - pit_ticks') % TickMod \in 1 .. (TickMod \div 2)
  BY <1>1, <1>4, <1>5, <1>6 DEF Sleeps
<1> QED BY <1>6, NoOversleepFoldedNext

LEMMA OnTimeNext ==
  ASSUME Console, Registers, NoPageLost, NoOversleep, RemoteCmds = {}, [Next]_vars
  PROVE  NoOversleep'
<1>1. TypeOK /\ TypeOK'
  BY TypeNext DEF Console
<1>2. CASE KernelStep
  <2>1. CASE \/ Yield \/ Switch \/ SleepReturn \/ ExitZombie
             \/ SpawnBuild \/ SpawnPublish
    <3>1. pit_ticks' = pit_ticks
      BY <2>1 DEF Yield, Switch, SleepReturn, ExitZombie, SpawnBuild, SpawnPublish,
                  OnlyStackChanges, timeVars
    <3> QED BY <1>1, <2>1, <3>1, AsleepKept, PlainAsleep, SwitchAsleep, ExitAsleep, MakingAsleep
  <2>2. CASE WaitpidReturn \/ SpawnFail \/ Run3Return \/ WaitReturn
    <3>1. pit_ticks' = pit_ticks
      BY <2>2 DEF WaitpidReturn, SpawnFail, Run3Return, WaitReturn, timeVars
    <3> QED BY <1>1, <2>2, <3>1, AsleepKept, FreeingSteps, FreeingAsleep, PlainAsleep
  <2> QED BY <1>1, <1>2, <2>1, <2>2, SleepArmOnTime, NoRemoteSteps DEF KernelStep
<1>3. CASE Syscall
  <2>1. pit_ticks' = pit_ticks
    BY <1>3 DEF Syscall, SysSleep, SysExit, SysWaitpid, SysGetkey, SysExecve, SysFork,
                OnlyStackChanges, timeVars
  <2> QED BY <1>1, <1>3, <2>1, AsleepKept, SysSleepAsleep, ExitAsleep, PlainAsleep,
             MakingAsleep, TakingAsleep DEF Syscall
<1>4. CASE ShellCommand
  <2>1. pit_ticks' = pit_ticks
    BY <1>4 DEF ShellCommand, CmdRun3, CmdWait, CmdKill, CmdRun, OnlyStackChanges, timeVars
  <2> QED BY <1>1, <1>4, <2>1, AsleepKept, TakingAsleep, PlainAsleep, FreeingSteps,
             FreeingAsleep DEF ShellCommand
<1>5. CASE GetkeyReturn \/ LegacyReturn
  <2>1. pit_ticks' = pit_ticks
    BY <1>5 DEF GetkeyReturn, LegacyReturn, OnlyStackChanges, timeVars
  <2> QED BY <1>1, <1>5, <2>1, AsleepKept, PlainAsleep, FreeingSteps, FreeingAsleep
<1>6. CASE Tick
  BY <1>1, <1>6, TickOnTime
<1>7. CASE UNCHANGED vars
  BY <1>7 DEF vars, timeVars, NoOversleep, SleepFrames
<1> QED BY <1>2, <1>3, <1>4, <1>5, <1>6, <1>7, NoRemoteSteps DEF Next

(* With commands from the console only, no program sleeps past its wake-up  *)
(* tick, wherever pit_ticks wraps.  Only the sleep lengths need be less     *)
(* than half of the counter's range.                                        *)
THEOREM ConsoleWakesInTime == ASSUME RemoteCmds = {} PROVE Spec => []NoOversleep
<1> DEFINE Inv == Console /\ Registers /\ NoPageLost /\ NoOversleep
<1>1. Init => Inv
  <2>1. ASSUME Init PROVE NoOversleep
    <3>1. \A s \in Slots : table[s].state # "SLEEPING"
      BY <2>1 DEF Init, EmptySlot
    <3> QED BY <3>1 DEF NoOversleep
  <2> QED BY <2>1, ConsoleInit
<1>2. Inv /\ [Next]_vars => Inv'
  BY ConsoleNext, OnTimeNext
<1> QED BY <1>1, <1>2, PTL DEF Spec

-----------------------------------------------------------------------------
(* The table implements ProcessLife. *)

(* What the shell's command in progress relies on: a foreground program    *)
(* stays its child until run3 reaps it; the pid wait was given is at its   *)
(* slot or nowhere.                                                        *)
Commands == {"run3", "wait", "legacy", "build", "publish"}

CommandRight(f, i) ==
  /\ f.pc \in Commands => i = 2
  /\ f.pc \in {"build", "publish"} => table[f.p].ppid = 1
  /\ f.pc = "run3" => /\ table[f.p].in_use /\ table[f.p].pid = f.pid
                      /\ table[f.p].ppid = 1 /\ stack[f.p] # <<>>
  /\ f.pc = "wait" => /\ f.pid < next_pid
                      /\ \A s \in Slots : table[s].in_use /\ table[s].pid = f.pid => s = f.p

(* A zombie has left the code it exited with, and is past leaving it. *)
ExitRecorded(s) ==
  table[s].in_use /\ table[s].state = "ZOMBIE" =>
    /\ exited[table[s].pid] = table[s].exit_code
    /\ stack[s] # <<>> /\ stack[s][1].pc = "exit" /\ stack[s][1].ph # "free"

LifeRight ==
  /\ \A i \in 1 .. Len(stack[1]) : CommandRight(stack[1][i], i)
  /\ \A s \in Slots : ExitRecorded(s)

(* The life of each pid, as ProcessLife sees it. *)
LifeOf == [p \in Pids |-> Life(p)]

LifeIn(tab, np, p) ==
  IF p >= np THEN "unborn"
  ELSE IF ~Exists(tab, p) THEN "gone"
  ELSE IF tab[process_get(tab, p)].state = "ZOMBIE" THEN "zombie" ELSE "alive"

UniqueIn(tab, np) ==
  /\ \A s, t \in Slots : tab[s].in_use /\ tab[t].in_use /\ tab[s].pid = tab[t].pid => s = t
  /\ \A s \in Slots : tab[s].in_use => tab[s].pid < np

LEMMA LifeCases ==
  ASSUME NEW tab \in Tables, NEW np \in Nat, NEW p \in Pids, UniqueIn(tab, np)
  PROVE  /\ p >= np => LifeIn(tab, np, p) = "unborn"
         /\ \A s \in Slots : tab[s].in_use /\ tab[s].pid = p =>
              LifeIn(tab, np, p) = IF tab[s].state = "ZOMBIE" THEN "zombie" ELSE "alive"
         /\ p < np /\ (\A s \in Slots : tab[s].in_use => tab[s].pid # p) =>
              LifeIn(tab, np, p) = "gone"
<1>1. p \in Nat
  BY DEF Pids
<1>2. ASSUME NEW s \in Slots, tab[s].in_use, tab[s].pid = p
      PROVE  LifeIn(tab, np, p) = IF tab[s].state = "ZOMBIE" THEN "zombie" ELSE "alive"
  <2>1. s \in SlotsOf(tab, p) /\ SlotsOf(tab, p) \in SUBSET Nat
    BY <1>2, ConstFacts DEF SlotsOf, Slots
  <2>2. process_get(tab, p) \in SlotsOf(tab, p)
    BY <2>1, MinIn DEF process_get
  <2>3. process_get(tab, p) = s
    BY <1>2, <2>2 DEF SlotsOf, UniqueIn
  <2>4. Exists(tab, p) /\ ~(p >= np)
    BY <1>1, <1>2, <2>1 DEF Exists, UniqueIn
  <2> QED BY <2>3, <2>4 DEF LifeIn
<1>3. ASSUME p < np, \A s \in Slots : tab[s].in_use => tab[s].pid # p
      PROVE  LifeIn(tab, np, p) = "gone"
  <2>1. ~Exists(tab, p) /\ ~(p >= np)
    BY <1>1, <1>3 DEF Exists, SlotsOf
  <2> QED BY <2>1 DEF LifeIn
<1>4. p >= np => LifeIn(tab, np, p) = "unborn"
  BY DEF LifeIn
<1> QED BY <1>2, <1>3, <1>4

(* Both ends of a step, in these terms. *)
LEMMA LifeEnds ==
  ASSUME TypeOK, PidsUnique, TypeOK', PidsUnique'
  PROVE  /\ table \in Tables /\ next_pid \in Nat /\ UniqueIn(table, next_pid)
         /\ table' \in Tables /\ next_pid' \in Nat /\ UniqueIn(table', next_pid')
         /\ \A p \in Pids : LifeOf[p] = LifeIn(table, next_pid, p)
         /\ \A p \in Pids : LifeOf'[p] = LifeIn(table', next_pid', p)
         /\ LifeOf' = [p \in Pids |-> LifeOf'[p]] /\ LifeOf = [p \in Pids |-> LifeOf[p]]
<1>1. /\ table \in Tables /\ next_pid \in Nat /\ UniqueIn(table, next_pid)
      /\ table' \in Tables /\ next_pid' \in Nat /\ UniqueIn(table', next_pid')
  BY DEF TypeOK, PidsUnique, Tables, UniqueIn
<1>2. /\ \A p \in Pids : LifeOf[p] = LifeIn(table, next_pid, p)
      /\ \A p \in Pids : LifeOf'[p] = LifeIn(table', next_pid', p)
  BY DEF LifeOf, Life, LifeIn
<1>3. LifeOf' = [p \in Pids |-> LifeOf'[p]] /\ LifeOf = [p \in Pids |-> LifeOf[p]]
  BY DEF LifeOf
<1> QED BY <1>1, <1>2, <1>3

(* Rows that matter to it. *)
RowSame(s) ==
  /\ table'[s].in_use = table[s].in_use /\ table'[s].pid = table[s].pid
  /\ table'[s].ppid = table[s].ppid /\ table'[s].exit_code = table[s].exit_code
  /\ table'[s].state = "ZOMBIE" <=> table[s].state = "ZOMBIE"

LEMMA LifeUnchanged ==
  ASSUME TypeOK, PidsUnique, TypeOK', PidsUnique', next_pid' = next_pid,
         \A s \in Slots : /\ table'[s].in_use = table[s].in_use
                          /\ table'[s].pid = table[s].pid
                          /\ table[s].in_use => (table'[s].state = "ZOMBIE" <=> table[s].state = "ZOMBIE")
  PROVE  LifeOf' = LifeOf
<1>1. ASSUME NEW p \in Pids PROVE LifeIn(table', next_pid', p) = LifeIn(table, next_pid, p)
  <2>0. p \in Nat /\ next_pid \in Nat
    BY LifeEnds DEF Pids
  <2>1. CASE p >= next_pid
    BY <2>1, LifeEnds, LifeCases
  <2>2. ASSUME NEW s \in Slots, table[s].in_use, table[s].pid = p
        PROVE  LifeIn(table', next_pid', p) = LifeIn(table, next_pid, p)
    <3>1. LifeIn(table, next_pid, p) = IF table[s].state = "ZOMBIE" THEN "zombie" ELSE "alive"
      BY <2>2, LifeEnds, LifeCases
    <3>2. LifeIn(table', next_pid', p) = IF table'[s].state = "ZOMBIE" THEN "zombie" ELSE "alive"
      BY <2>2, LifeEnds, LifeCases
    <3> QED BY <2>2, <3>1, <3>2
  <2>3. CASE p < next_pid /\ \A s \in Slots : table[s].in_use => table[s].pid # p
    BY <2>3, LifeEnds, LifeCases
  <2> QED BY <2>0, <2>1, <2>2, <2>3
<1>2. \A p \in Pids : LifeOf'[p] = LifeOf[p]
  BY <1>1, LifeEnds
<1> QED BY <1>2, LifeEnds

(* One pid changes, because of slot z. *)
LEMMA LifeChanges ==
  ASSUME TypeOK, PidsUnique, TypeOK', PidsUnique', NEW z \in Slots, NEW x \in Pids,
         next_pid' = next_pid, table[z].in_use, table[z].pid = x,
         \A s \in Slots \ {z} : table'[s] = table[s],
         table'[z].in_use => table'[z].pid = x
  PROVE  LifeOf' = [LifeOf EXCEPT ![x] =
           IF ~table'[z].in_use THEN "gone"
           ELSE IF table'[z].state = "ZOMBIE" THEN "zombie" ELSE "alive"]
<1>0. x \in Nat /\ next_pid \in Nat /\ x < next_pid
  BY LifeEnds DEF Pids, PidsUnique
<1>1. ASSUME NEW p \in Pids, p # x PROVE LifeIn(table', next_pid', p) = LifeIn(table, next_pid, p)
  <2>0. p \in Nat
    BY DEF Pids
  <2>1. CASE p >= next_pid
    BY <2>1, LifeEnds, LifeCases
  <2>2. ASSUME NEW s \in Slots, table[s].in_use, table[s].pid = p
        PROVE  LifeIn(table', next_pid', p) = LifeIn(table, next_pid, p)
    <3>0. s # z
      BY <1>1, <2>2
    <3>1. LifeIn(table, next_pid, p) = IF table[s].state = "ZOMBIE" THEN "zombie" ELSE "alive"
      BY <2>2, LifeEnds, LifeCases
    <3>2. LifeIn(table', next_pid', p) = IF table'[s].state = "ZOMBIE" THEN "zombie" ELSE "alive"
      BY <2>2, <3>0, LifeEnds, LifeCases
    <3> QED BY <3>0, <3>1, <3>2
  <2>3. CASE p < next_pid /\ \A s \in Slots : table[s].in_use => table[s].pid # p
    <3>1. \A s \in Slots : table'[s].in_use => table'[s].pid # p
      BY <1>1, <2>3
    <3> QED BY <2>3, <3>1, LifeEnds, LifeCases
  <2> QED BY <1>0, <2>0, <2>1, <2>2, <2>3
<1>2. ~table'[z].in_use => LifeIn(table', next_pid', x) = "gone"
  <2>1. ASSUME ~table'[z].in_use, NEW s \in Slots, table'[s].in_use PROVE table'[s].pid # x
    BY <2>1 DEF PidsUnique
  <2> QED BY <1>0, <2>1, LifeEnds, LifeCases
<1>3. table'[z].in_use => LifeIn(table', next_pid', x) =
                            IF table'[z].state = "ZOMBIE" THEN "zombie" ELSE "alive"
  BY LifeEnds, LifeCases
<1>4. PICK v : v = IF ~table'[z].in_use THEN "gone"
                   ELSE IF table'[z].state = "ZOMBIE" THEN "zombie" ELSE "alive"
  OBVIOUS
<1>5. LifeOf'[x] = v
  BY <1>2, <1>3, <1>4, LifeEnds
<1>6. \A p \in Pids : LifeOf'[p] = [LifeOf EXCEPT ![x] = v][p]
  BY <1>1, <1>5, LifeEnds
<1>7. LifeOf' = [LifeOf EXCEPT ![x] = v]
  BY <1>6, LifeEnds
<1> QED BY <1>4, <1>7

(* A pid is born. *)
LEMMA LifeBegins ==
  ASSUME TypeOK, PidsUnique, TypeOK', PidsUnique', NEW z \in Slots, next_pid \in Pids,
         next_pid' = next_pid + 1, ~table[z].in_use,
         \A s \in Slots \ {z} : table'[s] = table[s],
         table'[z].in_use, table'[z].pid = next_pid, table'[z].state # "ZOMBIE"
  PROVE  /\ LifeOf[next_pid] = "unborn"
         /\ \A q \in Pids : q < next_pid => LifeOf[q] # "unborn"
         /\ LifeOf' = [LifeOf EXCEPT ![next_pid] = "alive"]
<1>0. next_pid \in Nat
  BY LifeEnds
<1>1. ASSUME NEW p \in Pids, p # next_pid
      PROVE  /\ LifeIn(table', next_pid', p) = LifeIn(table, next_pid, p)
             /\ p < next_pid => LifeIn(table, next_pid, p) # "unborn"
  <2>0. p \in Nat
    BY DEF Pids
  <2>1. CASE p >= next_pid
    BY <1>0, <1>1, <2>0, <2>1, LifeEnds, LifeCases
  <2>2. ASSUME NEW s \in Slots, table[s].in_use, table[s].pid = p
        PROVE  /\ LifeIn(table', next_pid', p) = LifeIn(table, next_pid, p)
               /\ LifeIn(table, next_pid, p) # "unborn"
    <3>0. s # z
      BY <1>1, <2>2
    <3>1. LifeIn(table, next_pid, p) = IF table[s].state = "ZOMBIE" THEN "zombie" ELSE "alive"
      BY <2>2, LifeEnds, LifeCases
    <3>2. LifeIn(table', next_pid', p) = IF table'[s].state = "ZOMBIE" THEN "zombie" ELSE "alive"
      BY <2>2, <3>0, LifeEnds, LifeCases
    <3> QED BY <3>0, <3>1, <3>2
  <2>3. CASE p < next_pid /\ \A s \in Slots : table[s].in_use => table[s].pid # p
    <3>1. \A s \in Slots : table'[s].in_use => table'[s].pid # p
      BY <1>1, <2>3
    <3>2. p < next_pid'
      BY <1>0, <2>0, <2>3
    <3>3. LifeIn(table, next_pid, p) = "gone"
      BY <2>3, LifeEnds, LifeCases
    <3>4. LifeIn(table', next_pid', p) = "gone"
      BY <3>1, <3>2, LifeEnds, LifeCases
    <3> QED BY <3>3, <3>4
  <2> QED BY <1>0, <2>0, <2>1, <2>2, <2>3
<1>2. LifeIn(table', next_pid', next_pid) = "alive"
  BY LifeEnds, LifeCases
<1>3. LifeIn(table, next_pid, next_pid) = "unborn"
  BY <1>0, LifeEnds, LifeCases
<1>4. \A p \in Pids : LifeOf'[p] = [LifeOf EXCEPT ![next_pid] = "alive"][p]
  BY <1>1, <1>2, LifeEnds
<1>5. LifeOf' = [LifeOf EXCEPT ![next_pid] = "alive"]
  BY <1>4, LifeEnds
<1>6. \A q \in Pids : q < next_pid => q # next_pid
  BY <1>0 DEF Pids
<1> QED BY <1>1, <1>3, <1>5, <1>6, LifeEnds

(* Stack r comes from stack q by calls, returns and changes of phase, none  *)
(* of them of a shell command or of an exit.                                *)
Calls == {"sched", "sleep", "getkey", "waitpid"}

SameCall(f, g) ==
  /\ g.pc = f.pc \/ (f.pc = "build" /\ g.pc = "publish")
  /\ g.p = f.p /\ g.pid = f.pid /\ (f.ph # "free" => g.ph # "free")

Follows(q, r) ==
  \A i \in 1 .. Len(r) : r[i].pc \in Calls \/ (i \in 1 .. Len(q) /\ SameCall(q[i], r[i]))

LEMMA FollowsSelf == ASSUME NEW q PROVE Follows(q, q)
BY DEF Follows, SameCall

LEMMA PushFollows ==
  ASSUME NEW stk \in Stacks, NEW s \in Slots, NEW f \in FrameType, f.pc \in Calls,
         NEW q, NEW t \in Slots, Follows(q, stk[t])
  PROVE  Follows(q, Push(stk, s, f)[t])
<1>1. CASE t # s
  BY <1>1, PushFacts
<1>2. CASE t = s
  <2>0. Len(stk[s]) \in Nat
    BY DEF Stacks
  <2>1. PICK r : r = Push(stk, s, f)[s]
    OBVIOUS
  <2>2. /\ Len(r) = Len(stk[s]) + 1 /\ r[Len(stk[s]) + 1] = f
        /\ \A i \in 1 .. Len(stk[s]) : r[i] = stk[s][i]
    BY <2>1, PushFacts
  <2>3. ASSUME NEW i \in 1 .. Len(r)
        PROVE  r[i].pc \in Calls \/ (i \in 1 .. Len(q) /\ SameCall(q[i], r[i]))
    <3>1. i \in 1 .. Len(stk[s]) \/ i = Len(stk[s]) + 1
      BY <2>0, <2>2
    <3> QED BY <1>2, <2>2, <3>1 DEF Follows
  <2> QED BY <1>2, <2>1, <2>3 DEF Follows
<1> QED BY <1>1, <1>2

LEMMA PopFollows ==
  ASSUME NEW stk \in Stacks, NEW s \in Slots, stk[s] # <<>>,
         NEW q, NEW t \in Slots, Follows(q, stk[t])
  PROVE  Follows(q, Pop(stk, s)[t])
<1>1. CASE t # s
  BY <1>1, PopFacts
<1>2. CASE t = s
  <2>0. Len(stk[s]) \in Nat
    BY DEF Stacks
  <2>1. PICK r : r = Pop(stk, s)[s]
    OBVIOUS
  <2>2. Len(r) = Len(stk[s]) - 1 /\ \A i \in 1 .. Len(stk[s]) - 1 : r[i] = stk[s][i]
    BY <2>1, PopFacts
  <2>3. ASSUME NEW i \in 1 .. Len(r)
        PROVE  r[i].pc \in Calls \/ (i \in 1 .. Len(q) /\ SameCall(q[i], r[i]))
    <3>1. i \in 1 .. Len(stk[s]) /\ r[i] = stk[s][i]
      BY <2>0, <2>2
    <3> QED BY <1>2, <3>1 DEF Follows
  <2> QED BY <1>2, <2>1, <2>3 DEF Follows
<1> QED BY <1>1, <1>2

LEMMA SetTopFollows ==
  ASSUME NEW stk \in Stacks, NEW s \in Slots, stk[s] # <<>>, NEW f \in FrameType,
         SameCall(Last(stk[s]), f), NEW t \in Slots
  PROVE  Follows(stk[t], SetTop(stk, s, f)[t])
<1>1. CASE t # s
  BY <1>1, SetTopFacts, FollowsSelf
<1>2. CASE t = s
  <2>0. Len(stk[s]) \in Nat /\ Last(stk[s]) = stk[s][Len(stk[s])]
    BY FrontFacts DEF Stacks
  <2>1. PICK r : r = SetTop(stk, s, f)[s]
    OBVIOUS
  <2>2. /\ Len(r) = Len(stk[s]) /\ r[Len(stk[s])] = f
        /\ \A i \in 1 .. Len(stk[s]) - 1 : r[i] = stk[s][i]
    BY <2>1, SetTopFacts
  <2>3. ASSUME NEW i \in 1 .. Len(r)
        PROVE  i \in 1 .. Len(stk[s]) /\ SameCall(stk[s][i], r[i])
    <3>1. i \in 1 .. Len(stk[s]) /\ (i \in 1 .. Len(stk[s]) - 1 \/ i = Len(stk[s]))
      BY <2>0, <2>2
    <3>2. CASE i \in 1 .. Len(stk[s]) - 1
      BY <2>2, <3>1, <3>2 DEF SameCall
    <3>3. CASE i = Len(stk[s])
      BY <2>0, <2>2, <3>1, <3>3
    <3> QED BY <3>1, <3>2, <3>3
  <2> QED BY <1>2, <2>1, <2>3 DEF Follows
<1> QED BY <1>1, <1>2

-----------------------------------------------------------------------------
(* A step that nobody is born, exits or dies in. *)
Calm ==
  /\ next_pid' = next_pid /\ exited' = exited
  /\ \A s \in Slots : /\ RowSame(s) /\ Follows(stack[s], stack'[s])
                      /\ s # current' => (stack[s] # <<>> => stack'[s] # <<>>)

LEMMA BottomFrame ==
  ASSUME Console', NEW s \in Slots, stack'[s] # <<>>
  PROVE  1 \in 1 .. Len(stack'[s]) /\ stack'[s][1].pc \in {"idle", "user", "exit"}
<1>1. stack'[s] \in Seq(FrameType)
  BY DEF Console, TypeOK
<1>2. 1 \in 1 .. Len(stack'[s])
  BY <1>1, LenProperties, EmptySeq
<1>3. FrameRight(s, 1)'
  BY <1>2 DEF Console, StacksRight
<1>4. stack'[s][1].pc \in {"idle", "user", "exit"}
  BY <1>3 DEF FrameRight
<1> QED BY <1>2, <1>4

LEMMA BottomStays ==
  ASSUME Console', NEW s \in Slots, stack'[s] # <<>>, Follows(stack[s], stack'[s]),
         stack[s][1].pc = "exit", stack[s][1].ph # "free"
  PROVE  stack'[s][1].pc = "exit" /\ stack'[s][1].ph # "free"
<1>1. 1 \in 1 .. Len(stack'[s]) /\ stack'[s][1].pc \notin Calls
  BY BottomFrame DEF Calls
<1>2. SameCall(stack[s][1], stack'[s][1])
  BY <1>1 DEF Follows
<1> QED BY <1>2 DEF SameCall

(* Slot s keeps its names, and its context if it has one. *)
Kept(s) ==
  /\ table'[s].in_use = table[s].in_use /\ table'[s].pid = table[s].pid
  /\ table'[s].ppid = table[s].ppid
  /\ stack[s] # <<>> => stack'[s] # <<>>

LEMMA CommandStays ==
  ASSUME NEW f \in FrameType, NEW g, NEW i, SameCall(f, g), CommandRight(f, i),
         next_pid \in Nat, next_pid' \in Nat, next_pid <= next_pid',
         f.pc \in {"run3", "build", "publish"} => Kept(f.p),
         f.pc = "wait" => \A s \in Slots : table'[s].in_use /\ table'[s].pid = f.pid =>
                            table[s].in_use /\ table[s].pid = f.pid
  PROVE  CommandRight(g, i)'
<1>1. f.pid \in Nat
  BY DEF FrameType, Pids
<1>2. /\ g.pc \in Commands => i = 2
      /\ g.pc \in {"build", "publish"} => table'[g.p].ppid = 1
      /\ g.pc = "run3" => /\ table'[g.p].in_use /\ table'[g.p].pid = g.pid
                          /\ table'[g.p].ppid = 1 /\ stack'[g.p] # <<>>
  BY DEF CommandRight, SameCall, Kept, Commands
<1>3. g.pc = "wait" => /\ g.pid < next_pid'
                       /\ \A s \in Slots : table'[s].in_use /\ table'[s].pid = g.pid => s = g.p
  BY <1>1 DEF CommandRight, SameCall
<1> QED BY <1>2, <1>3 DEF CommandRight

LEMMA CalmKeeps ==
  ASSUME Console, Console', LifeRight, Calm
  PROVE  LifeRight' /\ LifeOf' = LifeOf
<1>1. \A s \in Slots : stack[s] # <<>> => stack'[s] # <<>>
  BY DEF Calm, Console, ContextsRight, CurrentIsLive
<1>2. next_pid \in Nat /\ next_pid' = next_pid /\ stack[1] \in Seq(FrameType) /\ 1 \in Slots
  BY ConstFacts DEF Calm, Console, TypeOK
<1>3. ASSUME NEW i \in 1 .. Len(stack'[1]) PROVE CommandRight(stack[1][i], i)'
  <2>1. CASE stack'[1][i].pc \in Calls
    BY <2>1 DEF CommandRight, Commands, Calls
  <2>2. CASE i \in 1 .. Len(stack[1]) /\ SameCall(stack[1][i], stack'[1][i])
    <3>1. PICK f : f = stack[1][i]
      OBVIOUS
    <3>2. f \in FrameType /\ CommandRight(f, i) /\ f.p \in Slots
      <4>1. f \in FrameType
        BY <1>2, <2>2, <3>1, ElementOfSeq
      <4>2. CommandRight(f, i)
        BY <2>2, <3>1 DEF LifeRight
      <4> QED BY <4>1, <4>2 DEF FrameType
    <3>3. Kept(f.p)
      BY <1>1, <3>2 DEF Calm, RowSame, Kept
    <3>4. \A s \in Slots : table'[s].in_use /\ table'[s].pid = f.pid =>
                             table[s].in_use /\ table[s].pid = f.pid
      BY DEF Calm, RowSame
    <3>5. PICK g : g = stack'[1][i]
      OBVIOUS
    <3>6. CommandRight(g, i)'
      BY <1>2, <2>2, <3>1, <3>2, <3>3, <3>4, <3>5, CommandStays
    <3> QED BY <3>5, <3>6 DEF CommandRight
  <2> QED BY <1>2, <2>1, <2>2 DEF Calm, Follows
<1>4. ASSUME NEW s \in Slots PROVE ExitRecorded(s)'
  BY <1>1, BottomStays DEF Calm, RowSame, ExitRecorded, LifeRight
<1>5. LifeOf' = LifeOf
  BY LifeUnchanged DEF Calm, RowSame, Console
<1> QED BY <1>3, <1>4, <1>5 DEF LifeRight

StackCalm ==
  \A s \in Slots : /\ Follows(stack[s], stack'[s])
                   /\ s # current' => (stack[s] # <<>> => stack'[s] # <<>>)

LEMMA PopCalm ==
  ASSUME Console, stack' = Pop(stack, current), current' = current
  PROVE  StackCalm
<1>1. current \in Slots /\ stack \in Stacks /\ stack[current] # <<>>
  BY TopRight
<1>2. \A s \in Slots : Follows(stack[s], stack'[s])
  BY <1>1, PopFollows, FollowsSelf
<1>3. \A s \in Slots \ {current} : stack'[s] = stack[s]
  BY <1>1, PopFacts
<1> QED BY <1>2, <1>3 DEF StackCalm

LEMMA PushCalm ==
  ASSUME Console, NEW f \in FrameType, f.pc \in Calls, stack' = Push(stack, current, f)
  PROVE  StackCalm
<1>1. current \in Slots /\ stack \in Stacks /\ stack[current] # <<>>
  BY TopRight
<1>2. \A s \in Slots : Follows(stack[s], stack'[s])
  BY <1>1, PushFollows, FollowsSelf
<1>3. stack'[current] # <<>> /\ \A s \in Slots \ {current} : stack'[s] = stack[s]
  BY <1>1, PushFacts
<1> QED BY <1>2, <1>3 DEF StackCalm

LEMMA SetTopCalm ==
  ASSUME Console, NEW f \in FrameType, SameCall(Top, f), stack' = SetTop(stack, current, f)
  PROVE  StackCalm
<1>1. current \in Slots /\ stack \in Stacks /\ stack[current] # <<>> /\ Last(stack[current]) = Top
  BY TopRight DEF Top
<1>2. \A s \in Slots : Follows(stack[s], stack'[s])
  BY <1>1, SetTopFollows
<1>3. stack'[current] # <<>> /\ \A s \in Slots \ {current} : stack'[s] = stack[s]
  BY <1>1, SetTopFacts
<1> QED BY <1>2, <1>3 DEF StackCalm

LEMMA PhaseIsSameCall ==
  ASSUME NEW f \in FrameType, NEW ph \in {"test", "hlt"}
  PROVE  [f EXCEPT !.ph = ph] \in FrameType /\ SameCall(f, [f EXCEPT !.ph = ph])
BY DEF FrameType, SameCall

LEMMA CallsMade ==
  ASSUME Console
  PROVE  /\ Frame("getkey", "test") \in FrameType /\ Frame("getkey", "test").pc \in Calls
         /\ \A pid \in Pids : /\ [Frame("waitpid", "test") EXCEPT !.pid = pid] \in FrameType
                              /\ [Frame("waitpid", "test") EXCEPT !.pid = pid].pc \in Calls
         /\ \A t \in Ticks : /\ [Frame("sleep", "arm") EXCEPT !.t = t] \in FrameType
                             /\ [Frame("sleep", "arm") EXCEPT !.t = t].pc \in Calls
         /\ \A s \in Slots : /\ [Frame("sched", "test") EXCEPT !.p = s] \in FrameType
                             /\ [Frame("sched", "test") EXCEPT !.p = s].pc \in Calls
<1>1. /\ Frame("getkey", "test") \in FrameType /\ Frame("getkey", "test").pc = "getkey"
      /\ Frame("waitpid", "test") \in FrameType /\ Frame("waitpid", "test").pc = "waitpid"
      /\ Frame("sleep", "arm") \in FrameType /\ Frame("sleep", "arm").pc = "sleep"
      /\ Frame("sched", "test") \in FrameType /\ Frame("sched", "test").pc = "sched"
  BY FrameMade DEF Console, Frame
<1> QED BY <1>1 DEF FrameType, Calls

LEMMA YieldCalm == ASSUME Console, Yield PROVE StackCalm
<1>1. current \in Slots /\ stack \in Stacks /\ stack[current] # <<>> /\ Last(stack[current]) = Top
      /\ Top \in FrameType
  BY TopRight DEF Top
<1>2. PICK h : h = [Top EXCEPT !.ph = "hlt"]
  OBVIOUS
<1>3. h \in FrameType /\ SameCall(Top, h)
  BY <1>1, <1>2, PhaseIsSameCall
<1>4. PICK halt : halt = SetTop(stack, current, h)
  OBVIOUS
<1>5. PICK g : g = [Frame("sched", "test") EXCEPT !.p = SchedPick(table)]
  OBVIOUS
<1>6. g \in FrameType /\ g.pc \in Calls
  <2>1. SchedPick(table) \in Slots
    BY PickType DEF Console, TypeOK, Tables
  <2> QED BY <1>5, <2>1, CallsMade
<1>7. stack' = halt \/ stack' = Push(halt, current, g)
  BY <1>2, <1>4, <1>5 DEF Yield
<1>8. CASE stack' = halt
  BY <1>3, <1>4, <1>8, SetTopCalm
<1>9. CASE stack' = Push(halt, current, g)
  <2>1. halt \in Stacks /\ \A s \in Slots : Follows(stack[s], halt[s])
    BY <1>1, <1>3, <1>4, SetTopFacts, SetTopFollows
  <2>2. \A s \in Slots : Follows(stack[s], stack'[s])
    BY <1>1, <1>6, <1>9, <2>1, PushFollows
  <2>3. stack'[current] # <<>> /\ \A s \in Slots \ {current} : stack'[s] = halt[s]
    BY <1>1, <1>6, <1>9, <2>1, PushFacts
  <2>4. \A s \in Slots \ {current} : halt[s] = stack[s]
    BY <1>1, <1>3, <1>4, SetTopFacts
  <2> QED BY <2>2, <2>3, <2>4 DEF StackCalm
<1> QED BY <1>7, <1>8, <1>9

(* The last part of a switch, from contexts stk that follow the present ones. *)
LEMMA SwitchToCalm ==
  ASSUME NEW stk \in Stacks, NEW tab, NEW next \in Slots, SwitchTo(tab, stk, next),
         \A s \in Slots : Follows(stack[s], stk[s]) /\ (stack[s] # <<>> => stk[s] # <<>>)
  PROVE  StackCalm
<1>1. current' = next
  BY DEF SwitchTo
<1>2. CASE stk[next] # <<>> /\ stack' = Pop(stk, next)
  <2>1. \A s \in Slots : Follows(stack[s], stack'[s])
    BY <1>2, PopFollows
  <2>2. \A s \in Slots \ {next} : stack'[s] = stk[s]
    BY <1>2, PopFacts
  <2> QED BY <1>1, <2>1, <2>2 DEF StackCalm
<1>3. CASE stack' = stk
  BY <1>3 DEF StackCalm
<1>4. (stk[next] # <<>> /\ stack' = Pop(stk, next)) \/ stack' = stk
  BY DEF SwitchTo
<1> QED BY <1>2, <1>3, <1>4

LEMMA SwitchCalm == ASSUME Console, Switch PROVE StackCalm
<1>1. Top.p \in Slots /\ stack \in Stacks
  BY TopRight DEF FrameType
<1>2. SwitchTo(table, stack, Top.p)
  BY DEF Switch
<1>3. \A s \in Slots : Follows(stack[s], stack[s])
  BY FollowsSelf
<1> QED BY <1>1, <1>2, <1>3, SwitchToCalm

LEMMA TickCalm ==
  ASSUME Console, Tick
  PROVE  /\ StackCalm
         /\ \A s \in Slots : RowSame(s)
<1>w. PICK woken : woken = Wake(table, Now)
  OBVIOUS
<1>x. PICK next : next = SchedPick(woken)
  OBVIOUS
<1>h. PICK h : h = [Top EXCEPT !.ph = "test"]
  OBVIOUS
<1>g. PICK g : g = [Frame("sched", "test") EXCEPT !.p = next]
  OBVIOUS
<1>s. PICK seen : seen = IF Top.ph = "hlt" THEN SetTop(stack, current, h) ELSE stack
  OBVIOUS
<1>1. /\ current \in Slots /\ stack \in Stacks /\ stack[current] # <<>>
      /\ Top \in FrameType /\ Last(stack[current]) = Top
  BY TopRight DEF Top
<1>2. woken \in Tables /\ RowsKept(woken)
  BY <1>w, CountDownType, WakeKeeps DEF Console
<1>3. TickRest(table, stack, Now)
  BY DEF Tick
<1>4. \/ SwitchTo(woken, Push(seen, current, g), next)
      \/ table' = woken /\ stack' = seen
  BY <1>1, <1>3, <1>w, <1>x, <1>h, <1>g, <1>s DEF TickRest
<1>5. h \in FrameType /\ SameCall(Top, h)
  BY <1>1, <1>h, PhaseIsSameCall
<1>6. /\ seen \in Stacks /\ seen[current] # <<>>
      /\ \A s \in Slots : Follows(stack[s], seen[s]) /\ (stack[s] # <<>> => seen[s] # <<>>)
  <2>1. CASE Top.ph = "hlt"
    <3>1. seen = SetTop(stack, current, h)
      BY <1>s, <2>1
    <3>2. /\ seen \in Stacks /\ seen[current] # <<>>
          /\ \A s \in Slots \ {current} : seen[s] = stack[s]
      BY <1>1, <1>5, <3>1, SetTopFacts
    <3>3. \A s \in Slots : Follows(stack[s], seen[s])
      BY <1>1, <1>5, <3>1, SetTopFollows
    <3> QED BY <3>2, <3>3
  <2>2. CASE Top.ph # "hlt"
    BY <1>1, <1>s, <2>2, FollowsSelf
  <2> QED BY <2>1, <2>2
<1>7. next \in Slots /\ g \in FrameType /\ g.pc \in Calls
  <2>1. next \in Slots
    BY <1>2, <1>x, PickType DEF Console
  <2> QED BY <1>g, <2>1, CallsMade
<1>8. StackCalm
  <2>1. CASE stack' = seen
    BY <1>6, <2>1 DEF StackCalm
  <2>2. CASE SwitchTo(woken, Push(seen, current, g), next)
    <3>1. PICK stk : stk = Push(seen, current, g)
      OBVIOUS
    <3>2. /\ stk \in Stacks /\ stk[current] # <<>>
          /\ \A s \in Slots \ {current} : stk[s] = seen[s]
      <4>1. seen \in Stacks /\ current \in Slots /\ g \in FrameType
        BY <1>1, <1>6, <1>7
      <4> QED BY <3>1, <4>1, PushFacts
    <3>3. \A s \in Slots : Follows(stack[s], stk[s])
      <4> SUFFICES ASSUME NEW s \in Slots PROVE Follows(stack[s], stk[s])
        OBVIOUS
      <4>1. Follows(stack[s], seen[s])
        BY <1>6
      <4> QED BY <1>1, <1>6, <1>7, <3>1, <4>1, PushFollows, Zenon
    <3>4. SwitchTo(woken, stk, next)
      BY <2>2, <3>1
    <3> QED BY <1>6, <1>7, <3>2, <3>3, <3>4, SwitchToCalm
  <2> QED BY <1>4, <2>1, <2>2
<1>9. ASSUME NEW s \in Slots PROVE RowSame(s)
  <2>1. table' = woken \/ table' = [woken EXCEPT ![current].esp = TRUE]
    BY <1>4 DEF SwitchTo
  <2>2. /\ table'[s].in_use = woken[s].in_use /\ table'[s].pid = woken[s].pid
        /\ table'[s].ppid = woken[s].ppid /\ table'[s].exit_code = woken[s].exit_code
        /\ table'[s].state = woken[s].state
    BY <1>1, <1>2, <2>1 DEF Tables, ProcType
  <2> QED BY <1>2, <2>2 DEF RowsKept, RowSame
<1> QED BY <1>8, <1>9

(* The steps in which nothing of this happens. *)
LEMMA PlainCalm ==
  ASSUME Console,
         \/ Yield \/ SleepReturn \/ SysGetkey \/ GetkeyReturn
         \/ JustReturn /\ UNCHANGED next_pid
         \/ \E pid \in Pids : SysWaitpid(pid)
  PROVE  Calm
<1>1. /\ table' = table /\ next_pid' = next_pid /\ exited' = exited /\ current' = current
  BY DEF Yield, SleepReturn, SysGetkey, GetkeyReturn, JustReturn, SysWaitpid,
         OnlyStackChanges, cpuVars, history
<1>2. StackCalm
  <2>1. CASE Yield
    BY <2>1, YieldCalm
  <2>2. CASE SleepReturn \/ GetkeyReturn \/ JustReturn
    <3>1. stack' = Pop(stack, current)
      BY <2>2 DEF SleepReturn, GetkeyReturn, JustReturn
    <3> QED BY <1>1, <3>1, PopCalm
  <2>3. CASE SysGetkey
    <3>1. stack' = Push(stack, current, Frame("getkey", "test"))
      BY <2>3 DEF SysGetkey
    <3> QED BY <3>1, CallsMade, PushCalm
  <2>4. ASSUME NEW pid \in Pids, SysWaitpid(pid) PROVE StackCalm
    <3>1. PICK f : f = [Frame("waitpid", "test") EXCEPT !.pid = pid]
      OBVIOUS
    <3>2. f \in FrameType /\ f.pc \in Calls
      BY <3>1, CallsMade
    <3>3. stack' = Push(stack, current, f)
      BY <2>4, <3>1 DEF SysWaitpid
    <3> QED BY <3>2, <3>3, PushCalm
  <2> QED BY <2>1, <2>2, <2>3, <2>4
<1> QED BY <1>1, <1>2 DEF Calm, StackCalm, RowSame

LEMMA SleepCalm == ASSUME Console, NEW n \in SleepTicks, SysSleep(n) PROVE Calm
<1>1. /\ current \in Slots /\ table \in [Slots -> ProcType] /\ Top.pc = "user"
      /\ table[current].state # "ZOMBIE"
  BY TopRight DEF SysSleep, InUser, FrameRight, Console, TypeOK
<1>2. PICK f : f = [Frame("sleep", "arm") EXCEPT !.t = n]
  OBVIOUS
<1>3. f \in FrameType /\ f.pc \in Calls
  <2>1. n \in Ticks
    BY ConstFacts
  <2> QED BY <1>2, <2>1, CallsMade
<1>4. stack' = Push(stack, current, f)
  BY <1>2 DEF SysSleep
<1>5. StackCalm
  BY <1>3, <1>4, PushCalm
<1>6. \A s \in Slots : RowSame(s)
  BY <1>1 DEF SysSleep, RowSame, ProcType
<1> QED BY <1>5, <1>6 DEF Calm, StackCalm, SysSleep

LEMMA ArmCalm == ASSUME Console, SleepArm PROVE Calm
<1>1. current \in Slots /\ table \in [Slots -> ProcType] /\ Top \in FrameType
  BY TopRight DEF Console, TypeOK
<1>2. PICK f : f = [Top EXCEPT !.ph = "test"]
  OBVIOUS
<1>3. f \in FrameType /\ SameCall(Top, f)
  BY <1>1, <1>2, PhaseIsSameCall
<1>4. stack' = SetTop(stack, current, f)
  BY <1>2 DEF SleepArm
<1>5. StackCalm
  BY <1>3, <1>4, SetTopCalm
<1>6. \A s \in Slots : RowSame(s)
  BY <1>1 DEF SleepArm, RowSame, ProcType
<1> QED BY <1>5, <1>6 DEF Calm, StackCalm, SleepArm, history

LEMMA ExecveCalm == ASSUME Console, SysExecve PROVE Calm
<1>1. current \in Slots /\ table \in [Slots -> ProcType]
  BY TopRight DEF Console, TypeOK
<1>2. \E new : table' = [table EXCEPT ![current].frames = new]
  BY DEF SysExecve
<1>3. \A s \in Slots : RowSame(s)
  BY <1>1, <1>2 DEF RowSame, ProcType
<1>4. stack' = stack /\ next_pid' = next_pid /\ exited' = exited
  BY DEF SysExecve, history
<1>5. \A s \in Slots : Follows(stack[s], stack'[s])
  BY <1>4, FollowsSelf
<1> QED BY <1>3, <1>4, <1>5 DEF Calm

LEMMA BuildCalm == ASSUME Console, SpawnBuild PROVE Calm
<1>1. current \in Slots /\ table \in [Slots -> ProcType] /\ Top \in FrameType /\ Top.p \in Slots
  BY TopRight DEF Console, TypeOK, FrameType
<1>2. PICK f : f = [Top EXCEPT !.pc = "publish"]
  OBVIOUS
<1>3. f \in FrameType /\ SameCall(Top, f)
  BY <1>1, <1>2 DEF FrameType, SameCall, SpawnBuild
<1>4. stack' = SetTop(stack, current, f)
  BY <1>2 DEF SpawnBuild
<1>5. StackCalm
  BY <1>3, <1>4, SetTopCalm
<1>6. \E k, w, d : table' = [table EXCEPT ![Top.p].kstack = k, ![Top.p].frames = w,
                                          ![Top.p].pd = d]
  BY Zenon DEF SpawnBuild
<1>7. \A s \in Slots : RowSame(s)
  BY <1>1, <1>6 DEF RowSame, ProcType
<1> QED BY <1>5, <1>7 DEF Calm, StackCalm, SpawnBuild, history

LEMMA DispatchCalm == ASSUME Console, Switch \/ Tick PROVE Calm
<1>1. current \in Slots /\ table \in [Slots -> ProcType]
  BY TopRight DEF Console, TypeOK
<1>2. CASE Switch
  <2>1. \A s \in Slots : RowSame(s)
    BY <1>1, <1>2 DEF Switch, SwitchTo, RowSame, ProcType
  <2> QED BY <1>2, <2>1, SwitchCalm DEF Calm, StackCalm, Switch, history
<1>3. CASE Tick
  BY <1>3, TickCalm DEF Calm, StackCalm, Tick
<1> QED BY <1>2, <1>3

-----------------------------------------------------------------------------
(* The steps of ProcessLife. *)

LEMMA CalmStep ==
  ASSUME LifeOf' = LifeOf, report' = NoReport, exited' = exited
  PROVE  [Lives!Next]_(Lives!vars)
<1>1. CASE report = NoReport
  BY <1>1 DEF Lives!vars, LifeOf
<1>2. CASE report # NoReport
  <2>1. Lives!Quiet
    BY <1>2 DEF Lives!Quiet, LifeOf
  <2> QED BY <2>1 DEF Lives!Next
<1> QED BY <1>1, <1>2

LEMMA BornStep ==
  ASSUME NEW p \in Pids, LifeOf[p] = "unborn", \A q \in Pids : q < p => LifeOf[q] # "unborn",
         LifeOf' = [LifeOf EXCEPT ![p] = "alive"], report' = NoReport, exited' = exited
  PROVE  Lives!Next
<1>1. Lives!Born(p)
  BY DEF Lives!Born, LifeOf
<1> QED BY <1>1 DEF Lives!Next

LEMMA ExitStep ==
  ASSUME NEW p \in Pids \ {0, 1}, NEW c \in Codes, LifeOf[p] = "alive",
         LifeOf' = [LifeOf EXCEPT ![p] = "zombie"],
         exited' = [exited EXCEPT ![p] = c], report' = NoReport
  PROVE  Lives!Next
<1>1. Lives!Exit(p, c)
  BY DEF Lives!Exit, LifeOf
<1> QED BY <1>1 DEF Lives!Next

LEMMA ReapStep ==
  ASSUME NEW p \in Pids, LifeOf[p] = "zombie", LifeOf' = [LifeOf EXCEPT ![p] = "gone"],
         exited' = [exited EXCEPT ![p] = NoCode], report' = <<p, exited[p]>>
  PROVE  Lives!Next
<1>1. Lives!Reap(p)
  BY DEF Lives!Reap, LifeOf
<1> QED BY <1>1 DEF Lives!Next

LEMMA MistoldStep ==
  ASSUME NEW p \in Pids, NEW q \in Pids, LifeOf[p] = "gone", LifeOf[q] = "zombie",
         LifeOf' = LifeOf, report' = <<p, exited[q]>>, exited' = exited
  PROVE  Lives!Next
<1>1. Lives!Mistold(p)
  BY DEF Lives!Mistold, LifeOf
<1> QED BY <1>1 DEF Lives!Next

LEMMA KillStep ==
  ASSUME NEW p \in Pids \ {0, 1}, LifeOf[p] \in {"alive", "zombie"},
         LifeOf' = [LifeOf EXCEPT ![p] = "gone"],
         exited' = [exited EXCEPT ![p] = NoCode], report' = NoReport
  PROVE  Lives!Next
<1>1. Lives!Kill(p)
  BY DEF Lives!Kill, LifeOf
<1> QED BY <1>1 DEF Lives!Next

-----------------------------------------------------------------------------
(* What is left of the shell's stack after a step, and of the exits. *)

Carried(i) ==
  \/ stack'[1][i].pc \in Calls
  \/ /\ i \in 1 .. Len(stack[1]) /\ SameCall(stack[1][i], stack'[1][i])
     /\ stack[1][i].pc \in {"run3", "build", "publish"} => Kept(stack[1][i].p)

LEMMA CommandCarried ==
  ASSUME Console, Console', LifeRight, next_pid <= next_pid',
         NEW i \in 1 .. Len(stack'[1]), Carried(i),
         \A s \in Slots : table'[s].in_use =>
           \/ table[s].in_use /\ table[s].pid = table'[s].pid
           \/ table'[s].pid = next_pid
  PROVE  CommandRight(stack[1][i], i)'
<1>1. CASE stack'[1][i].pc \in Calls
  BY <1>1 DEF CommandRight, Commands, Calls
<1>2. CASE i \in 1 .. Len(stack[1]) /\ stack'[1][i].pc \notin Calls
  <2>1. PICK f : f = stack[1][i]
    OBVIOUS
  <2>2. PICK g : g = stack'[1][i]
    OBVIOUS
  <2>3. /\ next_pid \in Nat /\ next_pid' \in Nat /\ stack[1] \in Seq(FrameType)
    BY ConstFacts DEF Console, TypeOK
  <2>4. f \in FrameType /\ CommandRight(f, i)
    <3>1. f \in FrameType
      BY <1>2, <2>1, <2>3, ElementOfSeq
    <3>2. CommandRight(f, i)
      BY <1>2, <2>1 DEF LifeRight
    <3> QED BY <3>1, <3>2
  <2>5. SameCall(f, g) /\ (f.pc \in {"run3", "build", "publish"} => Kept(f.p))
    BY <1>2, <2>1, <2>2 DEF Carried
  <2>6. f.pc = "wait" => \A s \in Slots : table'[s].in_use /\ table'[s].pid = f.pid =>
                           table[s].in_use /\ table[s].pid = f.pid
    <3>1. f.pid \in Nat
      BY <2>4 DEF FrameType, Pids
    <3>2. f.pc = "wait" => f.pid < next_pid
      BY <2>4 DEF CommandRight
    <3>3. f.pc = "wait" => f.pid # next_pid
      BY <2>3, <3>1, <3>2
    <3> QED BY <3>3
  <2>7. CommandRight(g, i)'
    BY <2>3, <2>4, <2>5, <2>6, CommandStays
  <2> QED BY <2>2, <2>7 DEF CommandRight
<1> QED BY <1>1, <1>2 DEF Carried

LEMMA ExitStays ==
  ASSUME Console, Console', LifeRight, NEW s \in Slots, RowSame(s),
         Follows(stack[s], stack'[s]), stack[s] # <<>> => stack'[s] # <<>>,
         table[s].in_use => exited'[table[s].pid] = exited[table[s].pid]
  PROVE  ExitRecorded(s)'
<1>1. CASE ~(table[s].in_use /\ table[s].state = "ZOMBIE")
  BY <1>1 DEF ExitRecorded, RowSame
<1>2. CASE table[s].in_use /\ table[s].state = "ZOMBIE"
  <2>1. /\ exited[table[s].pid] = table[s].exit_code
        /\ stack[s] # <<>> /\ stack[s][1].pc = "exit" /\ stack[s][1].ph # "free"
    BY <1>2 DEF LifeRight, ExitRecorded
  <2>2. stack'[s] # <<>> /\ stack'[s][1].pc = "exit" /\ stack'[s][1].ph # "free"
    BY <2>1, BottomStays
  <2>3. exited'[table'[s].pid] = table'[s].exit_code
    BY <1>2, <2>1 DEF RowSame
  <2> QED BY <2>2, <2>3 DEF ExitRecorded
<1> QED BY <1>1, <1>2

(* The shell's stack at the prompt, and under a command of its own. *)
LEMMA ShellStack ==
  ASSUME Console, LifeRight, Top.pc = "idle" \/ (current = 1 /\ Top.pc \in Commands)
  PROVE  /\ current = 1
         /\ Len(stack[1]) = IF Top.pc = "idle" THEN 1 ELSE 2
         /\ stack[1][1].pc = "idle"
<1>1. /\ current \in Slots /\ FrameRight(current, Len(stack[current]))
      /\ Top = stack[current][Len(stack[current])] /\ Len(stack[current]) \in Nat \ {0}
  BY TopRight
<1>2. current = 1
  BY <1>1 DEF FrameRight
<1>3. Len(stack[1]) = IF Top.pc = "idle" THEN 1 ELSE 2
  <2>1. CASE Top.pc = "idle"
    BY <1>1, <1>2, <2>1 DEF FrameRight
  <2>2. CASE Top.pc \in Commands
    <3>1. PICK n \in Nat \ {0} : n = Len(stack[1])
      BY <1>1, <1>2
    <3>2. CommandRight(Top, n)
      BY <1>1, <1>2, <3>1 DEF LifeRight
    <3>3. n = 2
      BY <2>2, <3>2 DEF CommandRight
    <3> QED BY <2>2, <3>1, <3>3 DEF Commands
  <2> QED BY <2>1, <2>2
<1>4. FrameRight(1, 1)
  <2>1. 1 \in 1 .. Len(stack[1]) /\ 1 \in Slots
    BY <1>1, <1>2, <1>3
  <2> QED BY <2>1 DEF Console, StacksRight
<1>5. stack[1][1].pc = "idle"
  BY <1>4 DEF FrameRight
<1> QED BY <1>2, <1>3, <1>5

LEMMA ShellFrame ==
  ASSUME Console, NEW i \in 1 .. Len(stack[1])
  PROVE  stack[1][i] \in FrameType /\ stack[1][i].p \in Slots
<1>1. stack[1] \in Seq(FrameType)
  BY ConstFacts DEF Console, TypeOK
<1>2. stack[1][i] \in FrameType
  BY <1>1, ElementOfSeq
<1> QED BY <1>2 DEF FrameType

(* user_process_exit, in its two steps. *)
LEMMA ExitBegins ==
  ASSUME Console, Console', LifeRight, NEW c \in Codes, SysExit(c)
  PROVE  LifeRight' /\ LifeOf' = LifeOf /\ exited' = exited /\ report' = NoReport
<1>1. /\ current \in Slots \ {0, 1} /\ stack \in Stacks /\ stack[current] # <<>>
      /\ table \in [Slots -> ProcType] /\ table[current].state # "ZOMBIE"
      /\ Frame("exit", "free") \in FrameType
  <2>1. InUser
    BY DEF SysExit
  <2>2. table[current].state # "ZOMBIE"
    BY <2>1, TopRight, InUserSlot DEF FrameRight
  <2> QED BY <2>1, <2>2, TopRight, InUserSlot, FrameMade DEF Console, TypeOK
<1>2. PICK row : row = [user_free_memory(table[current]) EXCEPT !.exit_code = c]
  OBVIOUS
<1>3. table' = [table EXCEPT ![current] = row]
  BY <1>2 DEF SysExit
<1>4. /\ row.in_use = table[current].in_use /\ row.pid = table[current].pid
      /\ row.ppid = table[current].ppid /\ row.state = table[current].state
  BY <1>1, <1>2 DEF user_free_memory, ProcType
<1>5. /\ stack' = SetTop(stack, current, Frame("exit", "free")) /\ next_pid' = next_pid
      /\ exited' = exited /\ report' = NoReport
  BY DEF SysExit, history
<1>6. /\ stack'[current] # <<>> /\ \A s \in Slots \ {current} : stack'[s] = stack[s]
  BY <1>1, <1>5, SetTopFacts
<1>7. /\ table'[current] = row /\ \A s \in Slots \ {current} : table'[s] = table[s]
  BY <1>1, <1>3
<1>8. \A s \in Slots : Kept(s)
  BY <1>4, <1>6, <1>7 DEF Kept
<1>9. ASSUME NEW i \in 1 .. Len(stack'[1]) PROVE CommandRight(stack[1][i], i)'
  <2>1. next_pid <= next_pid' /\ stack'[1] = stack[1]
    BY <1>1, <1>5, <1>6, ConstFacts DEF Console, TypeOK
  <2>2. stack[1][i].p \in Slots
    BY <2>1, ShellFrame
  <2>3. Carried(i)
    BY <1>8, <2>1, <2>2 DEF Carried, SameCall
  <2>4. \A s \in Slots : table'[s].in_use => table[s].in_use /\ table[s].pid = table'[s].pid
    BY <1>8 DEF Kept
  <2> QED BY <2>1, <2>3, <2>4, CommandCarried
<1>10. ASSUME NEW s \in Slots PROVE ExitRecorded(s)'
  <2>1. CASE s = current
    BY <1>1, <1>4, <1>7, <2>1 DEF ExitRecorded
  <2>2. CASE s # current
    <3>1. RowSame(s) /\ stack'[s] = stack[s] /\ Follows(stack[s], stack'[s])
      BY <1>6, <1>7, <2>2, FollowsSelf DEF RowSame
    <3> QED BY <1>5, <3>1, ExitStays
  <2> QED BY <2>1, <2>2
<1>11. LifeOf' = LifeOf
  <2>1. \A s \in Slots : /\ table'[s].in_use = table[s].in_use
                         /\ table'[s].pid = table[s].pid
                         /\ table[s].in_use => (table'[s].state = "ZOMBIE" <=> table[s].state = "ZOMBIE")
    BY <1>4, <1>7
  <2> QED BY <1>5, <2>1, LifeUnchanged DEF Console
<1> QED BY <1>5, <1>9, <1>10, <1>11 DEF LifeRight

LEMMA ExitEnds ==
  ASSUME Console, Console', LifeRight, ExitZombie
  PROVE  LifeRight' /\ Lives!Next
<1>0. PICK x : x = table[current].pid
  OBVIOUS
<1>1. /\ current \in Slots \ {0} /\ stack \in Stacks /\ stack[current] # <<>>
      /\ table \in [Slots -> ProcType] /\ Top \in FrameType /\ Top.pc = "exit" /\ Top.ph = "free"
      /\ Top = stack[current][Len(stack[current])] /\ Last(stack[current]) = Top
      /\ FrameRight(current, Len(stack[current])) /\ table[current].in_use
      /\ table[current] \in ProcType
  BY TopRight DEF ExitZombie, At, Top, Console, TypeOK
<1>2. current # 1 /\ Len(stack[current]) = 1
  BY <1>1 DEF FrameRight
<1>3. x \in Pids \ {0, 1} /\ table[current].exit_code \in Codes
  BY <1>0, <1>1, <1>2 DEF Console, SystemSlots, ProcType
<1>4. table[current].state # "ZOMBIE"
  <2>1. stack[current][1].ph = "free"
    BY <1>1, <1>2
  <2> QED BY <1>1, <2>1 DEF LifeRight, ExitRecorded
<1>5. PICK f : f = [Top EXCEPT !.ph = "test"]
  OBVIOUS
<1>6. f \in FrameType /\ f.pc = "exit" /\ f.ph = "test" /\ SameCall(Top, f)
  BY <1>1, <1>5 DEF FrameType, SameCall
<1>7. /\ table' = [table EXCEPT ![current].state = "ZOMBIE"]
      /\ stack' = SetTop(stack, current, f) /\ next_pid' = next_pid /\ report' = NoReport
      /\ exited' = [exited EXCEPT ![x] = table[current].exit_code]
  BY <1>0, <1>5 DEF ExitZombie
<1>8. /\ \A s \in Slots \ {current} : stack'[s] = stack[s]
      /\ stack'[current] # <<>> /\ stack'[current][1] = f
  BY <1>1, <1>2, <1>6, <1>7, SetTopFacts
<1>9. /\ \A s \in Slots \ {current} : table'[s] = table[s]
      /\ table'[current].in_use = table[current].in_use /\ table'[current].pid = x
      /\ table'[current].ppid = table[current].ppid
      /\ table'[current].state = "ZOMBIE" /\ table'[current].exit_code = table[current].exit_code
  BY <1>0, <1>1, <1>7 DEF ProcType
<1>10. \A s \in Slots : Kept(s)
  BY <1>0, <1>1, <1>8, <1>9 DEF Kept
<1>11. ASSUME NEW i \in 1 .. Len(stack'[1]) PROVE CommandRight(stack[1][i], i)'
  <2>1. next_pid <= next_pid' /\ stack'[1] = stack[1]
    BY <1>2, <1>7, <1>8, ConstFacts DEF Console, TypeOK
  <2>2. stack[1][i].p \in Slots
    BY <2>1, ShellFrame
  <2>3. Carried(i)
    BY <1>10, <2>1, <2>2 DEF Carried, SameCall
  <2>4. \A s \in Slots : table'[s].in_use => table[s].in_use /\ table[s].pid = table'[s].pid
    BY <1>10 DEF Kept
  <2> QED BY <2>1, <2>3, <2>4, CommandCarried
<1>12. exited \in [Pids -> Codes \cup {NoCode}] /\ exited'[x] = table[current].exit_code
  BY <1>3, <1>7 DEF Console, TypeOK
<1>13. ASSUME NEW s \in Slots PROVE ExitRecorded(s)'
  <2>1. CASE s = current
    BY <1>6, <1>8, <1>9, <1>12, <2>1 DEF ExitRecorded
  <2>2. CASE s # current
    <3>1. RowSame(s) /\ stack'[s] = stack[s] /\ Follows(stack[s], stack'[s])
      BY <1>8, <1>9, <2>2, FollowsSelf DEF RowSame
    <3>2. table[s].in_use => table[s].pid # x
      BY <1>0, <1>1, <2>2 DEF Console, PidsUnique
    <3>3. table[s].pid \in Pids
      BY <1>1 DEF ProcType
    <3>4. table[s].in_use => exited'[table[s].pid] = exited[table[s].pid]
      BY <1>7, <1>12, <3>2, <3>3
    <3> QED BY <3>1, <3>4, ExitStays
  <2> QED BY <2>1, <2>2
<1>14. LifeOf' = [LifeOf EXCEPT ![x] = "zombie"]
  <2>1. LifeOf' = [LifeOf EXCEPT ![x] =
           IF ~table'[current].in_use THEN "gone"
           ELSE IF table'[current].state = "ZOMBIE" THEN "zombie" ELSE "alive"]
    BY <1>0, <1>1, <1>3, <1>7, <1>9, LifeChanges DEF Console
  <2> QED BY <1>1, <1>9, <2>1
<1>15. LifeOf[x] = "alive"
  <2>1. LifeOf[x] = LifeIn(table, next_pid, x)
    BY <1>3, LifeEnds DEF Console
  <2>2. table \in Tables /\ next_pid \in Nat /\ UniqueIn(table, next_pid)
    BY LifeEnds DEF Console
  <2> QED BY <1>0, <1>1, <1>3, <1>4, <2>1, <2>2, LifeCases
<1>16. Lives!Next
  BY <1>3, <1>7, <1>14, <1>15, ExitStep
<1> QED BY <1>11, <1>13, <1>16 DEF LifeRight

(* Commands hold on to slots in use. *)
LEMMA CommandSlot ==
  ASSUME Console, LifeRight, NEW i \in 1 .. Len(stack[1]),
         stack[1][i].pc \in {"run3", "build", "publish"}
  PROVE  stack[1][i].p \in Slots /\ table[stack[1][i].p].in_use
<1>1. stack[1][i].p \in Slots /\ 1 \in Slots
  BY ShellFrame, ConstFacts
<1>2. CommandRight(stack[1][i], i) /\ FrameRight(1, i)
  BY <1>1 DEF LifeRight, Console, StacksRight
<1>3. CASE stack[1][i].pc = "run3"
  BY <1>1, <1>2, <1>3 DEF CommandRight
<1>4. CASE stack[1][i].pc \in {"build", "publish"}
  BY <1>1, <1>2, <1>4 DEF FrameRight, FillsIn
<1> QED BY <1>3, <1>4

LEMMA ShellPushes ==
  ASSUME Console, Console', LifeRight, next_pid <= next_pid', NEW f \in FrameType,
         stack' = Push(stack, current, f), current = 1 => Top.pc = "idle" /\ CommandRight(f, 2)',
         \A s \in Slots : table[s].in_use => Kept(s),
         \A s \in Slots : table'[s].in_use =>
           \/ table[s].in_use /\ table[s].pid = table'[s].pid
           \/ table'[s].pid = next_pid,
         NEW i \in 1 .. Len(stack'[1])
  PROVE  CommandRight(stack[1][i], i)'
<1>1. current \in Slots /\ stack \in Stacks /\ 1 \in Slots
  BY TopRight, ConstFacts
<1>2. CASE current # 1
  <2>1. stack'[1] = stack[1]
    BY <1>1, <1>2, PushFacts
  <2>2. Carried(i)
    BY <2>1, CommandSlot DEF Carried, SameCall
  <2> QED BY <2>2, CommandCarried
<1>3. CASE current = 1
  <2>1. Len(stack[1]) = 1 /\ stack[1][1].pc = "idle"
    BY <1>3, ShellStack
  <2>2. Len(stack'[1]) = 2 /\ stack'[1][2] = f /\ stack'[1][1] = stack[1][1]
    <3>1. /\ Len(stack'[1]) = Len(stack[1]) + 1 /\ stack'[1][Len(stack[1]) + 1] = f
          /\ \A j \in 1 .. Len(stack[1]) : stack'[1][j] = stack[1][j]
      BY <1>1, <1>3, PushFacts
    <3> QED BY <2>1, <3>1
  <2>3. i = 1 \/ i = 2
    BY <2>2
  <2>4. CASE i = 1
    <3>1. Carried(i)
      BY <2>1, <2>2, <2>4 DEF Carried, SameCall
    <3> QED BY <3>1, CommandCarried
  <2>5. CASE i = 2
    BY <1>3, <2>2, <2>5 DEF CommandRight
  <2> QED BY <2>3, <2>4, <2>5
<1> QED BY <1>2, <1>3

LEMMA WaitBegins ==
  ASSUME Console, Console', LifeRight, NEW arg \in Pids, CmdWait(arg)
  PROVE  LifeRight' /\ LifeOf' = LifeOf /\ exited' = exited /\ report' = NoReport
<1>1. PICK f : f = WaitFrame(WaitTarget(arg), pit_ticks, ~intr)
  OBVIOUS
<1>2. /\ stack' = Push(stack, current, f) /\ table' = table /\ next_pid' = next_pid
      /\ exited' = exited /\ report' = NoReport
  BY <1>1 DEF CmdWait, OnlyStackChanges, history
<1>3. f \in FrameType
  BY <1>1, WaitFrameType DEF CmdWait, Console, TypeOK
<1>4. f.pc = "wait" /\ f.pid = WaitTarget(arg) /\ f.p = process_get(table, WaitTarget(arg))
  BY <1>1 DEF WaitFrame, Frame
<1>5. /\ f.p \in Slots /\ table[f.p].in_use /\ table[f.p].pid = f.pid
  BY <1>4, SystemPid DEF CmdWait, Waitable
<1>6. current = 1 /\ Top.pc = "idle"
  BY AtPrompt DEF CmdWait
<1>7. CommandRight(f, 2)'
  <2>1. f.pid < next_pid /\ \A s \in Slots : table[s].in_use /\ table[s].pid = f.pid => s = f.p
    BY <1>5 DEF Console, PidsUnique
  <2> QED BY <1>2, <1>4, <2>1 DEF CommandRight, Commands
<1>8. stack \in Stacks /\ current \in Slots /\ next_pid <= next_pid'
  BY <1>2, TopRight DEF Console, TypeOK
<1>9. /\ stack'[current] # <<>> /\ \A s \in Slots \ {current} : stack'[s] = stack[s]
  BY <1>2, <1>3, <1>8, PushFacts
<1>10. \A s \in Slots : Kept(s)
  BY <1>2, <1>9 DEF Kept
<1>11. ASSUME NEW i \in 1 .. Len(stack'[1]) PROVE CommandRight(stack[1][i], i)'
  BY <1>2, <1>3, <1>6, <1>7, <1>8, <1>10, ShellPushes
<1>12. ASSUME NEW s \in Slots PROVE ExitRecorded(s)'
  <2>1. CASE s = current
    BY <1>2, <1>6, <2>1 DEF ExitRecorded, Console, SystemSlots
  <2>2. CASE s # current
    BY <1>2, <1>9, <2>2 DEF ExitRecorded, LifeRight
  <2> QED BY <2>1, <2>2
<1>13. LifeOf' = LifeOf
  BY <1>2, LifeUnchanged DEF Console
<1> QED BY <1>2, <1>11, <1>12, <1>13 DEF LifeRight

(* process_alloc: for fork, for run3, for run. *)
LEMMA Birth ==
  ASSUME Console, Console', LifeRight, NEW z \in Slots, ~table[z].in_use,
         \A s \in Slots \ {z} : table'[s] = table[s],
         table'[z].in_use, table'[z].pid = next_pid, table'[z].state # "ZOMBIE",
         next_pid \in Pids, next_pid' = next_pid + 1, exited' = exited, report' = NoReport,
         NEW f \in FrameType, stack' = Push(stack, current, f),
         current = 1 => Top.pc = "idle" /\ CommandRight(f, 2)'
  PROVE  LifeRight' /\ Lives!Next
<1>b. current \in Slots \ {0} /\ stack \in Stacks /\ stack[current] # <<>>
  BY TopRight, ZenonT(30)
<1>c. next_pid \in Nat
  BY ConstFacts DEF Pids
<1>d. next_pid <= next_pid'
  BY <1>c
<1>1. /\ current \in Slots /\ stack \in Stacks /\ stack[current] # <<>>
      /\ next_pid \in Nat /\ next_pid <= next_pid'
  BY <1>b, <1>c, <1>d
<1>2. /\ stack'[current] # <<>> /\ \A s \in Slots \ {current} : stack'[s] = stack[s]
  BY <1>1, PushFacts
<1>3. \A s \in Slots : table[s].in_use => Kept(s)
  BY <1>2 DEF Kept
<1>4. \A s \in Slots : table'[s].in_use =>
           \/ table[s].in_use /\ table[s].pid = table'[s].pid
           \/ table'[s].pid = next_pid
  OBVIOUS
<1>5. ASSUME NEW i \in 1 .. Len(stack'[1]) PROVE CommandRight(stack[1][i], i)'
  BY <1>1, <1>3, <1>4, ShellPushes
<1>6. ASSUME NEW s \in Slots PROVE ExitRecorded(s)'
  <2>1. CASE s = z
    BY <2>1 DEF ExitRecorded
  <2>2. CASE s # z
    <3>1. RowSame(s) /\ (stack[s] # <<>> => stack'[s] # <<>>)
      BY <1>2, <2>2 DEF RowSame
    <3>2. CASE s # current
      <4>1. Follows(stack[s], stack'[s])
        BY <1>2, <3>2, FollowsSelf
      <4> QED BY <3>1, <4>1, ExitStays
    <3>3. CASE s = current
      <4>1. stack'[s][1] = stack[s][1]
        <5>1. Len(stack[current]) \in Nat \ {0}
          BY TopRight
        <5>2. 1 \in 1 .. Len(stack[current])
          BY <5>1
        <5> QED BY <1>1, <3>3, <5>2, PushFacts
      <4>2. ExitRecorded(s)
        BY DEF LifeRight
      <4> QED BY <3>1, <4>1, <4>2 DEF ExitRecorded, RowSame
    <3> QED BY <3>2, <3>3
  <2> QED BY <2>1, <2>2
<1>7. /\ LifeOf[next_pid] = "unborn"
      /\ \A q \in Pids : q < next_pid => LifeOf[q] # "unborn"
      /\ LifeOf' = [LifeOf EXCEPT ![next_pid] = "alive"]
  BY LifeBegins DEF Console
<1>8. Lives!Next
  BY <1>7, BornStep
<1> QED BY <1>5, <1>6, <1>8 DEF LifeRight

LEMMA Births ==
  ASSUME Console, Console', UserPidRight, LifeRight,
         \/ SysFork \/ \E kind \in {"run3fg", "run3bg"} : CmdRun3(kind)
         \/ \E bg \in BOOLEAN : CmdRun(bg)
  PROVE  LifeRight' /\ Lives!Next
<1>1. CanAlloc /\ next_pid' = next_pid + 1 /\ exited' = exited /\ report' = NoReport
  BY DEF SysFork, CmdRun3, CmdRun, SpawnAlloc, history
<1>2. PICK z : z = Min(FreeSlots)
  OBVIOUS
<1>3. PICK row : /\ row = process_alloc \/ \E bg \in BOOLEAN : row = [process_alloc EXCEPT !.bg = bg]
                 /\ table' = [table EXCEPT ![z] = row]
  BY <1>2 DEF SysFork, CmdRun3, CmdRun, SpawnAlloc
<1>4. /\ process_alloc \in ProcType /\ process_alloc.state = "RUNNING" /\ process_alloc.in_use
      /\ process_alloc.pid = next_pid /\ z \in Slots /\ ~table[z].in_use
      /\ next_pid \in Pids \ {0, 1}
      /\ process_alloc.ppid = IF current_user_pid # 0 THEN current_user_pid
                                                      ELSE table[current].pid
  BY <1>1, <1>2, AllocRow
<1>5. /\ row.state = "RUNNING" /\ row.in_use /\ row.pid = next_pid
      /\ row.ppid = process_alloc.ppid
  BY <1>3, <1>4 DEF ProcType
<1>6. table'[z] = row /\ \A s \in Slots \ {z} : table'[s] = table[s]
  BY <1>3, <1>4 DEF Console, TypeOK
<1>7. PICK kind \in {"fork", "run3fg", "run3bg"} : \E f :
        /\ \/ f = [Frame("build", kind) EXCEPT !.p = z, !.pid = next_pid, !.masked = ~intr]
           \/ f = [Frame("legacy", "test") EXCEPT !.pid = next_pid]
        /\ stack' = Push(stack, current, f)
  BY <1>2 DEF SysFork, CmdRun3, CmdRun, SpawnAlloc
<1>f. PICK f :
        /\ \/ f = [Frame("build", kind) EXCEPT !.p = z, !.pid = next_pid, !.masked = ~intr]
           \/ f = [Frame("legacy", "test") EXCEPT !.pid = next_pid]
        /\ stack' = Push(stack, current, f)
  BY <1>7
<1>8. f \in FrameType /\ (f.pc = "legacy" \/ (f.pc = "build" /\ f.p = z))
  <2>1. /\ Frame("build", kind) \in FrameType /\ Frame("build", kind).pc = "build"
        /\ Frame("legacy", "test") \in FrameType /\ Frame("legacy", "test").pc = "legacy"
    BY FrameMade DEF Console, Frame
  <2>2. (~intr) \in BOOLEAN
    OBVIOUS
  <2> QED BY <1>4, <1>f, <2>1, <2>2 DEF FrameType
<1>9. ASSUME current = 1 PROVE Top.pc = "idle" /\ CommandRight(f, 2)'
  <2>1. Top.pc = "idle"
    BY <1>9, AtPrompt, InUserSlot DEF SysFork, CmdRun3, CmdRun
  <2>2. current_user_pid = 0 /\ table[current].pid = 1
    BY <1>9 DEF UserPidRight, Console, SystemSlots
  <2>3. table'[z].ppid = 1
    BY <1>4, <1>5, <1>6, <2>2
  <2> QED BY <1>8, <2>1, <2>3 DEF CommandRight, Commands
<1>10. table'[z].in_use /\ table'[z].pid = next_pid /\ table'[z].state # "ZOMBIE"
       /\ next_pid \in Pids
  BY <1>4, <1>5, <1>6
<1> QED BY <1>1, <1>4, <1>6, <1>8, <1>9, <1>10, <1>f, Birth

(* A creation ends. *)
LEMMA Publication ==
  ASSUME Console, Console', LifeRight, SpawnPublish
  PROVE  LifeRight' /\ LifeOf' = LifeOf /\ exited' = exited /\ report' = NoReport
<1>p. PICK p : p = Top.p
  OBVIOUS
<1>g. PICK g : g = [Frame("user", "test") EXCEPT !.masked = FALSE]
  OBVIOUS
<1>r. PICK r : r = [Top EXCEPT !.pc = "run3", !.ph = "test", !.p = process_get(table, Top.pid)]
  OBVIOUS
<1>a. PICK after :
        /\ stack' = [after EXCEPT ![p] = <<g>>]
        /\ after = IF Top.ph = "run3fg" /\ Exists(table, Top.pid)
                     THEN SetTop(stack, current, r) ELSE Pop(stack, current)
  BY <1>p, <1>g, <1>r DEF SpawnPublish
<1>1. /\ current \in Slots \ {0} /\ stack \in Stacks /\ stack[current] # <<>>
      /\ FrameRight(current, Len(stack[current])) /\ Top = stack[current][Len(stack[current])]
      /\ Top \in FrameType /\ Top.pc = "publish" /\ table \in [Slots -> ProcType] /\ 1 \in Slots
  BY TopRight, ConstFacts DEF SpawnPublish, Console, TypeOK
<1>2. FillsIn(current, Top)
  BY <1>1 DEF FrameRight
<1>3. /\ p \in Slots \ {0, 1, current} /\ table[p].in_use /\ stack[p] = <<>>
      /\ table[p].pid = Top.pid
  BY <1>1, <1>2, <1>p DEF FillsIn, FrameType
<1>4. table[p].state # "ZOMBIE"
  BY <1>3 DEF LifeRight, ExitRecorded
<1>5. PICK b : table' = [table EXCEPT ![p] = [@ EXCEPT !.esp = TRUE, !.user = TRUE,
                                                !.state = "RUNNING", !.bg = b]]
  BY <1>p DEF SpawnPublish
<1>6. /\ \A t \in Slots \ {p} : table'[t] = table[t]
      /\ table'[p].in_use = table[p].in_use /\ table'[p].state = "RUNNING"
      /\ table'[p].pid = table[p].pid /\ table'[p].ppid = table[p].ppid
  BY <1>1, <1>3, <1>5 DEF ProcType
<1>7. next_pid' = next_pid /\ exited' = exited /\ report' = NoReport /\ current' = current
  BY DEF SpawnPublish, history, cpuVars
<1>8. after \in Stacks /\ \A t \in Slots \ {current} : after[t] = stack[t]
  <2>1. CASE Top.ph = "run3fg" /\ Exists(table, Top.pid)
    <3>1. process_get(table, Top.pid) \in Slots
      BY <2>1, SystemPid
    <3>2. r \in FrameType
      BY <1>1, <1>r, <3>1 DEF FrameType
    <3>3. after = SetTop(stack, current, r)
      BY <1>a, <2>1
    <3> QED BY <1>1, <3>2, <3>3, SetTopFacts
  <2>2. CASE ~(Top.ph = "run3fg" /\ Exists(table, Top.pid))
    <3>1. after = Pop(stack, current)
      BY <1>a, <2>2
    <3> QED BY <1>1, <3>1, PopFacts
  <2> QED BY <2>1, <2>2
<1>9. /\ stack'[p] = <<g>> /\ stack'[current] = after[current]
      /\ \A t \in Slots \ {p, current} : stack'[t] = stack[t]
  BY <1>1, <1>3, <1>8, <1>a DEF Stacks
<1>10. stack'[current] # <<>> /\ stack'[p] # <<>>
  <2>1. stack'[current] # <<>>
    BY <1>7 DEF Console, ContextsRight, CurrentIsLive
  <2>2. <<g>> # <<>>
    OBVIOUS
  <2> QED BY <1>9, <2>1, <2>2
<1>11. \A s \in Slots : Kept(s)
  BY <1>6, <1>9, <1>10 DEF Kept
<1>12. \A s \in Slots : table'[s].in_use => table[s].in_use /\ table[s].pid = table'[s].pid
  BY <1>11 DEF Kept
<1>13. next_pid <= next_pid'
  BY <1>7 DEF Console, TypeOK
<1>14. ASSUME NEW i \in 1 .. Len(stack'[1]) PROVE CommandRight(stack[1][i], i)'
  <2>1. ASSUME i \in 1 .. Len(stack[1]), stack'[1][i] = stack[1][i]
        PROVE  CommandRight(stack[1][i], i)'
    <3>1. stack[1][i].p \in Slots
      BY <2>1, ShellFrame
    <3>2. Carried(i)
      BY <1>11, <2>1, <3>1 DEF Carried, SameCall
    <3> QED BY <1>12, <1>13, <3>2, CommandCarried
  <2>2. CASE current # 1
    <3>1. stack'[1] = stack[1]
      BY <1>1, <1>3, <1>9, <2>2
    <3> QED BY <2>1, <3>1
  <2>3. CASE current = 1 /\ ~(Top.ph = "run3fg" /\ Exists(table, Top.pid))
    <3>1. stack'[1] = Pop(stack, 1)[1]
      BY <1>9, <1>a, <2>3
    <3>2. PICK n \in Nat \ {0} : n = Len(stack[1])
      BY <2>3, TopRight
    <3>3. Len(stack'[1]) = n - 1 /\ \A j \in 1 .. n - 1 : stack'[1][j] = stack[1][j]
      BY <1>1, <2>3, <3>1, <3>2, PopFacts
    <3>4. i \in 1 .. n - 1 /\ i \in 1 .. n
      BY <3>2, <3>3
    <3> QED BY <2>1, <3>2, <3>3, <3>4
  <2>4. CASE current = 1 /\ Top.ph = "run3fg" /\ Exists(table, Top.pid)
    <3>1. process_get(table, Top.pid) \in Slots /\ process_get(table, Top.pid) = p
      BY <1>3, <2>4, SystemPid DEF Console, PidsUnique
    <3>2. r \in FrameType /\ r.pc = "run3" /\ r.p = p /\ r.pid = Top.pid
      BY <1>1, <1>r, <3>1 DEF FrameType
    <3>3. Len(stack[1]) = 2
      BY <1>1, <2>4, ShellStack DEF Commands
    <3>4. stack'[1] = SetTop(stack, 1, r)[1]
      BY <1>9, <1>a, <2>4
    <3>5. /\ Len(stack'[1]) = Len(stack[1]) /\ stack'[1][Len(stack[1])] = r
          /\ \A j \in 1 .. Len(stack[1]) - 1 : stack'[1][j] = stack[1][j]
      BY <1>1, <2>4, <3>2, <3>4, SetTopFacts
    <3>6. stack'[1][2] = r /\ stack'[1][1] = stack[1][1] /\ (i = 1 \/ i = 2)
      BY <3>3, <3>5
    <3>7. table[p].ppid = 1
      <4>1. CommandRight(Top, 2)
        <5>1. 2 \in 1 .. Len(stack[1])
          BY <3>3
        <5>2. Top = stack[1][2]
          BY <1>1, <2>4, <3>3
        <5> QED BY <5>1, <5>2 DEF LifeRight
      <4> QED BY <1>1, <1>p, <4>1 DEF CommandRight
    <3>8. CommandRight(r, 2)'
      BY <1>3, <1>6, <1>10, <3>2, <3>7 DEF CommandRight, Commands
    <3>9. CASE i = 2
      BY <3>6, <3>8, <3>9 DEF CommandRight
    <3>10. CASE i = 1
      BY <2>1, <3>3, <3>6, <3>10
    <3> QED BY <3>6, <3>9, <3>10
  <2> QED BY <2>2, <2>3, <2>4
<1>15. ASSUME NEW s \in Slots PROVE ExitRecorded(s)'
  <2>1. CASE s = p
    BY <1>6, <2>1 DEF ExitRecorded
  <2>2. CASE s \notin {p, current}
    <3>1. RowSame(s) /\ Follows(stack[s], stack'[s]) /\ stack'[s] = stack[s]
      BY <1>6, <1>9, <2>2, FollowsSelf DEF RowSame
    <3> QED BY <1>7, <3>1, ExitStays
  <2>3. CASE s = current /\ current = 1
    BY <1>3, <1>6, <2>3 DEF ExitRecorded, Console, SystemSlots
  <2>4. CASE s = current /\ current # 1
    <3>1. stack'[s] = Pop(stack, current)[s]
      BY <1>2, <1>9, <1>a, <2>4 DEF FillsIn
    <3>2. Follows(stack[s], stack[s])
      BY FollowsSelf
    <3>3. Follows(stack[s], stack'[s])
      BY <1>1, <3>1, <3>2, PopFollows
    <3>4. RowSame(s)
      BY <1>3, <1>6, <2>4 DEF RowSame
    <3> QED BY <1>7, <1>10, <2>4, <3>3, <3>4, ExitStays
  <2> QED BY <2>1, <2>2, <2>3, <2>4
<1>16. LifeOf' = LifeOf
  <2>1. \A s \in Slots : /\ table'[s].in_use = table[s].in_use
                         /\ table'[s].pid = table[s].pid
                         /\ table[s].in_use => (table'[s].state = "ZOMBIE" <=> table[s].state = "ZOMBIE")
    BY <1>4, <1>6
  <2> QED BY <1>7, <2>1, LifeUnchanged DEF Console
<1> QED BY <1>7, <1>14, <1>15, <1>16 DEF LifeRight

(* A slot is freed: by the process that waited, by kill, by a creation that *)
(* failed.                                                                  *)
LEMMA Death ==
  ASSUME Console, Console', LifeRight, NEW z \in Slots \ {0, 1, current}, table[z].in_use,
         NEW stk, stk = stack \/ stk = Pop(stack, current), FreeSlot(z, stk),
         next_pid' = next_pid,
         \A i \in 1 .. Len(stk[1]) : stk[1][i].pc \in {"run3", "build", "publish"} => stk[1][i].p # z
  PROVE  /\ LifeRight'
         /\ LifeOf' = [LifeOf EXCEPT ![table[z].pid] = "gone"]
         /\ exited' = [exited EXCEPT ![table[z].pid] = NoCode]
         /\ table[z].pid \in Pids \ {0, 1}
         /\ LifeOf[table[z].pid] = IF table[z].state = "ZOMBIE" THEN "zombie" ELSE "alive"
         /\ table[z].state = "ZOMBIE" => exited[table[z].pid] = table[z].exit_code
<1>0. PICK x : x = table[z].pid
  OBVIOUS
<1>1. /\ current \in Slots /\ stack \in Stacks /\ stack[current] # <<>> /\ 1 \in Slots
      /\ table \in [Slots -> ProcType] /\ exited \in [Pids -> Codes \cup {NoCode}]
  BY TopRight, ConstFacts DEF Console, TypeOK
<1>2. x \in Pids \ {0, 1}
  BY <1>0, <1>1 DEF Console, SystemSlots, ProcType
<1>3. stk \in Stacks /\ \A t \in Slots \ {current} : stk[t] = stack[t]
  BY <1>1, PopFacts
<1>4. /\ \A t \in Slots \ {z} : table'[t] = table[t]
      /\ ~table'[z].in_use
  BY FreedRow DEF Console
<1>5. /\ \A t \in Slots \ {z} : stack'[t] = stk[t]
      /\ current' = current /\ exited' = [exited EXCEPT ![x] = NoCode]
  BY <1>0, <1>3 DEF FreeSlot, StackWithout, CurrentWithout, Stacks
<1>6. stack'[current] # <<>>
  BY <1>5 DEF Console, ContextsRight, CurrentIsLive
<1>7. \A s \in Slots \ {z} : Kept(s)
  BY <1>3, <1>4, <1>5, <1>6 DEF Kept
<1>8. \A s \in Slots : Follows(stack[s], stk[s])
  <2>1. CASE stk = stack
    BY <2>1, FollowsSelf
  <2>2. CASE stk = Pop(stack, current)
    <3> SUFFICES ASSUME NEW s \in Slots PROVE Follows(stack[s], stk[s])
      OBVIOUS
    <3>1. Follows(stack[s], stack[s])
      BY FollowsSelf
    <3> QED BY <1>1, <2>2, <3>1, PopFollows
  <2> QED BY <2>1, <2>2
<1>9. ASSUME NEW i \in 1 .. Len(stack'[1]) PROVE CommandRight(stack[1][i], i)'
  <2>1. stack'[1] = stk[1]
    BY <1>1, <1>5
  <2>2. \/ stk[1][i].pc \in Calls
        \/ i \in 1 .. Len(stack[1]) /\ SameCall(stack[1][i], stk[1][i])
    BY <1>1, <1>8, <2>1 DEF Follows
  <2>3. ASSUME i \in 1 .. Len(stack[1]), SameCall(stack[1][i], stk[1][i]),
               stack[1][i].pc \in {"run3", "build", "publish"}
        PROVE  Kept(stack[1][i].p)
    <3>1. stk[1][i].pc \in {"run3", "build", "publish"} /\ stk[1][i].p = stack[1][i].p
      BY <2>3 DEF SameCall
    <3>2. stack[1][i].p \in Slots /\ stack[1][i].p # z
      BY <2>1, <2>3, <3>1, ShellFrame
    <3> QED BY <1>7, <3>2
  <2>4. Carried(i)
    BY <2>1, <2>2, <2>3 DEF Carried
  <2>5. \A s \in Slots : table'[s].in_use => table[s].in_use /\ table[s].pid = table'[s].pid
    BY <1>4
  <2>6. next_pid <= next_pid'
    BY DEF Console, TypeOK
  <2> QED BY <2>4, <2>5, <2>6, CommandCarried
<1>10. ASSUME NEW s \in Slots PROVE ExitRecorded(s)'
  <2>1. CASE s = z
    BY <1>4, <2>1 DEF ExitRecorded
  <2>2. CASE s # z
    <3>1. RowSame(s) /\ Follows(stack[s], stack'[s])
      BY <1>4, <1>5, <1>8, <2>2 DEF RowSame
    <3>2. stack[s] # <<>> => stack'[s] # <<>>
      BY <1>7, <2>2 DEF Kept
    <3>3. table[s].in_use => table[s].pid # x
      BY <1>0, <2>2 DEF Console, PidsUnique
    <3>4. table[s].pid \in Pids
      BY <1>1 DEF ProcType
    <3>5. table[s].in_use => exited'[table[s].pid] = exited[table[s].pid]
      BY <1>1, <1>5, <3>3, <3>4
    <3> QED BY <3>1, <3>2, <3>5, ExitStays
  <2> QED BY <2>1, <2>2
<1>11. LifeOf' = [LifeOf EXCEPT ![x] = "gone"]
  <2>1. LifeOf' = [LifeOf EXCEPT ![x] =
           IF ~table'[z].in_use THEN "gone"
           ELSE IF table'[z].state = "ZOMBIE" THEN "zombie" ELSE "alive"]
    BY <1>0, <1>2, <1>4, LifeChanges DEF Console
  <2> QED BY <1>4, <2>1
<1>12. LifeOf[x] = IF table[z].state = "ZOMBIE" THEN "zombie" ELSE "alive"
  <2>1. LifeOf[x] = LifeIn(table, next_pid, x)
    BY <1>2, LifeEnds DEF Console
  <2>2. table \in Tables /\ next_pid \in Nat /\ UniqueIn(table, next_pid)
    BY LifeEnds DEF Console
  <2> QED BY <1>0, <1>2, <2>1, <2>2, LifeCases
<1>13. table[z].state = "ZOMBIE" => exited[x] = table[z].exit_code
  BY <1>0 DEF LifeRight, ExitRecorded
<1>14. LifeRight'
  BY <1>9, <1>10 DEF LifeRight
<1> QED BY <1>0, <1>2, <1>5, <1>11, <1>12, <1>13, <1>14

(* Who frees a slot holds it, and no other command of the shell does. *)
LEMMA ShellReturns ==
  ASSUME Console, LifeRight, current = 1, Top.pc \in Commands, NEW z
  PROVE  \A i \in 1 .. Len(Pop(stack, current)[1]) :
           Pop(stack, current)[1][i].pc \in {"run3", "build", "publish"} =>
             Pop(stack, current)[1][i].p # z
<1>1. stack \in Stacks /\ stack[1] # <<>> /\ 1 \in Slots
  BY TopRight
<1>2. Len(stack[1]) = 2 /\ stack[1][1].pc = "idle"
  BY ShellStack DEF Commands
<1>3. PICK stk : stk = Pop(stack, current)
  OBVIOUS
<1>4. Len(stk[1]) = Len(stack[1]) - 1 /\ \A i \in 1 .. Len(stack[1]) - 1 : stk[1][i] = stack[1][i]
  BY <1>1, <1>3, PopFacts
<1>5. \A i \in 1 .. Len(stk[1]) : i = 1 /\ stk[1][i].pc = "idle"
  BY <1>2, <1>4
<1> QED BY <1>3, <1>5

LEMMA ReturnFreeingLife ==
  ASSUME Console, Console', LifeRight, Exists(table, Top.pid), ReturnFreeing(Top.pid),
         next_pid' = next_pid, Top.pc \in {"run3", "wait", "legacy", "build"}
  PROVE  LET z == process_get(table, Top.pid)
         IN  /\ z \in Slots /\ table[z].in_use /\ table[z].pid = Top.pid
             /\ LifeRight'
             /\ LifeOf' = [LifeOf EXCEPT ![Top.pid] = "gone"]
             /\ exited' = [exited EXCEPT ![Top.pid] = NoCode]
             /\ Top.pid \in Pids \ {0, 1}
             /\ LifeOf[Top.pid] = IF table[z].state = "ZOMBIE" THEN "zombie" ELSE "alive"
             /\ table[z].state = "ZOMBIE" => exited[Top.pid] = table[z].exit_code
<1>0. PICK z : z = process_get(table, Top.pid)
  OBVIOUS
<1>1. /\ z \in Slots \ {0, 1, current} /\ (Top.pc = "build" => z = Top.p)
      /\ table[z].in_use /\ table[z].pid = Top.pid
  BY <1>0, Freed, SystemPid
<1>2. PICK stk : stk = Pop(stack, current)
  OBVIOUS
<1>3. FreeSlot(z, stk)
  BY <1>0, <1>2 DEF ReturnFreeing
<1>4. \A i \in 1 .. Len(stk[1]) : stk[1][i].pc \in {"run3", "build", "publish"} => stk[1][i].p # z
  <2>1. CASE current = 1
    BY <1>2, <2>1, ShellReturns DEF Commands
  <2>2. CASE current # 1
    <3>1. /\ current \in Slots /\ stack \in Stacks /\ stack[current] # <<>> /\ 1 \in Slots
          /\ FrameRight(current, Len(stack[current]))
          /\ Top = stack[current][Len(stack[current])]
      BY TopRight, ConstFacts
    <3>2. Top.pc = "build" /\ z = Top.p /\ stack[z] = <<>>
      BY <1>1, <2>2, <3>1 DEF FrameRight, FillsIn
    <3>3. stk[1] = stack[1]
      BY <1>2, <2>2, <3>1, PopFacts
    <3>4. ASSUME NEW i \in 1 .. Len(stack[1]), stack[1][i].pc \in {"run3", "build", "publish"}
          PROVE  stack[1][i].p # z
      <4>1. FrameRight(1, i) /\ CommandRight(stack[1][i], i)
        BY <3>1 DEF Console, StacksRight, LifeRight
      <4>2. stack[1][i].pc = "run3"
        BY <2>2, <3>4, <4>1 DEF FrameRight, Making
      <4> QED BY <3>2, <4>1, <4>2 DEF CommandRight
    <3> QED BY <3>3, <3>4
  <2> QED BY <2>1, <2>2
<1>5. /\ LifeRight'
      /\ LifeOf' = [LifeOf EXCEPT ![table[z].pid] = "gone"]
      /\ exited' = [exited EXCEPT ![table[z].pid] = NoCode]
      /\ table[z].pid \in Pids \ {0, 1}
      /\ LifeOf[table[z].pid] = IF table[z].state = "ZOMBIE" THEN "zombie" ELSE "alive"
      /\ table[z].state = "ZOMBIE" => exited[table[z].pid] = table[z].exit_code
  BY <1>1, <1>2, <1>3, <1>4, Death
<1> QED BY <1>0, <1>1, <1>5

(* process_free by a creation that failed, and by run's end. *)
LEMMA FailedCreation ==
  ASSUME Console, Console', LifeRight, SpawnFail \/ LegacyReturn
  PROVE  LifeRight' /\ [Lives!Next]_(Lives!vars)
<1>1. /\ Top.pc \in {"legacy", "build"} /\ ReturnFreeing(Top.pid)
      /\ next_pid' = next_pid /\ report' = NoReport
  BY DEF SpawnFail, LegacyReturn, At
<1>2. CASE Exists(table, Top.pid)
  <2>1. /\ LifeRight'
        /\ LifeOf' = [LifeOf EXCEPT ![Top.pid] = "gone"]
        /\ exited' = [exited EXCEPT ![Top.pid] = NoCode]
        /\ Top.pid \in Pids \ {0, 1}
        /\ LifeOf[Top.pid] \in {"alive", "zombie"}
    BY <1>1, <1>2, ReturnFreeingLife
  <2>2. PICK x \in Pids \ {0, 1} : x = Top.pid
    BY <2>1
  <2>3. Lives!Next
    BY <1>1, <2>1, <2>2, KillStep
  <2> QED BY <2>1, <2>3
<1>3. CASE ~Exists(table, Top.pid)
  <2>1. JustReturn /\ exited' = exited
    BY <1>1, <1>3 DEF ReturnFreeing, JustReturn
  <2>2. Calm
    BY <1>1, <2>1, PlainCalm
  <2>3. LifeRight' /\ LifeOf' = LifeOf
    BY <2>2, CalmKeeps
  <2> QED BY <1>1, <2>1, <2>3, CalmStep
<1> QED BY <1>2, <1>3

LEMMA Killing ==
  ASSUME Console, Console', LifeRight, NEW pid \in Pids, CmdKill(pid)
  PROVE  LifeRight' /\ Lives!Next
<1>1. PICK z : z = process_get(table, pid)
  OBVIOUS
<1>2. /\ z \in Slots \ {0, 1, current} /\ table[z].in_use /\ table[z].pid = pid
  BY <1>1, SystemPid DEF CmdKill, Killable
<1>3. FreeSlot(z, stack) /\ next_pid' = next_pid /\ report' = NoReport
  BY <1>1 DEF CmdKill
<1>4. Len(stack[1]) = 1 /\ stack[1][1].pc = "idle"
  BY AtPrompt, ShellStack DEF CmdKill
<1>5. \A i \in 1 .. Len(stack[1]) :
        stack[1][i].pc \in {"run3", "build", "publish"} => stack[1][i].p # z
  BY <1>4
<1>6. /\ LifeRight'
      /\ LifeOf' = [LifeOf EXCEPT ![table[z].pid] = "gone"]
      /\ exited' = [exited EXCEPT ![table[z].pid] = NoCode]
      /\ table[z].pid \in Pids \ {0, 1}
      /\ LifeOf[table[z].pid] = IF table[z].state = "ZOMBIE" THEN "zombie" ELSE "alive"
  BY <1>2, <1>3, <1>5, Death
<1>7. Lives!Next
  BY <1>2, <1>3, <1>6, KillStep
<1> QED BY <1>6, <1>7

(* waitpid, run3 and wait tell a code. *)
LEMMA ParentReaps ==
  ASSUME Console, Console', LifeRight, WaitpidReturn
  PROVE  LifeRight' /\ [Lives!Next]_(Lives!vars)
<1>0. /\ current \in Slots \ {0} /\ stack \in Stacks /\ stack[current] # <<>> /\ 1 \in Slots
      /\ FrameRight(current, Len(stack[current])) /\ table[current].in_use
      /\ Top = stack[current][Len(stack[current])] /\ Top.pc = "waitpid"
  BY TopRight, ConstFacts DEF WaitpidReturn, At
<1>1. current # 1 /\ next_pid' = next_pid
  BY <1>0 DEF FrameRight, WaitpidReturn
<1>2. CASE Zombies(Top.pid) = {}
  <2>1. JustReturn /\ report' = NoReport /\ exited' = exited
    BY <1>2 DEF WaitpidReturn, JustReturn
  <2>2. Calm
    BY <1>1, <2>1, PlainCalm
  <2>3. LifeRight' /\ LifeOf' = LifeOf
    BY <2>2, CalmKeeps
  <2> QED BY <2>1, <2>3, CalmStep
<1>3. CASE Zombies(Top.pid) # {}
  <2>1. Zombies(Top.pid) \in SUBSET Nat
    BY ConstFacts DEF Zombies, Slots
  <2>2. PICK z : z = Min(Zombies(Top.pid))
    OBVIOUS
  <2>3. z \in Zombies(Top.pid)
    BY <1>3, <2>1, <2>2, MinIn
  <2>4. /\ z \in Slots \ {0, 1, current} /\ table[z].in_use /\ table[z].state = "ZOMBIE"
        /\ table[z].ppid = table[current].pid
    BY <2>3 DEF Zombies, Console, SystemSlots
  <2>5. PICK stk : stk = Pop(stack, current)
    OBVIOUS
  <2>6. FreeSlot(z, stk) /\ report' = <<table[z].pid, table[z].exit_code>>
    BY <1>3, <2>2, <2>5 DEF WaitpidReturn
  <2>7. table[z].ppid # 1
    BY <1>0, <1>1, <2>4 DEF Console, SystemSlots
  <2>8. stk[1] = stack[1]
    BY <1>0, <1>1, <2>5, PopFacts
  <2>9. \A i \in 1 .. Len(stk[1]) : stk[1][i].pc \in {"run3", "build", "publish"} => stk[1][i].p # z
    BY <2>7, <2>8 DEF LifeRight, CommandRight
  <2>10. /\ LifeRight'
         /\ LifeOf' = [LifeOf EXCEPT ![table[z].pid] = "gone"]
         /\ exited' = [exited EXCEPT ![table[z].pid] = NoCode]
         /\ table[z].pid \in Pids \ {0, 1}
         /\ LifeOf[table[z].pid] = "zombie"
         /\ exited[table[z].pid] = table[z].exit_code
    BY <1>1, <2>4, <2>5, <2>6, <2>9, Death
  <2>11. Lives!Next
    BY <2>6, <2>10, ReapStep
  <2> QED BY <2>10, <2>11
<1> QED BY <1>2, <1>3

LEMMA ShellReaps ==
  ASSUME Console, Console', LifeRight, Exists(table, Top.pid), ReturnFreeing(Top.pid),
         Top.pc \in {"run3", "wait"}, next_pid' = next_pid,
         table[process_get(table, Top.pid)].state = "ZOMBIE",
         report' = <<Top.pid, table[process_get(table, Top.pid)].exit_code>>
  PROVE  LifeRight' /\ Lives!Next
<1>1. /\ LifeRight'
      /\ LifeOf' = [LifeOf EXCEPT ![Top.pid] = "gone"]
      /\ exited' = [exited EXCEPT ![Top.pid] = NoCode]
      /\ Top.pid \in Pids \ {0, 1}
      /\ LifeOf[Top.pid] = "zombie"
      /\ exited[Top.pid] = table[process_get(table, Top.pid)].exit_code
  BY ReturnFreeingLife
<1>2. PICK x \in Pids : x = Top.pid
  BY <1>1
<1>3. Lives!Next
  BY <1>1, <1>2, ReapStep
<1> QED BY <1>1, <1>3

LEMMA ForegroundReaps ==
  ASSUME Console, Console', LifeRight, Run3Return
  PROVE  LifeRight' /\ Lives!Next
<1>1. /\ current \in Slots /\ FrameRight(current, Len(stack[current])) /\ Top \in FrameType
      /\ Top = stack[current][Len(stack[current])] /\ Top.pc = "run3" /\ ~Waits(Top)
      /\ Len(stack[current]) \in Nat \ {0}
  BY TopRight DEF Run3Return, At
<1>2. current = 1 /\ Top.p \in Slots
  BY <1>1 DEF FrameRight, FrameType
<1>3. CommandRight(Top, Len(stack[1]))
  BY <1>1, <1>2 DEF LifeRight
<1>4. table[Top.p].in_use /\ table[Top.p].pid = Top.pid
  BY <1>1, <1>3 DEF CommandRight
<1>5. Exists(table, Top.pid)
  BY <1>2, <1>4 DEF Exists, SlotsOf
<1>6. process_get(table, Top.pid) = Top.p
  BY <1>2, <1>4, <1>5, SystemPid DEF Console, PidsUnique
<1>7. ~StillRuns(table[Top.p])
  BY <1>1 DEF Waits
<1>8. table[Top.p].state = "ZOMBIE"
  BY <1>4, <1>7 DEF StillRuns
<1>9. /\ ReturnFreeing(Top.pid) /\ next_pid' = next_pid
      /\ report' = <<Top.pid, table[Top.p].exit_code>>
  BY DEF Run3Return
<1> QED BY <1>1, <1>5, <1>6, <1>8, <1>9, ShellReaps

LEMMA WaitEnds ==
  ASSUME Console, Console', LifeRight, WaitReturn
  PROVE  LifeRight' /\ [Lives!Next]_(Lives!vars)
<1>1. /\ current \in Slots /\ FrameRight(current, Len(stack[current])) /\ Top \in FrameType
      /\ Top = stack[current][Len(stack[current])] /\ Top.pc = "wait"
      /\ Len(stack[current]) \in Nat \ {0} /\ next_pid' = next_pid
  BY TopRight DEF WaitReturn, At
<1>2. current = 1 /\ Top.p \in Slots /\ Top.pid \in Pids
  BY <1>1 DEF FrameRight, FrameType
<1>3. CommandRight(Top, Len(stack[1]))
  BY <1>1, <1>2 DEF LifeRight
<1>4. /\ Top.pid < next_pid
      /\ \A s \in Slots : table[s].in_use /\ table[s].pid = Top.pid => s = Top.p
  BY <1>1, <1>3 DEF CommandRight
<1>5. ASSUME JustReturn
      PROVE  LifeRight' /\ LifeOf' = LifeOf /\ exited' = exited
  <2>1. Calm
    BY <1>1, <1>5, PlainCalm
  <2> QED BY <1>5, <2>1, CalmKeeps DEF JustReturn
<1>6. CASE ~(table[Top.p].in_use /\ table[Top.p].state = "ZOMBIE")
  <2>1. JustReturn /\ report' = NoReport
    BY <1>6 DEF WaitReturn
  <2> QED BY <1>5, <2>1, CalmStep
<1>7. CASE table[Top.p].in_use /\ table[Top.p].state = "ZOMBIE"
  <2>1. report' = <<Top.pid, table[Top.p].exit_code>> /\ ReturnFreeing(Top.pid)
    BY <1>7 DEF WaitReturn
  <2>2. CASE Exists(table, Top.pid)
    <3>1. process_get(table, Top.pid) = Top.p
      BY <1>4, <2>2, SystemPid
    <3> QED BY <1>1, <1>7, <2>1, <2>2, <3>1, ShellReaps
  <2>3. CASE ~Exists(table, Top.pid)
    <3>1. JustReturn
      BY <2>1, <2>3 DEF ReturnFreeing
    <3>2. PICK x \in Pids : x = Top.pid
      BY <1>2
    <3>3. PICK y \in Pids : y = table[Top.p].pid
      BY <1>2 DEF Console, TypeOK, ProcType
    <3>4. table \in Tables /\ next_pid \in Nat /\ UniqueIn(table, next_pid)
          /\ \A p \in Pids : LifeOf[p] = LifeIn(table, next_pid, p)
      BY LifeEnds DEF Console
    <3>5. LifeOf[x] = "gone"
      <4>1. \A s \in Slots : table[s].in_use => table[s].pid # x
        BY <2>3, <3>2 DEF Exists, SlotsOf
      <4> QED BY <1>4, <3>2, <3>4, <4>1, LifeCases
    <3>6. LifeOf[y] = "zombie"
      BY <1>2, <1>7, <3>3, <3>4, LifeCases
    <3>7. exited[y] = table[Top.p].exit_code
      BY <1>2, <1>7, <3>3 DEF LifeRight, ExitRecorded
    <3>8. Lives!Next
      BY <1>5, <2>1, <3>1, <3>2, <3>5, <3>6, <3>7, MistoldStep
    <3> QED BY <1>5, <3>1, <3>8
  <2> QED BY <2>2, <2>3
<1> QED BY <1>6, <1>7

-----------------------------------------------------------------------------
LEMMA LifeInit == ASSUME Init PROVE LifeRight /\ Lives!Init
<1>1. Console /\ NSlots \in Nat /\ NSlots >= 2 /\ 0 \in Slots /\ 1 \in Slots
  BY ConsoleInit, ProcessAssumption, ConstFacts
<1>2. /\ next_pid = 2 /\ report = NoReport /\ exited = [p \in Pids |-> NoCode]
      /\ \A s \in Slots : /\ table[s].in_use <=> s \in {0, 1}
                          /\ s \in {0, 1} => table[s].pid = s
                          /\ table[s].state # "ZOMBIE"
  BY DEF Init, EmptySlot
<1>3. Len(stack[1]) = 1 /\ stack[1][1].pc = "idle"
  <2>1. PICK f : f = [pc |-> "idle", ph |-> "test", p |-> 0, pid |-> 0, t |-> 0, masked |-> FALSE]
    OBVIOUS
  <2>2. stack[1] = <<f>> /\ f.pc = "idle"
    BY <1>1, <2>1 DEF Init
  <2> QED BY <2>2
<1>4. LifeRight
  <2>1. ASSUME NEW i \in 1 .. Len(stack[1]) PROVE CommandRight(stack[1][i], i)
    <3>1. i = 1
      BY <1>3, <2>1
    <3> QED BY <1>3, <3>1 DEF CommandRight, Commands
  <2> QED BY <1>2, <2>1 DEF LifeRight, ExitRecorded
<1>5. LifeOf = [p \in Pids |-> IF p \in {0, 1} THEN "alive" ELSE "unborn"]
  <2>0. table \in Tables /\ next_pid \in Nat /\ UniqueIn(table, next_pid)
    BY <1>1 DEF Console, TypeOK, PidsUnique, Tables, UniqueIn
  <2>1. ASSUME NEW p \in Pids
        PROVE  Life(p) = IF p \in {0, 1} THEN "alive" ELSE "unborn"
    <3>1. Life(p) = LifeIn(table, next_pid, p) /\ p \in Nat
      BY DEF Life, LifeIn, Pids
    <3>2. CASE p \in {0, 1}
      <4>1. p \in Slots /\ table[p].in_use /\ table[p].pid = p /\ table[p].state # "ZOMBIE"
        BY <1>1, <1>2, <3>2
      <4> QED BY <2>0, <3>1, <3>2, <4>1, LifeCases
    <3>3. CASE p \notin {0, 1}
      <4>1. p >= next_pid
        BY <1>2, <3>1, <3>3
      <4> QED BY <2>0, <3>1, <3>3, <4>1, LifeCases
    <3> QED BY <3>2, <3>3
  <2> QED BY <2>1 DEF LifeOf
<1>6. Lives!Init
  BY <1>2, <1>5 DEF Lives!Init, LifeOf
<1> QED BY <1>4, <1>6

LEMMA LifeNext ==
  ASSUME Console, Console', UserPidRight, LifeRight, RemoteCmds = {}, [Next]_vars
  PROVE  LifeRight' /\ [Lives!Next]_(Lives!vars)
<1>1. ASSUME Calm, report' = NoReport PROVE LifeRight' /\ [Lives!Next]_(Lives!vars)
  <2>1. LifeRight' /\ LifeOf' = LifeOf /\ exited' = exited
    BY <1>1, CalmKeeps DEF Calm
  <2> QED BY <1>1, <2>1, CalmStep
<1>2. ASSUME LifeRight', LifeOf' = LifeOf, exited' = exited, report' = NoReport
      PROVE  LifeRight' /\ [Lives!Next]_(Lives!vars)
  BY <1>2, CalmStep
<1>3. CASE KernelStep
  <2>1. CASE Yield \/ Switch \/ SleepArm \/ SleepReturn \/ SpawnBuild
    <3>1. report' = NoReport
      BY <2>1 DEF Yield, Switch, SleepArm, SleepReturn, SpawnBuild, OnlyStackChanges
    <3>2. Calm
      BY <2>1, PlainCalm, DispatchCalm, ArmCalm, BuildCalm
    <3> QED BY <1>1, <3>1, <3>2
  <2>2. CASE ExitZombie
    BY <2>2, ExitEnds
  <2>3. CASE WaitpidReturn
    BY <2>3, ParentReaps
  <2>4. CASE SpawnFail
    BY <2>4, FailedCreation
  <2>5. CASE SpawnPublish
    BY <1>2, <2>5, Publication
  <2>6. CASE Run3Return
    BY <2>6, ForegroundReaps
  <2>7. CASE WaitReturn
    BY <2>7, WaitEnds
  <2> QED BY <1>3, <2>1, <2>2, <2>3, <2>4, <2>5, <2>6, <2>7, NoRemoteSteps DEF KernelStep
<1>4. CASE Syscall
  <2>1. CASE \/ \E n \in SleepTicks : SysSleep(n)
             \/ \E pid \in Pids : SysWaitpid(pid)
             \/ SysGetkey \/ SysExecve
    <3>1. report' = NoReport
      BY <2>1 DEF SysSleep, SysWaitpid, SysGetkey, SysExecve, OnlyStackChanges
    <3>2. Calm
      BY <2>1, PlainCalm, SleepCalm, ExecveCalm
    <3> QED BY <1>1, <3>1, <3>2
  <2>2. ASSUME NEW c \in Codes, SysExit(c) PROVE LifeRight' /\ [Lives!Next]_(Lives!vars)
    BY <1>2, <2>2, ExitBegins
  <2>3. CASE SysFork
    BY <2>3, Births
  <2> QED BY <1>4, <2>1, <2>2, <2>3 DEF Syscall
<1>5. CASE ShellCommand
  <2>1. ASSUME NEW kind \in {"run3fg", "run3bg"}, CmdRun3(kind)
        PROVE  LifeRight' /\ [Lives!Next]_(Lives!vars)
    BY <2>1, Births
  <2>2. ASSUME NEW bg \in BOOLEAN, CmdRun(bg) PROVE LifeRight' /\ [Lives!Next]_(Lives!vars)
    BY <2>2, Births
  <2>3. ASSUME NEW pid \in Pids, CmdWait(pid) PROVE LifeRight' /\ [Lives!Next]_(Lives!vars)
    BY <1>2, <2>3, WaitBegins
  <2>4. ASSUME NEW pid \in Pids, CmdKill(pid) PROVE LifeRight' /\ [Lives!Next]_(Lives!vars)
    BY <2>4, Killing
  <2> QED BY <1>5, <2>1, <2>2, <2>3, <2>4 DEF ShellCommand
<1>6. CASE GetkeyReturn \/ Tick
  <2>1. report' = NoReport
    BY <1>6 DEF GetkeyReturn, Tick, OnlyStackChanges
  <2>2. Calm
    BY <1>6, PlainCalm, DispatchCalm
  <2> QED BY <1>1, <2>1, <2>2
<1>7. CASE LegacyReturn
  BY <1>7, FailedCreation
<1>8. CASE UNCHANGED vars
  <2>1. /\ table' = table /\ stack' = stack /\ next_pid' = next_pid /\ exited' = exited
        /\ report' = report
    BY <1>8 DEF vars, history
  <2>2. Calm
    <3>1. \A s \in Slots : Follows(stack[s], stack'[s])
      BY <2>1, FollowsSelf
    <3> QED BY <2>1, <3>1 DEF Calm, RowSame
  <2>3. LifeRight' /\ LifeOf' = LifeOf
    BY <2>2, CalmKeeps
  <2>4. UNCHANGED Lives!vars
    BY <2>1, <2>3 DEF Lives!vars, LifeOf
  <2> QED BY <2>3, <2>4
<1> QED BY <1>3, <1>4, <1>5, <1>6, <1>7, <1>8, NoRemoteSteps DEF Next

(* With commands from the console only, the table lives by ProcessLife: pids *)
(* are given out in order and never again, a process exits once, its code is *)
(* told to at most one waiter and only after that exit, whoever is killed or *)
(* reaped meanwhile.                                                         *)
THEOREM ConsoleImplementsLife == ASSUME RemoteCmds = {} PROVE Spec => ImplementsLife
<1> DEFINE Inv == Console /\ Registers /\ NoPageLost /\ LifeRight
<1>1. Init => Inv /\ Lives!Init
  BY ConsoleInit, LifeInit
<1>2. Inv /\ [Next]_vars => Inv' /\ [Lives!Next]_(Lives!vars)
  <2> SUFFICES ASSUME Inv, [Next]_vars PROVE Inv' /\ [Lives!Next]_(Lives!vars)
    OBVIOUS
  <2>1. Console' /\ Registers' /\ NoPageLost'
    BY ConsoleNext
  <2>2. LifeRight' /\ [Lives!Next]_(Lives!vars)
    BY <2>1, LifeNext DEF Registers
  <2> QED BY <2>1, <2>2
<1>3. Init /\ [][Next]_vars => Lives!Init /\ [][Lives!Next]_(Lives!vars)
  BY <1>1, <1>2, PTL
<1> QED BY <1>3 DEF Spec, ImplementsLife, Lives!Spec

=============================================================================
