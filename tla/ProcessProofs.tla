--------------------------- MODULE ProcessProofs ---------------------------
(***************************************************************************)
(* For every number of slots and pages and every set of remote commands:   *)
(* the process system is type correct, never gives one page two owners,    *)
(* never gives one pid to two processes, and never runs on the page        *)
(* directory of another process or of none.                                *)
(***************************************************************************)
EXTENDS Process, FiniteSetTheorems, SequenceTheorems, NaturalsInduction,
        WellFoundedInduction, TLAPS

-----------------------------------------------------------------------------
(* Facts about the operators the model is built from. *)

(* Min picks an element of a set of naturals. *)
LEMMA MinIn ==
  ASSUME NEW S \in SUBSET Nat, S # {}
  PROVE  Min(S) \in S
<1> DEFINE R == {p \in Nat \X Nat : p[1] < p[2]}
<1>0. IsWellFoundedOn(R, Nat)
  BY NatLessThanWellFounded DEF OpToRel
<1>1. \E x \in S : \A y \in S : ~(<<y, x>> \in R)
  <2> HIDE DEF R
  <2> QED BY <1>0, WFMin, S \subseteq Nat
<1>2. \E x \in S : \A y \in S : x <= y
  <2>1. PICK x \in S : \A y \in S : ~(<<y, x>> \in R)
    BY <1>1
  <2>2. \A y \in S : y \in Nat /\ x \in Nat /\ ~(y < x)
    BY <2>1
  <2> QED BY <2>2
<1> QED BY <1>2 DEF Min

(* A finite set has subsets of every smaller size. *)
LEMMA SubsetOfSize ==
  ASSUME NEW A, IsFiniteSet(A), NEW n \in Nat, n <= Cardinality(A)
  PROVE  \E S \in SUBSET A : Cardinality(S) = n
<1> DEFINE c == Cardinality(A)
<1>1. c \in Nat /\ ExistsBijection(1 .. c, A)
  BY FS_CardinalityType
<1>2. PICK f \in Bijection(1 .. c, A) : TRUE
  BY <1>1 DEF ExistsBijection
<1> DEFINE T == {f[i] : i \in 1 .. n}
           g == [i \in 1 .. n |-> f[i]]
<1>3. /\ f \in [1 .. c -> A]
      /\ \A i, j \in 1 .. c : f[i] = f[j] => i = j
  BY <1>2 DEF Bijection, Injection, IsInjective
<1>4. 1 .. n \subseteq 1 .. c
  BY <1>1
<1>5. T \in SUBSET A
  BY <1>3, <1>4
<1>6. g \in Bijection(1 .. n, T)
  <2>1. g \in [1 .. n -> T]
    OBVIOUS
  <2>2. \A i, j \in 1 .. n : g[i] = g[j] => i = j
    BY <1>3, <1>4
  <2>3. \A t \in T : \E i \in 1 .. n : g[i] = t
    OBVIOUS
  <2> QED BY <2>1, <2>2, <2>3 DEF Bijection, Injection, Surjection, IsInjective
<1>7. Cardinality(T) = n
  BY <1>6, FS_CountingElements DEF ExistsBijection
<1> QED BY <1>5, <1>7

LEMMA Minus ==
  ASSUME NEW A, IsFiniteSet(A), NEW B \in SUBSET A
  PROVE  Cardinality(A \ B) = Cardinality(A) - Cardinality(B)
<1>1. IsFiniteSet(B) /\ IsFiniteSet(A \ B)
  BY FS_Subset
<1>2. Cardinality(B \cup (A \ B))
        = Cardinality(B) + Cardinality(A \ B) - Cardinality(B \cap (A \ B))
  BY <1>1, FS_Union
<1>3. B \cup (A \ B) = A /\ B \cap (A \ B) = {}
  OBVIOUS
<1>4. Cardinality({}) = 0
  BY FS_EmptySet
<1>5. Cardinality(A) \in Nat /\ Cardinality(B) \in Nat /\ Cardinality(A \ B) \in Nat
  BY <1>1, FS_CardinalityType
<1>6. Cardinality(B \cup (A \ B)) = Cardinality(A)
      /\ Cardinality(B \cap (A \ B)) = 0
  BY <1>3, <1>4, Zenon
<1>7. Cardinality(A) = Cardinality(B) + Cardinality(A \ B) - 0
  BY <1>2, <1>6
<1> QED BY <1>5, <1>7

(* What pmm_alloc_page hands out for n pages comes from the free ones. *)
LEMMA SomePagesAvail ==
  ASSUME NEW A \in SUBSET Pages, NEW n \in Nat, n <= Cardinality(A)
  PROVE  SomePages(n, A) \subseteq A /\ Cardinality(SomePages(n, A)) = n
<1>1. IsFiniteSet(A)
  BY ProcessAssumption, FS_Subset
<1> QED BY <1>1, SubsetOfSize DEF SomePages

(* The context stacks. *)
Stacks == [Slots -> Seq(FrameType)]

LEMMA TopIsFrame ==
  ASSUME NEW stk \in Stacks, NEW s \in Slots, stk[s] # <<>>
  PROVE  Last(stk[s]) \in FrameType
<1>1. stk[s] \in Seq(FrameType)
  BY DEF Stacks
<1> QED BY <1>1 DEF Last

LEMMA FrontIsSeq ==
  ASSUME NEW S, NEW q \in Seq(S)
  PROVE  Front(q) \in Seq(S)
<1>1. \A i \in 1 .. Len(q) - 1 : q[i] \in S
  BY LenProperties
<1>2. Len(q) - 1 \in Int
  BY LenProperties
<1> QED BY <1>1, <1>2, SubSeqProperties DEF Front

LEMMA StackOps ==
  ASSUME NEW stk \in Stacks, NEW s \in Slots, NEW f \in FrameType
  PROVE  Push(stk, s, f) \in Stacks /\ Pop(stk, s) \in Stacks /\ SetTop(stk, s, f) \in Stacks
<1>1. stk[s] \in Seq(FrameType) /\ Front(stk[s]) \in Seq(FrameType)
  BY FrontIsSeq DEF Stacks
<1>2. Append(stk[s], f) \in Seq(FrameType) /\ Append(Front(stk[s]), f) \in Seq(FrameType)
  BY <1>1
<1> QED BY <1>1, <1>2 DEF Stacks, Push, Pop, SetTop

(* Stacks after a push, a pop and a change of the top. *)

LEMMA PushFacts ==
  ASSUME NEW stk \in Stacks, NEW s \in Slots, NEW f \in FrameType
  PROVE  /\ Push(stk, s, f) \in Stacks
         /\ \A t \in Slots \ {s} : Push(stk, s, f)[t] = stk[t]
         /\ Len(Push(stk, s, f)[s]) = Len(stk[s]) + 1
         /\ Push(stk, s, f)[s][Len(stk[s]) + 1] = f
         /\ \A i \in 1 .. Len(stk[s]) : Push(stk, s, f)[s][i] = stk[s][i]
         /\ Push(stk, s, f)[s] # <<>> /\ Last(Push(stk, s, f)[s]) = f
<1>1. stk[s] \in Seq(FrameType) /\ Push(stk, s, f)[s] = Append(stk[s], f)
  BY DEF Stacks, Push
<1>2. /\ Len(Append(stk[s], f)) = Len(stk[s]) + 1
      /\ Append(stk[s], f)[Len(stk[s]) + 1] = f
      /\ \A i \in 1 .. Len(stk[s]) : Append(stk[s], f)[i] = stk[s][i]
      /\ Append(stk[s], f) # <<>>
  BY <1>1
<1>3. Push(stk, s, f) \in Stacks /\ \A t \in Slots \ {s} : Push(stk, s, f)[t] = stk[t]
  BY StackOps DEF Push, Stacks
<1> QED BY <1>1, <1>2, <1>3 DEF Last

LEMMA FrontFacts ==
  ASSUME NEW S, NEW q \in Seq(S), q # <<>>
  PROVE  /\ Len(q) \in Nat \ {0} /\ Front(q) \in Seq(S)
         /\ Len(Front(q)) = Len(q) - 1
         /\ \A i \in 1 .. Len(q) - 1 : Front(q)[i] = q[i]
         /\ Last(q) = q[Len(q)] /\ Last(q) \in S
<1>1. Len(q) \in Nat \ {0}
  BY LenProperties, EmptySeq
<1>2. \A i \in 1 .. Len(q) - 1 : q[i] \in S
  BY LenProperties
<1>3. Front(q) = SubSeq(q, 1, Len(q) - 1)
  BY DEF Front
<1>4. /\ Len(Front(q)) = Len(q) - 1
      /\ \A i \in 1 .. Len(q) - 1 : Front(q)[i] = q[i]
  <2>1. PICK n \in Int : n = Len(q) - 1
    BY <1>1
  <2>2. \A i \in 1 .. n : q[i] \in S
    BY <1>2, <2>1
  <2>3. /\ Len(SubSeq(q, 1, n)) = IF 1 <= n THEN n - 1 + 1 ELSE 0
        /\ \A i \in 1 .. n - 1 + 1 : SubSeq(q, 1, n)[i] = q[1 + i - 1]
    BY <2>2, SubSeqProperties
  <2> QED BY <1>1, <1>3, <2>1, <2>3
<1> QED BY <1>1, <1>4, FrontIsSeq DEF Last

LEMMA PopFacts ==
  ASSUME NEW stk \in Stacks, NEW s \in Slots, stk[s] # <<>>
  PROVE  /\ Pop(stk, s) \in Stacks
         /\ \A t \in Slots \ {s} : Pop(stk, s)[t] = stk[t]
         /\ Len(Pop(stk, s)[s]) = Len(stk[s]) - 1
         /\ \A i \in 1 .. Len(stk[s]) - 1 : Pop(stk, s)[s][i] = stk[s][i]
<1>1. stk[s] \in Seq(FrameType) /\ Pop(stk, s)[s] = Front(stk[s])
  BY DEF Stacks, Pop
<1>2. /\ Front(stk[s]) \in Seq(FrameType)
      /\ Len(Front(stk[s])) = Len(stk[s]) - 1
      /\ \A i \in 1 .. Len(stk[s]) - 1 : Front(stk[s])[i] = stk[s][i]
  BY <1>1, FrontFacts
<1> QED BY <1>1, <1>2 DEF Pop, Stacks

LEMMA SetTopFacts ==
  ASSUME NEW stk \in Stacks, NEW s \in Slots, NEW f \in FrameType, stk[s] # <<>>
  PROVE  /\ SetTop(stk, s, f) \in Stacks
         /\ \A t \in Slots \ {s} : SetTop(stk, s, f)[t] = stk[t]
         /\ Len(SetTop(stk, s, f)[s]) = Len(stk[s])
         /\ SetTop(stk, s, f)[s][Len(stk[s])] = f
         /\ \A i \in 1 .. Len(stk[s]) - 1 : SetTop(stk, s, f)[s][i] = stk[s][i]
         /\ SetTop(stk, s, f)[s] # <<>> /\ Last(SetTop(stk, s, f)[s]) = f
<1>1. stk[s] \in Seq(FrameType) /\ SetTop(stk, s, f)[s] = Append(Front(stk[s]), f)
  BY DEF Stacks, SetTop
<1>2. /\ Front(stk[s]) \in Seq(FrameType) /\ Len(stk[s]) \in Nat \ {0}
      /\ Len(Front(stk[s])) = Len(stk[s]) - 1
      /\ \A i \in 1 .. Len(stk[s]) - 1 : Front(stk[s])[i] = stk[s][i]
  BY <1>1, FrontFacts
<1>3. SetTop(stk, s, f) \in Stacks /\ \A t \in Slots \ {s} : SetTop(stk, s, f)[t] = stk[t]
  BY StackOps DEF SetTop, Stacks
<1> QED BY <1>1, <1>2, <1>3 DEF Last

-----------------------------------------------------------------------------
(* Helpers of the actions, under the type invariant. *)

Tables == [Slots -> ProcType]

LEMMA ConstFacts ==
  /\ NSlots \in Nat /\ 0 \in Slots /\ 1 \in Slots
  /\ MaxPid \in Nat /\ 0 \in Pids /\ 1 \in Pids
  /\ TickMod \in Nat /\ TickMod > 0 /\ 0 \in Ticks
  /\ Quantum \in Nat /\ Quantum > 0
  /\ \A n \in SleepTicks : n \in Ticks
BY ProcessAssumption DEF Slots, Pids, Ticks

LEMMA EmptySlotType == EmptySlot \in ProcType
BY ConstFacts, ProcessAssumption DEF EmptySlot, ProcType, ProcStates

LEMMA FrameMade ==
  ASSUME TypeOK,
         NEW pc \in {"idle", "user", "sleep", "getkey", "waitpid", "exit", "build",
                     "publish", "run3", "wait", "legacy", "sched", "tick"},
         NEW ph \in {"test", "hlt", "arm", "free", "fork", "run3fg", "run3bg"}
  PROVE  Frame(pc, ph) \in FrameType
BY ConstFacts DEF Frame, FrameType, TypeOK

LEMMA SlotOfPid ==
  ASSUME TypeOK, NEW pid, Exists(table, pid)
  PROVE  /\ process_get(table, pid) \in Slots
         /\ table[process_get(table, pid)].in_use
         /\ table[process_get(table, pid)].pid = pid
<1>1. SlotsOf(table, pid) \in SUBSET Nat
  BY ConstFacts DEF SlotsOf, Slots
<1>2. process_get(table, pid) \in SlotsOf(table, pid)
  BY <1>1, MinIn DEF Exists, process_get
<1> QED BY <1>2 DEF SlotsOf

LEMMA FirstFreeSlot ==
  ASSUME TypeOK, CanAlloc
  PROVE  Min(FreeSlots) \in Slots /\ ~table[Min(FreeSlots)].in_use
<1>1. FreeSlots \in SUBSET Nat
  BY ConstFacts DEF FreeSlots, Slots
<1>2. Min(FreeSlots) \in FreeSlots
  BY <1>1, MinIn DEF CanAlloc
<1> QED BY <1>2 DEF FreeSlots

LEMMA AllocType ==
  ASSUME TypeOK, CanAlloc
  PROVE  /\ process_alloc \in ProcType
         /\ next_pid \in Pids
         /\ process_alloc.pid = next_pid /\ process_alloc.in_use
         /\ process_alloc.kstack = {} /\ process_alloc.frames = {}
         /\ process_alloc.pd = {}
<1>1. next_pid \in Pids
  BY ConstFacts DEF TypeOK, CanAlloc, Pids
<1>2. table[current].pid \in Pids /\ current_user_pid \in Pids
  BY DEF TypeOK, ProcType
<1> QED BY <1>1, <1>2, EmptySlotType DEF process_alloc, ProcType, ProcStates, EmptySlot

LEMMA PickType ==
  ASSUME TypeOK, NEW tab \in Tables
  PROVE  SchedPick(tab) \in Slots
<1> DEFINE after == {i \in 1 .. NSlots : Runnable(tab, (current + i) % NSlots)}
<1>1. after \in SUBSET Nat
  BY ConstFacts
<1>2. ASSUME after # {}
      PROVE  (current + Min(after)) % NSlots \in Slots
  <2>1. Min(after) \in 1 .. NSlots
    BY <1>1, <1>2, MinIn
  <2>2. current \in Nat /\ NSlots \in Nat /\ NSlots > 0
    BY ConstFacts, ProcessAssumption DEF TypeOK, Slots
  <2> QED BY <2>1, <2>2 DEF Slots
<1> QED BY <1>2 DEF SchedPick, TypeOK

LEMMA PickRunnable ==
  ASSUME TypeOK, NEW tab \in Tables, SchedPick(tab) # current
  PROVE  SchedPick(tab) \in Slots /\ Runnable(tab, SchedPick(tab))
<1> DEFINE after == {i \in 1 .. NSlots : Runnable(tab, (current + i) % NSlots)}
<1>1. after # {} /\ SchedPick(tab) = (current + Min(after)) % NSlots
  BY DEF SchedPick
<1>2. after \in SUBSET Nat
  BY ConstFacts
<1>3. Min(after) \in after
  BY <1>1, <1>2, MinIn
<1> QED BY <1>1, <1>3, PickType

LEMMA WakeType ==
  ASSUME NEW tab \in Tables, NEW now \in Ticks
  PROVE  Wake(tab, now) \in Tables
BY DEF Wake, Tables, ProcType, ProcStates

(* The part of the type invariant that concerns the CPU and the contexts. *)
MachineOK ==
  /\ table \in Tables /\ stack \in Stacks
  /\ current \in Slots /\ current_user_pid \in Pids
  /\ cr3 \in SUBSET Pages /\ intr \in BOOLEAN

LEMMA SwitchToType ==
  ASSUME TypeOK, NEW tab \in Tables, NEW stk \in Stacks, NEW next \in Slots,
         SwitchTo(tab, stk, next)
  PROVE  MachineOK'
<1>1. table' \in Tables
  BY ZenonT(30) DEF SwitchTo, Tables, ProcType
<1>2. current' \in Slots /\ current_user_pid' \in Pids /\ cr3' \in SUBSET Pages
  BY ConstFacts DEF SwitchTo, Tables, ProcType
<1>3. stack' \in Stacks /\ intr' \in BOOLEAN
  <2>1. CASE stk[next] # <<>> /\ Last(stk[next]).pc = "sched"
    <3>1. Last(stk[next]) \in FrameType
      BY <2>1, TopIsFrame
    <3>2. Pop(stk, next) \in Stacks
      BY <3>1, StackOps
    <3> QED BY <2>1, <3>1, <3>2 DEF SwitchTo, FrameType
  <2>2. CASE ~(stk[next] # <<>> /\ Last(stk[next]).pc = "sched")
    BY <2>2 DEF SwitchTo
  <2> QED BY <2>1, <2>2
<1> QED BY <1>1, <1>2, <1>3 DEF MachineOK

LEMMA TickRestType ==
  ASSUME TypeOK, NEW tab \in Tables, NEW stk \in Stacks, NEW now \in Ticks,
         stk[current] # <<>>, TickRest(tab, stk, now)
  PROVE  MachineOK' /\ scheduler_ticks' \in 0 .. Quantum - 1
<1> DEFINE woken == Wake(tab, now)
           top   == Last(stk[current])
           next  == SchedPick(woken)
           seen  == IF top.ph = "hlt"
                      THEN SetTop(stk, current, [top EXCEPT !.ph = "test"]) ELSE stk
<1>1. current \in Slots /\ woken \in Tables /\ next \in Slots
  BY WakeType, PickType DEF TypeOK
<1>2. top \in FrameType
  BY <1>1, TopIsFrame
<1>3. [top EXCEPT !.ph = "test"] \in FrameType
  BY <1>2 DEF FrameType
<1>4. seen \in Stacks
  BY <1>1, <1>3, StackOps
<1>5. [Frame("sched", "test") EXCEPT !.p = next] \in FrameType
  BY <1>1, FrameMade DEF FrameType
<1>6. Push(seen, current, [Frame("sched", "test") EXCEPT !.p = next]) \in Stacks
  BY <1>1, <1>4, <1>5, StackOps
<1>7. scheduler_ticks' \in 0 .. Quantum - 1
  <2>1. \E k \in {0, 1} : scheduler_ticks' = (scheduler_ticks + k) % Quantum
    BY DEF TickRest
  <2>2. scheduler_ticks \in Nat /\ Quantum \in Nat /\ Quantum > 0
    BY ConstFacts DEF TypeOK
  <2> QED BY <2>1, <2>2
<1>8. \/ SwitchTo(woken, Push(seen, current,
                    [Frame("sched", "test") EXCEPT !.p = next]), next)
      \/ /\ table' = woken /\ stack' = seen /\ intr' = TRUE
         /\ UNCHANGED <<current, current_user_pid, cr3>>
  BY DEF TickRest
<1>9. CASE SwitchTo(woken, Push(seen, current,
                    [Frame("sched", "test") EXCEPT !.p = next]), next)
  BY <1>1, <1>6, <1>7, <1>9, SwitchToType
<1>10. CASE /\ table' = woken /\ stack' = seen /\ intr' = TRUE
            /\ UNCHANGED <<current, current_user_pid, cr3>>
  <2> HIDE DEF woken, seen
  <2> QED BY <1>1, <1>4, <1>7, <1>10 DEF MachineOK, TypeOK
<1> QED BY <1>8, <1>9, <1>10

LEMMA FreeSlotType ==
  ASSUME TypeOK, NEW s \in Slots, NEW stk \in Stacks, FreeSlot(s, stk)
  PROVE  /\ table' \in Tables /\ stack' \in Stacks
         /\ freePages' \in SUBSET Pages /\ current' \in Slots
         /\ cr3' \in SUBSET Pages
         /\ exited' \in [Pids -> Codes \cup {NoCode}]
<1>1. table[s] \in ProcType
  BY DEF TypeOK
<1>2. process_free(table[s]) \in ProcType
  BY <1>1, ConstFacts, ProcessAssumption
     DEF process_free, user_free_memory, ProcType, ProcStates
<1>3. table' \in Tables
  BY <1>2 DEF FreeSlot, Tables, TypeOK
<1>4. stack' \in Stacks
  <2>1. <<>> \in Seq(FrameType)
    OBVIOUS
  <2> QED BY <2>1, ConstFacts DEF FreeSlot, StackWithout, Stacks
<1>5. freePages' \in SUBSET Pages /\ cr3' \in SUBSET Pages
  BY <1>1 DEF FreeSlot, PagesFreed, MemoryOf, Cr3Without, TypeOK, ProcType
<1>6. current' \in Slots
  BY ConstFacts DEF FreeSlot, CurrentWithout, TypeOK
<1>7. exited' \in [Pids -> Codes \cup {NoCode}]
  BY <1>1 DEF FreeSlot, TypeOK, ProcType
<1> QED BY <1>3, <1>4, <1>5, <1>6, <1>7

-----------------------------------------------------------------------------
(* Type correctness, action by action. *)

LEMMA TypeOKFolded ==
  TypeOK <=> /\ MachineOK
             /\ next_pid \in 0 .. MaxPid + 1
             /\ pit_ticks \in Ticks /\ scheduler_ticks \in 0 .. Quantum - 1
             /\ freePages \in SUBSET Pages
             /\ left \in [Slots -> Nat]
             /\ exited \in [Pids -> Codes \cup {NoCode}]
             /\ report \in {NoReport} \cup (Pids \X Codes)
BY DEF TypeOK, MachineOK, Tables, Stacks

LEMMA TypeInit == Init => TypeOK
<1> SUFFICES ASSUME Init PROVE TypeOK
  OBVIOUS
<1>1. table \in [Slots -> ProcType]
  BY EmptySlotType, ConstFacts DEF Init, ProcType, ProcStates
<1>2. stack \in [Slots -> Seq(FrameType)]
  <2>1. [pc |-> "idle", ph |-> "test", p |-> 0, pid |-> 0, t |-> 0,
         masked |-> FALSE] \in FrameType
    BY ConstFacts DEF FrameType
  <2>2. <<[pc |-> "idle", ph |-> "test", p |-> 0, pid |-> 0, t |-> 0,
           masked |-> FALSE]>> \in Seq(FrameType)
    BY <2>1
  <2>3. <<>> \in Seq(FrameType)
    OBVIOUS
  <2> QED BY <2>2, <2>3 DEF Init
<1>3. current \in Slots /\ current_user_pid \in Pids /\ pit_ticks \in Ticks
  BY ConstFacts DEF Init
<1>4. next_pid \in 0 .. MaxPid + 1 /\ scheduler_ticks \in 0 .. Quantum - 1
  <2>1. MaxPid \in Nat /\ MaxPid >= 1 /\ Quantum \in Nat /\ Quantum >= 1
    BY ConstFacts DEF Pids
  <2>2. next_pid = 2 /\ scheduler_ticks = 0
    BY DEF Init
  <2> QED BY <2>1, <2>2
<1>5. left \in [Slots -> Nat] /\ exited \in [Pids -> Codes \cup {NoCode}]
  BY DEF Init
<1> QED BY <1>1, <1>2, <1>3, <1>4, <1>5 DEF Init, TypeOK

(* Facts every action starts from. *)
LEMMA AtTop ==
  ASSUME TypeOK, stack[current] # <<>>
  PROVE  /\ Top \in FrameType
         /\ Pop(stack, current) \in Stacks
         /\ \A f \in FrameType : /\ Push(stack, current, f) \in Stacks
                                 /\ SetTop(stack, current, f) \in Stacks
<1>1. stack \in Stacks /\ current \in Slots
  BY DEF TypeOK, Stacks
<1>2. Top \in FrameType
  BY <1>1, TopIsFrame DEF Top
<1> QED BY <1>1, <1>2, StackOps

(* A step that changes nothing but the contexts. *)
LEMMA OnlyStackType ==
  ASSUME TypeOK, OnlyStackChanges, stack' \in Stacks
  PROVE  TypeOK'
BY DEF OnlyStackChanges, TypeOK, Stacks, cpuVars, timeVars, history

LEMMA YieldType == ASSUME TypeOK, Yield PROVE TypeOK'
<1> DEFINE next == SchedPick(table)
           halt == SetTop(stack, current, [Top EXCEPT !.ph = "hlt"])
<1>1. stack[current] # <<>> /\ current \in Slots
  BY DEF Yield, TypeOK
<1>2. Top \in FrameType
  BY <1>1, AtTop
<1>3. [Top EXCEPT !.ph = "hlt"] \in FrameType
  BY <1>2 DEF FrameType
<1>4. halt \in Stacks
  BY <1>1, <1>3, AtTop
<1>5. next \in Slots
  BY PickType DEF TypeOK, Tables
<1>6. [Frame("sched", "test") EXCEPT !.p = next] \in FrameType
  BY <1>5, FrameMade DEF FrameType
<1>7. Push(halt, current, [Frame("sched", "test") EXCEPT !.p = next]) \in Stacks
  BY <1>1, <1>4, <1>6, StackOps
<1>8. stack' \in Stacks
  BY <1>4, <1>7 DEF Yield
<1> QED BY <1>8, OnlyStackType DEF Yield

LEMMA SwitchType == ASSUME TypeOK, Switch PROVE TypeOK'
<1>1. Top.p \in Slots
  BY AtTop DEF Switch, At, FrameType
<1>2. MachineOK'
  BY <1>1, SwitchToType DEF Switch, TypeOK, Tables, Stacks
<1> QED BY <1>2, TypeOKFolded DEF Switch, MachineOK, TypeOK, Tables, Stacks, timeVars, history

LEMMA CountDownType ==
  ASSUME TypeOK PROVE CountDown(left) \in [Slots -> Nat] /\ Now \in Ticks
<1>1. CountDown(left) \in [Slots -> Nat]
  BY DEF CountDown, TypeOK
<1>2. Now \in Ticks
  BY ConstFacts DEF Now, Ticks, TypeOK
<1> QED BY <1>1, <1>2

LEMMA TickType == ASSUME TypeOK, Tick PROVE TypeOK'
<1>1. MachineOK' /\ scheduler_ticks' \in 0 .. Quantum - 1
  BY CountDownType, TickRestType DEF Tick, Interruptible, TypeOK, Tables, Stacks
<1> QED BY <1>1, CountDownType DEF Tick, MachineOK, TypeOK, Tables, Stacks

LEMMA SleepType ==
  ASSUME TypeOK, (\E n \in SleepTicks : SysSleep(n)) \/ SleepArm \/ SleepReturn
  PROVE  TypeOK'
<1>1. ASSUME NEW n \in SleepTicks, SysSleep(n) PROVE TypeOK'
  <2>1. stack[current] # <<>> /\ current \in Slots /\ n \in Ticks /\ n \in Nat
    BY <1>1, ConstFacts DEF SysSleep, InUser, TypeOK, Ticks
  <2>2. [Frame("sleep", "arm") EXCEPT !.t = n] \in FrameType
    BY <2>1, FrameMade DEF FrameType
  <2>3. stack' \in Stacks
    BY <1>1, <2>1, <2>2, AtTop DEF SysSleep
  <2>4. table' \in [Slots -> ProcType]
    <3>1. table \in [Slots -> ProcType]
      BY DEF TypeOK
    <3>2. [table[current] EXCEPT !.state = "SLEEPING"] \in ProcType
      BY <3>1, <2>1 DEF ProcType, ProcStates
    <3> QED BY <1>1, <3>1, <3>2 DEF SysSleep
  <2>5. left' \in [Slots -> Nat]
    BY <1>1, <2>1 DEF SysSleep, TypeOK
  <2> QED BY <1>1, <2>3, <2>4, <2>5 DEF SysSleep, TypeOK, Stacks, cpuVars, timeVars
<1>2. ASSUME SleepArm PROVE TypeOK'
  <2>1. stack[current] # <<>> /\ current \in Slots
    BY <1>2 DEF SleepArm, At, TypeOK
  <2>2. Top \in FrameType
    BY <2>1, AtTop
  <2>3. [Top EXCEPT !.ph = "test"] \in FrameType
    BY <2>2 DEF FrameType
  <2>4. stack' \in Stacks
    BY <1>2, <2>1, <2>3, AtTop DEF SleepArm
  <2>5. (pit_ticks + Top.t) % TickMod \in Ticks
    BY <2>2, ConstFacts, SMTT(30) DEF Ticks, FrameType, TypeOK
  <2>6. table' \in [Slots -> ProcType]
    <3>1. table \in [Slots -> ProcType]
      BY DEF TypeOK
    <3>2. [table[current] EXCEPT !.wake_tick = (pit_ticks + Top.t) % TickMod] \in ProcType
      BY <3>1, <2>1, <2>5 DEF ProcType
    <3> QED BY <1>2, <3>1, <3>2 DEF SleepArm
  <2> QED BY <1>2, <2>4, <2>6 DEF SleepArm, TypeOK, Stacks, cpuVars, timeVars, history
<1>3. ASSUME SleepReturn PROVE TypeOK'
  BY <1>3, AtTop, OnlyStackType DEF SleepReturn, At
<1> QED BY <1>1, <1>2, <1>3

LEMMA ExitType ==
  ASSUME TypeOK, (\E c \in Codes : SysExit(c)) \/ ExitZombie
  PROVE  TypeOK'
<1>1. ASSUME NEW c \in Codes, SysExit(c) PROVE TypeOK'
  <2>1. stack[current] # <<>> /\ current \in Slots /\ table[current] \in ProcType
    BY <1>1 DEF SysExit, InUser, TypeOK
  <2>2. stack' \in Stacks
    BY <1>1, <2>1, AtTop, FrameMade DEF SysExit
  <2>3. [user_free_memory(table[current]) EXCEPT !.exit_code = c] \in ProcType
    BY <2>1 DEF user_free_memory, ProcType
  <2>4. table' \in [Slots -> ProcType]
    BY <1>1, <2>1, <2>3 DEF SysExit, TypeOK
  <2>5. freePages' \in SUBSET Pages /\ cr3' \in SUBSET Pages
    BY <1>1, <2>1 DEF SysExit, MemoryOf, Cr3Without, TypeOK, ProcType
  <2> QED BY <1>1, <2>2, <2>4, <2>5 DEF SysExit, TypeOK, Stacks, timeVars, history
<1>2. ASSUME ExitZombie PROVE TypeOK'
  <2>1. stack[current] # <<>> /\ current \in Slots /\ table[current] \in ProcType
    BY <1>2 DEF ExitZombie, At, TypeOK
  <2>2. Top \in FrameType
    BY <2>1, AtTop
  <2>3. [Top EXCEPT !.ph = "test"] \in FrameType
    BY <2>2 DEF FrameType
  <2>4. stack' \in Stacks
    BY <1>2, <2>1, <2>3, AtTop DEF ExitZombie
  <2>5. table' \in [Slots -> ProcType]
    BY <1>2, <2>1 DEF ExitZombie, TypeOK, ProcType, ProcStates
  <2>6. exited' \in [Pids -> Codes \cup {NoCode}]
    BY <1>2, <2>1 DEF ExitZombie, TypeOK, ProcType
  <2> QED BY <1>2, <2>4, <2>5, <2>6, ConstFacts DEF ExitZombie, TypeOK, Stacks, timeVars
<1> QED BY <1>1, <1>2

LEMMA ReturnFreeingType ==
  ASSUME TypeOK, stack[current] # <<>>, NEW pid, ReturnFreeing(pid) \/ JustReturn
  PROVE  /\ table' \in Tables /\ stack' \in Stacks
         /\ freePages' \in SUBSET Pages /\ current' \in Slots
         /\ cr3' \in SUBSET Pages
         /\ exited' \in [Pids -> Codes \cup {NoCode}]
<1>1. CASE JustReturn
  BY <1>1, AtTop DEF JustReturn, TypeOK, Tables, Stacks
<1>2. CASE ReturnFreeing(pid) /\ Exists(table, pid)
  BY <1>2, AtTop, SlotOfPid, FreeSlotType DEF ReturnFreeing
<1>3. CASE ReturnFreeing(pid) /\ ~Exists(table, pid)
  BY <1>3, <1>1 DEF ReturnFreeing
<1> QED BY <1>1, <1>2, <1>3

(* A step that may free a process and leaves the clock, the pids and the    *)
(* interrupt flag alone.                                                    *)
LEMMA ReturningType ==
  ASSUME TypeOK, stack[current] # <<>>, NEW pid, ReturnFreeing(pid) \/ JustReturn,
         report' \in {NoReport} \cup (Pids \X Codes),
         UNCHANGED <<current_user_pid, intr, next_pid, timeVars, left>>
  PROVE  TypeOK'
BY ReturnFreeingType DEF TypeOK, Tables, Stacks, timeVars

LEMMA WaitpidType ==
  ASSUME TypeOK, (\E pid \in Pids : SysWaitpid(pid)) \/ WaitpidReturn
  PROVE  TypeOK'
<1>1. ASSUME NEW pid \in Pids, SysWaitpid(pid) PROVE TypeOK'
  <2>1. stack[current] # <<>>
    BY <1>1 DEF SysWaitpid, InUser
  <2>2. [Frame("waitpid", "test") EXCEPT !.pid = pid] \in FrameType
    BY FrameMade DEF FrameType
  <2> QED BY <1>1, <2>1, <2>2, AtTop, OnlyStackType DEF SysWaitpid
<1>2. ASSUME WaitpidReturn PROVE TypeOK'
  <2>1. stack[current] # <<>> /\ Pop(stack, current) \in Stacks
    BY <1>2, AtTop DEF WaitpidReturn, At
  <2>2. CASE Zombies(Top.pid) # {}
    <3> DEFINE z == Min(Zombies(Top.pid))
    <3>1. Zombies(Top.pid) \in SUBSET Nat
      BY ConstFacts DEF Zombies, Slots
    <3>2. z \in Zombies(Top.pid)
      BY <3>1, <2>2, MinIn
    <3>3. z \in Slots
      BY <3>2 DEF Zombies
    <3>4. FreeSlot(z, Pop(stack, current)) /\ report' = <<table[z].pid, table[z].exit_code>>
      BY <1>2, <2>2 DEF WaitpidReturn
    <3>5. report' \in Pids \X Codes
      BY <3>3, <3>4 DEF TypeOK, ProcType
    <3> HIDE DEF z
    <3>6. /\ table' \in Tables /\ stack' \in Stacks
          /\ freePages' \in SUBSET Pages /\ current' \in Slots
          /\ cr3' \in SUBSET Pages
          /\ exited' \in [Pids -> Codes \cup {NoCode}]
      BY <3>3, <3>4, <2>1, FreeSlotType
    <3> QED BY <1>2, <3>5, <3>6 DEF WaitpidReturn, TypeOK, Tables, Stacks, timeVars
  <2>3. CASE Zombies(Top.pid) = {}
    BY <1>2, <2>1, <2>3, ReturningType DEF WaitpidReturn
  <2> QED BY <2>2, <2>3
<1> QED BY <1>1, <1>2

LEMMA GetkeyType == ASSUME TypeOK, SysGetkey \/ GetkeyReturn PROVE TypeOK'
<1>1. CASE SysGetkey
  BY <1>1, FrameMade, AtTop, OnlyStackType DEF SysGetkey, InUser
<1>2. CASE GetkeyReturn
  BY <1>2, AtTop, OnlyStackType DEF GetkeyReturn, At
<1> QED BY <1>1, <1>2

(* The window execve loads into: pages that were free or its own. *)
LEMMA ExecvePages ==
  ASSUME TypeOK, SysExecve
  PROVE  /\ current \in Slots
         /\ \E new \in SUBSET (freePages \cup table[current].frames) :
              /\ table' = [table EXCEPT ![current].frames = new]
              /\ freePages' = (freePages \cup table[current].frames) \ new
<1>1. current \in Slots /\ freePages \in SUBSET Pages /\ table[current].frames \in SUBSET Pages
  BY DEF TypeOK, ProcType
<1> DEFINE A == freePages \cup table[current].frames
<1>2. A \in SUBSET Pages /\ IsFiniteSet(A) /\ IsFiniteSet(freePages)
  BY <1>1, ProcessAssumption, FS_Subset
<1>3. Cardinality(freePages) <= Cardinality(A) /\ Cardinality(freePages) \in Nat
      /\ Cardinality(A) \in Nat
  BY <1>2, FS_Subset, FS_CardinalityType
<1>4. WinPages \in Nat /\ WinPages + Reserve >= WinPages /\ WinPages + Reserve \in Nat
  BY ProcessAssumption
<1>5. WinPages <= Cardinality(A)
  BY <1>3, <1>4 DEF SysExecve, Enough
<1>6. SomePages(WinPages, A) \subseteq A
  BY <1>2, <1>4, <1>5, SomePagesAvail
<1> QED BY <1>1, <1>6 DEF SysExecve

LEMMA ExecveType == ASSUME TypeOK, SysExecve PROVE TypeOK'
<1>1. PICK new \in SUBSET (freePages \cup table[current].frames) :
        /\ table' = [table EXCEPT ![current].frames = new]
        /\ freePages' = (freePages \cup table[current].frames) \ new
  BY ExecvePages
<1>2. table \in [Slots -> ProcType] /\ current \in Slots /\ freePages \subseteq Pages
  BY DEF TypeOK
<1>3. table[current].frames \subseteq Pages
  BY <1>2 DEF ProcType
<1>4. [table[current] EXCEPT !.frames = new] \in ProcType
  BY <1>2, <1>3 DEF ProcType
<1>5. table' \in [Slots -> ProcType] /\ freePages' \in SUBSET Pages
  BY <1>1, <1>2, <1>3, <1>4
<1> QED BY <1>5 DEF SysExecve, TypeOK, cpuVars, timeVars, history

(* Creating a program. *)
LEMMA SpawnAllocType ==
  ASSUME TypeOK, NEW kind \in {"fork", "run3fg", "run3bg"}, NEW stk \in Stacks,
         NEW masked \in BOOLEAN, SpawnAlloc(kind, stk, masked)
  PROVE  /\ table' \in Tables /\ stack' \in Stacks
         /\ next_pid' \in 0 .. MaxPid + 1
<1> DEFINE s == Min(FreeSlots)
           f == [Frame("build", kind) EXCEPT !.p = s, !.pid = next_pid, !.masked = masked]
<1>1. CanAlloc /\ s \in Slots /\ next_pid \in Pids /\ process_alloc \in ProcType
  BY FirstFreeSlot, AllocType DEF SpawnAlloc
<1>2. f \in FrameType
  <2>1. Frame("build", kind) \in FrameType
    BY FrameMade
  <2> QED BY <1>1, <2>1 DEF FrameType
<1>3. stack' = Push(stk, current, f) /\ table' = [table EXCEPT ![s] = process_alloc]
  BY DEF SpawnAlloc
<1>4. stack' \in Stacks
  BY <1>2, <1>3, StackOps DEF TypeOK
<1>5. table' \in Tables
  BY <1>1, <1>3 DEF Tables, TypeOK
<1>6. next_pid' \in 0 .. MaxPid + 1
  BY <1>1, ConstFacts DEF SpawnAlloc, Pids
<1> QED BY <1>4, <1>5, <1>6

LEMMA CreateType ==
  ASSUME TypeOK, SysFork \/ \E kind \in {"run3fg", "run3bg"} : CmdRun3(kind)
  PROVE  TypeOK'
<1>1. stack \in Stacks /\ (~intr) \in BOOLEAN
  BY DEF TypeOK, Stacks
<1>2. CASE SysFork
  BY <1>1, <1>2, SpawnAllocType DEF SysFork, TypeOK, Tables, Stacks, cpuVars, timeVars, history
<1>3. ASSUME NEW kind \in {"run3fg", "run3bg"}, CmdRun3(kind) PROVE TypeOK'
  <2>1. table' \in Tables /\ stack' \in Stacks /\ next_pid' \in 0 .. MaxPid + 1
    BY <1>1, <1>3, SpawnAllocType DEF CmdRun3
  <2> QED BY <1>3, <2>1 DEF CmdRun3, TypeOK, Tables, Stacks, cpuVars, timeVars, history
<1> QED BY <1>2, <1>3

(* The pages of a new program were all free, and distinct. *)
LEMMA BuildPages ==
  ASSUME TypeOK, SpawnBuild
  PROVE  /\ Top \in FrameType /\ Top.p \in Slots
         /\ \E k, w, d \in SUBSET freePages :
              /\ k \cap w = {} /\ k \cap d = {} /\ w \cap d = {}
              /\ table' = [table EXCEPT ![Top.p].kstack = k, ![Top.p].frames = w,
                                        ![Top.p].pd = d]
              /\ freePages' = freePages \ (k \cup w \cup d)
<1> DEFINE k == SomePages(KStackPages, freePages)
           w == SomePages(WinPages, freePages \ k)
           d == SomePages(PdPages, freePages \ (k \cup w))
           n == Cardinality(freePages)
<1>1. Top \in FrameType /\ Top.p \in Slots
  BY AtTop DEF SpawnBuild, FrameType
<1>2. freePages \in SUBSET Pages /\ IsFiniteSet(freePages)
  BY ProcessAssumption, FS_Subset DEF TypeOK
<1>3. n \in Nat /\ KStackPages \in Nat /\ WinPages \in Nat /\ PdPages \in Nat
  BY <1>2, FS_CardinalityType, ProcessAssumption
<1>4. n - KStackPages >= WinPages + PdPages
  BY DEF SpawnBuild, MemoryFor
<1>5. k \subseteq freePages /\ Cardinality(k) = KStackPages
  BY <1>2, <1>3, <1>4, SomePagesAvail
<1>6. Cardinality(freePages \ k) = n - KStackPages
  BY <1>2, <1>3, <1>5, Minus
<1>7. w \subseteq freePages \ k /\ Cardinality(w) = WinPages
  BY <1>2, <1>3, <1>4, <1>6, SomePagesAvail
<1>8. Cardinality((freePages \ k) \ w) = n - KStackPages - WinPages
  <2>1. IsFiniteSet(freePages \ k) /\ w \in SUBSET (freePages \ k)
    BY <1>2, <1>7, FS_Subset
  <2> HIDE DEF k, w
  <2> QED BY <2>1, <1>3, <1>6, <1>7, Minus
<1>9. freePages \ (k \cup w) = (freePages \ k) \ w
  OBVIOUS
<1>10. d \subseteq freePages \ (k \cup w)
  <2>1. freePages \ (k \cup w) \in SUBSET Pages
    BY <1>2
  <2> HIDE DEF k, w, n
  <2>2. Cardinality(freePages \ (k \cup w)) = n - KStackPages - WinPages
    BY <1>8, <1>9, Zenon
  <2>3. PdPages <= Cardinality(freePages \ (k \cup w))
    BY <1>3, <1>4, <2>2
  <2> QED BY <2>1, <2>3, <1>3, SomePagesAvail
<1>11. k \cap w = {} /\ k \cap d = {} /\ w \cap d = {}
  BY <1>7, <1>10
<1>12. /\ table' = [table EXCEPT ![Top.p].kstack = k, ![Top.p].frames = w,
                                 ![Top.p].pd = d]
       /\ freePages' = freePages \ (k \cup w \cup d)
  BY DEF SpawnBuild
<1>13. k \in SUBSET freePages /\ w \in SUBSET freePages /\ d \in SUBSET freePages
  BY <1>5, <1>7, <1>10
<1> HIDE DEF k, w, d
<1> QED BY <1>1, <1>11, <1>12, <1>13

LEMMA BuildType == ASSUME TypeOK, SpawnBuild PROVE TypeOK'
<1>1. PICK k, w, d \in SUBSET freePages :
        /\ table' = [table EXCEPT ![Top.p].kstack = k, ![Top.p].frames = w,
                                  ![Top.p].pd = d]
        /\ freePages' = freePages \ (k \cup w \cup d)
  BY BuildPages
<1>2. Top \in FrameType /\ Top.p \in Slots /\ stack[current] # <<>>
  BY BuildPages DEF SpawnBuild
<1>3. table \in [Slots -> ProcType] /\ freePages \subseteq Pages
  BY DEF TypeOK
<1>4. table' \in [Slots -> ProcType]
  <2>0. table[Top.p] \in ProcType /\ {k, w, d} \subseteq SUBSET Pages
    BY <1>2, <1>3
  <2>1. [table[Top.p] EXCEPT !.kstack = k, !.frames = w, !.pd = d] \in ProcType
    BY <2>0 DEF ProcType
  <2>2. table' = [table EXCEPT ![Top.p] = [table[Top.p] EXCEPT !.kstack = k, !.frames = w, !.pd = d]]
    BY <1>1, <1>2, <1>3 DEF ProcType
  <2> QED BY <1>3, <2>1, <2>2
<1>5. [Top EXCEPT !.pc = "publish"] \in FrameType
  BY <1>2 DEF FrameType
<1>6. stack' \in Stacks
  BY <1>2, <1>5, AtTop DEF SpawnBuild
<1>7. freePages' \in SUBSET Pages
  BY <1>1, <1>3
<1> QED BY <1>4, <1>6, <1>7 DEF SpawnBuild, TypeOK, Stacks, cpuVars, timeVars, history

LEMMA SpawnEndType == ASSUME TypeOK, SpawnFail \/ SpawnPublish PROVE TypeOK'
<1>1. CASE SpawnFail
  BY <1>1, ReturningType DEF SpawnFail
<1>2. CASE SpawnPublish
  <2>1. stack[current] # <<>> /\ Top \in FrameType /\ Top.p \in Slots
    BY <1>2, AtTop DEF SpawnPublish, FrameType
  <2> DEFINE row == [table[Top.p] EXCEPT
        !.esp = TRUE, !.user = TRUE, !.state = "RUNNING",
        !.bg = CASE Top.ph = "fork" -> table[current].bg
                 [] Top.ph = "run3bg" -> TRUE [] OTHER -> FALSE]
  <2>2. table[Top.p] \in ProcType /\ table[current].bg \in BOOLEAN
    BY <2>1 DEF TypeOK, ProcType
  <2>3. row \in ProcType
    BY <2>2 DEF ProcType, ProcStates
  <2>4. table' \in [Slots -> ProcType]
    BY <1>2, <2>1, <2>3 DEF SpawnPublish, TypeOK
  <2> DEFINE fresh == [Frame("user", "test") EXCEPT !.masked = FALSE]
             after == IF Top.ph = "run3fg" /\ Exists(table, Top.pid)
                        THEN SetTop(stack, current, [Top EXCEPT !.pc = "run3",
                                !.ph = "test", !.p = process_get(table, Top.pid)])
                        ELSE Pop(stack, current)
  <2>5. fresh \in FrameType
    <3>1. Frame("user", "test") \in FrameType
      BY FrameMade
    <3> QED BY <3>1 DEF FrameType
  <2>6. after \in Stacks
    <3>1. CASE Top.ph = "run3fg" /\ Exists(table, Top.pid)
      <4>1. process_get(table, Top.pid) \in Slots
        BY <3>1, SlotOfPid
      <4>2. [Top EXCEPT !.pc = "run3", !.ph = "test",
                        !.p = process_get(table, Top.pid)] \in FrameType
        BY <2>1, <4>1 DEF FrameType
      <4> QED BY <3>1, <4>2, <2>1, AtTop
    <3>2. CASE ~(Top.ph = "run3fg" /\ Exists(table, Top.pid))
      BY <3>2, <2>1, AtTop
    <3> QED BY <3>1, <3>2
  <2>7. stack' = [after EXCEPT ![Top.p] = <<fresh>>]
    BY <1>2, Zenon DEF SpawnPublish
  <2>8. stack' \in Stacks
    <3> HIDE DEF after, fresh
    <3>1. <<fresh>> \in Seq(FrameType)
      BY <2>5
    <3> QED BY <2>1, <2>6, <2>7, <3>1 DEF Stacks
  <2> QED BY <1>2, <2>4, <2>8 DEF SpawnPublish, TypeOK, Stacks, cpuVars, timeVars, history
<1> QED BY <1>1, <1>2

(* The shell's commands. *)
LEMMA CommandEndType ==
  ASSUME TypeOK, Run3Return \/ WaitReturn \/ LegacyReturn
  PROVE  TypeOK'
<1>1. stack[current] # <<>> /\ Top.p \in Slots /\ Top.pid \in Pids
  BY AtTop DEF Run3Return, WaitReturn, LegacyReturn, At, FrameType
<1>2. <<Top.pid, table[Top.p].exit_code>> \in Pids \X Codes
  BY <1>1 DEF TypeOK, ProcType
<1>3. CASE Run3Return
  BY <1>1, <1>2, <1>3, ReturningType DEF Run3Return
<1>4. CASE WaitReturn
  BY <1>1, <1>2, <1>4, ReturningType DEF WaitReturn
<1>5. CASE LegacyReturn
  BY <1>1, <1>5, ReturningType DEF LegacyReturn
<1> QED BY <1>3, <1>4, <1>5

LEMMA WaitFrameType ==
  ASSUME TypeOK, NEW pid, Waitable(pid), NEW now \in Ticks, NEW m \in BOOLEAN
  PROVE  WaitFrame(pid, now, m) \in FrameType
<1>1. process_get(table, pid) \in Slots /\ pid \in Pids
  BY SlotOfPid DEF Waitable, TypeOK, ProcType
<1>2. Frame("wait", "test") \in FrameType
  BY FrameMade
<1> QED BY <1>1, <1>2 DEF WaitFrame, FrameType

LEMMA CmdWaitType == ASSUME TypeOK, NEW arg \in Pids, CmdWait(arg) PROVE TypeOK'
<1>1. WaitFrame(WaitTarget(arg), pit_ticks, ~intr) \in FrameType
  BY WaitFrameType DEF CmdWait, TypeOK
<1> QED BY <1>1, AtTop, OnlyStackType DEF CmdWait, At

LEMMA CmdKillType == ASSUME TypeOK, NEW pid \in Pids, CmdKill(pid) PROVE TypeOK'
<1>1. process_get(table, pid) \in Slots /\ stack \in Stacks
  BY SlotOfPid DEF CmdKill, Killable, TypeOK, Stacks
<1> QED BY <1>1, FreeSlotType DEF CmdKill, TypeOK, Tables, Stacks, timeVars

LEMMA CmdRunType == ASSUME TypeOK, NEW bg \in BOOLEAN, CmdRun(bg) PROVE TypeOK'
<1> DEFINE s == Min(FreeSlots)
<1>1. CanAlloc /\ s \in Slots /\ next_pid \in Pids /\ process_alloc \in ProcType
  BY FirstFreeSlot, AllocType DEF CmdRun
<1>2. [process_alloc EXCEPT !.bg = bg] \in ProcType
  BY <1>1 DEF ProcType
<1>3. table' \in Tables
  BY <1>1, <1>2 DEF CmdRun, Tables, TypeOK
<1>4. [Frame("legacy", "test") EXCEPT !.pid = next_pid] \in FrameType
  BY <1>1, FrameMade, SMTT(30) DEF FrameType
<1>5. stack' \in Stacks
  BY <1>4, AtTop DEF CmdRun, At
<1>6. next_pid' \in 0 .. MaxPid + 1
  BY <1>1, ConstFacts DEF CmdRun, Pids
<1> QED BY <1>3, <1>5, <1>6 DEF CmdRun, TypeOK, Tables, Stacks, cpuVars, timeVars, history

(* Commands of an SSH session, under the tick that delivers them. *)
LEMMA UnderTickType ==
  ASSUME TypeOK, NEW cmd, RemoteTick(cmd)
  PROVE  /\ UnderTick \in Stacks
         /\ pit_ticks' \in Ticks /\ left' \in [Slots -> Nat]
<1>1. [Frame("tick", "test") EXCEPT !.masked = TRUE] \in FrameType
  <2>1. Frame("tick", "test") \in FrameType
    BY FrameMade
  <2> QED BY <2>1 DEF FrameType
<1>2. UnderTick \in Stacks
  BY <1>1, AtTop DEF UnderTick, RemoteTick, Interruptible
<1> QED BY <1>2, CountDownType DEF RemoteTick

LEMMA RemoteType == ASSUME TypeOK, Remote PROVE TypeOK'
<1>1. ASSUME NEW pid \in Pids, RemoteKill(pid) PROVE TypeOK'
  <2>1. UnderTick \in Stacks /\ pit_ticks' \in Ticks /\ left' \in [Slots -> Nat]
    BY <1>1, UnderTickType DEF RemoteKill
  <2>2. process_get(table, pid) \in Slots
    BY <1>1, SlotOfPid DEF RemoteKill, Killable
  <2> QED BY <1>1, <2>1, <2>2, FreeSlotType
        DEF RemoteKill, RemoteTick, TypeOK, Tables, Stacks
<1>2. ASSUME NEW pid \in Pids, RemoteWait(pid) PROVE TypeOK'
  <2>1. UnderTick \in Stacks /\ pit_ticks' \in Ticks /\ left' \in [Slots -> Nat]
    BY <1>2, UnderTickType DEF RemoteWait
  <2>2. WaitFrame(WaitTarget(pid), Now, TRUE) \in FrameType
    BY <1>2, WaitFrameType, CountDownType DEF RemoteWait
  <2>3. stack' \in Stacks
    BY <1>2, <2>1, <2>2, StackOps DEF RemoteWait, TypeOK
  <2> QED BY <1>2, <2>1, <2>3 DEF RemoteWait, RemoteTick, TypeOK, Stacks
<1>3. ASSUME NEW kind \in {"run3fg", "run3bg"}, RemoteRun3(kind) PROVE TypeOK'
  <2>1. UnderTick \in Stacks /\ pit_ticks' \in Ticks /\ left' \in [Slots -> Nat]
    BY <1>3, UnderTickType DEF RemoteRun3
  <2>2. table' \in Tables /\ stack' \in Stacks /\ next_pid' \in 0 .. MaxPid + 1
    BY <1>3, <2>1, SpawnAllocType DEF RemoteRun3
  <2> QED BY <1>3, <2>1, <2>2 DEF RemoteRun3, RemoteTick, TypeOK, Tables, Stacks
<1> QED BY <1>1, <1>2, <1>3 DEF Remote

LEMMA FinishTickType == ASSUME TypeOK, FinishTick PROVE TypeOK'
<1> DEFINE stk == Pop(stack, current)
<1>1. stack[current] \in Seq(FrameType) /\ Len(stack[current]) > 1 /\ current \in Slots
  BY DEF FinishTick, TypeOK
<1>2. stk \in Stacks /\ table \in Tables /\ pit_ticks \in Ticks
  BY AtTop DEF FinishTick, At, TypeOK, Tables
<1>3. stk[current] # <<>>
  <2>1. stk[current] = Front(stack[current])
    BY <1>1 DEF Pop, TypeOK
  <2>2. Len(Front(stack[current])) = Len(stack[current]) - 1
    <3>1. \A i \in 1 .. Len(stack[current]) - 1 : stack[current][i] \in FrameType
      BY <1>1
    <3>2. Len(stack[current]) - 1 \in Int /\ 1 <= Len(stack[current]) - 1
      BY <1>1
    <3>3. Len(SubSeq(stack[current], 1, Len(stack[current]) - 1))
            = Len(stack[current]) - 1 - 1 + 1
      BY <3>1, <3>2, SubSeqProperties
    <3> QED BY <3>2, <3>3 DEF Front
  <2>3. Len(stk[current]) > 0
    BY <1>1, <2>1, <2>2
  <2> QED BY <2>3
<1>4. TickRest(table, stk, pit_ticks)
  BY DEF FinishTick
<1> HIDE DEF stk
<1>5. MachineOK' /\ scheduler_ticks' \in 0 .. Quantum - 1
  BY <1>2, <1>3, <1>4, TickRestType
<1> QED BY <1>5 DEF FinishTick, MachineOK, TypeOK, Tables, Stacks, history

LEMMA TypeNext == TypeOK /\ [Next]_vars => TypeOK'
<1> SUFFICES ASSUME TypeOK, [Next]_vars PROVE TypeOK'
  OBVIOUS
<1>1. CASE Tick
  BY <1>1, TickType
<1>2. CASE KernelStep
  BY <1>2, YieldType, SwitchType, SleepType, ExitType, WaitpidType, BuildType,
     SpawnEndType, CommandEndType, FinishTickType DEF KernelStep
<1>3. CASE Syscall
  BY <1>3, SleepType, ExitType, WaitpidType, GetkeyType, ExecveType, CreateType
     DEF Syscall
<1>4. CASE GetkeyReturn
  BY <1>4, GetkeyType
<1>5. CASE ShellCommand
  BY <1>5, CreateType, CmdWaitType, CmdKillType, CmdRunType DEF ShellCommand
<1>6. CASE LegacyReturn
  BY <1>6, CommandEndType
<1>7. CASE Remote
  BY <1>7, RemoteType
<1>8. CASE UNCHANGED vars
  BY <1>8 DEF vars, cpuVars, timeVars, history, TypeOK
<1> QED BY <1>1, <1>2, <1>3, <1>4, <1>5, <1>6, <1>7, <1>8 DEF Next

(* Every variable of the process system keeps its type, whatever the        *)
(* interleaving of programs, shell, timer and SSH commands.                 *)
THEOREM TypeCorrect == Spec => []TypeOK
<1>1. Init => TypeOK
  BY TypeInit
<1>2. TypeOK /\ [Next]_vars => TypeOK'
  BY TypeNext
<1> QED BY <1>1, <1>2, PTL DEF Spec

-----------------------------------------------------------------------------
(* Pages have one owner.  Most steps only let pages go: no process gets a   *)
(* page, and a page enters the free lists only as some process lets go of   *)
(* it.                                                                      *)
OnlyReleases ==
  /\ \A s \in Slots : /\ table'[s].kstack \subseteq table[s].kstack
                      /\ table'[s].frames \subseteq table[s].frames
                      /\ table'[s].pd \subseteq table[s].pd
  /\ \A q \in freePages' :
       q \in freePages \/ \E t \in Slots : q \in Owned(t) /\ q \notin Owned(t)'

LEMMA ReleasesKeepExclusive ==
  ASSUME PagesExclusive, OnlyReleases
  PROVE  PagesExclusive'
<1>1. \A s \in Slots : Owned(s)' \subseteq Owned(s)
  BY DEF OnlyReleases, Owned
<1>2. \A s, t \in Slots : s # t => Owned(s)' \cap Owned(t)' = {}
  BY <1>1 DEF PagesExclusive
<1>3. \A s \in Slots : Owned(s)' \cap freePages' = {}
  <2> SUFFICES ASSUME NEW s \in Slots, NEW q \in Owned(s)', q \in freePages'
               PROVE  FALSE
    OBVIOUS
  <2>1. q \in Owned(s) /\ q \notin freePages
    BY <1>1 DEF PagesExclusive
  <2>2. PICK t \in Slots : q \in Owned(t) /\ q \notin Owned(t)'
    BY <2>1 DEF OnlyReleases
  <2>3. t = s
    BY <2>1, <2>2 DEF PagesExclusive
  <2> QED BY <2>2, <2>3
<1>4. \A s \in Slots : /\ table'[s].kstack \cap table'[s].frames = {}
                       /\ table'[s].kstack \cap table'[s].pd = {}
                       /\ table'[s].frames \cap table'[s].pd = {}
  BY DEF PagesExclusive, OnlyReleases
<1> QED BY <1>2, <1>3, <1>4 DEF PagesExclusive

(* Steps that move no page at all. *)
LEMMA StillKeepsExclusive ==
  ASSUME PagesExclusive, freePages' = freePages,
         \A s \in Slots : /\ table'[s].kstack = table[s].kstack
                          /\ table'[s].frames = table[s].frames
                          /\ table'[s].pd = table[s].pd
  PROVE  PagesExclusive'
BY ReleasesKeepExclusive DEF OnlyReleases

LEMMA FreeSlotReleases ==
  ASSUME TypeOK, PagesExclusive, NEW s \in Slots, NEW stk, FreeSlot(s, stk)
  PROVE  PagesExclusive'
<1>1. table \in [Slots -> ProcType] /\ table[s] \in ProcType
  BY DEF TypeOK
<1>2. /\ process_free(table[s]).kstack = {}
      /\ process_free(table[s]).frames = {}
      /\ process_free(table[s]).pd = {}
  BY <1>1 DEF process_free, user_free_memory, ProcType
<1>3. table' = [table EXCEPT ![s] = process_free(table[s])]
      /\ freePages' = freePages \cup PagesFreed(s)
  BY DEF FreeSlot
<1>4. \A t \in Slots : IF t = s THEN table'[t] = process_free(table[s])
                                ELSE table'[t] = table[t]
  BY <1>1, <1>3
<1>5. Owned(s)' = {}
  BY <1>2, <1>4 DEF Owned
<1>6. PagesFreed(s) \subseteq Owned(s)
  BY DEF PagesFreed, MemoryOf, Owned
<1>7. OnlyReleases
  BY <1>2, <1>3, <1>4, <1>5, <1>6 DEF OnlyReleases
<1> QED BY <1>7, ReleasesKeepExclusive

LEMMA ReturnReleases ==
  ASSUME TypeOK, PagesExclusive, NEW pid, ReturnFreeing(pid) \/ JustReturn
  PROVE  PagesExclusive'
<1>1. CASE JustReturn
  BY <1>1, StillKeepsExclusive DEF JustReturn
<1>2. CASE ReturnFreeing(pid)
  BY <1>1, <1>2, SlotOfPid, FreeSlotReleases DEF ReturnFreeing
<1> QED BY <1>1, <1>2

LEMMA SwitchStill ==
  ASSUME PagesExclusive, NEW tab \in Tables, NEW stk, NEW next, SwitchTo(tab, stk, next),
         freePages' = freePages,
         \A s \in Slots : /\ tab[s].kstack = table[s].kstack
                          /\ tab[s].frames = table[s].frames
                          /\ tab[s].pd = table[s].pd
  PROVE  PagesExclusive'
<1>1. \A s \in Slots : /\ table'[s].kstack = tab[s].kstack
                       /\ table'[s].frames = tab[s].frames
                       /\ table'[s].pd = tab[s].pd
  BY DEF SwitchTo, Tables, ProcType
<1> QED BY <1>1, StillKeepsExclusive

LEMMA TickStill ==
  ASSUME TypeOK, PagesExclusive, NEW stk, NEW now \in Ticks, TickRest(table, stk, now),
         freePages' = freePages
  PROVE  PagesExclusive'
<1>1. Wake(table, now) \in Tables
  BY WakeType DEF TypeOK, Tables
<1>2. \A s \in Slots : /\ Wake(table, now)[s].kstack = table[s].kstack
                       /\ Wake(table, now)[s].frames = table[s].frames
                       /\ Wake(table, now)[s].pd = table[s].pd
  BY DEF Wake, TypeOK, ProcType
<1>3. table' = Wake(table, now) \/ \E st, nx : SwitchTo(Wake(table, now), st, nx)
  BY DEF TickRest
<1>4. CASE table' = Wake(table, now)
  BY <1>2, <1>4, StillKeepsExclusive
<1>5. CASE \E st, nx : SwitchTo(Wake(table, now), st, nx)
  BY <1>1, <1>2, <1>5, SwitchStill
<1> QED BY <1>3, <1>4, <1>5

(* A slot taken by process_alloc owns nothing yet. *)
LEMMA AllocReleases ==
  ASSUME TypeOK, PagesExclusive, NEW s \in Slots, NEW row \in ProcType,
         row.kstack = {}, row.frames = {}, row.pd = {},
         table' = [table EXCEPT ![s] = row], freePages' = freePages
  PROVE  PagesExclusive'
<1>1. \A t \in Slots : IF t = s THEN table'[t] = row ELSE table'[t] = table[t]
  BY DEF TypeOK
<1>2. OnlyReleases
  BY <1>1 DEF OnlyReleases
<1> QED BY <1>2, ReleasesKeepExclusive

LEMMA SpawnAllocReleases ==
  ASSUME TypeOK, PagesExclusive, NEW kind, NEW stk, NEW masked,
         SpawnAlloc(kind, stk, masked), freePages' = freePages
  PROVE  PagesExclusive'
<1>1. Min(FreeSlots) \in Slots /\ process_alloc \in ProcType
  BY FirstFreeSlot, AllocType DEF SpawnAlloc
<1>2. process_alloc.kstack = {} /\ process_alloc.frames = {} /\ process_alloc.pd = {}
  BY DEF process_alloc, EmptySlot
<1>3. table' = [table EXCEPT ![Min(FreeSlots)] = process_alloc]
  BY DEF SpawnAlloc
<1> QED BY <1>1, <1>2, <1>3, AllocReleases

LEMMA CmdRunExclusive ==
  ASSUME TypeOK, PagesExclusive, NEW bg \in BOOLEAN, CmdRun(bg)
  PROVE  PagesExclusive'
<1> DEFINE row == [process_alloc EXCEPT !.bg = bg]
<1>1. Min(FreeSlots) \in Slots /\ process_alloc \in ProcType
  BY FirstFreeSlot, AllocType DEF CmdRun
<1>2. row \in ProcType
  BY <1>1 DEF ProcType
<1>3. row.kstack = {} /\ row.frames = {} /\ row.pd = {}
  BY DEF process_alloc, EmptySlot
<1>4. table' = [table EXCEPT ![Min(FreeSlots)] = row] /\ freePages' = freePages
  BY DEF CmdRun
<1> HIDE DEF row
<1> QED BY <1>1, <1>2, <1>3, <1>4, AllocReleases

(* exit gives its window and its page directory back. *)
LEMMA ExitExclusive ==
  ASSUME TypeOK, PagesExclusive, NEW c \in Codes, SysExit(c)
  PROVE  PagesExclusive'
<1> DEFINE row == [user_free_memory(table[current]) EXCEPT !.exit_code = c]
<1>1. table \in [Slots -> ProcType] /\ current \in Slots /\ table[current] \in ProcType
  BY DEF TypeOK
<1>2. row.kstack = table[current].kstack /\ row.frames = {} /\ row.pd = {}
  BY <1>1 DEF user_free_memory, ProcType
<1>3. /\ table' = [table EXCEPT ![current] = row]
      /\ freePages' = freePages \cup MemoryOf(table[current])
  BY DEF SysExit
<1> HIDE DEF row
<1>4. \A t \in Slots : IF t = current THEN table'[t] = row ELSE table'[t] = table[t]
  BY <1>1, <1>3
<1>5. \A q \in MemoryOf(table[current]) :
        q \in table[current].frames \cup table[current].pd /\ q \notin row.kstack
  BY <1>1, <1>2 DEF MemoryOf, PagesExclusive
<1>6. \A q \in MemoryOf(table[current]) :
        \E t \in Slots : /\ q \in Owned(t)
                        /\ q \notin table'[t].kstack \cup table'[t].frames \cup table'[t].pd
  BY <1>1, <1>2, <1>4, <1>5 DEF Owned
<1>7. OnlyReleases
  BY <1>2, <1>3, <1>4, <1>6 DEF OnlyReleases, Owned
<1> QED BY <1>7, ReleasesKeepExclusive

(* execve takes its new window from the free pages and its old window. *)
LEMMA ExecveExclusive ==
  ASSUME TypeOK, PagesExclusive, SysExecve
  PROVE  PagesExclusive'
<1>1. PICK new \in SUBSET (freePages \cup table[current].frames) :
        /\ table' = [table EXCEPT ![current].frames = new]
        /\ freePages' = (freePages \cup table[current].frames) \ new
  BY ExecvePages
<1>2. table \in [Slots -> ProcType] /\ current \in Slots /\ table[current] \in ProcType
  BY DEF TypeOK
<1>3. \A t \in Slots :
        /\ table'[t].kstack = table[t].kstack /\ table'[t].pd = table[t].pd
        /\ table'[t].frames = IF t = current THEN new ELSE table[t].frames
  BY <1>1, <1>2 DEF ProcType
<1>4. \A s, t \in Slots : s # t => Owned(s)' \cap Owned(t)' = {}
  BY <1>3 DEF PagesExclusive, Owned
<1>5. \A s \in Slots : Owned(s)' \cap freePages' = {}
  BY <1>1, <1>2, <1>3 DEF PagesExclusive, Owned
<1>6. \A s \in Slots : /\ table'[s].kstack \cap table'[s].frames = {}
                       /\ table'[s].kstack \cap table'[s].pd = {}
                       /\ table'[s].frames \cap table'[s].pd = {}
  BY <1>2, <1>3 DEF PagesExclusive, Owned
<1> QED BY <1>4, <1>5, <1>6 DEF PagesExclusive

LEMMA BuildExclusive ==
  ASSUME TypeOK, PagesExclusive, SpawnBuild
  PROVE  PagesExclusive'
<1>1. PICK k, w, d \in SUBSET freePages :
        /\ k \cap w = {} /\ k \cap d = {} /\ w \cap d = {}
        /\ table' = [table EXCEPT ![Top.p].kstack = k, ![Top.p].frames = w,
                                  ![Top.p].pd = d]
        /\ freePages' = freePages \ (k \cup w \cup d)
  BY BuildPages
<1>2. Top.p \in Slots /\ table \in [Slots -> ProcType]
  BY BuildPages DEF TypeOK
<1>3. \A t \in Slots :
        /\ table'[t].kstack = IF t = Top.p THEN k ELSE table[t].kstack
        /\ table'[t].frames = IF t = Top.p THEN w ELSE table[t].frames
        /\ table'[t].pd = IF t = Top.p THEN d ELSE table[t].pd
  BY <1>1, <1>2 DEF ProcType
<1>0. \A t \in Slots : Owned(t)' = IF t = Top.p THEN k \cup w \cup d ELSE Owned(t)
  BY <1>3 DEF Owned
<1>4. \A s, t \in Slots : s # t => Owned(s)' \cap Owned(t)' = {}
  <2>1. k \cup w \cup d \subseteq freePages
    OBVIOUS
  <2> QED BY <1>0, <2>1 DEF PagesExclusive
<1>5. \A s \in Slots : Owned(s)' \cap freePages' = {}
  BY <1>0, <1>1 DEF PagesExclusive
<1>6. \A s \in Slots : /\ table'[s].kstack \cap table'[s].frames = {}
                       /\ table'[s].kstack \cap table'[s].pd = {}
                       /\ table'[s].frames \cap table'[s].pd = {}
  BY <1>1, <1>2, <1>3 DEF PagesExclusive
<1> QED BY <1>4, <1>5, <1>6 DEF PagesExclusive

(* Steps that leave every window, stack and directory where it is. *)
LEMMA QuietExclusive ==
  ASSUME TypeOK, PagesExclusive,
         \/ Yield \/ SleepArm \/ SleepReturn \/ ExitZombie \/ SpawnPublish
         \/ SysGetkey \/ GetkeyReturn
         \/ \E n \in SleepTicks : SysSleep(n)
         \/ \E pid \in Pids : SysWaitpid(pid) \/ CmdWait(pid) \/ RemoteWait(pid)
  PROVE  PagesExclusive'
<1>1. table \in [Slots -> ProcType] /\ current \in Slots
  BY DEF TypeOK
<1>2. CASE Yield \/ SleepReturn \/ SysGetkey \/ GetkeyReturn
           \/ \E pid \in Pids : SysWaitpid(pid) \/ CmdWait(pid) \/ RemoteWait(pid)
  <2>1. UNCHANGED <<table, freePages>>
    BY <1>2 DEF Yield, SleepReturn, SysGetkey, GetkeyReturn, SysWaitpid, CmdWait,
                RemoteWait, OnlyStackChanges
  <2> QED BY <2>1, StillKeepsExclusive
<1>3. CASE SleepArm \/ ExitZombie \/ \E n \in SleepTicks : SysSleep(n)
  <2>1. /\ freePages' = freePages
        /\ \/ \E x : table' = [table EXCEPT ![current].wake_tick = x]
           \/ \E x : table' = [table EXCEPT ![current].state = x]
    BY <1>3 DEF SleepArm, ExitZombie, SysSleep
  <2>2. \A s \in Slots : /\ table'[s].kstack = table[s].kstack
                         /\ table'[s].frames = table[s].frames
                         /\ table'[s].pd = table[s].pd
    BY <1>1, <2>1 DEF ProcType
  <2> QED BY <2>1, <2>2, StillKeepsExclusive
<1>4. CASE SpawnPublish
  <2>1. PICK b : table' = [table EXCEPT ![Top.p] = [@ EXCEPT
                    !.esp = TRUE, !.user = TRUE, !.state = "RUNNING", !.bg = b]]
    BY <1>4 DEF SpawnPublish
  <2>2. Top.p \in Slots
    BY <1>4, AtTop DEF SpawnPublish, FrameType
  <2>3. \A s \in Slots : /\ table'[s].kstack = table[s].kstack
                         /\ table'[s].frames = table[s].frames
                         /\ table'[s].pd = table[s].pd
    BY <1>1, <2>1, <2>2 DEF ProcType
  <2> QED BY <1>4, <2>3, StillKeepsExclusive DEF SpawnPublish
<1> QED BY <1>2, <1>3, <1>4

(* Steps that end a process or a command. *)
LEMMA EndExclusive ==
  ASSUME TypeOK, PagesExclusive,
         \/ WaitpidReturn \/ SpawnFail \/ Run3Return \/ WaitReturn \/ LegacyReturn
         \/ \E pid \in Pids : CmdKill(pid) \/ RemoteKill(pid)
  PROVE  PagesExclusive'
<1>1. CASE WaitpidReturn /\ Zombies(Top.pid) # {}
  <2>1. Zombies(Top.pid) \in SUBSET Nat
    BY ConstFacts DEF Zombies, Slots
  <2>2. Min(Zombies(Top.pid)) \in Zombies(Top.pid)
    BY <1>1, <2>1, MinIn
  <2>3. Min(Zombies(Top.pid)) \in Slots
    BY <2>2 DEF Zombies
  <2> QED BY <1>1, <2>3, FreeSlotReleases DEF WaitpidReturn
<1>2. CASE WaitpidReturn /\ Zombies(Top.pid) = {}
  BY <1>2, ReturnReleases DEF WaitpidReturn
<1>3. CASE SpawnFail \/ Run3Return \/ WaitReturn \/ LegacyReturn
  <2>1. ReturnFreeing(Top.pid) \/ JustReturn
    BY <1>3 DEF SpawnFail, Run3Return, WaitReturn, LegacyReturn
  <2> QED BY <2>1, ReturnReleases
<1>4. ASSUME NEW pid \in Pids, CmdKill(pid) \/ RemoteKill(pid) PROVE PagesExclusive'
  <2>1. Exists(table, pid)
    BY <1>4 DEF CmdKill, RemoteKill, Killable
  <2>2. process_get(table, pid) \in Slots
    BY <2>1, SlotOfPid
  <2>3. \E stk : FreeSlot(process_get(table, pid), stk)
    BY <1>4 DEF CmdKill, RemoteKill
  <2> QED BY <2>2, <2>3, FreeSlotReleases
<1> QED BY <1>1, <1>2, <1>3, <1>4

LEMMA ExclusiveNext == TypeOK /\ PagesExclusive /\ [Next]_vars => PagesExclusive'
<1> SUFFICES ASSUME TypeOK, PagesExclusive, [Next]_vars PROVE PagesExclusive'
  OBVIOUS
<1>1. CASE Tick
  BY <1>1, TickStill, CountDownType DEF Tick
<1>2. CASE FinishTick
  BY <1>2, TickStill DEF FinishTick, TypeOK
<1>3. CASE Switch
  BY <1>3, SwitchStill DEF Switch, TypeOK, Tables
<1>4. CASE KernelStep
  BY <1>2, <1>3, <1>4, QuietExclusive, EndExclusive, BuildExclusive DEF KernelStep
<1>5. CASE Syscall
  BY <1>5, QuietExclusive, ExitExclusive, ExecveExclusive, SpawnAllocReleases
     DEF Syscall, SysFork
<1>6. CASE GetkeyReturn \/ LegacyReturn
  BY <1>6, QuietExclusive, EndExclusive
<1>7. CASE ShellCommand
  BY <1>7, QuietExclusive, EndExclusive, CmdRunExclusive, SpawnAllocReleases
     DEF ShellCommand, CmdRun3
<1>8. CASE Remote
  BY <1>8, QuietExclusive, EndExclusive, SpawnAllocReleases DEF Remote, RemoteRun3
<1>9. CASE UNCHANGED vars
  BY <1>9, StillKeepsExclusive DEF vars
<1> QED BY <1>1, <1>4, <1>5, <1>6, <1>7, <1>8, <1>9 DEF Next

LEMMA ExclusiveInit == Init => PagesExclusive
<1> SUFFICES ASSUME Init PROVE PagesExclusive
  OBVIOUS
<1>1. \A s \in Slots : table[s].kstack = {} /\ table[s].frames = {} /\ table[s].pd = {}
  BY DEF Init, EmptySlot
<1> QED BY <1>1 DEF PagesExclusive, Owned

(* In every interleaving of spawn, fork, execve, exit, reaping and kill,    *)
(* commands of SSH sessions in interrupts included, no page belongs to two  *)
(* processes, and none that a process holds is free.                        *)
THEOREM PagesStayExclusive == Spec => []PagesExclusive
<1>1. Init => PagesExclusive
  BY ExclusiveInit
<1>2. TypeOK /\ PagesExclusive /\ [Next]_vars => PagesExclusive'
  BY ExclusiveNext
<1> QED BY <1>1, <1>2, TypeCorrect, PTL DEF Spec

-----------------------------------------------------------------------------
(* Pids are unique.  next_pid only grows, and only process_alloc hands it   *)
(* out; every other step keeps the pid of each process that stays in use.   *)
PidsKept ==
  /\ next_pid' = next_pid
  /\ \A s \in Slots :
       table'[s].in_use => table[s].in_use /\ table'[s].pid = table[s].pid

LEMMA KeptUnique == ASSUME PidsUnique, PidsKept PROVE PidsUnique'
BY DEF PidsUnique, PidsKept

LEMMA TakenUnique ==
  ASSUME TypeOK, PidsUnique, NEW s \in Slots, NEW row, row.pid = next_pid,
         table' = [table EXCEPT ![s] = row], next_pid' = next_pid + 1
  PROVE  PidsUnique'
<1>1. table \in [Slots -> ProcType] /\ next_pid \in Nat
  BY ConstFacts DEF TypeOK
<1>2. \A t \in Slots : IF t = s THEN table'[t] = row ELSE table'[t] = table[t]
  BY <1>1
<1>3. \A t \in Slots : table[t].pid \in Nat
  BY <1>1, ConstFacts DEF ProcType, Pids
<1>4. \A t \in Slots : table'[t].in_use => table'[t].pid < next_pid'
  BY <1>1, <1>2, <1>3 DEF PidsUnique
<1>5. \A t, u \in Slots :
        table'[t].in_use /\ table'[u].in_use /\ table'[t].pid = table'[u].pid => t = u
  BY <1>1, <1>2, <1>3 DEF PidsUnique
<1> QED BY <1>4, <1>5 DEF PidsUnique

LEMMA FreeSlotKeepsPids ==
  ASSUME TypeOK, NEW s \in Slots, NEW stk, FreeSlot(s, stk), next_pid' = next_pid
  PROVE  PidsKept
<1>1. table \in [Slots -> ProcType] /\ table[s] \in ProcType
  BY DEF TypeOK
<1>2. process_free(table[s]).in_use = FALSE
  BY <1>1 DEF process_free, user_free_memory, ProcType
<1>3. table' = [table EXCEPT ![s] = process_free(table[s])]
  BY DEF FreeSlot
<1>4. \A t \in Slots : IF t = s THEN table'[t] = process_free(table[s])
                                ELSE table'[t] = table[t]
  BY <1>1, <1>3
<1> QED BY <1>2, <1>4 DEF PidsKept

LEMMA SwitchKeepsPids ==
  ASSUME NEW tab \in Tables, NEW stk, NEW next, SwitchTo(tab, stk, next),
         next_pid' = next_pid,
         \A s \in Slots : tab[s].in_use = table[s].in_use /\ tab[s].pid = table[s].pid
  PROVE  PidsKept
<1>1. \A s \in Slots : table'[s].in_use = tab[s].in_use /\ table'[s].pid = tab[s].pid
  BY DEF SwitchTo, Tables, ProcType
<1> QED BY <1>1 DEF PidsKept

LEMMA TickKeepsPids ==
  ASSUME TypeOK, NEW stk, NEW now \in Ticks, TickRest(table, stk, now),
         next_pid' = next_pid
  PROVE  PidsKept
<1>1. Wake(table, now) \in Tables
  BY WakeType DEF TypeOK, Tables
<1>2. \A s \in Slots : /\ Wake(table, now)[s].in_use = table[s].in_use
                       /\ Wake(table, now)[s].pid = table[s].pid
  BY DEF Wake, TypeOK, ProcType
<1>3. table' = Wake(table, now) \/ \E st, nx : SwitchTo(Wake(table, now), st, nx)
  BY DEF TickRest
<1>4. CASE table' = Wake(table, now)
  BY <1>2, <1>4 DEF PidsKept
<1>5. CASE \E st, nx : SwitchTo(Wake(table, now), st, nx)
  BY <1>1, <1>2, <1>5, SwitchKeepsPids
<1> QED BY <1>3, <1>4, <1>5

LEMMA SpawnAllocUnique ==
  ASSUME TypeOK, PidsUnique, NEW kind, NEW stk, NEW masked, SpawnAlloc(kind, stk, masked)
  PROVE  PidsUnique'
<1>1. Min(FreeSlots) \in Slots /\ process_alloc.pid = next_pid
  BY FirstFreeSlot, AllocType DEF SpawnAlloc
<1>2. table' = [table EXCEPT ![Min(FreeSlots)] = process_alloc] /\ next_pid' = next_pid + 1
  BY DEF SpawnAlloc
<1> QED BY <1>1, <1>2, TakenUnique

LEMMA CmdRunUnique ==
  ASSUME TypeOK, PidsUnique, NEW bg \in BOOLEAN, CmdRun(bg)
  PROVE  PidsUnique'
<1> DEFINE row == [process_alloc EXCEPT !.bg = bg]
<1>1. Min(FreeSlots) \in Slots /\ process_alloc.pid = next_pid /\ process_alloc \in ProcType
  BY FirstFreeSlot, AllocType DEF CmdRun
<1>2. row.pid = next_pid
  BY <1>1 DEF ProcType
<1>3. table' = [table EXCEPT ![Min(FreeSlots)] = row] /\ next_pid' = next_pid + 1
  BY DEF CmdRun
<1> HIDE DEF row
<1> QED BY <1>1, <1>2, <1>3, TakenUnique

(* The steps that write other fields of a slot. *)
LEMMA FieldsKeepPids ==
  ASSUME TypeOK,
         \/ SleepArm \/ ExitZombie \/ SpawnBuild \/ SpawnPublish \/ SysExecve
         \/ \E n \in SleepTicks : SysSleep(n)
         \/ \E c \in Codes : SysExit(c)
  PROVE  PidsKept
<1>1. table \in [Slots -> ProcType] /\ current \in Slots
  BY DEF TypeOK
<1>2. CASE SleepArm \/ ExitZombie \/ SysExecve \/ \E n \in SleepTicks : SysSleep(n)
  <2>1. /\ next_pid' = next_pid
        /\ \/ \E x : table' = [table EXCEPT ![current].wake_tick = x]
           \/ \E x : table' = [table EXCEPT ![current].state = x]
           \/ \E x : table' = [table EXCEPT ![current].frames = x]
    BY <1>2 DEF SleepArm, ExitZombie, SysSleep, SysExecve
  <2>2. \A s \in Slots : table'[s].in_use = table[s].in_use /\ table'[s].pid = table[s].pid
    <3>1. CASE \E x : table' = [table EXCEPT ![current].wake_tick = x]
      BY <1>1, <3>1 DEF ProcType
    <3>2. CASE \E x : table' = [table EXCEPT ![current].state = x]
      BY <1>1, <3>2 DEF ProcType
    <3>3. CASE \E x : table' = [table EXCEPT ![current].frames = x]
      BY <1>1, <3>3 DEF ProcType
    <3> QED BY <2>1, <3>1, <3>2, <3>3
  <2> QED BY <2>1, <2>2 DEF PidsKept
<1>3. CASE SpawnBuild
  <2>1. PICK k, w, d :
          table' = [table EXCEPT ![Top.p].kstack = k, ![Top.p].frames = w, ![Top.p].pd = d]
    BY <1>3 DEF SpawnBuild
  <2>2. Top.p \in Slots /\ next_pid' = next_pid
    BY <1>3, BuildPages DEF SpawnBuild
  <2> QED BY <1>1, <2>1, <2>2 DEF ProcType, PidsKept
<1>4. CASE SpawnPublish
  <2>1. PICK b : table' = [table EXCEPT ![Top.p] = [@ EXCEPT
                    !.esp = TRUE, !.user = TRUE, !.state = "RUNNING", !.bg = b]]
    BY <1>4 DEF SpawnPublish
  <2>2. Top.p \in Slots /\ next_pid' = next_pid
    BY <1>4, AtTop DEF SpawnPublish, FrameType
  <2> QED BY <1>1, <2>1, <2>2 DEF ProcType, PidsKept
<1>5. ASSUME NEW c \in Codes, SysExit(c) PROVE PidsKept
  <2> DEFINE row == [user_free_memory(table[current]) EXCEPT !.exit_code = c]
  <2>1. row.in_use = table[current].in_use /\ row.pid = table[current].pid
    BY <1>1 DEF user_free_memory, ProcType
  <2>2. table' = [table EXCEPT ![current] = row] /\ next_pid' = next_pid
    BY <1>5 DEF SysExit
  <2> HIDE DEF row
  <2> QED BY <1>1, <2>1, <2>2 DEF PidsKept
<1> QED BY <1>2, <1>3, <1>4, <1>5

LEMMA EndKeepsPids ==
  ASSUME TypeOK,
         \/ WaitpidReturn \/ SpawnFail \/ Run3Return \/ WaitReturn \/ LegacyReturn
         \/ \E pid \in Pids : CmdKill(pid) \/ RemoteKill(pid)
  PROVE  PidsKept
<1>1. next_pid' = next_pid
  BY DEF WaitpidReturn, SpawnFail, Run3Return, WaitReturn, LegacyReturn, CmdKill, RemoteKill
<1>2. CASE JustReturn
  BY <1>1, <1>2 DEF JustReturn, PidsKept
<1>3. CASE ReturnFreeing(Top.pid)
  BY <1>1, <1>2, <1>3, SlotOfPid, FreeSlotKeepsPids DEF ReturnFreeing
<1>4. CASE WaitpidReturn
  <2>1. CASE Zombies(Top.pid) # {}
    <3>1. Zombies(Top.pid) \in SUBSET Nat
      BY ConstFacts DEF Zombies, Slots
    <3>2. Min(Zombies(Top.pid)) \in Zombies(Top.pid)
      BY <2>1, <3>1, MinIn
    <3>3. Min(Zombies(Top.pid)) \in Slots
      BY <3>2 DEF Zombies
    <3> QED BY <1>1, <1>4, <2>1, <3>3, FreeSlotKeepsPids DEF WaitpidReturn
  <2>2. CASE Zombies(Top.pid) = {}
    BY <1>2, <1>4, <2>2 DEF WaitpidReturn
  <2> QED BY <2>1, <2>2
<1>5. CASE SpawnFail \/ Run3Return \/ WaitReturn \/ LegacyReturn
  BY <1>2, <1>3, <1>5 DEF SpawnFail, Run3Return, WaitReturn, LegacyReturn
<1>6. ASSUME NEW pid \in Pids, CmdKill(pid) \/ RemoteKill(pid) PROVE PidsKept
  <2>1. process_get(table, pid) \in Slots
    BY <1>6, SlotOfPid DEF CmdKill, RemoteKill, Killable
  <2>2. \E stk : FreeSlot(process_get(table, pid), stk)
    BY <1>6 DEF CmdKill, RemoteKill
  <2> QED BY <1>1, <2>1, <2>2, FreeSlotKeepsPids
<1> QED BY <1>4, <1>5, <1>6

LEMMA UniqueNext == TypeOK /\ PidsUnique /\ [Next]_vars => PidsUnique'
<1> SUFFICES ASSUME TypeOK, PidsUnique, [Next]_vars PROVE PidsUnique'
  OBVIOUS
<1>0. ASSUME UNCHANGED <<table, next_pid>> PROVE PidsKept
  BY <1>0 DEF PidsKept
<1>1. CASE Tick
  BY <1>1, TickKeepsPids, CountDownType, KeptUnique DEF Tick
<1>2. CASE FinishTick
  BY <1>2, TickKeepsPids, KeptUnique DEF FinishTick, TypeOK
<1>3. CASE Switch
  BY <1>3, SwitchKeepsPids, KeptUnique DEF Switch, TypeOK, Tables
<1>4. CASE Yield \/ SleepReturn
  BY <1>0, <1>4, KeptUnique DEF Yield, SleepReturn, OnlyStackChanges
<1>5. CASE KernelStep
  BY <1>2, <1>3, <1>4, <1>5, FieldsKeepPids, EndKeepsPids, KeptUnique DEF KernelStep
<1>6. CASE Syscall
  <2>1. CASE SysGetkey \/ \E pid \in Pids : SysWaitpid(pid)
    BY <1>0, <2>1, KeptUnique DEF SysGetkey, SysWaitpid, OnlyStackChanges
  <2>2. CASE SysFork
    BY <2>2, SpawnAllocUnique DEF SysFork
  <2> QED BY <1>6, <2>1, <2>2, FieldsKeepPids, KeptUnique DEF Syscall
<1>7. CASE GetkeyReturn
  BY <1>0, <1>7, KeptUnique DEF GetkeyReturn, OnlyStackChanges
<1>8. CASE LegacyReturn
  BY <1>8, EndKeepsPids, KeptUnique
<1>9. CASE ShellCommand
  <2>1. ASSUME NEW pid \in Pids, CmdWait(pid) PROVE PidsUnique'
    BY <1>0, <2>1, KeptUnique DEF CmdWait, OnlyStackChanges
  <2>2. ASSUME NEW pid \in Pids, CmdKill(pid) PROVE PidsUnique'
    BY <2>2, EndKeepsPids, KeptUnique
  <2> QED BY <1>9, <2>1, <2>2, SpawnAllocUnique, CmdRunUnique DEF ShellCommand, CmdRun3
<1>10. CASE Remote
  <2>1. ASSUME NEW pid \in Pids, RemoteWait(pid) PROVE PidsUnique'
    BY <1>0, <2>1, KeptUnique DEF RemoteWait
  <2>2. ASSUME NEW pid \in Pids, RemoteKill(pid) PROVE PidsUnique'
    BY <2>2, EndKeepsPids, KeptUnique
  <2> QED BY <1>10, <2>1, <2>2, SpawnAllocUnique DEF Remote, RemoteRun3
<1>11. CASE UNCHANGED vars
  BY <1>0, <1>11, KeptUnique DEF vars
<1> QED BY <1>1, <1>5, <1>6, <1>7, <1>8, <1>9, <1>10, <1>11 DEF Next

LEMMA UniqueInit == Init => PidsUnique
<1> SUFFICES ASSUME Init PROVE PidsUnique
  OBVIOUS
<1>1. \A s \in Slots : table[s].in_use => s \in {0, 1} /\ table[s].pid = s
  <2> SUFFICES ASSUME NEW s \in Slots, table[s].in_use
               PROVE  s \in {0, 1} /\ table[s].pid = s
    OBVIOUS
  <2>1. s \in {0, 1}
    BY DEF Init, EmptySlot
  <2>2. table[s] = [EmptySlot EXCEPT !.pid = s, !.state = "RUNNING", !.in_use = TRUE]
    BY <2>1 DEF Init
  <2> QED BY <2>1, <2>2 DEF EmptySlot
<1>2. next_pid = 2
  BY DEF Init
<1>3. \A s \in Slots : table[s].in_use => table[s].pid < next_pid
  BY <1>1, <1>2
<1> QED BY <1>1, <1>3 DEF PidsUnique

(* A pid never names two processes and is never handed out twice, however   *)
(* shell commands, forks and the commands of SSH sessions interleave.       *)
THEOREM PidsStayUnique == Spec => []PidsUnique
<1>1. Init => PidsUnique
  BY UniqueInit
<1>2. TypeOK /\ PidsUnique /\ [Next]_vars => PidsUnique'
  BY UniqueNext
<1> QED BY <1>1, <1>2, TypeCorrect, PTL DEF Spec

-----------------------------------------------------------------------------
(* The loaded page directory stays the current process's own because of the *)
(* shape of the contexts: what an activation waits in, and what can be put  *)
(* on top of it.                                                            *)

(* An activation that creates a process, and one that holds a pid.          *)
Creates == {"build", "publish"}
HoldsPid == Creates \cup {"run3", "wait", "legacy"}

(* It never creates process 0 nor the process it runs for, and never frees  *)
(* pid 0.                                                                   *)
FrameSound(s, f) ==
  /\ f.pc \in Creates => f.p \notin {0, s}
  /\ f.pc \in HoldsPid => f.pid # 0

(* Activation f on top of g: nothing but the timer interrupts a creation or *)
(* a dispatch, and only a waiting loop or ring 3 dispatches.                *)
SitsOn(f, g) ==
  /\ g.pc \in Creates \cup {"sched"} => f.pc = "tick"
  /\ f.pc = "sched" => g.pc \notin Creates \cup {"sched", "tick"}

Layered(s, q) ==
  /\ \A i \in 1 .. Len(q) : FrameSound(s, q[i])
  /\ \A i \in 1 .. Len(q) - 1 : SitsOn(q[i + 1], q[i])
  /\ q # <<>> => q[1].pc # "sched"

(* At most one SSH command is under way.                                    *)
NoTick(stk) == \A s \in Slots : \A i \in 1 .. Len(stk[s]) : stk[s][i].pc # "tick"
OneTick(stk) ==
  \A s, t \in Slots : \A i \in 1 .. Len(stk[s]), j \in 1 .. Len(stk[t]) :
    stk[s][i].pc = "tick" /\ stk[t][j].pc = "tick" => s = t /\ i = j

Shaped(stk) == OneTick(stk) /\ \A s \in Slots : Layered(s, stk[s])

(* A context that has the CPU, or is being created by the one that has it   *)
(* while an SSH command is under way, is that of a process in use; so is    *)
(* the target of a dispatch that has not been made yet, unless it has no    *)
(* context any more.                                                        *)
RunsInUse == stack[current] # <<>> => table[current].in_use

CreatesInUse ==
  stack[current] # <<>> /\ Top.pc \in Creates /\ ~NoTick(stack) => table[Top.p].in_use

TargetsLive ==
  \A s \in Slots : \A i \in 1 .. Len(stack[s]) :
    stack[s][i].pc = "sched" /\ (s = current \/ i < Len(stack[s]))
      => table[stack[s][i].p].in_use \/ stack[stack[s][i].p] = <<>>

(* A context without the CPU gave it up in schedule(), or is a program that *)
(* has not run yet.                                                         *)
Suspended ==
  \A s \in Slots \ {current} :
    stack[s] # <<>> => Last(stack[s]).pc \in {"sched", "user"}

Dispatch == RunsInUse /\ CreatesInUse /\ TargetsLive /\ Suspended

(* Slot 0 is the kernel's, always.                                          *)
SlotZero ==
  /\ table[0].in_use /\ table[0].pid = 0 /\ table[0].ppid = 0 /\ table[0].pd = {}
  /\ next_pid > 0

Loading ==
  /\ TypeOK /\ PagesExclusive /\ PidsUnique
  /\ SlotZero /\ Shaped(stack) /\ Dispatch /\ LoadedPdLive

(* The shape of the contexts after a push, a pop, a change of the top, the  *)
(* start of a program and the end of a context.                             *)
LEMMA ChangedContext ==
  ASSUME NEW stk \in Stacks, Shaped(stk), NEW s \in Slots, NEW after \in Stacks,
         \A t \in Slots \ {s} : after[t] = stk[t],
         Layered(s, after[s]),
         \A i \in 1 .. Len(after[s]) : after[s][i].pc = "tick" =>
           \/ i \in 1 .. Len(stk[s]) /\ stk[s][i].pc = "tick"
           \/ NoTick(stk) /\ i = Len(after[s])
  PROVE  Shaped(after)
<1>1. \A t \in Slots : Layered(t, after[t])
  BY DEF Shaped
<1>2. ASSUME NEW t \in Slots, NEW u \in Slots,
             NEW i \in 1 .. Len(after[t]), NEW j \in 1 .. Len(after[u]),
             after[t][i].pc = "tick", after[u][j].pc = "tick"
      PROVE  t = u /\ i = j
  <2>1. CASE NoTick(stk)
    <3>1. t = s /\ u = s
      BY <1>2, <2>1 DEF NoTick
    <3>2. i = Len(after[s]) /\ j = Len(after[s])
      BY <1>2, <2>1, <3>1 DEF NoTick
    <3> QED BY <3>1, <3>2
  <2>2. CASE ~NoTick(stk)
    <3>1. i \in 1 .. Len(stk[t]) /\ stk[t][i].pc = "tick"
      BY <1>2, <2>2
    <3>2. j \in 1 .. Len(stk[u]) /\ stk[u][j].pc = "tick"
      BY <1>2, <2>2
    <3> QED BY <3>1, <3>2 DEF Shaped, OneTick
  <2> QED BY <2>1, <2>2
<1> QED BY <1>1, <1>2 DEF Shaped, OneTick

LEMMA PushShaped ==
  ASSUME NEW stk \in Stacks, Shaped(stk), NEW s \in Slots, NEW f \in FrameType,
         stk[s] # <<>>, FrameSound(s, f), SitsOn(f, Last(stk[s])),
         f.pc = "tick" => NoTick(stk)
  PROVE  Shaped(Push(stk, s, f))
<1> DEFINE after == Push(stk, s, f)
           n == Len(stk[s])
<1>1. /\ after \in Stacks /\ \A t \in Slots \ {s} : after[t] = stk[t]
      /\ Len(after[s]) = n + 1 /\ after[s][n + 1] = f
      /\ \A i \in 1 .. n : after[s][i] = stk[s][i]
  BY PushFacts
<1>2. n \in Nat \ {0} /\ Last(stk[s]) = stk[s][n]
  BY FrontFacts DEF Stacks
<1> HIDE DEF after, n
<1>3. Layered(s, stk[s])
  BY DEF Shaped
<1>4. \A i \in 1 .. n + 1 : FrameSound(s, after[s][i])
  BY <1>1, <1>2, <1>3 DEF Layered, n
<1>5. \A i \in 1 .. n : SitsOn(after[s][i + 1], after[s][i])
  BY <1>1, <1>2, <1>3 DEF Layered, n
<1>6. after[s][1].pc # "sched"
  BY <1>1, <1>2, <1>3 DEF Layered
<1>7. Layered(s, after[s])
  BY <1>1, <1>2, <1>4, <1>5, <1>6 DEF Layered
<1>8. \A i \in 1 .. Len(after[s]) : after[s][i].pc = "tick" =>
        \/ i \in 1 .. Len(stk[s]) /\ stk[s][i].pc = "tick"
        \/ NoTick(stk) /\ i = Len(after[s])
  BY <1>1, <1>2 DEF n
<1> QED BY <1>1, <1>7, <1>8, ChangedContext DEF after

LEMMA PopShaped ==
  ASSUME NEW stk \in Stacks, Shaped(stk), NEW s \in Slots, stk[s] # <<>>
  PROVE  Shaped(Pop(stk, s))
<1> DEFINE after == Pop(stk, s)
           n == Len(stk[s])
<1>1. /\ after \in Stacks /\ \A t \in Slots \ {s} : after[t] = stk[t]
      /\ Len(after[s]) = n - 1
      /\ \A i \in 1 .. n - 1 : after[s][i] = stk[s][i]
  BY PopFacts
<1>2. n \in Nat \ {0}
  BY FrontFacts DEF Stacks
<1>3. after[s] # <<>> => n - 1 > 0
  BY <1>1, <1>2, EmptySeq DEF Stacks
<1> HIDE DEF after, n
<1>4. Layered(s, stk[s]) /\ Len(stk[s]) = n
  BY DEF Shaped, n
<1>5. Layered(s, after[s])
  <2>1. \A i \in 1 .. n - 1 : FrameSound(s, after[s][i])
    BY <1>1, <1>2, <1>4 DEF Layered
  <2>2. \A i \in 1 .. n - 1 - 1 : SitsOn(after[s][i + 1], after[s][i])
    BY <1>1, <1>2, <1>4 DEF Layered
  <2>3. after[s] # <<>> => after[s][1].pc # "sched"
    BY <1>1, <1>2, <1>3, <1>4 DEF Layered
  <2> QED BY <1>1, <2>1, <2>2, <2>3 DEF Layered
<1>6. \A i \in 1 .. Len(after[s]) :
        after[s][i].pc = "tick" => i \in 1 .. Len(stk[s]) /\ stk[s][i].pc = "tick"
  BY <1>1, <1>2, <1>4
<1> QED BY <1>1, <1>5, <1>6, ChangedContext DEF after

LEMMA SetTopShaped ==
  ASSUME NEW stk \in Stacks, Shaped(stk), NEW s \in Slots, NEW f \in FrameType,
         stk[s] # <<>>, FrameSound(s, f), f.pc = "tick" <=> Last(stk[s]).pc = "tick",
         f.pc = "sched" => Last(stk[s]).pc = "sched"
  PROVE  Shaped(SetTop(stk, s, f))
<1> DEFINE after == SetTop(stk, s, f)
           n == Len(stk[s])
<1>1. /\ after \in Stacks /\ \A t \in Slots \ {s} : after[t] = stk[t]
      /\ Len(after[s]) = n /\ after[s][n] = f
      /\ \A i \in 1 .. n - 1 : after[s][i] = stk[s][i]
  BY SetTopFacts
<1>2. n \in Nat \ {0} /\ Last(stk[s]) = stk[s][n]
  BY FrontFacts DEF Stacks
<1>3. Layered(s, stk[s]) /\ Len(stk[s]) = n
  BY DEF Shaped
<1> HIDE DEF after, n
<1>4. Layered(s, after[s])
  <2>1. \A i \in 1 .. n : FrameSound(s, after[s][i])
    BY <1>1, <1>2, <1>3 DEF Layered
  <2>2. \A i \in 1 .. n - 1 : SitsOn(after[s][i + 1], after[s][i])
    <3> SUFFICES ASSUME NEW i \in 1 .. n - 1 PROVE SitsOn(after[s][i + 1], after[s][i])
      OBVIOUS
    <3>1. CASE i + 1 # n
      BY <1>1, <1>2, <1>3, <3>1 DEF Layered
    <3>2. CASE i + 1 = n
      <4>1. after[s][i] = stk[s][i] /\ after[s][i + 1] = f /\ SitsOn(stk[s][n], stk[s][i])
        BY <1>1, <1>2, <1>3, <3>2 DEF Layered
      <4> QED BY <1>2, <4>1 DEF SitsOn
    <3> QED BY <3>1, <3>2
  <2>3. after[s][1].pc # "sched"
    BY <1>1, <1>2, <1>3 DEF Layered
  <2> QED BY <1>1, <1>2, <2>1, <2>2, <2>3 DEF Layered
<1>5. \A i \in 1 .. Len(after[s]) :
        after[s][i].pc = "tick" => i \in 1 .. Len(stk[s]) /\ stk[s][i].pc = "tick"
  BY <1>1, <1>2, <1>3
<1> QED BY <1>1, <1>4, <1>5, ChangedContext DEF after

LEMMA StartedShaped ==
  ASSUME NEW stk \in Stacks, Shaped(stk), NEW s \in Slots, NEW f \in FrameType,
         f.pc = "user"
  PROVE  /\ Shaped([stk EXCEPT ![s] = <<f>>]) /\ [stk EXCEPT ![s] = <<f>>] \in Stacks
         /\ [stk EXCEPT ![s] = <<f>>][s] = <<f>>
<1>1. <<f>> \in Seq(FrameType) /\ Len(<<f>>) = 1 /\ <<f>>[1] = f
  OBVIOUS
<1>q. PICK q : q = <<f>>
  OBVIOUS
<1>a. PICK after : after = [stk EXCEPT ![s] = q]
  OBVIOUS
<1>2. /\ after \in Stacks /\ after[s] = q
      /\ \A t \in Slots \ {s} : after[t] = stk[t]
  BY <1>1, <1>q, <1>a DEF Stacks
<1>3. Layered(s, q)
  BY <1>1, <1>q DEF Layered, FrameSound, Creates, HoldsPid
<1>4. \A i \in 1 .. Len(after[s]) : after[s][i].pc # "tick"
  BY <1>1, <1>2, <1>q
<1>5. Shaped(after)
  BY <1>2, <1>3, <1>4, ChangedContext
<1> QED BY <1>q, <1>a, <1>2, <1>5

LEMMA EndedShaped ==
  ASSUME NEW stk \in Stacks, Shaped(stk), NEW s \in Slots
  PROVE  /\ Shaped([stk EXCEPT ![s] = <<>>]) /\ [stk EXCEPT ![s] = <<>>] \in Stacks
         /\ [stk EXCEPT ![s] = <<>>][s] = <<>>
<1>a. PICK after : after = [stk EXCEPT ![s] = <<>>]
  OBVIOUS
<1>1. <<>> \in Seq(FrameType) /\ Len(<<>>) = 0
  OBVIOUS
<1>2. /\ after \in Stacks /\ after[s] = <<>>
      /\ \A t \in Slots \ {s} : after[t] = stk[t]
  BY <1>1, <1>a DEF Stacks
<1>3. Layered(s, after[s]) /\ \A i \in 1 .. Len(after[s]) : FALSE
  BY <1>1, <1>2 DEF Layered
<1>4. Shaped(after)
  BY <1>2, <1>3, ChangedContext
<1> QED BY <1>a, <1>2, <1>4

(* A process that frees itself goes on as the kernel's.                     *)
LEMMA MovedShaped ==
  ASSUME NEW stk \in Stacks, Shaped(stk), NEW s \in Slots \ {0}
  PROVE  /\ Shaped([stk EXCEPT ![0] = stk[s], ![s] = <<>>])
         /\ [stk EXCEPT ![0] = stk[s], ![s] = <<>>] \in Stacks
<1>1. PICK after : after = [stk EXCEPT ![0] = stk[s], ![s] = <<>>]
  OBVIOUS
<1>2. /\ after \in Stacks /\ after[0] = stk[s] /\ after[s] = <<>>
      /\ \A t \in Slots \ {0, s} : after[t] = stk[t]
  <2>1. <<>> \in Seq(FrameType) /\ 0 \in Slots
    BY ConstFacts
  <2> QED BY <1>1, <2>1 DEF Stacks
<1>3. \A t \in Slots : Layered(t, after[t])
  <2>1. Layered(s, stk[s])
    BY DEF Shaped
  <2>2. Layered(0, stk[s])
    BY <2>1 DEF Layered, FrameSound
  <2>3. Layered(s, <<>>)
    BY DEF Layered
  <2> QED BY <1>2, <2>2, <2>3 DEF Shaped
<1>4. ASSUME NEW t \in Slots, NEW u \in Slots,
             NEW i \in 1 .. Len(after[t]), NEW j \in 1 .. Len(after[u]),
             after[t][i].pc = "tick", after[u][j].pc = "tick"
      PROVE  t = u /\ i = j
  <2>0. Len(<<>>) = 0
    OBVIOUS
  <2>1. t # s /\ u # s
    BY <1>2, <1>4, <2>0
  <2> DEFINE From(x) == IF x = 0 THEN s ELSE x
  <2>2. /\ From(t) \in Slots /\ after[t] = stk[From(t)]
        /\ From(u) \in Slots /\ after[u] = stk[From(u)]
    BY <1>2, <2>1
  <2>3. From(t) = From(u) /\ i = j
    BY <1>4, <2>2 DEF Shaped, OneTick
  <2> QED BY <2>1, <2>3
<1>5. Shaped(after)
  BY <1>3, <1>4 DEF Shaped, OneTick
<1> QED BY <1>1, <1>2, <1>5

(* What returning from an activation uncovers.                              *)
LEMMA Uncovered ==
  ASSUME NEW stk \in Stacks, Shaped(stk), NEW s \in Slots, stk[s] # <<>>,
         Pop(stk, s)[s] # <<>>
  PROVE  /\ Last(Pop(stk, s)[s]) \in FrameType
         /\ SitsOn(Last(stk[s]), Last(Pop(stk, s)[s]))
<1>n. PICK n : n = Len(stk[s])
  OBVIOUS
<1>q. PICK q : q = Pop(stk, s)[s]
  OBVIOUS
<1>1. n \in Nat \ {0} /\ n = Len(stk[s]) /\ Last(stk[s]) = stk[s][n]
  BY <1>n, FrontFacts DEF Stacks
<1>2. q \in Seq(FrameType) /\ q = Pop(stk, s)[s] /\ q # <<>>
  BY <1>q, PopFacts DEF Stacks
<1>3. Len(q) = n - 1 /\ \A i \in 1 .. n - 1 : q[i] = stk[s][i]
  BY <1>1, <1>2, PopFacts
<1>4. Len(q) \in Nat \ {0} /\ Last(q) = q[Len(q)] /\ Last(q) \in FrameType
  BY <1>2, FrontFacts
<1>5. n - 1 \in 1 .. n - 1 /\ n - 1 + 1 = n
  <2>1. n \in Nat /\ n - 1 \in Nat \ {0}
    BY <1>1, <1>3, <1>4
  <2> QED BY <2>1
<1>6. SitsOn(stk[s][n - 1 + 1], stk[s][n - 1])
  <2>1. Layered(s, stk[s])
    BY DEF Shaped
  <2> QED BY <1>1, <1>5, <2>1 DEF Layered
<1>7. Last(q) = stk[s][n - 1]
  BY <1>3, <1>4, <1>5
<1> QED BY <1>1, <1>2, <1>4, <1>5, <1>6, <1>7

(* The contexts before a step. *)
LEMMA Here ==
  ASSUME Loading, stack[current] # <<>>
  PROVE  /\ stack \in Stacks /\ current \in Slots /\ table \in Tables
         /\ Shaped(stack) /\ table[current].in_use
         /\ Top \in FrameType /\ Top = Last(stack[current])
         /\ FrameSound(current, Top)
         /\ Len(stack[current]) \in Nat \ {0}
         /\ Top = stack[current][Len(stack[current])]
<1>1. stack \in Stacks /\ current \in Slots /\ table \in Tables /\ Shaped(stack)
  BY DEF Loading, TypeOK, Stacks, Tables
<1>2. /\ Len(stack[current]) \in Nat \ {0} /\ Top \in FrameType
      /\ Top = stack[current][Len(stack[current])]
  BY <1>1, FrontFacts DEF Top, Stacks
<1>3. FrameSound(current, Top)
  BY <1>1, <1>2 DEF Shaped, Layered
<1> QED BY <1>1, <1>2, <1>3 DEF Loading, Dispatch, RunsInUse, Top

(* Steps that change only the running context, and free no process.         *)
ContextsFine == Shaped(stack) /\ Dispatch
RowsStay == \A s \in Slots : table[s].in_use => table'[s].in_use

LEMMA StepHere ==
  ASSUME Loading, stack[current] # <<>>, RowsStay, current' = current,
         stack' \in Stacks, Shaped(stack'),
         \A t \in Slots \ {current} : stack'[t] = stack[t],
         \A i \in 1 .. Len(stack'[current]) : stack'[current][i].pc = "sched" =>
           \/ table'[stack'[current][i].p].in_use
           \/ /\ i \in 1 .. Len(stack[current]) /\ stack[current][i].pc = "sched"
              /\ stack[current][i].p = stack'[current][i].p,
         stack'[current] # <<>> /\ Last(stack'[current]).pc \in Creates /\ ~NoTick(stack')
           => table'[Last(stack'[current]).p].in_use
  PROVE  ContextsFine'
<1>1. /\ stack \in Stacks /\ current \in Slots /\ table[current].in_use
      /\ RunsInUse /\ TargetsLive /\ Suspended
  BY Here DEF Loading, Dispatch
<1>2. RunsInUse'
  BY <1>1 DEF RowsStay, RunsInUse
<1>3. CreatesInUse'
  BY DEF CreatesInUse, Top
<1>4. TargetsLive'
  <2> SUFFICES ASSUME NEW s \in Slots, NEW i \in 1 .. Len(stack'[s]),
                      stack'[s][i].pc = "sched", s = current \/ i < Len(stack'[s])
               PROVE  LET p == stack'[s][i].p IN table'[p].in_use \/ stack'[p] = <<>>
    BY DEF TargetsLive
  <2> DEFINE p == stack'[s][i].p
  <2>1. p \in Slots
    <3>1. stack'[s] \in Seq(FrameType)
      BY DEF Stacks
    <3>2. stack'[s][i] \in FrameType
      BY <3>1
    <3> QED BY <3>2 DEF FrameType
  <2>2. \/ table'[p].in_use
        \/ table[p].in_use \/ stack[p] = <<>>
    <3>1. CASE s = current
      BY <1>1, <3>1 DEF TargetsLive
    <3>2. CASE s # current
      BY <1>1, <3>2 DEF TargetsLive
    <3> QED BY <3>1, <3>2
  <2> HIDE DEF p
  <2>3. CASE p = current
    BY <1>1, <2>3 DEF RowsStay, p
  <2>4. CASE p # current
    BY <1>1, <2>1, <2>2, <2>4 DEF RowsStay, p
  <2> QED BY <2>3, <2>4
<1>5. Suspended'
  BY <1>1 DEF Suspended
<1> QED BY <1>2, <1>3, <1>4, <1>5 DEF ContextsFine, Dispatch

LEMMA StepsPush ==
  ASSUME Loading, stack[current] # <<>>, RowsStay, current' = current,
         NEW f \in FrameType, stack' = Push(stack, current, f), f.pc # "tick",
         FrameSound(current, f), SitsOn(f, Top),
         f.pc \in Creates \cup {"sched"} => table'[f.p].in_use
  PROVE  ContextsFine'
<1>n. PICK n : n = Len(stack[current])
  OBVIOUS
<1>1. /\ stack \in Stacks /\ current \in Slots /\ Shaped(stack)
      /\ Top = Last(stack[current]) /\ n \in Nat
  BY <1>n, Here
<1>2. /\ stack' \in Stacks
      /\ \A t \in Slots \ {current} : stack'[t] = stack[t]
      /\ Len(stack'[current]) = n + 1 /\ stack'[current][n + 1] = f
      /\ \A i \in 1 .. n : stack'[current][i] = stack[current][i]
      /\ stack'[current] # <<>> /\ Last(stack'[current]) = f
  BY <1>n, <1>1, PushFacts
<1>3. Shaped(stack')
  BY <1>1, PushShaped
<1>4. \A i \in 1 .. Len(stack'[current]) : stack'[current][i].pc = "sched" =>
        \/ table'[stack'[current][i].p].in_use
        \/ /\ i \in 1 .. Len(stack[current]) /\ stack[current][i].pc = "sched"
           /\ stack[current][i].p = stack'[current][i].p
  BY <1>n, <1>1, <1>2
<1> QED BY <1>2, <1>3, <1>4, StepHere

LEMMA StepsPop ==
  ASSUME Loading, stack[current] # <<>>, RowsStay, current' = current,
         stack' = Pop(stack, current), Top.pc # "tick"
  PROVE  ContextsFine'
<1>n. PICK n : n = Len(stack[current])
  OBVIOUS
<1>1. /\ stack \in Stacks /\ current \in Slots /\ Shaped(stack)
      /\ Top = Last(stack[current]) /\ n \in Nat \ {0}
  BY <1>n, Here
<1>2. /\ stack' \in Stacks
      /\ \A t \in Slots \ {current} : stack'[t] = stack[t]
      /\ Len(stack'[current]) = n - 1
      /\ \A i \in 1 .. n - 1 : stack'[current][i] = stack[current][i]
  BY <1>n, <1>1, PopFacts
<1>3. Shaped(stack')
  BY <1>1, PopShaped
<1>4. \A i \in 1 .. Len(stack'[current]) : stack'[current][i].pc = "sched" =>
        /\ i \in 1 .. Len(stack[current]) /\ stack[current][i].pc = "sched"
        /\ stack[current][i].p = stack'[current][i].p
  BY <1>n, <1>1, <1>2
<1>5. stack'[current] # <<>> => Last(stack'[current]).pc \notin Creates
  BY <1>1, Uncovered DEF SitsOn
<1> QED BY <1>2, <1>3, <1>4, <1>5, StepHere

LEMMA StepsOn ==
  ASSUME Loading, stack[current] # <<>>, RowsStay, current' = current,
         NEW f \in FrameType, stack' = SetTop(stack, current, f),
         FrameSound(current, f), f.pc = "tick" <=> Top.pc = "tick",
         f.pc = "sched" => Top.pc = "sched" /\ f.p = Top.p,
         f.pc \in Creates => Top.pc \in Creates /\ f.p = Top.p
  PROVE  ContextsFine'
<1>n. PICK n : n = Len(stack[current])
  OBVIOUS
<1>1. /\ stack \in Stacks /\ current \in Slots /\ Shaped(stack)
      /\ Top = Last(stack[current]) /\ n \in Nat \ {0} /\ Top = stack[current][n]
      /\ Top \in FrameType
  BY <1>n, Here
<1>2. /\ stack' \in Stacks
      /\ \A t \in Slots \ {current} : stack'[t] = stack[t]
      /\ Len(stack'[current]) = n /\ stack'[current][n] = f
      /\ \A i \in 1 .. n - 1 : stack'[current][i] = stack[current][i]
      /\ stack'[current] # <<>> /\ Last(stack'[current]) = f
  BY <1>n, <1>1, SetTopFacts
<1>3. Shaped(stack')
  BY <1>1, SetTopShaped
<1>4. \A i \in 1 .. Len(stack'[current]) : stack'[current][i].pc = "sched" =>
        /\ i \in 1 .. Len(stack[current]) /\ stack[current][i].pc = "sched"
        /\ stack[current][i].p = stack'[current][i].p
  BY <1>n, <1>1, <1>2
<1>5. ASSUME f.pc \in Creates, ~NoTick(stack') PROVE table'[f.p].in_use
  <2>1. ~NoTick(stack)
    <3>1. PICK s \in Slots : \E i \in 1 .. Len(stack'[s]) : stack'[s][i].pc = "tick"
      BY <1>5 DEF NoTick
    <3>2. PICK i \in 1 .. Len(stack'[s]) : stack'[s][i].pc = "tick"
      BY <3>1
    <3>3. i \in 1 .. Len(stack[s]) /\ stack[s][i].pc = "tick"
      BY <1>n, <1>1, <1>2, <1>5, <3>2 DEF Creates
    <3> QED BY <3>3 DEF NoTick
  <2>2. f.p \in Slots
    BY DEF FrameType
  <2> QED BY <1>5, <2>1, <2>2 DEF Loading, Dispatch, CreatesInUse, RowsStay
<1> QED BY <1>2, <1>3, <1>4, <1>5, StepHere

(* A dispatch, the end of a process and the start of one.                   *)
LEMMA SwitchedContexts ==
  ASSUME Loading, stack[current] # <<>>,
         NEW tab \in Tables, NEW stk \in Stacks, NEW next \in Slots,
         SwitchTo(tab, stk, next), Shaped(stk),
         \A s \in Slots : tab[s].in_use = table[s].in_use,
         \A t \in Slots \ {current} : stk[t] = stack[t],
         stk[current] # <<>>, Last(stk[current]).pc = "sched",
         \A i \in 1 .. Len(stk[current]) - 1 : stk[current][i].pc = "sched" =>
           i \in 1 .. Len(stack[current]) /\ stack[current][i] = stk[current][i],
         table[next].in_use \/ stk[next] = <<>>
  PROVE  ContextsFine'
<1>1. /\ current \in Slots /\ table[current].in_use /\ TargetsLive /\ Suspended
  BY Here DEF Loading, Dispatch
<1>2. current' = next /\ \A s \in Slots : table'[s].in_use = table[s].in_use
  BY DEF SwitchTo, Tables, ProcType
<1>p. PICK popped \in BOOLEAN :
        popped = (stk[next] # <<>> /\ Last(stk[next]).pc = "sched")
  OBVIOUS
<1>3. stack' = IF popped THEN Pop(stk, next) ELSE stk
  BY <1>p DEF SwitchTo
<1>4. \A s \in Slots : stk[s] \in Seq(FrameType) /\ Len(stk[s]) \in Nat
  BY DEF Stacks
<1>5. Shaped(stack') /\ stack' \in Stacks
  BY <1>p, <1>3, PopShaped, PopFacts
<1>6. ~popped => next # current
  BY <1>p
<1>7. \A s \in Slots \ {next} : stack'[s] = stk[s]
  BY <1>p, <1>3, PopFacts
<1>8. RunsInUse'
  BY <1>p, <1>2, <1>3 DEF RunsInUse
<1>9. CreatesInUse'
  <2>1. CASE popped
    <3>1. stack'[next] # <<>> => Last(stack'[next]).pc \notin Creates
      BY <1>p, <1>3, <2>1, Uncovered DEF SitsOn
    <3> QED BY <1>2, <3>1 DEF CreatesInUse, Top
  <2>2. CASE ~popped
    BY <1>1, <1>2, <1>3, <1>6, <2>2 DEF Suspended, CreatesInUse, Creates, Top
  <2> QED BY <2>1, <2>2
<1>10. TargetsLive'
  <2> SUFFICES ASSUME NEW s \in Slots, NEW i \in 1 .. Len(stack'[s]),
                      stack'[s][i].pc = "sched", s = next \/ i < Len(stack'[s])
               PROVE  LET p == stack'[s][i].p IN table'[p].in_use \/ stack'[p] = <<>>
    BY <1>2 DEF TargetsLive
  <2>1. i \in 1 .. Len(stk[s]) - 1 /\ stack'[s][i] = stk[s][i]
    <3>1. CASE s # next
      BY <1>4, <1>7, <3>1
    <3>2. CASE s = next /\ popped
      <4>1. /\ Len(stack'[s]) = Len(stk[s]) - 1
            /\ \A j \in 1 .. Len(stk[s]) - 1 : stack'[s][j] = stk[s][j]
        BY <1>p, <1>3, <3>2, PopFacts
      <4> QED BY <4>1
    <3>3. CASE s = next /\ ~popped
      <4>1. stack'[s] = stk[s] /\ stk[s] # <<>> /\ i \in 1 .. Len(stk[s])
        BY <1>3, <1>4, <3>3, EmptySeq
      <4>2. Last(stk[s]) = stk[s][Len(stk[s])] /\ Last(stk[s]).pc # "sched"
        BY <1>p, <3>3, <4>1 DEF Last
      <4>3. i # Len(stk[s])
        BY <4>1, <4>2
      <4> QED BY <1>4, <4>1, <4>3
    <3> QED BY <3>1, <3>2, <3>3
  <2>2. /\ i \in 1 .. Len(stack[s]) /\ stack[s][i] = stk[s][i]
        /\ s = current \/ i < Len(stack[s])
    <3>1. CASE s = current
      BY <2>1, <3>1
    <3>2. CASE s # current
      BY <1>4, <2>1, <3>2
    <3> QED BY <3>1, <3>2
  <2>p. PICK p : p = stack'[s][i].p
    OBVIOUS
  <2>3. p \in Slots
    <3>1. stack[s] \in Seq(FrameType)
      BY DEF Loading, TypeOK
    <3>2. stack[s][i] \in FrameType
      BY <2>2, <3>1
    <3> QED BY <2>p, <2>1, <2>2, <3>2 DEF FrameType
  <2>4. table[p].in_use \/ stack[p] = <<>>
    BY <1>1, <2>p, <2>1, <2>2 DEF TargetsLive
  <2>5. ASSUME ~table[p].in_use PROVE stack'[p] = <<>>
    <3>1. p # current /\ stk[p] = <<>>
      BY <1>1, <2>3, <2>4, <2>5
    <3> QED BY <1>p, <1>3, <1>7, <2>3, <3>1
  <2> QED BY <1>2, <2>p, <2>3, <2>5
<1>11. Suspended'
  <2> SUFFICES ASSUME NEW s \in Slots \ {next}, stack'[s] # <<>>
               PROVE  Last(stack'[s]).pc \in {"sched", "user"}
    BY <1>2 DEF Suspended
  <2>1. CASE s = current
    BY <1>7, <2>1
  <2>2. CASE s # current
    BY <1>1, <1>7, <2>2 DEF Suspended
  <2> QED BY <2>1, <2>2
<1> QED BY <1>5, <1>8, <1>9, <1>10, <1>11 DEF ContextsFine, Dispatch

LEMMA FreedContexts ==
  ASSUME Loading, stack[current] # <<>>,
         NEW s \in Slots \ {0}, NEW stk \in Stacks, FreeSlot(s, stk), Shaped(stk),
         \A t \in Slots \ {current} : stk[t] = stack[t],
         \A i \in 1 .. Len(stk[current]) : stk[current][i].pc = "sched" =>
           i \in 1 .. Len(stack[current]) /\ stack[current][i] = stk[current][i],
         stk[current] # <<>> => Last(stk[current]).pc \notin Creates
  PROVE  ContextsFine'
<1>1. /\ current \in Slots /\ table[current].in_use /\ TargetsLive /\ Suspended
      /\ table[0].in_use /\ 0 \in Slots /\ table \in Tables
  BY Here, ConstFacts DEF Loading, Dispatch, SlotZero
<1>2. \A t \in Slots \ {s} : table'[t] = table[t]
  BY <1>1 DEF FreeSlot, Tables
<1>3. current' = IF s = current THEN 0 ELSE current
  BY DEF FreeSlot, CurrentWithout
<1>4. /\ stack' = IF s = current THEN [stk EXCEPT ![0] = stk[s], ![s] = <<>>]
                                 ELSE [stk EXCEPT ![s] = <<>>]
      /\ stack'[s] = <<>>
      /\ \A t \in Slots \ {0, s} : stack'[t] = stk[t]
      /\ stack'[0] = IF s = current THEN stk[s] ELSE stk[0]
  BY <1>1 DEF FreeSlot, StackWithout, Stacks
<1>5. Shaped(stack') /\ stack' \in Stacks
  BY <1>4, MovedShaped, EndedShaped
<1>6. stack'[current'] = stk[current]
  BY <1>1, <1>3, <1>4
<1>7. RunsInUse'
  BY <1>1, <1>2, <1>3 DEF RunsInUse
<1>8. CreatesInUse'
  BY <1>6 DEF CreatesInUse, Top
<1>9. Suspended'
  <2> SUFFICES ASSUME NEW t \in Slots \ {current'}, stack'[t] # <<>>
               PROVE  Last(stack'[t]).pc \in {"sched", "user"}
    BY DEF Suspended
  <2>1. t # current /\ stack'[t] = stack[t]
    BY <1>1, <1>3, <1>4
  <2> QED BY <1>1, <2>1 DEF Suspended
<1>10. TargetsLive'
  <2> SUFFICES ASSUME NEW t \in Slots, NEW i \in 1 .. Len(stack'[t]),
                      stack'[t][i].pc = "sched", t = current' \/ i < Len(stack'[t])
               PROVE  LET p == stack'[t][i].p IN table'[p].in_use \/ stack'[p] = <<>>
    BY DEF TargetsLive
  <2>p. PICK p : p = stack'[t][i].p
    OBVIOUS
  <2>1. p \in Slots
    <3>1. stack'[t] \in Seq(FrameType)
      BY <1>5 DEF Stacks
    <3>2. stack'[t][i] \in FrameType
      BY <3>1
    <3> QED BY <2>p, <3>2 DEF FrameType
  <2>2. table[p].in_use \/ stack[p] = <<>>
    <3>1. CASE t = current'
      BY <1>1, <1>6, <2>p, <3>1 DEF TargetsLive
    <3>2. CASE t # current'
      <4>1. t # current /\ t # s
        <5>1. Len(<<>>) = 0
          OBVIOUS
        <5>2. ASSUME t = s PROVE FALSE
          <6>1. Len(stack'[t]) = 0
            BY <1>4, <5>1, <5>2, Zenon
          <6> QED BY <6>1
        <5> QED BY <1>3, <3>2, <5>2
      <4>2. stack'[t] = stack[t]
        BY <1>3, <1>4, <3>2, <4>1
      <4> QED BY <1>1, <2>p, <3>2, <4>2 DEF TargetsLive
    <3> QED BY <3>1, <3>2
  <2>3. CASE p \in {0, s}
    BY <1>1, <1>2, <1>4, <2>p, <2>3
  <2>4. CASE p \notin {0, s}
    <3>1. table[p].in_use => table'[p].in_use
      BY <1>2, <2>1, <2>4
    <3>2. ~table[p].in_use => p # current /\ stack'[p] = <<>>
      BY <1>1, <1>4, <2>1, <2>2, <2>4
    <3> QED BY <2>p, <3>1, <3>2
  <2> QED BY <2>3, <2>4
<1> QED BY <1>5, <1>7, <1>8, <1>9, <1>10 DEF ContextsFine, Dispatch

LEMMA PublishedContexts ==
  ASSUME Loading, SpawnPublish, RowsStay
  PROVE  ContextsFine'
<1>0. stack[current] # <<>> /\ Top.pc = "publish" /\ current' = current
  BY DEF SpawnPublish, cpuVars
<1>1. /\ stack \in Stacks /\ current \in Slots /\ table[current].in_use
      /\ Shaped(stack) /\ TargetsLive /\ Suspended /\ CreatesInUse
      /\ Top \in FrameType /\ Top = Last(stack[current])
      /\ Len(stack[current]) \in Nat \ {0}
      /\ Top = stack[current][Len(stack[current])]
      /\ Top.p \in Slots \ {0, current} /\ Top.pid # 0
  BY <1>0, Here DEF Loading, Dispatch, FrameSound, FrameType, Creates, HoldsPid
<1>f. PICK fresh : fresh = [Frame("user", "test") EXCEPT !.masked = FALSE]
  OBVIOUS
<1>2. fresh \in FrameType /\ fresh.pc = "user"
  <2>1. Frame("user", "test") \in FrameType /\ Frame("user", "test").pc = "user"
    BY FrameMade DEF Loading, Frame
  <2> QED BY <1>f, <2>1 DEF FrameType
<1>3. PICK after : /\ stack' = [after EXCEPT ![Top.p] = <<fresh>>]
                   /\ \/ /\ Exists(table, Top.pid)
                         /\ after = SetTop(stack, current, [Top EXCEPT !.pc = "run3",
                               !.ph = "test", !.p = process_get(table, Top.pid)])
                      \/ after = Pop(stack, current)
  BY <1>f DEF SpawnPublish
<1>4. /\ after \in Stacks /\ Shaped(after)
      /\ \A t \in Slots \ {current} : after[t] = stack[t]
      /\ after[current] # <<>> => Last(after[current]).pc \notin Creates
      /\ \A i \in 1 .. Len(after[current]) : after[current][i].pc = "sched" =>
           i \in 1 .. Len(stack[current]) - 1 /\ after[current][i] = stack[current][i]
  <2>1. CASE after = Pop(stack, current)
    <3>1. /\ after \in Stacks /\ Shaped(after)
          /\ \A t \in Slots \ {current} : after[t] = stack[t]
          /\ Len(after[current]) = Len(stack[current]) - 1
          /\ \A i \in 1 .. Len(stack[current]) - 1 : after[current][i] = stack[current][i]
      BY <1>0, <1>1, <2>1, PopShaped, PopFacts
    <3>2. after[current] # <<>> => Last(after[current]).pc \notin Creates
      BY <1>0, <1>1, <2>1, Uncovered DEF SitsOn
    <3> QED BY <3>1, <3>2
  <2>2. CASE /\ Exists(table, Top.pid)
             /\ after = SetTop(stack, current, [Top EXCEPT !.pc = "run3",
                          !.ph = "test", !.p = process_get(table, Top.pid)])
    <3>f. PICK f : f = [Top EXCEPT !.pc = "run3", !.ph = "test",
                          !.p = process_get(table, Top.pid)]
      OBVIOUS
    <3>1. process_get(table, Top.pid) \in Slots
      BY <2>2, SlotOfPid DEF Loading
    <3>2. f \in FrameType /\ f.pc = "run3" /\ f.pid = Top.pid
      BY <1>1, <3>f, <3>1 DEF FrameType
    <3>3. FrameSound(current, f)
      BY <1>1, <3>2 DEF FrameSound, Creates
    <3>4. /\ after \in Stacks /\ Shaped(after)
          /\ \A t \in Slots \ {current} : after[t] = stack[t]
          /\ Len(after[current]) = Len(stack[current])
          /\ after[current][Len(stack[current])] = f
          /\ \A i \in 1 .. Len(stack[current]) - 1 : after[current][i] = stack[current][i]
          /\ Last(after[current]) = f
      <4>1. after = SetTop(stack, current, f)
        BY <2>2, <3>f
      <4>2. Shaped(SetTop(stack, current, f))
        BY <1>0, <1>1, <3>2, <3>3, SetTopShaped
      <4>3. /\ SetTop(stack, current, f) \in Stacks
            /\ \A t \in Slots \ {current} : SetTop(stack, current, f)[t] = stack[t]
            /\ Len(SetTop(stack, current, f)[current]) = Len(stack[current])
            /\ SetTop(stack, current, f)[current][Len(stack[current])] = f
            /\ \A i \in 1 .. Len(stack[current]) - 1 :
                 SetTop(stack, current, f)[current][i] = stack[current][i]
            /\ Last(SetTop(stack, current, f)[current]) = f
        BY <1>0, <1>1, <3>2, SetTopFacts
      <4> QED BY <4>1, <4>2, <4>3
    <3> QED BY <1>1, <3>2, <3>4 DEF Creates
  <2> QED BY <1>3, <2>1, <2>2
<1>5. /\ stack' \in Stacks /\ Shaped(stack')
      /\ stack'[Top.p] = <<fresh>> /\ Last(stack'[Top.p]) = fresh
      /\ \A t \in Slots \ {Top.p} : stack'[t] = after[t]
  <2>1. Last(<<fresh>>) = fresh
    BY DEF Last
  <2> QED BY <1>1, <1>2, <1>3, <1>4, <2>1, StartedShaped DEF Stacks
<1>6. RunsInUse' /\ CreatesInUse'
  BY <1>0, <1>1, <1>4, <1>5 DEF RunsInUse, CreatesInUse, Top, RowsStay
<1>7. Suspended'
  BY <1>0, <1>1, <1>2, <1>4, <1>5 DEF Suspended
<1>8. TargetsLive'
  <2> SUFFICES ASSUME NEW s \in Slots, NEW i \in 1 .. Len(stack'[s]),
                      stack'[s][i].pc = "sched", s = current \/ i < Len(stack'[s])
               PROVE  LET p == stack'[s][i].p IN table'[p].in_use \/ stack'[p] = <<>>
    BY <1>0 DEF TargetsLive
  <2>1. s # Top.p
    <3>1. Len(<<fresh>>) = 1 /\ <<fresh>>[1] = fresh
      OBVIOUS
    <3> QED BY <1>2, <1>5, <3>1
  <2>2. i \in 1 .. Len(stack[s]) - 1 /\ stack'[s][i] = stack[s][i]
    <3>1. CASE s = current
      BY <1>4, <1>5, <2>1, <3>1
    <3>2. CASE s # current
      <4>1. stack'[s] = stack[s] /\ Len(stack[s]) \in Nat
        BY <1>1, <1>4, <1>5, <2>1, <3>2 DEF Stacks
      <4> QED BY <3>2, <4>1
    <3> QED BY <3>1, <3>2
  <2>n. PICK n : n = Len(stack[s])
    OBVIOUS
  <2>3. n \in Nat /\ i \in 1 .. n - 1 /\ i \in 1 .. n /\ i + 1 \in 1 .. n
    BY <1>1, <2>n, <2>2 DEF Stacks
  <2>4. ~NoTick(stack)
    <3>1. SitsOn(stack[s][i + 1], stack[s][i])
      BY <1>1, <2>n, <2>3 DEF Shaped, Layered
    <3>2. stack[s][i + 1].pc = "tick"
      BY <2>2, <3>1 DEF SitsOn
    <3> QED BY <2>n, <2>3, <3>2 DEF NoTick
  <2>5. table[Top.p].in_use
    BY <1>0, <1>1, <2>4 DEF CreatesInUse, Creates
  <2>p. PICK p : p = stack'[s][i].p
    OBVIOUS
  <2>6. p \in Slots
    <3>1. stack'[s] \in Seq(FrameType)
      BY <1>5 DEF Stacks
    <3>2. stack'[s][i] \in FrameType
      BY <3>1
    <3> QED BY <2>p, <3>2 DEF FrameType
  <2>7. table[p].in_use \/ stack[p] = <<>>
    BY <1>1, <2>p, <2>n, <2>2, <2>3 DEF TargetsLive
  <2>8. ASSUME ~table[p].in_use PROVE stack'[p] = <<>>
    BY <1>1, <1>4, <1>5, <2>5, <2>6, <2>7, <2>8
  <2> QED BY <2>p, <2>6, <2>8 DEF RowsStay
<1> QED BY <1>5, <1>6, <1>7, <1>8 DEF ContextsFine, Dispatch

(* The rows of the table and the loaded page directory.                     *)
RowsFine == SlotZero /\ LoadedPdLive
Fine == ContextsFine /\ RowsFine

RowsSame(tab) ==
  \A s \in Slots : /\ tab[s].in_use = table[s].in_use /\ tab[s].pid = table[s].pid
                   /\ tab[s].ppid = table[s].ppid /\ tab[s].pd = table[s].pd

LEMMA SameRows ==
  ASSUME Loading, RowsSame(table'),
         UNCHANGED <<current, cr3, next_pid>>
  PROVE  RowsFine' /\ RowsStay
BY ConstFacts DEF Loading, RowsSame, RowsFine, RowsStay, SlotZero, LoadedPdLive, TypeOK

LEMMA SwitchedRows ==
  ASSUME Loading, NEW tab \in Tables, NEW stk, NEW next \in Slots,
         SwitchTo(tab, stk, next), RowsSame(tab), next_pid' = next_pid
  PROVE  RowsFine'
<1>1. RowsSame(table') /\ current' = next /\ cr3' = table[next].pd
  BY DEF SwitchTo, Tables, ProcType, RowsSame
<1> QED BY <1>1, ConstFacts DEF Loading, RowsSame, RowsFine, SlotZero, LoadedPdLive

LEMMA FreedRows ==
  ASSUME Loading, NEW s \in Slots \ {0}, NEW stk, FreeSlot(s, stk), next_pid' = next_pid
  PROVE  RowsFine'
<1>1. /\ 0 \in Slots /\ current \in Slots /\ table \in Tables
      /\ cr3 = table[current].pd /\ SlotZero
  BY ConstFacts DEF Loading, TypeOK, Tables, LoadedPdLive
<1>2. table'[s].pd = {} /\ \A t \in Slots \ {s} : table'[t] = table[t]
  <2>1. table[s] \in ProcType /\ table' = [table EXCEPT ![s] = process_free(@)]
    BY <1>1 DEF Tables, FreeSlot
  <2>2. process_free(table[s]).pd = {}
    BY <2>1 DEF process_free, user_free_memory, ProcType
  <2> QED BY <1>1, <2>1, <2>2 DEF Tables
<1>3. /\ cr3' = (IF table[s].pd # {} /\ table[s].pd = cr3 THEN {} ELSE cr3)
      /\ current' = IF s = current THEN 0 ELSE current
  BY DEF FreeSlot, Cr3Without, CurrentWithout
<1>4. SlotZero'
  BY <1>1, <1>2 DEF SlotZero
<1>5. LoadedPdLive'
  <2>1. CASE s = current
    BY <1>1, <1>2, <1>3, <2>1 DEF SlotZero, LoadedPdLive
  <2>2. CASE s # current
    <3>1. table[s].pd \cap table[current].pd = {}
      BY <1>1, <2>2 DEF Loading, PagesExclusive, Owned
    <3>2. cr3' = cr3
      BY <1>1, <1>3, <3>1
    <3> QED BY <1>1, <1>2, <1>3, <2>2, <3>2 DEF LoadedPdLive
  <2> QED BY <2>1, <2>2
<1> QED BY <1>4, <1>5 DEF RowsFine

LEMMA TakenRows ==
  ASSUME Loading, stack[current] # <<>>, CanAlloc, NEW row \in ProcType, row.in_use,
         table' = [table EXCEPT ![Min(FreeSlots)] = row],
         UNCHANGED <<current, cr3>>, next_pid' = next_pid + 1
  PROVE  /\ RowsFine' /\ RowsStay /\ next_pid # 0
         /\ Min(FreeSlots) \in Slots \ {0, current} /\ table'[Min(FreeSlots)].in_use
<1>1. /\ 0 \in Slots /\ current \in Slots /\ table \in Tables /\ table[current].in_use
      /\ cr3 = table[current].pd /\ SlotZero /\ next_pid \in Nat
  BY Here, ConstFacts DEF Loading, TypeOK, LoadedPdLive
<1>2. Min(FreeSlots) \in Slots /\ ~table[Min(FreeSlots)].in_use
  BY FirstFreeSlot DEF Loading
<1>3. Min(FreeSlots) \notin {0, current}
  BY <1>1, <1>2 DEF SlotZero
<1>4. /\ table'[Min(FreeSlots)] = row
      /\ \A t \in Slots \ {Min(FreeSlots)} : table'[t] = table[t]
  BY <1>1, <1>2 DEF Tables
<1>5. RowsFine'
  BY <1>1, <1>2, <1>3, <1>4 DEF RowsFine, SlotZero, LoadedPdLive
<1> QED BY <1>1, <1>2, <1>3, <1>4, <1>5 DEF RowsStay, SlotZero

LEMMA StillFine ==
  ASSUME Loading, RowsSame(table'), UNCHANGED <<current, cr3, next_pid, stack>>
  PROVE  Fine'
<1>1. RowsFine' /\ RowsStay
  BY SameRows
<1>2. RunsInUse' /\ CreatesInUse' /\ TargetsLive' /\ Suspended'
  <2>1. current \in Slots /\ stack \in Stacks
    BY DEF Loading, TypeOK, Stacks
  <2>2. RunsInUse' /\ Suspended'
    BY <1>1, <2>1 DEF Loading, Dispatch, RunsInUse, Suspended, RowsStay
  <2>3. CreatesInUse'
    <3>1. stack[current] # <<>> => Top.p \in Slots
      BY Here DEF FrameType
    <3> QED BY <3>1 DEF Loading, Dispatch, CreatesInUse, RowsSame, Top
  <2>4. TargetsLive'
    <3>1. \A s \in Slots : \A i \in 1 .. Len(stack[s]) : stack[s][i].p \in Slots
      <4> SUFFICES ASSUME NEW s \in Slots, NEW i \in 1 .. Len(stack[s])
                   PROVE  stack[s][i].p \in Slots
        OBVIOUS
      <4>1. stack[s] \in Seq(FrameType)
        BY <2>1 DEF Stacks
      <4>2. stack[s][i] \in FrameType
        BY <4>1
      <4> QED BY <4>2 DEF FrameType
    <3> QED BY <3>1 DEF Loading, Dispatch, TargetsLive, RowsSame
  <2> QED BY <2>2, <2>3, <2>4
<1>3. Shaped(stack')
  BY DEF Loading
<1> QED BY <1>1, <1>2, <1>3 DEF Fine, ContextsFine, Dispatch

(* The steps, one by one.                                                   *)
LEMMA TableSame == ASSUME table' = table PROVE RowsSame(table')
BY DEF RowsSame

LEMMA PushFine ==
  ASSUME Loading, stack[current] # <<>>, RowsSame(table'),
         UNCHANGED <<current, cr3, next_pid>>,
         NEW f \in FrameType, stack' = Push(stack, current, f),
         f.pc \notin Creates \cup {"tick", "sched"},
         f.pc \in HoldsPid => f.pid # 0,
         Top.pc \notin Creates \cup {"sched"}
  PROVE  Fine'
<1>1. RowsFine' /\ RowsStay
  BY SameRows
<1>2. FrameSound(current, f) /\ SitsOn(f, Top)
  BY DEF FrameSound, SitsOn
<1> QED BY <1>1, <1>2, StepsPush DEF Fine

LEMMA PopFine ==
  ASSUME Loading, stack[current] # <<>>, RowsSame(table'),
         UNCHANGED <<current, cr3, next_pid>>,
         stack' = Pop(stack, current), Top.pc # "tick"
  PROVE  Fine'
BY SameRows, StepsPop DEF Fine

LEMMA PhaseFine ==
  ASSUME Loading, stack[current] # <<>>, RowsSame(table'),
         UNCHANGED <<current, cr3, next_pid>>, NEW ph, [Top EXCEPT !.ph = ph] \in FrameType,
         stack' = SetTop(stack, current, [Top EXCEPT !.ph = ph])
  PROVE  Fine'
<1>f. PICK f : f = [Top EXCEPT !.ph = ph]
  OBVIOUS
<1>1. Top \in FrameType /\ FrameSound(current, Top)
  BY Here
<1>2. f \in FrameType /\ f.pc = Top.pc /\ f.p = Top.p /\ f.pid = Top.pid
  BY <1>f, <1>1 DEF FrameType
<1>3. FrameSound(current, f)
  BY <1>1, <1>2 DEF FrameSound
<1>4. RowsFine' /\ RowsStay
  BY SameRows
<1> QED BY <1>f, <1>2, <1>3, <1>4, StepsOn DEF Fine

LEMMA SleepFine ==
  ASSUME Loading, \/ \E n \in SleepTicks : SysSleep(n)
                  \/ SleepArm \/ SleepReturn
  PROVE  Fine'
<1>0. stack[current] # <<>> /\ UNCHANGED <<current, cr3, next_pid>>
  BY DEF SysSleep, SleepArm, SleepReturn, InUser, At, OnlyStackChanges, cpuVars
<1>1. Top \in FrameType /\ table \in Tables /\ current \in Slots
  BY <1>0, Here
<1>2. ASSUME NEW n \in SleepTicks, SysSleep(n) PROVE Fine'
  <2>f. PICK f : f = [Frame("sleep", "arm") EXCEPT !.t = n]
    OBVIOUS
  <2>1. f \in FrameType /\ f.pc = "sleep"
    <3>1. Frame("sleep", "arm") \in FrameType /\ Frame("sleep", "arm").pc = "sleep"
      BY FrameMade DEF Loading, Frame
    <3> QED BY <2>f, <3>1, ConstFacts DEF FrameType
  <2>2. RowsSame(table')
    BY <1>1, <1>2 DEF SysSleep, Tables, ProcType, RowsSame
  <2>3. stack' = Push(stack, current, f) /\ Top.pc = "user"
    BY <1>2, <2>f DEF SysSleep, InUser
  <2> QED BY <1>0, <2>1, <2>2, <2>3, PushFine DEF Creates, HoldsPid
<1>3. CASE SleepArm
  <2>1. RowsSame(table')
    BY <1>1, <1>3 DEF SleepArm, Tables, ProcType, RowsSame
  <2>2. [Top EXCEPT !.ph = "test"] \in FrameType
    BY <1>1 DEF FrameType
  <2> QED BY <1>0, <1>3, <2>1, <2>2, PhaseFine DEF SleepArm
<1>4. CASE SleepReturn
  BY <1>0, <1>4, TableSame, PopFine DEF SleepReturn, At, OnlyStackChanges
<1> QED BY <1>2, <1>3, <1>4

LEMMA CallFine ==
  ASSUME Loading, \/ SysGetkey \/ GetkeyReturn
                  \/ \E pid \in Pids : SysWaitpid(pid)
                  \/ \E arg \in Pids : CmdWait(arg)
  PROVE  Fine'
<1>0. stack[current] # <<>> /\ UNCHANGED <<table, current, cr3, next_pid>>
  BY DEF SysGetkey, GetkeyReturn, SysWaitpid, CmdWait, InUser, At, OnlyStackChanges, cpuVars
<1>1. RowsSame(table')
  BY <1>0, TableSame
<1>2. CASE SysGetkey
  <2>1. Frame("getkey", "test") \in FrameType /\ Frame("getkey", "test").pc = "getkey"
    BY FrameMade DEF Loading, Frame
  <2>2. stack' = Push(stack, current, Frame("getkey", "test")) /\ Top.pc = "user"
    BY <1>2 DEF SysGetkey, InUser
  <2> QED BY <1>0, <1>1, <2>1, <2>2, PushFine DEF Creates, HoldsPid
<1>3. CASE GetkeyReturn
  BY <1>0, <1>1, <1>3, PopFine DEF GetkeyReturn, At
<1>4. ASSUME NEW pid \in Pids, SysWaitpid(pid) PROVE Fine'
  <2>f. PICK f : f = [Frame("waitpid", "test") EXCEPT !.pid = pid]
    OBVIOUS
  <2>1. f \in FrameType /\ f.pc = "waitpid"
    <3>1. Frame("waitpid", "test") \in FrameType /\ Frame("waitpid", "test").pc = "waitpid"
      BY FrameMade DEF Loading, Frame
    <3> QED BY <2>f, <3>1 DEF FrameType
  <2>2. stack' = Push(stack, current, f) /\ Top.pc = "user"
    BY <1>4, <2>f DEF SysWaitpid, InUser
  <2> QED BY <1>0, <1>1, <2>1, <2>2, PushFine DEF Creates, HoldsPid
<1>5. ASSUME NEW arg \in Pids, CmdWait(arg) PROVE Fine'
  <2>f. PICK f : f = WaitFrame(WaitTarget(arg), pit_ticks, ~intr)
    OBVIOUS
  <2>1. WaitTarget(arg) # 0 /\ Waitable(WaitTarget(arg))
    BY <1>5 DEF CmdWait, Waitable
  <2>2. f \in FrameType
    BY <1>5, <2>f, <2>1, WaitFrameType DEF CmdWait, Loading, TypeOK
  <2>3. f.pc = "wait" /\ f.pid = WaitTarget(arg)
    BY <2>f DEF WaitFrame, Frame
  <2>4. stack' = Push(stack, current, f) /\ Top.pc = "idle"
    BY <1>5, <2>f DEF CmdWait, At
  <2> QED BY <1>0, <1>1, <2>1, <2>2, <2>3, <2>4, PushFine DEF Creates, HoldsPid
<1> QED BY <1>2, <1>3, <1>4, <1>5

LEMMA ExitFine ==
  ASSUME Loading, ExitZombie \/ SysExecve \/ \E c \in Codes : SysExit(c)
  PROVE  Fine'
<1>0. stack[current] # <<>> /\ UNCHANGED <<current, next_pid>>
  BY DEF ExitZombie, SysExecve, SysExit, InUser, At, cpuVars
<1>1. Top \in FrameType /\ table \in Tables /\ current \in Slots /\ table[current] \in ProcType
  BY <1>0, Here DEF Tables
<1>2. CASE ExitZombie
  <2>1. RowsSame(table')
    BY <1>1, <1>2 DEF ExitZombie, Tables, ProcType, RowsSame
  <2>2. [Top EXCEPT !.ph = "test"] \in FrameType
    BY <1>1 DEF FrameType
  <2> QED BY <1>0, <1>2, <2>1, <2>2, PhaseFine DEF ExitZombie
<1>3. CASE SysExecve
  <2>1. PICK new : table' = [table EXCEPT ![current].frames = new]
    BY <1>3 DEF SysExecve
  <2>2. RowsSame(table')
    BY <1>1, <2>1 DEF Tables, ProcType, RowsSame
  <2> QED BY <1>0, <1>3, <2>2, StillFine DEF SysExecve, cpuVars
<1>4. ASSUME NEW c \in Codes, SysExit(c) PROVE Fine'
  <2>r. PICK row : row = [user_free_memory(table[current]) EXCEPT !.exit_code = c]
    OBVIOUS
  <2>1. /\ row.in_use = table[current].in_use /\ row.pid = table[current].pid
        /\ row.ppid = table[current].ppid /\ row.pd = {}
    BY <1>1, <2>r DEF user_free_memory, ProcType
  <2>2. table' = [table EXCEPT ![current] = row]
    BY <1>4, <2>r DEF SysExit
  <2>3. table'[current] = row /\ \A s \in Slots \ {current} : table'[s] = table[s]
    BY <1>1, <2>2 DEF Tables
  <2>4. cr3' = {}
    BY <1>4 DEF SysExit, Cr3Without, Loading, LoadedPdLive
  <2>5. RowsFine' /\ RowsStay
    BY <1>0, <1>1, <2>1, <2>3, <2>4, ConstFacts
       DEF RowsFine, SlotZero, LoadedPdLive, RowsStay, Loading
  <2>6. Frame("exit", "free") \in FrameType /\ Frame("exit", "free").pc = "exit"
    BY FrameMade DEF Loading, Frame
  <2>7. stack' = SetTop(stack, current, Frame("exit", "free")) /\ Top.pc = "user"
    BY <1>4 DEF SysExit, InUser
  <2>8. FrameSound(current, Frame("exit", "free"))
    BY <2>6 DEF FrameSound, Creates, HoldsPid
  <2> QED BY <1>0, <2>5, <2>6, <2>7, <2>8, StepsOn DEF Fine, Creates
<1> QED BY <1>2, <1>3, <1>4

(* What takes the process pid names back never takes the kernel's slot.     *)
LEMMA FreePopFine ==
  ASSUME Loading, stack[current] # <<>>, NEW s \in Slots \ {0},
         FreeSlot(s, Pop(stack, current)), next_pid' = next_pid, Top.pc # "tick"
  PROVE  Fine'
<1>1. /\ stack \in Stacks /\ current \in Slots /\ Shaped(stack) /\ Top = Last(stack[current])
  BY Here
<1>s. PICK stk : stk = Pop(stack, current)
  OBVIOUS
<1>2. /\ stk \in Stacks /\ Shaped(stk)
      /\ \A t \in Slots \ {current} : stk[t] = stack[t]
  BY <1>1, <1>s, PopShaped, PopFacts
<1>3. \A i \in 1 .. Len(stk[current]) :
        i \in 1 .. Len(stack[current]) /\ stack[current][i] = stk[current][i]
  <2>1. /\ Len(stk[current]) = Len(stack[current]) - 1 /\ Len(stack[current]) \in Nat
        /\ \A i \in 1 .. Len(stack[current]) - 1 : stk[current][i] = stack[current][i]
    BY <1>1, <1>s, PopFacts, Here
  <2> QED BY <2>1
<1>4. stk[current] # <<>> => Last(stk[current]).pc \notin Creates
  BY <1>1, <1>s, Uncovered DEF SitsOn
<1>5. ContextsFine'
  BY <1>s, <1>2, <1>3, <1>4, FreedContexts
<1> QED BY <1>5, FreedRows DEF Fine

LEMMA ReturnFreeingFine ==
  ASSUME Loading, stack[current] # <<>>, ReturnFreeing(Top.pid), next_pid' = next_pid,
         Top.pc \in HoldsPid
  PROVE  Fine'
<1>1. Top.pid # 0
  BY Here DEF FrameSound
<1>2. Top.pc # "tick"
  BY DEF HoldsPid, Creates
<1>3. CASE Exists(table, Top.pid)
  <2>1. process_get(table, Top.pid) \in Slots \ {0}
    BY <1>1, <1>3, SlotOfPid DEF Loading, SlotZero
  <2> QED BY <1>2, <1>3, <2>1, FreePopFine DEF ReturnFreeing
<1>4. CASE ~Exists(table, Top.pid)
  BY <1>2, <1>4, TableSame, PopFine DEF ReturnFreeing, JustReturn
<1> QED BY <1>3, <1>4

LEMMA EndFine ==
  ASSUME Loading, WaitpidReturn \/ SpawnFail \/ Run3Return \/ WaitReturn \/ LegacyReturn
  PROVE  Fine'
<1>0. stack[current] # <<>> /\ next_pid' = next_pid
  BY DEF WaitpidReturn, SpawnFail, Run3Return, WaitReturn, LegacyReturn, At
<1>1. CASE SpawnFail \/ Run3Return \/ LegacyReturn
  BY <1>0, <1>1, ReturnFreeingFine
     DEF SpawnFail, Run3Return, LegacyReturn, At, HoldsPid, Creates
<1>2. CASE WaitReturn
  <2>1. Top.pc = "wait" /\ (ReturnFreeing(Top.pid) \/ JustReturn)
    BY <1>2 DEF WaitReturn, At
  <2> QED BY <1>0, <2>1, ReturnFreeingFine, TableSame, PopFine DEF JustReturn, HoldsPid
<1>3. CASE WaitpidReturn
  <2>1. Top.pc = "waitpid"
    BY <1>3 DEF WaitpidReturn, At
  <2>2. CASE Zombies(Top.pid) # {}
    <3>z. PICK z : z = Min(Zombies(Top.pid))
      OBVIOUS
    <3>1. Zombies(Top.pid) \in SUBSET Nat
      BY ConstFacts DEF Zombies, Slots
    <3>2. z \in Zombies(Top.pid)
      BY <2>2, <3>z, <3>1, MinIn
    <3>3. z \in Slots /\ z # current /\ table[z].ppid = table[current].pid
      BY <3>2 DEF Zombies
    <3>4. z # 0
      BY <1>0, <3>3, Here, ConstFacts DEF Loading, SlotZero, PidsUnique
    <3> QED BY <1>0, <1>3, <2>1, <2>2, <3>z, <3>3, <3>4, FreePopFine DEF WaitpidReturn
  <2>3. CASE Zombies(Top.pid) = {}
    BY <1>0, <1>3, <2>1, <2>3, TableSame, PopFine DEF WaitpidReturn, JustReturn
  <2> QED BY <2>2, <2>3
<1> QED BY <1>1, <1>2, <1>3

LEMMA CmdKillFine ==
  ASSUME Loading, NEW pid \in Pids, CmdKill(pid)
  PROVE  Fine'
<1>0. stack[current] # <<>> /\ Top.pc = "idle" /\ next_pid' = next_pid
  BY DEF CmdKill, At
<1>1. process_get(table, pid) \in Slots \ {0} /\ FreeSlot(process_get(table, pid), stack)
  BY SlotOfPid DEF CmdKill, Killable, Loading, SlotZero
<1>2. stack \in Stacks /\ Shaped(stack) /\ Top = Last(stack[current])
  BY <1>0, Here
<1>3. ContextsFine'
  BY <1>0, <1>1, <1>2, FreedContexts DEF Creates
<1> QED BY <1>0, <1>1, <1>3, FreedRows DEF Fine

(* Creating a program.                                                      *)
LEMMA BuildFrame ==
  ASSUME Loading, stack[current] # <<>>, CanAlloc, next_pid # 0,
         Min(FreeSlots) \in Slots \ {0, current},
         NEW kind \in {"fork", "run3fg", "run3bg"}, NEW m \in BOOLEAN, NEW f,
         f = [Frame("build", kind) EXCEPT !.p = Min(FreeSlots), !.pid = next_pid, !.masked = m]
  PROVE  /\ f \in FrameType /\ f.pc = "build" /\ f.p = Min(FreeSlots)
         /\ FrameSound(current, f)
<1>1. Frame("build", kind) \in FrameType /\ Frame("build", kind).pc = "build"
  BY FrameMade DEF Loading, Frame
<1>2. next_pid \in Pids
  BY AllocType DEF Loading
<1>3. /\ f \in FrameType /\ f.pc = "build" /\ f.p = Min(FreeSlots) /\ f.pid = next_pid
  BY <1>1, <1>2 DEF FrameType
<1> QED BY <1>3 DEF FrameSound

LEMMA CreateFine ==
  ASSUME Loading, SysFork \/ \E kind \in {"run3fg", "run3bg"} : CmdRun3(kind)
  PROVE  Fine'
<1>1. PICK kind \in {"fork", "run3fg", "run3bg"} : SpawnAlloc(kind, stack, ~intr)
  BY DEF SysFork, CmdRun3
<1>2. /\ stack[current] # <<>> /\ Top.pc \in {"user", "idle"}
      /\ UNCHANGED <<current, cr3>>
  BY DEF SysFork, CmdRun3, InUser, At, cpuVars
<1>3. /\ CanAlloc /\ table' = [table EXCEPT ![Min(FreeSlots)] = process_alloc]
      /\ next_pid' = next_pid + 1
  BY <1>1 DEF SpawnAlloc
<1>4. process_alloc \in ProcType /\ process_alloc.in_use
  BY <1>3, AllocType DEF Loading
<1>5. /\ RowsFine' /\ RowsStay /\ next_pid # 0
      /\ Min(FreeSlots) \in Slots \ {0, current} /\ table'[Min(FreeSlots)].in_use
  BY <1>2, <1>3, <1>4, TakenRows
<1>f. PICK f : f = [Frame("build", kind) EXCEPT !.p = Min(FreeSlots), !.pid = next_pid,
                                                !.masked = ~intr]
  OBVIOUS
<1>6. /\ f \in FrameType /\ f.pc = "build" /\ f.p = Min(FreeSlots)
      /\ FrameSound(current, f)
  BY <1>2, <1>3, <1>5, <1>f, BuildFrame
<1>7. stack' = Push(stack, current, f)
  BY <1>1, <1>f DEF SpawnAlloc
<1>8. SitsOn(f, Top)
  BY <1>2, <1>6 DEF SitsOn, Creates
<1> QED BY <1>2, <1>5, <1>6, <1>7, <1>8, StepsPush DEF Fine

LEMMA CmdRunFine ==
  ASSUME Loading, NEW bg \in BOOLEAN, CmdRun(bg)
  PROVE  Fine'
<1>1. /\ stack[current] # <<>> /\ Top.pc = "idle" /\ CanAlloc
      /\ UNCHANGED <<current, cr3>> /\ next_pid' = next_pid + 1
  BY DEF CmdRun, At, cpuVars
<1>r. PICK row : row = [process_alloc EXCEPT !.bg = bg]
  OBVIOUS
<1>2. row \in ProcType /\ row.in_use /\ next_pid \in Pids
  <2>1. process_alloc \in ProcType /\ process_alloc.in_use /\ next_pid \in Pids
    BY <1>1, AllocType DEF Loading
  <2> QED BY <1>r, <2>1 DEF ProcType
<1>3. table' = [table EXCEPT ![Min(FreeSlots)] = row]
  BY <1>r DEF CmdRun
<1>4. RowsFine' /\ RowsStay /\ next_pid # 0
  BY <1>1, <1>2, <1>3, TakenRows
<1>f. PICK f : f = [Frame("legacy", "test") EXCEPT !.pid = next_pid]
  OBVIOUS
<1>5. f \in FrameType /\ f.pc = "legacy" /\ f.pid # 0
  <2>1. Frame("legacy", "test") \in FrameType /\ Frame("legacy", "test").pc = "legacy"
    BY FrameMade DEF Loading, Frame
  <2> QED BY <1>f, <1>2, <1>4, <2>1 DEF FrameType
<1>6. stack' = Push(stack, current, f) /\ FrameSound(current, f) /\ SitsOn(f, Top)
  BY <1>1, <1>f, <1>5 DEF CmdRun, FrameSound, SitsOn, Creates
<1> QED BY <1>1, <1>4, <1>5, <1>6, StepsPush DEF Fine, Creates

LEMMA BuildFine ==
  ASSUME Loading, SpawnBuild
  PROVE  Fine'
<1>1. /\ stack[current] # <<>> /\ Top.pc = "build"
      /\ UNCHANGED <<current, cr3, next_pid>>
      /\ stack' = SetTop(stack, current, [Top EXCEPT !.pc = "publish"])
  BY DEF SpawnBuild, cpuVars
<1>2. /\ Top \in FrameType /\ Top.p \in Slots \ {0, current} /\ Top.pid # 0
      /\ table \in Tables /\ current \in Slots
  BY <1>1, Here DEF FrameSound, FrameType, Creates, HoldsPid
<1>3. PICK k, w, d :
        table' = [table EXCEPT ![Top.p].kstack = k, ![Top.p].frames = w, ![Top.p].pd = d]
  BY DEF SpawnBuild
<1>4. /\ \A s \in Slots \ {Top.p} : table'[s] = table[s]
      /\ table'[Top.p].in_use = table[Top.p].in_use
  BY <1>2, <1>3 DEF Tables, ProcType
<1>5. RowsFine' /\ RowsStay
  BY <1>1, <1>2, <1>4, ConstFacts DEF RowsFine, SlotZero, LoadedPdLive, RowsStay, Loading
<1>f. PICK f : f = [Top EXCEPT !.pc = "publish"]
  OBVIOUS
<1>6. f \in FrameType /\ f.pc = "publish" /\ f.p = Top.p /\ f.pid = Top.pid
  BY <1>f, <1>2 DEF FrameType
<1>7. FrameSound(current, f)
  BY <1>2, <1>6 DEF FrameSound
<1> QED BY <1>1, <1>f, <1>5, <1>6, <1>7, StepsOn DEF Fine, Creates

LEMMA PublishFine ==
  ASSUME Loading, SpawnPublish
  PROVE  Fine'
<1>1. stack[current] # <<>> /\ UNCHANGED <<current, cr3, next_pid>>
  BY DEF SpawnPublish, cpuVars
<1>2. Top.p \in Slots /\ table \in Tables
  BY <1>1, Here DEF FrameType
<1>3. PICK b : table' = [table EXCEPT ![Top.p] = [@ EXCEPT
                  !.esp = TRUE, !.user = TRUE, !.state = "RUNNING", !.bg = b]]
  BY DEF SpawnPublish
<1>4. RowsSame(table')
  BY <1>2, <1>3 DEF Tables, ProcType, RowsSame
<1> QED BY <1>1, <1>4, SameRows, PublishedContexts DEF Fine

(* Dispatching, and the timer.                                              *)
LEMMA YieldFine ==
  ASSUME Loading, Yield
  PROVE  Fine'
<1>n. PICK next : next = SchedPick(table)
  OBVIOUS
<1>h. PICK h : h = [Top EXCEPT !.ph = "hlt"]
  OBVIOUS
<1>m. PICK halt : halt = SetTop(stack, current, h)
  OBVIOUS
<1>g. PICK g : g = [Frame("sched", "test") EXCEPT !.p = next]
  OBVIOUS
<1>0. /\ stack[current] # <<>> /\ UNCHANGED <<table, current, cr3, next_pid>>
      /\ Waits(Top) /\ Top.pc # "user"
      /\ stack' = IF next = current THEN halt ELSE Push(halt, current, g)
  BY <1>n, <1>h, <1>m, <1>g DEF Yield, OnlyStackChanges, cpuVars
<1>1. /\ stack \in Stacks /\ current \in Slots /\ table \in Tables
      /\ Shaped(stack) /\ FrameSound(current, Top)
      /\ Top \in FrameType /\ Top = Last(stack[current])
  BY <1>0, Here
<1>2. Top.pc \in {"idle", "getkey", "exit", "sleep", "waitpid", "run3", "wait"}
  BY <1>0 DEF Waits
<1>3. h \in FrameType /\ h.pc = Top.pc /\ h.p = Top.p /\ h.pid = Top.pid
  BY <1>1, <1>h DEF FrameType
<1>4. FrameSound(current, h)
  BY <1>1, <1>3 DEF FrameSound
<1>5. CASE next = current
  BY <1>0, <1>h, <1>m, <1>3, <1>5, TableSame, PhaseFine
<1>6. CASE next # current
  <2>1. next \in Slots /\ table[next].in_use
    BY <1>1, <1>n, <1>6, PickRunnable DEF Loading, Runnable
  <2>2. g \in FrameType /\ g.pc = "sched" /\ g.p = next
    <3>1. Frame("sched", "test") \in FrameType /\ Frame("sched", "test").pc = "sched"
      BY FrameMade DEF Loading, Frame
    <3> QED BY <1>g, <2>1, <3>1 DEF FrameType
  <2>3. /\ halt \in Stacks /\ halt[current] # <<>> /\ Last(halt[current]) = h
        /\ \A t \in Slots \ {current} : halt[t] = stack[t]
        /\ Len(halt[current]) = Len(stack[current])
        /\ halt[current][Len(stack[current])] = h
        /\ \A i \in 1 .. Len(stack[current]) - 1 : halt[current][i] = stack[current][i]
    BY <1>0, <1>1, <1>m, <1>3, SetTopFacts
  <2>4. Shaped(halt)
    BY <1>0, <1>1, <1>2, <1>m, <1>3, <1>4, SetTopShaped
  <2>5. FrameSound(current, g) /\ SitsOn(g, Last(halt[current]))
    BY <1>2, <1>3, <2>2, <2>3 DEF FrameSound, SitsOn, Creates, HoldsPid
  <2>6. Shaped(stack')
    BY <1>0, <1>1, <1>6, <2>2, <2>3, <2>4, <2>5, PushShaped
  <2>7. /\ stack' \in Stacks /\ \A t \in Slots \ {current} : stack'[t] = halt[t]
        /\ Len(stack'[current]) = Len(halt[current]) + 1
        /\ stack'[current][Len(halt[current]) + 1] = g
        /\ \A i \in 1 .. Len(halt[current]) : stack'[current][i] = halt[current][i]
        /\ Last(stack'[current]) = g
    <3>1. stack' = Push(halt, current, g)
      BY <1>0, <1>6
    <3>2. /\ Push(halt, current, g) \in Stacks
          /\ \A t \in Slots \ {current} : Push(halt, current, g)[t] = halt[t]
          /\ Len(Push(halt, current, g)[current]) = Len(halt[current]) + 1
          /\ Push(halt, current, g)[current][Len(halt[current]) + 1] = g
          /\ \A i \in 1 .. Len(halt[current]) :
               Push(halt, current, g)[current][i] = halt[current][i]
          /\ Last(Push(halt, current, g)[current]) = g
      BY <1>1, <2>2, <2>3, PushFacts
    <3> QED BY <3>1, <3>2
  <2>8. ASSUME NEW i \in 1 .. Len(stack'[current]), stack'[current][i].pc = "sched"
        PROVE  \/ table'[stack'[current][i].p].in_use
               \/ /\ i \in 1 .. Len(stack[current]) /\ stack[current][i].pc = "sched"
                  /\ stack[current][i].p = stack'[current][i].p
    <3>1. Len(stack[current]) \in Nat \ {0} /\ Len(halt[current]) = Len(stack[current])
      BY <1>0, <2>3, Here
    <3>2. CASE i = Len(halt[current]) + 1
      BY <1>0, <2>1, <2>2, <2>7, <3>2
    <3>3. CASE i # Len(halt[current]) + 1
      <4>1. i \in 1 .. Len(stack[current]) /\ stack'[current][i] = halt[current][i]
        BY <2>7, <2>8, <3>1, <3>3
      <4>2. i # Len(stack[current])
        BY <1>2, <1>3, <2>3, <2>8, <4>1
      <4>3. halt[current][i] = stack[current][i]
        BY <2>3, <3>1, <4>1, <4>2
      <4> QED BY <2>8, <4>1, <4>3
    <3> QED BY <3>2, <3>3
  <2>9. RowsFine' /\ RowsStay
    BY <1>0, TableSame, SameRows
  <2>10. \A t \in Slots \ {current} : stack'[t] = stack[t]
    BY <2>3, <2>7
  <2>11. Last(stack'[current]).pc \notin Creates
    BY <2>2, <2>7 DEF Creates
  <2>12. ContextsFine'
    BY <1>0, <2>6, <2>7, <2>8, <2>9, <2>10, <2>11, StepHere
  <2> QED BY <2>9, <2>12 DEF Fine
<1> QED BY <1>5, <1>6

LEMMA SwitchFine ==
  ASSUME Loading, Switch
  PROVE  Fine'
<1>1. /\ stack[current] # <<>> /\ Top.pc = "sched" /\ next_pid' = next_pid
      /\ SwitchTo(table, stack, Top.p)
  BY DEF Switch, At
<1>n. PICK n : n = Len(stack[current])
  OBVIOUS
<1>2. /\ stack \in Stacks /\ current \in Slots /\ table \in Tables /\ Shaped(stack)
      /\ Top = Last(stack[current]) /\ Top = stack[current][n] /\ n \in Nat \ {0}
      /\ Top.p \in Slots
  BY <1>1, <1>n, Here DEF FrameType
<1>3. table[Top.p].in_use \/ stack[Top.p] = <<>>
  BY <1>1, <1>n, <1>2 DEF Loading, Dispatch, TargetsLive
<1>4. RowsSame(table)
  BY DEF RowsSame
<1>5. \A i \in 1 .. Len(stack[current]) - 1 : i \in 1 .. Len(stack[current])
  BY <1>n, <1>2
<1>6. ContextsFine'
  BY <1>1, <1>2, <1>3, <1>5, SwitchedContexts
<1> QED BY <1>1, <1>2, <1>4, <1>6, SwitchedRows DEF Fine

LEMMA WakeRows ==
  ASSUME NEW now \in Ticks, table \in Tables
  PROVE  Wake(table, now) \in Tables /\ RowsSame(Wake(table, now))
<1>1. Wake(table, now) \in Tables
  BY WakeType
<1> QED BY <1>1 DEF Wake, RowsSame, Tables, ProcType

LEMMA TickRestFine ==
  ASSUME Loading, stack[current] # <<>>, NEW stk \in Stacks, stk[current] # <<>>,
         Shaped(stk), NEW now \in Ticks, TickRest(table, stk, now), next_pid' = next_pid,
         \A t \in Slots \ {current} : stk[t] = stack[t],
         \A i \in 1 .. Len(stk[current]) :
           i \in 1 .. Len(stack[current]) /\ stk[current][i] = stack[current][i],
         Last(stk[current]).pc \in Creates /\ ~NoTick(stk)
           => table[Last(stk[current]).p].in_use
  PROVE  Fine'
<1>w. PICK woken : woken = Wake(table, now)
  OBVIOUS
<1>t. PICK top : top = Last(stk[current])
  OBVIOUS
<1>x. PICK next : next = SchedPick(woken)
  OBVIOUS
<1>h. PICK h : h = [top EXCEPT !.ph = "test"]
  OBVIOUS
<1>g. PICK g : g = [Frame("sched", "test") EXCEPT !.p = next]
  OBVIOUS
<1>s. PICK seen : seen = IF top.ph = "hlt" THEN SetTop(stk, current, h) ELSE stk
  OBVIOUS
<1>n. PICK n : n = Len(stk[current])
  OBVIOUS
<1>1. /\ current \in Slots /\ table \in Tables /\ table[current].in_use
      /\ woken \in Tables /\ RowsSame(woken)
  BY <1>w, Here, WakeRows
<1>2. n \in Nat \ {0} /\ top = stk[current][n] /\ top \in FrameType
  BY <1>1, <1>t, <1>n, FrontFacts DEF Stacks
<1>3. h \in FrameType /\ h.pc = top.pc /\ h.p = top.p /\ h.pid = top.pid
  BY <1>2, <1>h DEF FrameType
<1>4. FrameSound(current, h)
  <2>1. FrameSound(current, top)
    BY <1>1, <1>2, <1>n DEF Shaped, Layered
  <2> QED BY <1>3, <2>1 DEF FrameSound
<1>5. /\ seen \in Stacks /\ Shaped(seen) /\ seen[current] # <<>>
      /\ Last(seen[current]).pc = top.pc /\ Last(seen[current]).p = top.p
      /\ \A t \in Slots \ {current} : seen[t] = stk[t]
      /\ Len(seen[current]) = n
      /\ \A i \in 1 .. n : /\ seen[current][i].pc = stk[current][i].pc
                           /\ seen[current][i].p = stk[current][i].p
      /\ \A i \in 1 .. n - 1 : seen[current][i] = stk[current][i]
  <2>1. CASE seen = stk
    BY <1>t, <1>n, <1>2, <2>1
  <2>2. CASE seen = SetTop(stk, current, h)
    <3>1. Shaped(seen)
      BY <1>1, <1>t, <1>3, <1>4, <2>2, SetTopShaped
    <3>2. /\ seen \in Stacks /\ seen[current] # <<>>
          /\ Last(seen[current]) = h
          /\ \A t \in Slots \ {current} : seen[t] = stk[t]
          /\ Len(seen[current]) = n /\ seen[current][n] = h
          /\ \A i \in 1 .. n - 1 : seen[current][i] = stk[current][i]
      BY <1>1, <1>n, <1>3, <2>2, SetTopFacts
    <3>3. \A i \in 1 .. n : /\ seen[current][i].pc = stk[current][i].pc
                            /\ seen[current][i].p = stk[current][i].p
      BY <1>2, <1>3, <3>2
    <3> QED BY <1>3, <3>1, <3>2, <3>3
  <2> QED BY <1>s, <2>1, <2>2
<1>6. \/ /\ top.pc = "user" /\ next # current
         /\ SwitchTo(woken, Push(seen, current, g), next)
      \/ /\ table' = woken /\ stack' = seen
         /\ UNCHANGED <<current, current_user_pid, cr3>>
  BY <1>w, <1>t, <1>x, <1>h, <1>g, <1>s DEF TickRest
<1>7. CASE /\ table' = woken /\ stack' = seen
           /\ UNCHANGED <<current, current_user_pid, cr3>>
  <2>1. RowsFine' /\ RowsStay
    BY <1>1, <1>7, SameRows
  <2>2. \A i \in 1 .. Len(stack'[current]) : stack'[current][i].pc = "sched" =>
          /\ i \in 1 .. Len(stack[current]) /\ stack[current][i].pc = "sched"
          /\ stack[current][i].p = stack'[current][i].p
    BY <1>n, <1>5, <1>7
  <2>3. Last(stack'[current]).pc \in Creates /\ ~NoTick(stack')
          => table'[Last(stack'[current]).p].in_use
    <3>1. NoTick(stk) => NoTick(stack')
      <4> SUFFICES ASSUME NoTick(stk), NEW s \in Slots, NEW i \in 1 .. Len(seen[s])
                   PROVE  seen[s][i].pc # "tick"
        BY <1>7 DEF NoTick
      <4>1. CASE s = current
        BY <1>n, <1>5, <4>1 DEF NoTick
      <4>2. CASE s # current
        BY <1>5, <4>2 DEF NoTick
      <4> QED BY <4>1, <4>2
    <3>2. top.p \in Slots
      BY <1>2 DEF FrameType
    <3> QED BY <1>1, <1>t, <1>5, <1>7, <3>1, <3>2 DEF RowsSame
  <2>4. \A t \in Slots \ {current} : stack'[t] = stack[t]
    BY <1>5, <1>7
  <2>5. ContextsFine'
    BY <1>5, <1>7, <2>1, <2>2, <2>3, <2>4, StepHere
  <2> QED BY <2>1, <2>5 DEF Fine
<1>8. CASE /\ top.pc = "user" /\ next # current
           /\ SwitchTo(woken, Push(seen, current, g), next)
  <2>1. next \in Slots /\ table[next].in_use
    BY <1>1, <1>x, <1>8, PickRunnable DEF Loading, Runnable, RowsSame
  <2>2. g \in FrameType /\ g.pc = "sched" /\ g.p = next
    <3>1. Frame("sched", "test") \in FrameType /\ Frame("sched", "test").pc = "sched"
      BY FrameMade DEF Loading, Frame
    <3> QED BY <1>g, <2>1, <3>1 DEF FrameType
  <2>a. PICK after : after = Push(seen, current, g)
    OBVIOUS
  <2>3. FrameSound(current, g) /\ SitsOn(g, Last(seen[current]))
    BY <1>5, <1>8, <2>2 DEF FrameSound, SitsOn, Creates, HoldsPid
  <2>4. Shaped(after)
    BY <1>1, <1>5, <2>2, <2>3, <2>a, PushShaped
  <2>5. /\ after \in Stacks /\ \A t \in Slots \ {current} : after[t] = seen[t]
        /\ Len(after[current]) = n + 1
        /\ \A i \in 1 .. n : after[current][i] = seen[current][i]
        /\ after[current] # <<>> /\ Last(after[current]) = g
    BY <1>1, <1>5, <2>2, <2>a, PushFacts
  <2>6. ASSUME NEW i \in 1 .. Len(after[current]) - 1, after[current][i].pc = "sched"
        PROVE  i \in 1 .. Len(stack[current]) /\ stack[current][i] = after[current][i]
    <3>1. i \in 1 .. n /\ after[current][i] = seen[current][i]
      BY <1>2, <2>5
    <3>2. i # n
      BY <1>2, <1>5, <1>8, <2>6, <3>1
    <3>3. i \in 1 .. n - 1
      BY <1>2, <3>1, <3>2
    <3> QED BY <1>n, <1>5, <3>1, <3>3
  <2>7. \A t \in Slots \ {current} : after[t] = stack[t]
    BY <1>5, <2>5
  <2>8. \A s \in Slots : woken[s].in_use = table[s].in_use
    BY <1>1 DEF RowsSame
  <2>9. ContextsFine'
    BY <1>1, <1>8, <2>1, <2>2, <2>a, <2>4, <2>5, <2>6, <2>7, <2>8, SwitchedContexts
  <2> QED BY <1>1, <1>8, <2>1, <2>9, SwitchedRows DEF Fine
<1> QED BY <1>6, <1>7, <1>8

LEMMA TickFine ==
  ASSUME Loading, Tick
  PROVE  Fine'
<1>1. stack[current] # <<>> /\ TickRest(table, stack, Now) /\ next_pid' = next_pid
  BY DEF Tick, Interruptible
<1>2. stack \in Stacks /\ Shaped(stack) /\ Top = Last(stack[current]) /\ Now \in Ticks
  BY <1>1, Here, CountDownType DEF Loading
<1>3. Last(stack[current]).pc \in Creates /\ ~NoTick(stack)
        => table[Last(stack[current]).p].in_use
  BY <1>1, <1>2 DEF Loading, Dispatch, CreatesInUse
<1> QED BY <1>1, <1>2, <1>3, TickRestFine

LEMMA FinishTickFine ==
  ASSUME Loading, FinishTick
  PROVE  Fine'
<1>s. PICK stk : stk = Pop(stack, current)
  OBVIOUS
<1>n. PICK n : n = Len(stack[current])
  OBVIOUS
<1>1. /\ stack[current] # <<>> /\ Top.pc = "tick" /\ n > 1
      /\ TickRest(table, stk, pit_ticks) /\ next_pid' = next_pid /\ pit_ticks \in Ticks
  BY <1>s, <1>n DEF FinishTick, At, Loading, TypeOK
<1>2. /\ stack \in Stacks /\ Shaped(stack) /\ current \in Slots
      /\ Top = stack[current][n] /\ n \in Nat
  BY <1>1, <1>n, Here
<1>3. /\ stk \in Stacks /\ Shaped(stk)
      /\ \A t \in Slots \ {current} : stk[t] = stack[t]
      /\ Len(stk[current]) = n - 1
      /\ \A i \in 1 .. n - 1 : stk[current][i] = stack[current][i]
  BY <1>1, <1>2, <1>s, <1>n, PopShaped, PopFacts
<1>4. stk[current] # <<>>
  <2>1. Len(<<>>) = 0
    OBVIOUS
  <2> QED BY <1>1, <1>2, <1>3, <2>1
<1>5. \A i \in 1 .. Len(stk[current]) :
        i \in 1 .. Len(stack[current]) /\ stk[current][i] = stack[current][i]
  BY <1>2, <1>3, <1>n
<1>6. NoTick(stk)
  <2> SUFFICES ASSUME NEW s \in Slots, NEW i \in 1 .. Len(stk[s]), stk[s][i].pc = "tick"
               PROVE  FALSE
    BY DEF NoTick
  <2>1. i \in 1 .. Len(stack[s]) /\ stack[s][i].pc = "tick"
    BY <1>3, <1>5
  <2>2. s = current /\ i = n
    BY <1>1, <1>2, <1>n, <2>1 DEF Shaped, OneTick
  <2> QED BY <1>2, <1>3, <2>2
<1> QED BY <1>1, <1>3, <1>4, <1>5, <1>6, TickRestFine

(* A command of an SSH session, on top of whatever the tick interrupted.    *)
LEMMA UnderTickFacts ==
  ASSUME Loading, NEW cmd, RemoteTick(cmd)
  PROVE  /\ stack[current] # <<>> /\ current \in Slots
         /\ UnderTick \in Stacks /\ Shaped(UnderTick)
         /\ \A t \in Slots \ {current} : UnderTick[t] = stack[t]
         /\ UnderTick[current] # <<>> /\ Last(UnderTick[current]).pc = "tick"
         /\ \A i \in 1 .. Len(UnderTick[current]) : UnderTick[current][i].pc = "sched" =>
              i \in 1 .. Len(stack[current]) /\ stack[current][i] = UnderTick[current][i]
<1>f. PICK f : f = [Frame("tick", "test") EXCEPT !.masked = TRUE]
  OBVIOUS
<1>n. PICK n : n = Len(stack[current])
  OBVIOUS
<1>1. stack[current] # <<>> /\ NoTick(stack) /\ UnderTick = Push(stack, current, f)
  <2>1. \A s \in Slots : DOMAIN stack[s] = 1 .. Len(stack[s])
    BY DEF Loading, TypeOK
  <2> QED BY <1>f, <2>1 DEF RemoteTick, Interruptible, NoRemote, NoTick, UnderTick
<1>2. stack \in Stacks /\ current \in Slots /\ Shaped(stack) /\ n \in Nat
  BY <1>1, <1>n, Here
<1>3. f \in FrameType /\ f.pc = "tick"
  <2>1. Frame("tick", "test") \in FrameType /\ Frame("tick", "test").pc = "tick"
    BY FrameMade DEF Loading, Frame
  <2> QED BY <1>f, <2>1 DEF FrameType
<1>4. FrameSound(current, f) /\ SitsOn(f, Last(stack[current]))
  BY <1>3 DEF FrameSound, SitsOn, Creates, HoldsPid
<1>5. Shaped(UnderTick)
  BY <1>1, <1>2, <1>3, <1>4, PushShaped
<1>6. /\ UnderTick \in Stacks
      /\ \A t \in Slots \ {current} : UnderTick[t] = stack[t]
      /\ Len(UnderTick[current]) = n + 1 /\ UnderTick[current][n + 1] = f
      /\ \A i \in 1 .. n : UnderTick[current][i] = stack[current][i]
      /\ UnderTick[current] # <<>> /\ Last(UnderTick[current]) = f
  BY <1>1, <1>2, <1>3, <1>n, PushFacts
<1>7. \A i \in 1 .. Len(UnderTick[current]) : UnderTick[current][i].pc = "sched" =>
        i \in 1 .. Len(stack[current]) /\ stack[current][i] = UnderTick[current][i]
  BY <1>2, <1>3, <1>6, <1>n
<1> QED BY <1>1, <1>2, <1>3, <1>5, <1>6, <1>7

LEMMA UnderTickPush ==
  ASSUME Loading, NEW cmd, RemoteTick(cmd), RowsFine', RowsStay, current' = current,
         NEW f \in FrameType, stack' = Push(UnderTick, current, f),
         f.pc \notin {"tick", "sched"}, FrameSound(current, f),
         f.pc \in Creates => table'[f.p].in_use
  PROVE  Fine'
<1>u. PICK under : under = UnderTick
  OBVIOUS
<1>1. /\ stack[current] # <<>> /\ current \in Slots
      /\ under \in Stacks /\ Shaped(under)
      /\ \A t \in Slots \ {current} : under[t] = stack[t]
      /\ under[current] # <<>> /\ Last(under[current]).pc = "tick"
      /\ \A i \in 1 .. Len(under[current]) : under[current][i].pc = "sched" =>
           i \in 1 .. Len(stack[current]) /\ stack[current][i] = under[current][i]
  BY <1>u, UnderTickFacts
<1>2. SitsOn(f, Last(under[current]))
  BY <1>1 DEF SitsOn, Creates
<1>3. Shaped(stack')
  BY <1>u, <1>1, <1>2, PushShaped
<1>4. /\ stack' \in Stacks
      /\ \A t \in Slots \ {current} : stack'[t] = under[t]
      /\ Len(stack'[current]) = Len(under[current]) + 1
      /\ stack'[current][Len(under[current]) + 1] = f
      /\ \A i \in 1 .. Len(under[current]) : stack'[current][i] = under[current][i]
      /\ Last(stack'[current]) = f
  BY <1>u, <1>1, PushFacts
<1>5. Len(under[current]) \in Nat
  BY <1>1 DEF Stacks
<1>6. \A i \in 1 .. Len(stack'[current]) : stack'[current][i].pc = "sched" =>
        /\ i \in 1 .. Len(stack[current]) /\ stack[current][i].pc = "sched"
        /\ stack[current][i].p = stack'[current][i].p
  <2> SUFFICES ASSUME NEW i \in 1 .. Len(stack'[current]), stack'[current][i].pc = "sched"
               PROVE  /\ i \in 1 .. Len(stack[current]) /\ stack[current][i].pc = "sched"
                      /\ stack[current][i].p = stack'[current][i].p
    OBVIOUS
  <2>1. i # Len(under[current]) + 1
    BY <1>4
  <2>2. i \in 1 .. Len(under[current])
    BY <1>4, <1>5, <2>1
  <2>3. stack'[current][i] = under[current][i]
    BY <1>4, <2>2
  <2> QED BY <1>1, <2>2, <2>3
<1>7. \A t \in Slots \ {current} : stack'[t] = stack[t]
  BY <1>1, <1>4
<1>8. ContextsFine'
  BY <1>1, <1>3, <1>4, <1>6, <1>7, StepHere
<1> QED BY <1>8 DEF Fine

LEMMA RemoteFine ==
  ASSUME Loading, Remote
  PROVE  Fine'
<1>1. ASSUME NEW pid \in Pids, RemoteKill(pid) PROVE Fine'
  <2>1. RemoteTick("kill") /\ next_pid' = next_pid
    BY <1>1 DEF RemoteKill
  <2>2. /\ process_get(table, pid) \in Slots \ {0}
        /\ FreeSlot(process_get(table, pid), UnderTick)
    BY <1>1, SlotOfPid DEF RemoteKill, Killable, Loading, SlotZero
  <2>3. ContextsFine'
    BY <2>1, <2>2, UnderTickFacts, FreedContexts DEF Creates
  <2> QED BY <2>1, <2>2, <2>3, FreedRows DEF Fine
<1>2. ASSUME NEW pid \in Pids, RemoteWait(pid) PROVE Fine'
  <2>f. PICK f : f = WaitFrame(WaitTarget(pid), Now, TRUE)
    OBVIOUS
  <2>1. /\ RemoteTick("wait") /\ UNCHANGED <<table, current, cr3, next_pid>>
        /\ stack' = Push(UnderTick, current, f)
        /\ WaitTarget(pid) # 0 /\ Waitable(WaitTarget(pid))
    BY <1>2, <2>f DEF RemoteWait, Waitable
  <2>2. f \in FrameType
    BY <2>f, <2>1, WaitFrameType, CountDownType DEF Loading
  <2>3. f.pc = "wait" /\ f.pid = WaitTarget(pid)
    BY <2>f DEF WaitFrame, Frame
  <2>4. FrameSound(current, f)
    BY <2>1, <2>3 DEF FrameSound, Creates
  <2> QED BY <2>1, <2>2, <2>3, <2>4, TableSame, SameRows, UnderTickPush DEF Creates
<1>3. ASSUME NEW kind \in {"run3fg", "run3bg"}, RemoteRun3(kind) PROVE Fine'
  <2>f. PICK f : f = [Frame("build", kind) EXCEPT !.p = Min(FreeSlots), !.pid = next_pid,
                                                  !.masked = TRUE]
    OBVIOUS
  <2>1. /\ RemoteTick(kind) /\ UNCHANGED <<current, cr3>> /\ CanAlloc
        /\ table' = [table EXCEPT ![Min(FreeSlots)] = process_alloc]
        /\ next_pid' = next_pid + 1 /\ stack' = Push(UnderTick, current, f)
    BY <1>3, <2>f DEF RemoteRun3, SpawnAlloc
  <2>2. stack[current] # <<>>
    BY <2>1 DEF RemoteTick, Interruptible
  <2>3. process_alloc \in ProcType /\ process_alloc.in_use
    BY <2>1, AllocType DEF Loading
  <2>4. /\ RowsFine' /\ RowsStay /\ next_pid # 0
        /\ Min(FreeSlots) \in Slots \ {0, current} /\ table'[Min(FreeSlots)].in_use
    BY <2>1, <2>2, <2>3, TakenRows
  <2>5. /\ f \in FrameType /\ f.pc = "build" /\ f.p = Min(FreeSlots)
        /\ FrameSound(current, f)
    BY <2>1, <2>2, <2>4, <2>f, BuildFrame
  <2> QED BY <2>1, <2>4, <2>5, UnderTickPush
<1> QED BY <1>1, <1>2, <1>3 DEF Remote

LEMMA LoadingNext == Loading /\ [Next]_vars => Loading'
<1> SUFFICES ASSUME Loading, [Next]_vars PROVE Loading'
  OBVIOUS
<1>1. TypeOK' /\ PagesExclusive' /\ PidsUnique'
  BY TypeNext, ExclusiveNext, UniqueNext DEF Loading
<1>2. Fine'
  <2>1. CASE Tick
    BY <2>1, TickFine
  <2>2. CASE KernelStep
    BY <2>2, YieldFine, SwitchFine, SleepFine, ExitFine, EndFine, BuildFine,
       PublishFine, FinishTickFine DEF KernelStep
  <2>3. CASE Syscall
    BY <2>3, SleepFine, ExitFine, CallFine, CreateFine DEF Syscall
  <2>4. CASE GetkeyReturn \/ LegacyReturn
    BY <2>4, CallFine, EndFine
  <2>5. CASE ShellCommand
    BY <2>5, CreateFine, CallFine, CmdKillFine, CmdRunFine DEF ShellCommand
  <2>6. CASE Remote
    BY <2>6, RemoteFine
  <2>7. CASE UNCHANGED vars
    BY <2>7, TableSame, StillFine DEF vars, cpuVars
  <2> QED BY <2>1, <2>2, <2>3, <2>4, <2>5, <2>6, <2>7 DEF Next
<1> QED BY <1>1, <1>2 DEF Loading, Fine, ContextsFine, RowsFine

LEMMA LoadingInit == Init => SlotZero /\ Shaped(stack) /\ Dispatch /\ LoadedPdLive
<1> SUFFICES ASSUME Init PROVE SlotZero /\ Shaped(stack) /\ Dispatch /\ LoadedPdLive
  OBVIOUS
<1>f. PICK f : f = [pc |-> "idle", ph |-> "test", p |-> 0, pid |-> 0, t |-> 0,
                    masked |-> FALSE]
  OBVIOUS
<1>1. /\ 0 \in Slots /\ 1 \in Slots /\ current = 1 /\ next_pid = 2 /\ cr3 = {}
      /\ stack = [s \in Slots |-> IF s = 1 THEN <<f>> ELSE <<>>] /\ f.pc = "idle"
  BY <1>f, ConstFacts DEF Init
<1>2. \A s \in {0, 1} : /\ table[s].in_use /\ table[s].pid = s
                        /\ table[s].ppid = 0 /\ table[s].pd = {}
  BY <1>1 DEF Init, EmptySlot
<1>3. stack[1] = <<f>> /\ \A s \in Slots \ {1} : stack[s] = <<>>
  BY <1>1
<1>4. /\ Len(<<f>>) = 1 /\ <<f>>[1] = f /\ Last(<<f>>) = f /\ <<f>> # <<>>
      /\ Len(<<>>) = 0
  BY DEF Last
<1>5. \A s \in Slots : \A i \in 1 .. Len(stack[s]) : s = 1 /\ i = 1 /\ stack[s][i] = f
  <2> SUFFICES ASSUME NEW s \in Slots, NEW i \in 1 .. Len(stack[s])
               PROVE  s = 1 /\ i = 1 /\ stack[s][i] = f
    OBVIOUS
  <2>1. CASE s = 1
    <3>1. Len(stack[s]) = 1 /\ stack[s][1] = f
      BY <1>3, <1>4, <2>1, Zenon
    <3> QED BY <2>1, <3>1
  <2>2. CASE s # 1
    <3>1. Len(stack[s]) = 0
      BY <1>3, <1>4, <2>2, Zenon
    <3> QED BY <3>1
  <2> QED BY <2>1, <2>2
<1>6. Shaped(stack)
  <2>1. OneTick(stack)
    BY <1>1, <1>5 DEF OneTick
  <2>2. ASSUME NEW s \in Slots PROVE Layered(s, stack[s])
    <3>1. \A i \in 1 .. Len(stack[s]) : FrameSound(s, stack[s][i])
      BY <1>1, <1>5 DEF FrameSound, Creates, HoldsPid
    <3>2. Len(stack[s]) \in {0, 1}
      <4>1. CASE s = 1
        BY <1>3, <1>4, <4>1
      <4>2. CASE s # 1
        BY <1>3, <1>4, <4>2, Zenon
      <4> QED BY <4>1, <4>2
    <3>3. stack[s] # <<>> => stack[s][1].pc # "sched"
      BY <1>1, <1>3, <1>4
    <3> QED BY <3>1, <3>2, <3>3 DEF Layered
  <2> QED BY <2>1, <2>2 DEF Shaped
<1>7. Dispatch
  BY <1>1, <1>2, <1>3, <1>4, <1>5
     DEF Dispatch, RunsInUse, CreatesInUse, TargetsLive, Suspended, Top, Creates
<1> QED BY <1>1, <1>2, <1>6, <1>7 DEF SlotZero, LoadedPdLive

(* The CPU never runs on a page directory that was given back, nor, while   *)
(* it has a context to run, for a process that was: not even when an SSH    *)
(* session kills, starts or waits for programs inside the timer interrupt   *)
(* of a shell that is about to switch to one of them.                       *)
THEOREM LoadedDirectoryLives == Spec => [](LoadedPdLive /\ RunsInUse)
<1>1. Init => Loading
  <2>1. Init => TypeOK /\ PagesExclusive /\ PidsUnique
    BY TypeInit, ExclusiveInit, UniqueInit
  <2> QED BY <2>1, LoadingInit DEF Loading
<1>2. Loading /\ [Next]_vars => Loading'
  BY LoadingNext
<1>3. Loading => LoadedPdLive /\ RunsInUse
  BY DEF Loading, Dispatch
<1> QED BY <1>1, <1>2, <1>3, PTL DEF Spec

=============================================================================
