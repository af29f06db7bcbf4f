-------------------------- MODULE SchedulerProofs ---------------------------
(***************************************************************************)
(* Theorems about the scheduler of kernel/src/ctx.c, for any number of     *)
(* processes, any quantum, any width of the tick counter and any nesting   *)
(* of critical sections that the 8-bit lock_ctx can count.                 *)
(***************************************************************************)
EXTENDS Scheduler, TLAPS

\* What a context may hold in the register between a load and its store.
ContextOK(c) ==
  /\ c.phase \in {"start", "end"} => c.tmp = c.depth
  /\ c.phase = "end" => c.depth > 0
  /\ c.phase \in {"return", "dead"} => c.thr # Kernel
  /\ c.phase = "return" => c.tmp = c.thr
  /\ c.phase \in {"cmd", "cmd_on"} => c.thr = Kernel
  /\ c.phase = "cmd" => c.tmp = NULL \/ (c.tmp = Kernel /\ fst_proc = Kernel)

\* The running context, and the saved ones, which left no section open.
ContextsInv ==
  /\ ContextOK(cpu)
  /\ lock_ctx = cpu.depth
  /\ \A i \in Procs :
       /\ regs[i].thr = i
       /\ i # cpu.thr => ContextOK(regs[i]) /\ regs[i].depth = 0

\* The pointers into the ring.
PointersInv ==
  /\ fst_proc = NULL <=> tcbs = {}
  /\ fst_proc # NULL => Kernel \in tcbs
  /\ fst_proc = NULL =>
       cpu.thr = Kernel /\ curr_proc = NULL /\ handler = "none" /\ dead = {}
  /\ curr_proc = NULL => cpu.thr = Kernel
  /\ curr_proc # NULL => curr_proc = cpu.thr /\ curr_proc \in tcbs
  /\ handler = "reap" => curr_proc # NULL /\ lock_ctx = 0
  /\ wild => curr_proc = NULL

\* While the blocks are appended, every one is older than the next process.
SpawnInv ==
  handler = "spawn" =>
    /\ dead = {}
    /\ lst_proc \in tcbs
    /\ \A i \in tcbs : i <= lst_proc /\ i < to_spawn

DeadInv ==
  \A i \in dead : i # Kernel /\ ContextOf(i).phase = "dead"

SchedInv ==
  /\ TypeOK /\ ContextsInv /\ PointersInv /\ RingInOrder /\ SpawnInv /\ DeadInv


-----------------------------------------------------------------------------
USE SchedulerAssumption DEF NULL, Kernel, Procs

LEMMA InitSchedInv == Init => SchedInv
<1> SUFFICES ASSUME Init PROVE SchedInv
  OBVIOUS
<1>1. \A i \in Procs : Context(i, 0, "run", 0) \in Contexts
  BY DEF Context, Contexts, Phases
<1>2. TypeOK
  <2>1. cpu \in Contexts /\ regs \in [Procs -> Contexts]
    BY <1>1 DEF Init
  <2>2. ticks \in 0 .. TickMod - 1 /\ last_ticks \in 0 .. TickMod - 1
    BY DEF Init
  <2>3. /\ tcbs = {} /\ dead = {} /\ next \in [Procs -> Procs \cup {NULL}]
        /\ fst_proc = NULL /\ lst_proc = NULL /\ curr_proc = NULL
        /\ scheduler_on = FALSE /\ lock_ctx = 0 /\ handler = "none"
        /\ to_spawn = Kernel /\ wild = FALSE
    BY DEF Init
  <2>4. to_spawn \in Kernel .. NProcs + 1
    BY <2>3
  <2> QED BY <2>1, <2>2, <2>3, <2>4 DEF TypeOK
<1>3. ContextsInv
  BY DEF Init, Context, ContextsInv, ContextOK
<1> QED BY <1>2, <1>3 DEF Init, Context, SchedInv, PointersInv, RingInOrder,
       SpawnInv, DeadInv

\* What an instruction of a thread may do: it keeps to its thread, leaves the
\* handlers, the ring and the other contexts alone, keeps lock_ctx the number
\* of sections it is in, and marks nobody but itself dead.
ThreadEffect ==
  /\ UNCHANGED <<regs, tcbs, next, fst_proc, lst_proc, ticks, last_ticks,
                 handler, to_spawn, wild>>
  /\ handler = "none" /\ ~wild
  /\ cpu' \in Contexts /\ cpu'.thr = cpu.thr /\ cpu.phase # "dead"
  /\ ContextOK(cpu)'
  /\ lock_ctx' = cpu'.depth
  /\ scheduler_on' \in BOOLEAN
  /\ curr_proc' = curr_proc
     \/ /\ cpu.thr = Kernel
        /\ curr_proc' = NULL \/ (curr_proc' = Kernel /\ fst_proc = Kernel)
  /\ dead' = dead
     \/ (dead' = dead \cup {cpu.thr} /\ cpu'.phase = "dead" /\ cpu.thr # Kernel)

LEMMA ThreadStepEffect == SchedInv /\ ThreadStep => ThreadEffect
<1> SUFFICES ASSUME SchedInv, ThreadStep PROVE ThreadEffect
  OBVIOUS
<1> USE DEF SchedInv, TypeOK, Runs
<1>1. CASE StartLoad
  <2>1. cpu' \in Contexts /\ cpu'.thr = cpu.thr
    BY <1>1 DEF StartLoad, Contexts, Phases, ContextsInv, ContextOK
  <2> QED BY <1>1, <2>1 DEF StartLoad, ring, clock, irq, ThreadEffect, Contexts,
       ContextsInv, ContextOK, PointersInv
<1>2. CASE StartStore
  <2>0. cpu.depth + 1 \in Nat
    <3>1. cpu.depth \in Nat
      BY DEF Contexts
    <3> QED BY <3>1
  <2>1. cpu' \in Contexts /\ cpu'.thr = cpu.thr
    BY <1>2, <2>0 DEF StartStore, Contexts, Phases
  <2> QED BY <1>2, <2>1 DEF StartStore, ring, clock, irq, ThreadEffect, Contexts,
       ContextsInv, ContextOK, PointersInv
<1>3. CASE EndLoad
  <2>1. cpu' \in Contexts /\ cpu'.thr = cpu.thr
    BY <1>3 DEF EndLoad, Contexts, Phases, ContextsInv, ContextOK
  <2> QED BY <1>3, <2>1 DEF EndLoad, ring, clock, irq, ThreadEffect, Contexts,
       ContextsInv, ContextOK, PointersInv
<1>4. CASE EndStore
  <2>0. cpu.depth - 1 \in Nat
    <3>1. cpu.phase = "end"
      BY <1>4 DEF EndStore
    <3> QED BY <3>1 DEF Contexts, ContextsInv, ContextOK
  <2>1. cpu' \in Contexts /\ cpu'.thr = cpu.thr
    BY <1>4, <2>0 DEF EndStore, Contexts, Phases
  <2> QED BY <1>4, <2>1 DEF EndStore, ring, clock, irq, ThreadEffect, Contexts,
       ContextsInv, ContextOK, PointersInv
<1>5. CASE StubReturn
  <2>0. curr_proc \in Nat
    BY <1>5 DEF StubReturn, Contexts, ContextsInv, ContextOK
  <2>1. cpu' \in Contexts /\ cpu'.thr = cpu.thr
    BY <1>5, <2>0 DEF StubReturn, Contexts, Phases
  <2> QED BY <1>5, <2>1 DEF StubReturn, ring, clock, irq, ThreadEffect, Contexts,
       ContextsInv, ContextOK, PointersInv
<1>6. CASE StubDead
  <2>1. cpu' \in Contexts /\ cpu'.thr = cpu.thr
    BY <1>6 DEF StubDead, Contexts, Phases, ContextsInv, ContextOK
  <2> QED BY <1>6, <2>1 DEF StubDead, ring, clock, irq, ThreadEffect, Contexts,
       ContextsInv, ContextOK, PointersInv
<1>7. CASE CommandLoad
  <2>0. fst_proc \in Nat
    OBVIOUS
  <2>1. cpu' \in Contexts /\ cpu'.thr = cpu.thr
    BY <1>7, <2>0 DEF CommandLoad, Contexts, Phases
  <2> QED BY <1>7, <2>1 DEF CommandLoad, ring, clock, irq, ThreadEffect, Contexts,
       ContextsInv, ContextOK, PointersInv
<1>8. CASE CommandStore
  <2>1. cpu' \in Contexts /\ cpu'.thr = cpu.thr
    BY <1>8 DEF CommandStore, Contexts, Phases, ContextsInv, ContextOK
  <2> QED BY <1>8, <2>1 DEF CommandStore, ring, clock, irq, ThreadEffect, Contexts,
       ContextsInv, ContextOK, PointersInv
<1>9. CASE CommandOn
  <2>1. cpu' \in Contexts /\ cpu'.thr = cpu.thr
    BY <1>9 DEF CommandOn, Goto, Contexts, Phases, ContextsInv, ContextOK
  <2> QED BY <1>9, <2>1 DEF CommandOn, Goto, ring, clock, irq, ThreadEffect, Contexts,
       ContextsInv, ContextOK, PointersInv
<1> QED BY <1>1, <1>2, <1>3, <1>4, <1>5, <1>6, <1>7, <1>8, <1>9 DEF ThreadStep

LEMMA ThreadStepKeepsInv == SchedInv /\ ThreadStep => SchedInv'
<1> SUFFICES ASSUME SchedInv, ThreadEffect PROVE SchedInv'
  BY ThreadStepEffect
<1>1. TypeOK'
  <2>1. cpu.thr \in Procs /\ Kernel \in Procs /\ cpu'.depth \in Nat
    BY DEF SchedInv, TypeOK, ThreadEffect, Contexts
  <2> HIDE SchedulerAssumption DEF Procs
  <2>2. dead' \subseteq Procs
    <3>1. dead \subseteq Procs
      BY DEF SchedInv, TypeOK
    <3>2. dead' = dead \/ dead' = dead \cup {cpu.thr}
      BY DEF ThreadEffect
    <3> QED BY <2>1, <3>1, <3>2
  <2>3. curr_proc' \in Procs \cup {NULL}
    BY <2>1 DEF SchedInv, TypeOK, ThreadEffect
  <2>4. lock_ctx' \in Nat
    BY <2>1 DEF ThreadEffect
  <2>5. UNCHANGED <<regs, tcbs, next, fst_proc, lst_proc, ticks, last_ticks,
                    handler, to_spawn, wild>> /\ cpu' \in Contexts /\ scheduler_on' \in BOOLEAN
    BY DEF ThreadEffect
  <2> QED BY <2>2, <2>3, <2>4, <2>5 DEF SchedInv, TypeOK, Contexts
<1>2. ContextsInv'
  BY DEF SchedInv, ContextsInv, ContextOK, ThreadEffect
<1>3. PointersInv'
  BY DEF SchedInv, PointersInv, ThreadEffect
<1>4. RingInOrder' /\ SpawnInv'
  BY DEF SchedInv, RingInOrder, SpawnInv, ThreadEffect
<1>5. DeadInv'
  BY DEF SchedInv, DeadInv, ContextOf, ThreadEffect
<1> QED BY <1>1, <1>2, <1>3, <1>4, <1>5 DEF SchedInv

\* Appending at the end of the ring keeps it in order.
LEMMA SpawnKeepsInv ==
  SchedInv /\ (SpawnKernelProcess \/ SpawnProcess \/ SpawnDone) => SchedInv'
<1> SUFFICES ASSUME SchedInv, SpawnKernelProcess \/ SpawnProcess \/ SpawnDone
             PROVE  SchedInv'
  OBVIOUS
<1> USE DEF SchedInv
<1>1. CASE SpawnKernelProcess
  <2>1. cpu.thr = Kernel /\ cpu \in Contexts
    BY <1>1 DEF SpawnKernelProcess, PointersInv, TypeOK
  <2>2. TypeOK'
    BY <1>1 DEF SpawnKernelProcess, TypeOK, clock
  <2>3. ContextsInv'
    BY <1>1, <2>1 DEF SpawnKernelProcess, ContextsInv, ContextOK, TypeOK
  <2>4. PointersInv'
    BY <1>1, <2>1 DEF SpawnKernelProcess, PointersInv
  <2>5. dead = {} /\ next'[Kernel] = Kernel
    BY <1>1 DEF SpawnKernelProcess, PointersInv, TypeOK
  <2>7. RingInOrder'
    BY <1>1, <2>5 DEF SpawnKernelProcess, RingInOrder
  <2>8. SpawnInv'
    BY <1>1, <2>5 DEF SpawnKernelProcess, SpawnInv
  <2>6. DeadInv'
    BY <1>1, <2>1 DEF SpawnKernelProcess, DeadInv, ContextOf, TypeOK
  <2> QED BY <2>2, <2>3, <2>4, <2>6, <2>7, <2>8
<1>2. CASE SpawnProcess
  <2>1. CASE UNCHANGED <<ring, regs>>
    BY <1>2, <2>1 DEF SpawnProcess, Linked, ring, clock, TypeOK, ContextsInv,
       ContextOK, PointersInv, RingInOrder, SpawnInv, DeadInv, ContextOf
  <2>2. CASE /\ tcbs' = tcbs \cup {to_spawn}
             /\ next' = [next EXCEPT ![lst_proc] = to_spawn, ![to_spawn] = fst_proc]
             /\ lst_proc' = to_spawn
             /\ fst_proc' = fst_proc
             /\ regs' = [regs EXCEPT ![to_spawn] = Context(to_spawn, 0, "run", 0)]
    <3>1. /\ fst_proc = Kernel /\ Kernel \in tcbs /\ lst_proc \in tcbs
          /\ to_spawn \in Procs /\ to_spawn \notin tcbs /\ to_spawn > Kernel
          /\ \A i \in tcbs : i \in Nat /\ i <= lst_proc /\ i < to_spawn
      BY <1>2 DEF SpawnProcess, Linked, SpawnInv, PointersInv, TypeOK
    <3>2. /\ next'[to_spawn] = Kernel /\ next'[lst_proc] = to_spawn
          /\ \A i \in tcbs \ {lst_proc} : next'[i] = next[i]
      BY <3>1, <2>2 DEF TypeOK
    <3>0. tcbs' = tcbs \cup {to_spawn}
      BY <2>2
    <3>3. TypeOK'
      <4>1. Context(to_spawn, 0, "run", 0) \in Contexts
        BY <3>1 DEF Context, Contexts, Phases
      <4>2. regs' \in [Procs -> Contexts]
        BY <2>2, <3>1, <4>1 DEF TypeOK
      <4>3. next' \in [Procs -> Procs \cup {NULL}]
        BY <2>2, <3>1 DEF TypeOK
      <4>4. tcbs' \subseteq Procs /\ lst_proc' \in Procs /\ fst_proc' = fst_proc
        BY <2>2, <3>1 DEF TypeOK
      <4>5. to_spawn' \in Kernel .. NProcs + 1
        BY <1>2, <3>1 DEF SpawnProcess, Linked, TypeOK
      <4> QED BY <1>2, <4>2, <4>3, <4>4, <4>5 DEF SpawnProcess, Linked, TypeOK, clock
    <3>4. RingInOrder'
      <4>1. ASSUME NEW i \in tcbs, i # lst_proc
            PROVE  /\ next'[i] \in tcbs'
                   /\ \A j \in tcbs' : j <= i \/ (i < next'[i] /\ next'[i] <= j)
                   /\ next'[i] <= i => next'[i] = Kernel
        <5>1. i < lst_proc /\ next'[i] = next[i] /\ next[i] \in tcbs
          BY <3>1, <3>2, <4>1 DEF RingInOrder
        <5>2. i < next[i] /\ next[i] <= lst_proc
          BY <3>1, <4>1, <5>1 DEF RingInOrder
        <5> QED BY <3>0, <3>1, <5>1, <5>2 DEF RingInOrder
      <4>2. /\ next'[lst_proc] \in tcbs'
            /\ \A j \in tcbs' : j <= lst_proc \/
                 (lst_proc < next'[lst_proc] /\ next'[lst_proc] <= j)
            /\ next'[lst_proc] <= lst_proc => next'[lst_proc] = Kernel
        BY <3>0, <3>1, <3>2
      <4>3. /\ next'[to_spawn] \in tcbs'
            /\ \A j \in tcbs' : j <= to_spawn
            /\ next'[to_spawn] = Kernel
        BY <3>0, <3>1, <3>2
      <4> QED BY <3>0, <4>1, <4>2, <4>3 DEF RingInOrder
    <3>5. SpawnInv'
      BY <1>2, <2>2, <3>1 DEF SpawnProcess, Linked, SpawnInv
    <3>6. PointersInv'
      BY <1>2, <2>2, <3>1 DEF SpawnProcess, Linked, PointersInv
    <3>7. cpu.thr = Kernel \/ cpu.thr \in tcbs
      BY DEF PointersInv
    <3>8. ContextsInv'
      BY <1>2, <2>2, <3>1, <3>7
      DEF SpawnProcess, Linked, ContextsInv, ContextOK, Context, TypeOK
    <3>9. DeadInv'
      <4>1. dead = {}
        BY <1>2 DEF SpawnProcess, Linked, SpawnInv
      <4> QED BY <1>2, <4>1 DEF SpawnProcess, Linked, DeadInv
    <3> QED BY <3>3, <3>4, <3>5, <3>6, <3>8, <3>9
  <2> QED BY <1>2, <2>1, <2>2 DEF SpawnProcess, Linked
<1>3. CASE SpawnDone
  BY <1>3 DEF SpawnDone, ring, clock, TypeOK, ContextsInv,
     ContextOK, PointersInv, RingInOrder, SpawnInv, DeadInv, ContextOf
<1> QED BY <1>1, <1>2, <1>3

-----------------------------------------------------------------------------
\* The timer interrupt enters the loop only with no section open.
LEMMA TickKeepsInv == SchedInv /\ TimerTick => SchedInv'
<1> SUFFICES ASSUME SchedInv, TimerTick PROVE SchedInv'
  OBVIOUS
<1>1. /\ UNCHANGED <<cpu, regs, tcbs, next, fst_proc, lst_proc, dead, curr_proc,
                    scheduler_on, lock_ctx, to_spawn>>
      /\ handler = "none" /\ ~wild
  BY DEF TimerTick, MaySwitch, ring
<1>2. ticks' \in 0 .. TickMod - 1 /\ last_ticks' \in 0 .. TickMod - 1
  BY DEF TimerTick, MaySwitch, SchedInv, TypeOK
<1>3. /\ handler' \in {"none", "reap"} /\ wild' \in BOOLEAN
      /\ handler' = "reap" => lock_ctx = 0 /\ curr_proc \in tcbs
      /\ wild' => curr_proc \notin tcbs
  <2>1. handler' = "reap" => lock_ctx = 0 /\ curr_proc \in tcbs
    BY <1>1 DEF TimerTick, MaySwitch
  <2>2. handler' \in {"none", "reap"}
    BY <1>1 DEF TimerTick, MaySwitch
  <2>3. wild' = wild \/ wild' = (curr_proc \notin tcbs)
    BY Zenon DEF TimerTick, MaySwitch
  <2>4. wild' => curr_proc \notin tcbs
    BY <1>1, <2>3, Zenon
  <2>5. wild' \in BOOLEAN
    <3>1. wild \in BOOLEAN
      BY DEF SchedInv, TypeOK
    <3> QED BY <2>3, <3>1, Zenon
  <2> QED BY <2>1, <2>2, <2>4, <2>5, Zenon
<1>4. TypeOK'
  BY <1>1, <1>2, <1>3 DEF SchedInv, TypeOK
<1>5. ContextsInv' /\ RingInOrder' /\ DeadInv'
  BY <1>1
  DEF SchedInv, ContextsInv, ContextOK, RingInOrder, DeadInv, ContextOf
<1>6. NULL \notin tcbs
  BY DEF SchedInv, TypeOK
<1>7. PointersInv' /\ SpawnInv'
  BY <1>1, <1>3, <1>6 DEF SchedInv, PointersInv, SpawnInv
<1> QED BY <1>4, <1>5, <1>7 DEF SchedInv

\* Unlinking the dead successor leaves a ring of the others, in order.
LEMMA ReapKeepsInv == SchedInv /\ Reap => SchedInv' /\ ~wild'
<1> SUFFICES ASSUME SchedInv, Reap PROVE SchedInv' /\ ~wild'
  OBVIOUS
<1> DEFINE c == curr_proc
           j == next[curr_proc]
<1>1. /\ UNCHANGED <<cpu, regs, dead, fst_proc, lst_proc, curr_proc,
                    scheduler_on, lock_ctx, ticks, last_ticks, handler, to_spawn>>
      /\ handler = "reap" /\ ~wild /\ j \in dead
      /\ tcbs' = tcbs \ {j}
      /\ next' = [next EXCEPT ![c] = next[j]]
      /\ wild' = (next'[c] \notin tcbs')
  BY DEF Reap, Unlinked, clock, irq
<1>2. /\ c \in tcbs /\ j \in tcbs /\ j # Kernel /\ Kernel \in tcbs
      /\ \A i \in tcbs : i \in Nat /\ i \in Procs
  BY <1>1 DEF SchedInv, PointersInv, RingInOrder, DeadInv, TypeOK
<1>3. c < j /\ next[j] # j /\ next[j] \in tcbs
  BY <1>2 DEF SchedInv, RingInOrder
<1>4. next'[c] = next[j] /\ \A i \in tcbs \ {c} : next'[i] = next[i]
  BY <1>1, <1>2 DEF SchedInv, TypeOK
<1>5. ~wild'
  <2>1. next'[c] \in tcbs'
    BY <1>1, <1>3, <1>4
  <2> QED BY <1>1, <2>1, Zenon
<1>6. TypeOK'
  BY <1>1, <1>2, <1>3, <1>5 DEF SchedInv, TypeOK
<1>7. RingInOrder'
  <2> SUFFICES ASSUME NEW i \in tcbs, i # j
               PROVE  /\ next'[i] \in tcbs'
                      /\ \A k \in tcbs' : k <= i \/ (i < next'[i] /\ next'[i] <= k)
                      /\ next'[i] <= i => next'[i] = Kernel
    BY <1>1 DEF RingInOrder
  <2>1. CASE i = c
    <3>1. \A k \in tcbs' : k <= c \/ (j < next[j] /\ next[j] <= k)
      BY <1>1, <1>2, <1>3 DEF SchedInv, RingInOrder
    <3>2. next[j] <= c => next[j] = Kernel
      BY <1>2, <1>3 DEF SchedInv, RingInOrder
    <3> QED BY <1>1, <1>2, <1>3, <1>4, <2>1, <3>1, <3>2
  <2>2. CASE i # c
    <3>1. next[i] # j
      <4> SUFFICES ASSUME next[i] = j PROVE FALSE
        OBVIOUS
      <4>1. i < j
        BY <1>2 DEF SchedInv, RingInOrder
      <4>2. c <= i
        BY <1>2, <1>3 DEF SchedInv, RingInOrder
      <4>3. i <= c \/ j <= i
        BY <1>2 DEF SchedInv, RingInOrder
      <4> QED BY <1>2, <2>2, <4>1, <4>2, <4>3
    <3> QED BY <1>1, <1>4, <2>2, <3>1 DEF SchedInv, RingInOrder
  <2> QED BY <2>1, <2>2
<1>8. ContextsInv' /\ DeadInv'
  BY <1>1 DEF SchedInv, ContextsInv, ContextOK, DeadInv, ContextOf
<1>9. PointersInv'
  BY <1>1, <1>2, <1>3, <1>5 DEF SchedInv, PointersInv
<1>10. SpawnInv'
  BY <1>1 DEF SpawnInv
<1> QED BY <1>5, <1>6, <1>7, <1>8, <1>9, <1>10 DEF SchedInv

\* A switch saves the running context and resumes a live one.
LEMMA SwitchKeepsInv == SchedInv /\ Switch => SchedInv'
<1> SUFFICES ASSUME SchedInv, Switch PROVE SchedInv'
  OBVIOUS
<1> DEFINE c == curr_proc
           n == next[curr_proc]
<1>1. /\ UNCHANGED <<tcbs, next, fst_proc, lst_proc, dead, scheduler_on,
                    lock_ctx, ticks, last_ticks, to_spawn>>
      /\ handler = "reap" /\ ~wild /\ n \notin dead /\ handler' = "none"
      /\ regs' = [regs EXCEPT ![c] = cpu]
      /\ curr_proc' = n /\ cpu' = regs'[n]
      /\ wild' = (n \notin tcbs)
  BY DEF Switch, SwitchCtx, ring, clock
<1>2. /\ c = cpu.thr /\ c \in tcbs /\ n \in tcbs /\ c \in Procs /\ n \in Procs
      /\ lock_ctx = 0 /\ cpu.depth = 0 /\ ContextOK(cpu)
      /\ fst_proc # NULL /\ n # NULL
  BY <1>1 DEF SchedInv, PointersInv, RingInOrder, ContextsInv, TypeOK
<1>3. regs'[c] = cpu /\ \A i \in Procs \ {c} : regs'[i] = regs[i]
  BY <1>1, <1>2 DEF SchedInv, TypeOK
<1>4. cpu'.thr = n /\ cpu'.depth = 0 /\ cpu' \in Contexts
  BY <1>1, <1>2, <1>3 DEF SchedInv, ContextsInv, TypeOK
<1>5. TypeOK'
  BY <1>1, <1>2, <1>4 DEF SchedInv, TypeOK
<1>6. ContextsInv'
  <2>1. \A i \in Procs : regs'[i].thr = i
    BY <1>2, <1>3 DEF SchedInv, ContextsInv
  <2>2. ASSUME NEW i \in Procs
        PROVE  ContextOK(regs[i])' \/ i = n
    <3>1. CASE i = c
      BY <1>1, <1>2, <1>3, <3>1 DEF ContextOK
    <3>2. CASE i # c
      BY <1>1, <1>2, <1>3, <3>2 DEF SchedInv, ContextsInv, ContextOK
    <3> QED BY <3>1, <3>2
  <2>3. ContextOK(cpu)'
    <3>1. CASE n = c
      BY <1>1, <1>2, <1>3, <3>1 DEF ContextOK
    <3>2. CASE n # c
      BY <1>1, <1>2, <1>3, <3>2 DEF SchedInv, ContextsInv, ContextOK
    <3> QED BY <3>1, <3>2
  <2>4. \A i \in Procs : i # n => regs'[i].depth = 0
    BY <1>2, <1>3 DEF SchedInv, ContextsInv
  <2> QED BY <1>1, <1>2, <1>4, <2>1, <2>2, <2>3, <2>4 DEF ContextsInv
<1>7. PointersInv'
  BY <1>1, <1>2, <1>4 DEF SchedInv, PointersInv
<1>8. DeadInv'
  <2> SUFFICES ASSUME NEW i \in dead PROVE i # Kernel /\ ContextOf(i)'.phase = "dead"
    BY <1>1 DEF DeadInv, ContextOf
  <2>1. i # n /\ i # Kernel /\ i \in Procs /\ ContextOf(i).phase = "dead"
    BY <1>1 DEF SchedInv, DeadInv, TypeOK
  <2> QED BY <1>2, <1>3, <1>4, <2>1 DEF ContextOf
<1>9. RingInOrder' /\ SpawnInv'
  BY <1>1 DEF SchedInv, RingInOrder, SpawnInv
<1> QED BY <1>5, <1>6, <1>7, <1>8, <1>9 DEF SchedInv

LEMMA NextKeepsSchedInv == SchedInv /\ [Next]_vars => SchedInv'
<1> SUFFICES ASSUME SchedInv, [Next]_vars PROVE SchedInv'
  OBVIOUS
<1>1. CASE ThreadStep
  BY <1>1, ThreadStepKeepsInv
<1>2. CASE SpawnKernelProcess \/ SpawnProcess \/ SpawnDone
  BY <1>2, SpawnKeepsInv
<1>3. CASE ToggleScheduler
  BY <1>3
  DEF ToggleScheduler, ring, clock, irq, SchedInv, TypeOK, ContextsInv,
      ContextOK, PointersInv, RingInOrder, SpawnInv, DeadInv, ContextOf
<1>4. CASE TimerTick
  BY <1>4, TickKeepsInv
<1>5. CASE Reap
  BY <1>5, ReapKeepsInv
<1>6. CASE Switch
  BY <1>6, SwitchKeepsInv
<1>7. CASE UNCHANGED vars
  BY <1>7
  DEF vars, SchedInv, TypeOK, ContextsInv, ContextOK, PointersInv,
      RingInOrder, SpawnInv, DeadInv, ContextOf
<1> QED BY <1>1, <1>2, <1>3, <1>4, <1>5, <1>6, <1>7 DEF Next, HandlerStep

LEMMA SchedInvHolds == Spec => []SchedInv
BY InitSchedInv, NextKeepsSchedInv, PTL DEF Spec

-----------------------------------------------------------------------------
\* lock_ctx, incremented and decremented by separate loads and stores, never
\* loses an update and keeps every thread alone in its critical sections
\* (ctx.h:8-9, ctx.c:138).
THEOREM SchedulerMutualExclusion ==
  Spec => [](TypeOK /\ MutualExclusion /\ LockCountsDepth)
<1>1. SchedInv => TypeOK /\ MutualExclusion /\ LockCountsDepth
  BY DEF SchedInv, ContextsInv, MutualExclusion, LockCountsDepth, ContextOf
<1> QED BY <1>1, SchedInvHolds, PTL

\* Contexts are never swapped, the ring stays a ring in order of creation, and
\* no freed control block is followed (ctx.c:110-147).
THEOREM SchedulerRing ==
  Spec => [](ContextsOwned /\ RingInOrder /\ NoDanglingPointer)
<1>1. SchedInv => ContextsOwned /\ RingInOrder /\ NoDanglingPointer
  BY DEF SchedInv, ContextsInv, PointersInv, TypeOK, ContextsOwned,
         NoDanglingPointer
<1> QED BY <1>1, SchedInvHolds, PTL

\* Each process keeps its own context (ctx.c:117-129) ...
THEOREM ContextsStayOwned == Spec => []ContextsOwned
BY SchedulerRing, PTL

\* ... and no pointer to a freed control block is followed (ctx.c:138-145).
THEOREM NothingDangles == Spec => []NoDanglingPointer
BY SchedulerRing, PTL

\* Only a process whose function returned is reaped (ctx.c:62-66, 139-143).
THEOREM SchedulerReapsFinished == Spec => OnlyFinishedReaped
<1> DEFINE Ok == \A i \in tcbs \ tcbs' : ContextOf(i).phase = "dead"
<1>1. SchedInv /\ [Next]_vars => [Ok]_vars
  <2> SUFFICES ASSUME SchedInv, Next PROVE Ok
    OBVIOUS
  <2>1. CASE ThreadStep
    BY <2>1, ThreadStepEffect DEF ThreadEffect
  <2>2. CASE SpawnKernelProcess
    BY <2>2 DEF SpawnKernelProcess, SchedInv, PointersInv
  <2>3. CASE SpawnProcess \/ SpawnDone \/ ToggleScheduler \/ TimerTick \/ Switch
    BY <2>3 DEF SpawnProcess, Linked, SpawnDone, ToggleScheduler, TimerTick, MaySwitch, Switch, ring
  <2>4. CASE Reap
    BY <2>4 DEF Reap, Unlinked, SchedInv, DeadInv
  <2> QED BY <2>1, <2>2, <2>3, <2>4 DEF Next, HandlerStep
<1> QED BY <1>1, SchedInvHolds, PTL DEF Spec, OnlyFinishedReaped

=============================================================================
