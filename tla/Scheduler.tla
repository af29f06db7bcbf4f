----------------------------- MODULE Scheduler ------------------------------
(***************************************************************************)
(* kernel/src/ctx.c and timer.c: the round-robin scheduler that runs in    *)
(* the timer interrupt, the lock_ctx counter that keeps it from switching, *)
(* the processes it switches between, the keyboard debug handler that      *)
(* creates them and turns the scheduler on and off, and the "process"      *)
(* command of the shell.                                                   *)
(*                                                                         *)
(* What an interrupt saves is a context: the thread whose code it is, the  *)
(* place in that code, the critical sections it is in, and the register    *)
(* that holds a value between a load and the store that uses it.  Handlers *)
(* run with interrupts off, so they are not interleaved with each other;   *)
(* a thread may be interrupted between any two of its instructions.        *)
(* CRITICAL_SECTION_START and _END are a load, then a store, of lock_ctx.  *)
(* The critical sections of handlers begin and end inside one handler and  *)
(* leave lock_ctx as they found it.                                        *)
(***************************************************************************)
EXTENDS Naturals

CONSTANTS
  NProcs,    \* process 1 is the kernel's; 2 .. NProcs come from spawn_process
  Quantum,   \* QUANTUM
  TickMod,   \* number of values of the tick counter
  MaxDepth   \* bound: how deep critical sections nest

ASSUME SchedulerAssumption ==
  /\ NProcs \in Nat \ {0} /\ Quantum \in Nat /\ TickMod \in Nat
  /\ MaxDepth \in 0 .. 255   \* lock_ctx is a uint8_t
  /\ Quantum < TickMod

NULL == 0
Kernel == 1
Procs == Kernel .. NProcs
Spawned == Procs \ {Kernel}

VARIABLES
  cpu,           \* the context that runs, or that the handler interrupted
  regs,          \* tcb->regs, by process
  tcbs,          \* the processes whose control block is allocated
  next,          \* tcb->next
  dead,          \* the processes whose dead flag is set
  fst_proc, lst_proc, curr_proc,
  scheduler_on,
  lock_ctx,
  ticks,         \* timer.c's counter
  last_ticks,    \* scheduler's static variable
  handler,       \* "none", "spawn" inside __spawn_dummy_processes, or
                 \* "reap" in the while loop of scheduler
  to_spawn,      \* the process the next spawn_process call creates
  wild           \* a pointer to no control block was followed

vars == <<cpu, regs, tcbs, next, dead, fst_proc, lst_proc, curr_proc,
          scheduler_on, lock_ctx, ticks, last_ticks, handler, to_spawn,
          wild>>
ring == <<tcbs, next, fst_proc, lst_proc>>
clock == <<ticks, last_ticks>>
irq == <<handler, to_spawn>>

Context(t, d, ph, x) == [thr |-> t, depth |-> d, phase |-> ph, tmp |-> x]
Phases == {"run", "start", "end", "return", "dead", "cmd", "cmd_on"}

-----------------------------------------------------------------------------
\* The kernel runs; no control block exists before the first key release.
Init ==
  /\ cpu = Context(Kernel, 0, "run", 0)
  /\ regs = [i \in Procs |-> Context(i, 0, "run", 0)]
  /\ tcbs = {}
  /\ next = [i \in Procs |-> NULL]
  /\ dead = {}
  /\ fst_proc = NULL /\ lst_proc = NULL /\ curr_proc = NULL
  /\ scheduler_on = FALSE
  /\ lock_ctx = 0
  /\ ticks = 0 /\ last_ticks = 0
  /\ handler = "none" /\ to_spawn = Kernel
  /\ wild = FALSE

\* A thread executes an instruction only outside handlers.
Runs(ph) == handler = "none" /\ ~wild /\ cpu.phase = ph
Goto(ph) == cpu' = [cpu EXCEPT !.phase = ph]

-----------------------------------------------------------------------------
\* CRITICAL_SECTION_START.
StartLoad ==
  /\ Runs("run") /\ cpu.depth < MaxDepth
  /\ cpu' = [cpu EXCEPT !.phase = "start", !.tmp = lock_ctx]
  /\ UNCHANGED <<regs, ring, dead, curr_proc, scheduler_on, lock_ctx, clock,
                 irq, wild>>

StartStore ==
  /\ Runs("start")
  /\ lock_ctx' = cpu.tmp + 1
  /\ cpu' = [cpu EXCEPT !.phase = "run", !.depth = @ + 1, !.tmp = 0]
  /\ UNCHANGED <<regs, ring, dead, curr_proc, scheduler_on, clock, irq, wild>>

\* CRITICAL_SECTION_END.
EndLoad ==
  /\ Runs("run") /\ cpu.depth > 0
  /\ cpu' = [cpu EXCEPT !.phase = "end", !.tmp = lock_ctx]
  /\ UNCHANGED <<regs, ring, dead, curr_proc, scheduler_on, lock_ctx, clock,
                 irq, wild>>

EndStore ==
  /\ Runs("end")
  /\ lock_ctx' = cpu.tmp - 1
  /\ cpu' = [cpu EXCEPT !.phase = "run", !.depth = @ - 1, !.tmp = 0]
  /\ UNCHANGED <<regs, ring, dead, curr_proc, scheduler_on, clock, irq, wild>>

\* __stub: the function of a process returned.  It loads curr_proc to find
\* its own control block, marks that dead, and spins.
StubReturn_Last ==
  /\ Runs("run") /\ cpu.depth = 0 /\ cpu.thr # Kernel
  /\ cpu' = [cpu EXCEPT !.phase = "return", !.tmp = lst_proc]
  /\ UNCHANGED <<regs, ring, dead, curr_proc, scheduler_on, lock_ctx, clock,
                 irq, wild>>

StubReturn ==
  /\ Runs("run") /\ cpu.depth = 0 /\ cpu.thr # Kernel
  /\ cpu' = [cpu EXCEPT !.phase = "return", !.tmp = curr_proc]
  /\ UNCHANGED <<regs, ring, dead, curr_proc, scheduler_on, lock_ctx, clock,
                 irq, wild>>

StubDead ==
  /\ Runs("return")
  /\ dead' = dead \cup {cpu.tmp}
  /\ cpu' = [cpu EXCEPT !.phase = "dead", !.tmp = 0]
  /\ UNCHANGED <<regs, ring, curr_proc, scheduler_on, lock_ctx, clock, irq, wild>>

\* __process_test, run by the shell in the kernel's thread:
\* curr_proc = fst_proc; scheduler_on = 1.
CommandLoad ==
  /\ Runs("run") /\ cpu.depth = 0 /\ cpu.thr = Kernel
  /\ cpu' = [cpu EXCEPT !.phase = "cmd", !.tmp = fst_proc]
  /\ UNCHANGED <<regs, ring, dead, curr_proc, scheduler_on, lock_ctx, clock,
                 irq, wild>>

CommandStore ==
  /\ Runs("cmd")
  /\ curr_proc' = cpu.tmp
  /\ cpu' = [cpu EXCEPT !.phase = "cmd_on", !.tmp = 0]
  /\ UNCHANGED <<regs, ring, dead, scheduler_on, lock_ctx, clock, irq, wild>>

CommandOn ==
  /\ Runs("cmd_on")
  /\ scheduler_on' = TRUE
  /\ Goto("run")
  /\ UNCHANGED <<regs, ring, dead, curr_proc, lock_ctx, clock, irq, wild>>

ThreadStep ==
  \/ StartLoad \/ StartStore \/ EndLoad \/ EndStore
  \/ StubReturn \/ StubDead
  \/ CommandLoad \/ CommandStore \/ CommandOn

-----------------------------------------------------------------------------
\* __proc_kb_debug, on the release of the right shift key: the first release
\* runs __spawn_dummy_processes, the later ones turn the scheduler on and off.

\* spawn_kernel_process: the block of the interrupted code, linked to itself.
SpawnKernelProcess ==
  /\ handler = "none" /\ ~wild
  /\ fst_proc = NULL
  /\ fst_proc' = Kernel /\ lst_proc' = Kernel /\ curr_proc' = Kernel
  /\ tcbs' = {Kernel}
  /\ next' = [next EXCEPT ![Kernel] = Kernel]
  /\ regs' = [regs EXCEPT ![Kernel] = cpu]
  /\ handler' = "spawn" /\ to_spawn' = Kernel + 1
  /\ UNCHANGED <<cpu, dead, scheduler_on, lock_ctx, clock, wild>>

\* The ring with block i after the last one.
Linked_Open(i) == [next EXCEPT ![lst_proc] = i]
Linked(i) == [next EXCEPT ![lst_proc] = i, ![i] = fst_proc]

\* spawn_process: nothing if alloc_pages finds no pages, else a new block at
\* the end of the ring whose context starts in __stub.
SpawnProcess ==
  /\ handler = "spawn" /\ to_spawn <= NProcs
  /\ to_spawn' = to_spawn + 1
  /\ \/ UNCHANGED <<ring, regs>>
     \/ /\ tcbs' = tcbs \cup {to_spawn}
        /\ next' = Linked(to_spawn)
        /\ lst_proc' = to_spawn
        /\ fst_proc' = fst_proc
        /\ regs' = [regs EXCEPT ![to_spawn] = Context(to_spawn, 0, "run", 0)]
  /\ UNCHANGED <<cpu, dead, curr_proc, scheduler_on, lock_ctx, clock, handler, wild>>

SpawnDone ==
  /\ handler = "spawn" /\ to_spawn > NProcs
  /\ handler' = "none"
  /\ UNCHANGED <<cpu, regs, ring, dead, curr_proc, scheduler_on, lock_ctx,
                 clock, to_spawn, wild>>

ToggleScheduler ==
  /\ handler = "none" /\ ~wild
  /\ fst_proc # NULL
  /\ scheduler_on' = ~scheduler_on
  /\ UNCHANGED <<cpu, regs, ring, dead, curr_proc, lock_ctx, clock, irq, wild>>

-----------------------------------------------------------------------------
\* switch_ctx, and the return from the interrupt into the context it leaves.
SwitchCtx_Late ==
  /\ regs' = [regs EXCEPT ![next[curr_proc]] = cpu]
  /\ curr_proc' = next[curr_proc]
  /\ cpu' = regs'[next[curr_proc]]

SwitchCtx ==
  /\ regs' = [regs EXCEPT ![curr_proc] = cpu]
  /\ curr_proc' = next[curr_proc]
  /\ cpu' = regs'[next[curr_proc]]

\* timer_handler: ticks++, and scheduler up to its while loop, which reads
\* the next pointer of the current block and the dead flag of the next one.
Expired_Wide(now) == scheduler_on /\ now > last_ticks + Quantum
Expired(now) == scheduler_on /\ now > (last_ticks + Quantum) % TickMod

MaySwitch_Always == TRUE
MaySwitch == lock_ctx = 0

TimerTick ==
  /\ handler = "none" /\ ~wild
  /\ ticks' = (ticks + 1) % TickMod
  /\ IF Expired(ticks')
     THEN /\ last_ticks' = ticks'
          /\ IF MaySwitch
             THEN /\ wild' = (curr_proc \notin tcbs)
                  /\ handler' = IF curr_proc \in tcbs /\ next[curr_proc] # curr_proc
                                THEN "reap" ELSE "none"
             ELSE UNCHANGED <<handler, wild>>
     ELSE UNCHANGED <<last_ticks, handler, wild>>
  /\ UNCHANGED <<cpu, regs, ring, dead, curr_proc, scheduler_on, lock_ctx,
                 to_spawn>>

\* The ring without the block after the current one.
Unlinked_Kept == next
Unlinked == [next EXCEPT ![curr_proc] = next[next[curr_proc]]]

\* One iteration of the while loop: free the pages and the control block of
\* the dead process after the current one.  The next test of the loop reads
\* the block now linked there.
Reap ==
  /\ handler = "reap" /\ ~wild
  /\ next[curr_proc] \in dead
  /\ tcbs' = tcbs \ {next[curr_proc]}
  /\ next' = Unlinked
  /\ wild' = (next'[curr_proc] \notin tcbs')
  /\ UNCHANGED <<cpu, regs, dead, fst_proc, lst_proc, curr_proc, scheduler_on,
                 lock_ctx, clock, irq>>

Switch ==
  /\ handler = "reap" /\ ~wild
  /\ next[curr_proc] \notin dead
  /\ SwitchCtx
  /\ wild' = (next[curr_proc] \notin tcbs)
  /\ handler' = "none"
  /\ UNCHANGED <<ring, dead, scheduler_on, lock_ctx, clock, to_spawn>>

HandlerStep == SpawnProcess \/ SpawnDone \/ Reap \/ Switch

Next ==
  \/ ThreadStep
  \/ SpawnKernelProcess \/ ToggleScheduler \/ TimerTick
  \/ HandlerStep

\* The timer keeps interrupting, and a handler runs to its end.  Nothing
\* more is assumed: a thread may stay in a critical section for ever.
Spec == Init /\ [][Next]_vars /\ WF_vars(TimerTick) /\ WF_vars(HandlerStep)

-----------------------------------------------------------------------------
Contexts == [thr : Procs, depth : Nat, phase : Phases, tmp : Nat]

\* Every variable stays in its range (ctx.c:14-20, timer.c:9).
TypeOK ==
  /\ cpu \in Contexts
  /\ regs \in [Procs -> Contexts]
  /\ tcbs \subseteq Procs
  /\ next \in [Procs -> Procs \cup {NULL}]
  /\ dead \subseteq Procs
  /\ fst_proc \in {NULL, Kernel}
  /\ lst_proc \in Procs \cup {NULL}
  /\ curr_proc \in Procs \cup {NULL}
  /\ scheduler_on \in BOOLEAN
  /\ lock_ctx \in Nat
  /\ ticks \in 0 .. TickMod - 1 /\ last_ticks \in 0 .. TickMod - 1
  /\ handler \in {"none", "spawn", "reap"}
  /\ to_spawn \in Kernel .. NProcs + 1
  /\ wild \in BOOLEAN

\* Where process i is: on the CPU, or in its control block.
ContextOf(i) == IF i = cpu.thr THEN cpu ELSE regs[i]

\* Two threads are never both inside a critical section, although lock_ctx
\* is incremented by a load and a store that an interrupt may separate
\* (ctx.h:8-9, ctx.c:138).
MutualExclusion ==
  \A i, j \in Procs :
    i # j => ContextOf(i).depth = 0 \/ ContextOf(j).depth = 0

\* No increment or decrement of lock_ctx is lost: outside the store that is
\* pending it counts the sections of the running thread, so the scheduler is
\* neither let into a section nor locked out for ever (ctx.h:8-9).
LockCountsDepth == lock_ctx = cpu.depth

\* curr_proc is the process whose code runs, and every control block holds
\* the context of its own process: no two are swapped or lost (ctx.c:117-129).
ContextsOwned ==
  curr_proc # NULL =>
    /\ cpu.thr = curr_proc
    /\ \A i \in tcbs : regs[i].thr = i

\* The control blocks form one ring, in order of creation, whatever has been
\* reaped: the next of a block is the nearest later one, or, after the last,
\* the kernel's (ctx.c:110-112, 139-144).
RingInOrder ==
  \A i \in tcbs :
    /\ next[i] \in tcbs
    /\ \A j \in tcbs : j <= i \/ (i < next[i] /\ next[i] <= j)
    /\ next[i] <= i => next[i] = Kernel

\* A pointer to no control block is followed only when curr_proc is NULL (the
\* command ran, or read fst_proc, before the first key release); a freed
\* block is never used (ctx.c:138-145, 201-204).
NoDanglingPointer == wild => curr_proc = NULL

\* A control block is freed only after the function of its process returned
\* (ctx.c:62-66, 139-143).
OnlyFinishedReaped == [][\A i \in tcbs \ tcbs' : ContextOf(i).phase = "dead"]_vars

\* last_ticks + QUANTUM is the largest tick: no later tick exceeds it.
Frozen == (last_ticks + Quantum) % TickMod = TickMod - 1

\* A process whose function returned, and which spins, loses the CPU, unless
\* the scheduler is switched off, frozen by the wrap of the tick counter, or
\* has lost its way (ctx.c:65, 131-147).
DeadLosesCpu ==
  (cpu.phase = "dead" /\ scheduler_on)
    ~> (cpu.phase # "dead" \/ ~scheduler_on \/ Frozen \/ wild)

=============================================================================
