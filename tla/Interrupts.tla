----------------------------- MODULE Interrupts -----------------------------
(***************************************************************************)
(* How an interrupt reaches a driver, from the start of init_os            *)
(* (kernel/kernel/kernel.c): the two 8259s as pic.c programs them, the     *)
(* gates of isr.c and idt.c, the dispatch of isr.c and irq.c, and the end  *)
(* of interrupt.  Device lines are numbered as in the code; the slave's    *)
(* requests reach the processor through the master's line Cascade.         *)
(***************************************************************************)
EXTENDS Naturals, Sequences

CONSTANTS
  Lines,     \* the device lines that may be raised
  Noisy,     \* those whose request may be withdrawn
  Drivers    \* the lines given to irq_install, in the order of init_os

ASSUME InterruptsAssumption ==
  /\ Lines \subseteq 0 .. 15 /\ 2 \notin Lines /\ Noisy \subseteq Lines
  /\ Drivers \in Seq(Lines)

Cascade == 2
Master(l) == l < 8

\* The line an 8259 names when there is no request left to name.
Spurious(l) == IF Master(l) THEN 7 ELSE 15
Vectors == Lines \cup {7, 15}

\* The last interrupt request line: where the loops of isr_init and irq_init
\* end.
LastIrq_Master == 7
LastIrq == 15

VARIABLES
  boot,       \* what main executes next: "pic", "sti", "gates", "stubs",
              \* the steps of irq_install, or "up" once init_os returned
  cursor,     \* the index the loop under way has reached
  if_flag,    \* the interrupt flag of the processor
  gates,      \* the lines whose IDT gate is set
  isr_stubs,  \* the lines for which isr.c's handlers[] holds irq.c's __stub
  installed,  \* the lines for which irq.c's handlers[] holds a driver
  imr, irr, in_service,   \* the registers of the two 8259s
  frames,     \* the lines whose handlers are on the stack, innermost first
  stage,      \* what the innermost handler does next
  reset       \* the processor hit a gate that is not present

vars == <<boot, cursor, if_flag, gates, isr_stubs, installed, imr, irr,
          in_service, frames, stage, reset>>
tables == <<gates, isr_stubs, installed>>
main == <<boot, cursor>>

Init ==
  /\ boot = "pic" /\ cursor = 0
  /\ if_flag = FALSE
  /\ gates = {} /\ isr_stubs = {} /\ installed = {}
  /\ imr \in SUBSET Lines        \* as the BIOS left them
  /\ irr = {} /\ in_service = {}
  /\ frames = <<>> /\ stage = "none"
  /\ reset = FALSE

\* main executes an instruction.
MainRuns(b) == boot = b /\ frames = <<>> /\ ~reset

-----------------------------------------------------------------------------
\* pic.c.  The words of pic_remap end with a mask register of 0.
pic_set_mask(mask, l) == mask \cup {l}
pic_clear_mask_Set(mask, l) == mask \cup {l}
pic_clear_mask(mask, l) == mask \ {l}
pic_remap(mask) == {}

\* pic_init up to its sti.  The initialisation words also clear the requests
\* and the lines in service.
PicInit ==
  /\ MainRuns("pic")
  /\ imr' = pic_remap(pic_remap(imr \cup Lines))
  /\ irr' = {} /\ in_service' = {}
  /\ boot' = "sti"
  /\ UNCHANGED <<cursor, if_flag, tables, frames, stage, reset>>

PicSti ==
  /\ MainRuns("sti")
  /\ if_flag' = TRUE
  /\ boot' = "gates" /\ cursor' = 0
  /\ UNCHANGED <<tables, imr, irr, in_service, frames, stage, reset>>

\* isr_init: one gate after the other.
IsrInit ==
  /\ MainRuns("gates")
  /\ gates' = gates \cup ({cursor} \cap Vectors)
  /\ IF cursor < LastIrq THEN boot' = boot /\ cursor' = cursor + 1
                    ELSE boot' = "stubs" /\ cursor' = 0
  /\ UNCHANGED <<if_flag, isr_stubs, installed, imr, irr, in_service, frames,
                 stage, reset>>

\* irq_init: one entry after the other.
IrqInit ==
  /\ MainRuns("stubs")
  /\ isr_stubs' = isr_stubs \cup ({cursor} \cap Vectors)
  /\ IF cursor < LastIrq THEN boot' = boot /\ cursor' = cursor + 1
                    ELSE boot' = "cli" /\ cursor' = 1
  /\ UNCHANGED <<if_flag, gates, installed, imr, irr, in_service, frames,
                 stage, reset>>

\* irq_install, called by timer_init, kb_init and rtl8139_init in turn.
InstallCli ==
  /\ MainRuns("cli")
  /\ IF cursor <= Len(Drivers) THEN if_flag' = FALSE /\ boot' = "install"
                               ELSE if_flag' = if_flag /\ boot' = "up"
  /\ UNCHANGED <<cursor, tables, imr, irr, in_service, frames, stage, reset>>

InstallSti ==
  /\ MainRuns("install")
  /\ installed' = installed \cup {Drivers[cursor]}
  /\ imr' = pic_clear_mask(imr, Drivers[cursor])
  /\ if_flag' = TRUE
  /\ boot' = "cli" /\ cursor' = cursor + 1
  /\ UNCHANGED <<gates, isr_stubs, irr, in_service, frames, stage, reset>>

MainStep == PicInit \/ PicSti \/ IsrInit \/ IrqInit \/ InstallCli \/ InstallSti

-----------------------------------------------------------------------------
\* A device raises its line.
Raise(l) ==
  /\ ~reset
  /\ irr' = irr \cup {l}
  /\ UNCHANGED <<main, if_flag, tables, imr, in_service, frames, stage, reset>>

\* An 8259 lets a request through only if it is above every line it has in
\* service; a request of the slave is one of the master's line Cascade.
Passes(l) ==
  /\ l \in irr \ imr
  /\ \A m \in in_service : Master(m) => (IF Master(l) THEN l ELSE Cascade) < m
  /\ \A m \in in_service : ~Master(m) /\ ~Master(l) => l < m

Above(l, k) ==
  (IF Master(l) THEN l * 16 ELSE Cascade * 16 + l)
    < (IF Master(k) THEN k * 16 ELSE Cascade * 16 + k)

\* The interrupt flag in a handler: the gates are interrupt gates (0x8E), and
\* the entry code of isr_wrapper.s starts with cli.
FlagOnEntry_Trap == TRUE
FlagOnEntry == FALSE

\* The processor takes a vector through its gate, and is reset if that gate is
\* not present.
Take(v) ==
  /\ IF v \in gates
     THEN /\ frames' = <<v>> \o frames
          /\ if_flag' = FlagOnEntry
          /\ stage' = "dispatch"
          /\ reset' = reset
     ELSE /\ reset' = TRUE
          /\ UNCHANGED <<frames, if_flag, stage>>
  /\ UNCHANGED <<main, tables, imr>>

\* The highest request, and what is in service for it.
Asks(l) == /\ if_flag /\ ~reset
           /\ Passes(l)
           /\ \A k \in Lines : Passes(k) /\ k # l => Above(l, k)
Through(l) == IF Master(l) THEN {} ELSE {Cascade}

Accept(l) ==
  /\ Asks(l)
  /\ irr' = irr \ {l}
  /\ in_service' = in_service \cup {l} \cup Through(l)
  /\ Take(l)

\* The device withdraws the request before the processor fetches its vector:
\* the 8259 of that line names its last one and puts nothing in service.
Withdraw(l) ==
  /\ Asks(l)
  /\ irr' = irr \ {l}
  /\ in_service' = in_service \cup Through(l)
  /\ Take(Spurious(l))

\* isr_handler returns at once if isr_init and irq_init left the entry NULL;
\* else __stub runs the driver, if one is installed, and then sends the EOI.
Dispatch ==
  /\ frames # <<>> /\ stage = "dispatch"
  /\ stage' = IF Head(frames) \notin isr_stubs THEN "iret"
              ELSE IF Head(frames) \in installed THEN "driver" ELSE "eoi"
  /\ UNCHANGED <<main, if_flag, tables, imr, irr, in_service, frames, reset>>

Driver ==
  /\ frames # <<>> /\ stage = "driver"
  /\ stage' = "eoi"
  /\ UNCHANGED <<main, if_flag, tables, imr, irr, in_service, frames, reset>>

\* pic_send_eoi: each 8259 it reaches ends its highest line in service.
Highest(S) == {l \in S : \A m \in S : l <= m}

pic_send_eoi_One(l) ==
  in_service' = in_service \ Highest({m \in in_service : Master(m) = Master(l)})

pic_send_eoi(l) ==
  in_service' = in_service \
    (Highest({m \in in_service : Master(m)}) \cup
     (IF Master(l) THEN {} ELSE Highest({m \in in_service : ~Master(m)})))

Eoi ==
  /\ frames # <<>> /\ stage = "eoi"
  /\ pic_send_eoi(Head(frames))
  /\ stage' = "iret"
  /\ UNCHANGED <<main, if_flag, tables, imr, irr, frames, reset>>

\* The return of isr_common; it restores the interrupt flag, set on entry.
Iret ==
  /\ frames # <<>> /\ stage = "iret"
  /\ frames' = Tail(frames)
  /\ stage' = "none"
  /\ if_flag' = TRUE
  /\ UNCHANGED <<main, tables, imr, irr, in_service, reset>>

HandlerStep == Dispatch \/ Driver \/ Eoi \/ Iret

Next ==
  \/ MainStep
  \/ \E l \in Lines : Raise(l) \/ Accept(l)
  \/ \E l \in Noisy : Withdraw(l)
  \/ HandlerStep

\* The processor goes on: it executes main or the handler on top of the
\* stack, and takes a request that is let through.  Devices owe nothing.
Spec ==
  /\ Init /\ [][Next]_vars
  /\ WF_vars(MainStep) /\ WF_vars(HandlerStep)
  /\ WF_vars(\E l \in Lines : Accept(l))

-----------------------------------------------------------------------------
\* Every register and table stays in its range, and the loops of isr_init and
\* irq_init in theirs (isr.c:118-124, irq.c:28-31).
TypeOK ==
  /\ boot \in {"pic", "sti", "gates", "stubs", "cli", "install", "up"}
  /\ cursor \in 0 .. 15 \/ cursor \in 1 .. Len(Drivers) + 1
  /\ if_flag \in BOOLEAN /\ reset \in BOOLEAN
  /\ gates \subseteq Vectors /\ isr_stubs \subseteq Vectors /\ installed \subseteq Lines
  /\ imr \subseteq Lines /\ irr \subseteq Lines
  /\ in_service \subseteq Lines \cup {Cascade}
  /\ frames \in Seq(Vectors)
  /\ stage \in {"none", "dispatch", "driver", "eoi", "iret"}

\* The lines the handlers on the stack will end: the innermost may have done so.
Owed ==
  UNION {{frames[k]} \cup Through(frames[k]) : k \in (IF stage = "iret" THEN 2 ELSE 1) .. Len(frames)}

\* A line in service that no handler will end: it, and every line below it,
\* is cut off for ever.
Stuck == in_service \ Owed

\* An end of interrupt ends the lines of its own handler and of no other that
\* is still running, also when the interrupt was spurious and has no line of
\* its own: the EOI of irq.c names no line, so this rests on handlers not
\* interrupting each other (irq.c:10-18, pic.c:24-31, isr.c:119-120).
EoiEndsOwn ==
  [][stage = "eoi" /\ stage' = "iret" =>
       (in_service \ in_service') \ Stuck
          = in_service \cap ({Head(frames)} \cup Through(Head(frames)))]_vars

\* The processor is reset by a missing gate only between the sti of pic_init
\* and the end of isr_init (kernel.c:30-31, pic.c:75).
ResetOnlyBeforeGates == reset => boot = "gates"

\* Once irq_init has run, no line gets stuck: what is accepted is ended.
\* Before that isr_handler finds no handler and returns without an EOI
\* (isr.c:107-111, kernel.c:31-32).
NoLineSticksAfterInit ==
  [][boot \notin {"gates", "stubs"} => Stuck' \subseteq Stuck]_vars

\* A timer interrupt requested once init_os is done reaches the driver, unless
\* a line was left stuck at boot (irq.c:10-18, timer.c:11-14).
TimerServed ==
  (boot = "up" /\ 0 \in irr /\ ~reset)
    ~> ((frames # <<>> /\ Head(frames) = 0 /\ stage = "driver") \/ Stuck # {})

=============================================================================
