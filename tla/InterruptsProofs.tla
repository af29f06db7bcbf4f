-------------------------- MODULE InterruptsProofs --------------------------
(***************************************************************************)
(* The end of interrupt names no line; it is the handler's own because no  *)
(* handler interrupts another one and an 8259 lets through only what is    *)
(* above everything it has in service.  For every set of device lines and  *)
(* every order of installing drivers.                                      *)
(***************************************************************************)
EXTENDS Interrupts, TLAPS

\* What a handler for line v will end.
Own(v) == {v} \cup Through(v)

Typed ==
  /\ boot \in {"pic", "sti", "gates", "stubs", "cli", "install", "up"}
  /\ cursor \in Nat
  /\ boot \in {"gates", "stubs"} => cursor <= 15
  /\ boot \in {"cli", "install", "up"} => cursor \in 1 .. Len(Drivers) + 1
  /\ boot = "install" => cursor <= Len(Drivers)
  /\ boot \in {"pic", "sti"} => cursor = 0
  /\ if_flag \in BOOLEAN /\ reset \in BOOLEAN
  /\ gates \subseteq Vectors /\ isr_stubs \subseteq Vectors /\ installed \subseteq Lines
  /\ imr \subseteq Lines /\ irr \subseteq Lines
  /\ in_service \subseteq Lines \cup {Cascade}

\* At most one handler runs, and with interrupts off.
Alone ==
  \/ frames = <<>> /\ stage = "none"
  \/ /\ \E v \in Vectors : frames = <<v>>
     /\ stage \in {"dispatch", "driver", "eoi", "iret"}
     /\ ~if_flag

\* How far the loops of isr_init and irq_init came, and what waits for them.
Booted ==
  /\ boot = "gates" => Vectors \cap (0 .. cursor - 1) \subseteq gates
  /\ boot \in {"stubs", "cli", "install", "up"} => Vectors \subseteq gates
  /\ boot = "stubs" => Vectors \cap (0 .. cursor - 1) \subseteq isr_stubs
  /\ boot \in {"cli", "install", "up"} => Vectors \subseteq isr_stubs
  /\ boot \in {"pic", "sti"} => ~if_flag /\ frames = <<>>
  /\ reset => boot = "gates"

\* The lines a handler has to end are the highest in service of their chips.
OwnFirst ==
  \A v \in Vectors :
    (frames = <<v>> /\ stage # "iret") =>
      \A o \in in_service \cap Own(v) : \A m \in in_service :
        Master(m) = Master(o) => o <= m

Inv == Typed /\ Alone /\ Booted /\ OwnFirst

-----------------------------------------------------------------------------
LEMMA LineFacts ==
  /\ Lines \subseteq Nat /\ Vectors \subseteq 0 .. 15 /\ Lines \subseteq Vectors
  /\ 2 \notin Lines /\ 2 \notin Vectors
  /\ \A l \in Lines : Spurious(l) \in Vectors
BY InterruptsAssumption DEF Vectors, Spurious

LEMMA OwedWhenAlone ==
  /\ frames = <<>> => Owed = {}
  /\ \A v \in Vectors : frames = <<v>> =>
       Owed = IF stage = "iret" THEN {} ELSE Own(v)
<1>1. frames = <<>> => Owed = {}
  BY DEF Owed
<1>2. ASSUME NEW v \in Vectors, frames = <<v>>
      PROVE  Owed = IF stage = "iret" THEN {} ELSE Own(v)
  <2>1. Len(frames) = 1 /\ frames[1] = v
    BY <1>2
  <2> QED BY <2>1 DEF Owed, Own
<1> QED BY <1>1, <1>2

LEMMA InitInv == ASSUME Init PROVE Inv
BY InterruptsAssumption DEF Init, Inv, Typed, Alone, Booted, OwnFirst

LEMMA MainInv == ASSUME Inv, MainStep PROVE Inv'
<1>1. frames = <<>> /\ stage = "none" /\ UNCHANGED <<frames, stage, reset>> /\ ~reset
  BY DEF Inv, Alone, MainStep, MainRuns, PicInit, PicSti, IsrInit, IrqInit, InstallCli, InstallSti
<1>2. (Alone /\ OwnFirst)'
  BY <1>1 DEF Alone, OwnFirst
<1> SUFFICES (Typed /\ Booted)'
  BY <1>2 DEF Inv
<1>3. CASE PicInit
  BY <1>1, <1>3, LineFacts DEF Inv, Typed, Booted, PicInit, MainRuns, tables, pic_remap
<1>4. CASE PicSti
  BY <1>1, <1>4, LineFacts DEF Inv, Typed, Booted, PicSti, MainRuns, tables
<1>5. CASE IsrInit
  BY <1>1, <1>5, LineFacts DEF Inv, Typed, Booted, IsrInit, MainRuns, LastIrq
<1>6. Len(Drivers) \in Nat /\ \A i \in 1 .. Len(Drivers) : Drivers[i] \in Lines
  BY InterruptsAssumption
<1>7. CASE IrqInit
  <2>1. /\ boot = "stubs" /\ isr_stubs' = isr_stubs \cup ({cursor} \cap Vectors)
        /\ IF cursor < 15 THEN boot' = boot /\ cursor' = cursor + 1 ELSE boot' = "cli" /\ cursor' = 1
        /\ UNCHANGED <<if_flag, gates, installed, imr, irr, in_service, frames>>
    BY <1>7 DEF IrqInit, MainRuns, LastIrq
  <2>2. cursor \in 0 .. 15 /\ Vectors \subseteq gates /\ Vectors \cap (0 .. cursor - 1) \subseteq isr_stubs
    BY <2>1 DEF Inv, Typed, Booted
  <2>3. Typed'
    BY <1>1, <1>6, <2>1, <2>2 DEF Inv, Typed
  <2>4. Booted'
    BY <1>1, <2>1, <2>2, LineFacts DEF Inv, Booted
  <2> QED BY <2>3, <2>4
<1>8. CASE InstallCli
  <2>1. /\ boot = "cli" /\ boot' \in {"install", "up"} /\ (boot' = "install" => cursor <= Len(Drivers))
        /\ if_flag' \in {FALSE, if_flag}
        /\ UNCHANGED <<cursor, gates, isr_stubs, installed, imr, irr, in_service, frames>>
    BY <1>8 DEF InstallCli, MainRuns, tables
  <2>2. Typed'
    BY <1>1, <1>6, <2>1 DEF Inv, Typed
  <2>3. Booted'
    BY <1>1, <2>1 DEF Inv, Booted
  <2> QED BY <2>2, <2>3
<1>9. CASE InstallSti
  BY <1>1, <1>6, <1>9 DEF Inv, Typed, Booted, InstallSti, MainRuns, pic_clear_mask
<1> QED BY <1>3, <1>4, <1>5, <1>7, <1>8, <1>9 DEF MainStep

\* A handler starts: its lines are above all others in service.
LEMMA TakeInv ==
  ASSUME Inv, if_flag, ~reset, NEW v \in Vectors, Take(v),
         in_service' \subseteq Lines \cup {Cascade}, irr' \subseteq irr,
         \A o \in in_service' \cap Own(v) : \A m \in in_service' : Master(m) = Master(o) => o <= m
  PROVE  Inv'
<1>1. frames = <<>> /\ stage = "none"
  BY DEF Inv, Alone
<1>2. UNCHANGED <<boot, cursor, gates, isr_stubs, installed, imr>>
  BY DEF Take, main, tables
<1>3. CASE v \in gates
  <2>1. frames' = <<v>> /\ if_flag' = FALSE /\ stage' = "dispatch" /\ reset' = reset
    BY <1>1, <1>3 DEF Take, FlagOnEntry
  <2>2. Typed'
    <3>1. irr' \subseteq Lines /\ in_service' \subseteq Lines \cup {Cascade}
      BY DEF Inv, Typed
    <3> QED BY <1>2, <2>1, <3>1 DEF Inv, Typed
  <2>3. Booted'
    <3>1. boot \notin {"pic", "sti"}
      BY DEF Inv, Booted
    <3> QED BY <1>2, <2>1, <3>1 DEF Inv, Booted
  <2>4. Alone'
    BY <2>1 DEF Alone
  <2>5. \A w \in Vectors : frames' = <<w>> => w = v
    BY <2>1
  <2>6. OwnFirst'
    BY <2>1, <2>5 DEF OwnFirst
  <2> QED BY <2>2, <2>6, <2>4, <2>3 DEF Inv
<1>4. CASE v \notin gates
  <2>1. reset' /\ UNCHANGED <<frames, if_flag, stage>>
    BY <1>4 DEF Take
  <2>2. boot = "gates"
    BY <1>4 DEF Inv, Typed, Booted
  <2>3. (Typed /\ Alone /\ Booted)'
    BY <1>1, <1>2, <2>1, <2>2 DEF Inv, Typed, Alone, Booted
  <2>4. OwnFirst'
    BY <1>1, <2>1 DEF OwnFirst
  <2> QED BY <2>3, <2>4 DEF Inv
<1> QED BY <1>3, <1>4

\* The lines the 8259s put in service for l are above all that were.
LEMMA PassedFirst ==
  ASSUME Inv, NEW l \in Lines, Passes(l), NEW o \in {l} \cup Through(l), NEW m \in in_service
  PROVE  Master(m) = Master(o) => o < m
BY LineFacts DEF Inv, Typed, Passes, Through, Master, Cascade

LEMMA AcceptInv == ASSUME Inv, NEW l \in Lines, Accept(l) PROVE Inv'
<1>1. if_flag /\ ~reset /\ Passes(l) /\ Take(l) /\ irr' = irr \ {l} /\ l \in Vectors
      /\ in_service' = in_service \cup {l} \cup Through(l)
  BY LineFacts DEF Accept, Asks
<1>2. Through(l) \subseteq {Cascade}
  BY DEF Through
<1>3. ASSUME NEW o \in in_service' \cap Own(l), NEW m \in in_service', Master(m) = Master(o)
      PROVE  o <= m
  <2>1. CASE m \in in_service
    BY <1>1, <1>3, <2>1, PassedFirst, LineFacts DEF Own, Inv, Typed, Through, Cascade
  <2>2. CASE m \in Own(l)
    BY <1>1, <1>3, <2>2, LineFacts DEF Own, Through, Master, Cascade
  <2> QED BY <1>1, <2>1, <2>2 DEF Own
<1>4. in_service' \subseteq Lines \cup {Cascade}
  BY <1>1, <1>2 DEF Inv, Typed
<1> QED BY <1>1, <1>3, <1>4, TakeInv

\* A spurious request has no line of its own as long as no device uses the
\* last line of an 8259.
LEMMA WithdrawInv ==
  ASSUME 7 \notin Lines, 15 \notin Lines, Inv, NEW l \in Noisy, Withdraw(l)
  PROVE  Inv'
<1>1. /\ if_flag /\ ~reset /\ Passes(l) /\ Take(Spurious(l)) /\ irr' = irr \ {l}
      /\ l \in Lines /\ Spurious(l) \in Vectors
      /\ in_service' = in_service \cup Through(l)
  BY LineFacts, InterruptsAssumption DEF Withdraw, Asks
<1>2. Through(l) \subseteq {Cascade}
  BY DEF Through
<1>3. in_service' \subseteq Lines \cup {Cascade}
  BY <1>1, <1>2 DEF Inv, Typed
<1>4. in_service' \cap Own(Spurious(l)) = Through(l) \cap Own(Spurious(l))
  BY <1>1, <1>3, LineFacts DEF Own, Spurious, Through, Master, Cascade, Inv, Typed
<1>5. ASSUME NEW o \in in_service' \cap Own(Spurious(l)), NEW m \in in_service', Master(m) = Master(o)
      PROVE  o <= m
  BY <1>1, <1>2, <1>4, <1>5, PassedFirst, LineFacts DEF Inv, Typed, Through, Cascade
<1> QED BY <1>1, <1>3, <1>5, TakeInv

LEMMA HandlerInv == ASSUME Inv, HandlerStep PROVE Inv'
<1>1. PICK v \in Vectors : frames = <<v>>
  BY DEF Inv, Alone, HandlerStep, Dispatch, Driver, Eoi, Iret
<1>2. ~if_flag /\ boot \notin {"pic", "sti"}
  BY <1>1 DEF Inv, Alone, Booted
<1>3. CASE Dispatch \/ Driver
  <2>1. /\ UNCHANGED <<boot, cursor, if_flag, gates, isr_stubs, installed, imr, irr, in_service, frames, reset>>
        /\ stage # "iret" /\ stage' \in {"driver", "eoi", "iret"}
    BY <1>3 DEF Dispatch, Driver, main, tables
  <2> QED BY <1>1, <2>1 DEF Inv, Typed, Alone, Booted, OwnFirst
<1>4. CASE Eoi
  <2>1. /\ UNCHANGED <<boot, cursor, if_flag, gates, isr_stubs, installed, imr, irr, frames, reset>>
        /\ stage' = "iret" /\ in_service' \subseteq in_service
    BY <1>4 DEF Eoi, pic_send_eoi, main, tables
  <2> QED BY <1>1, <2>1 DEF Inv, Typed, Alone, Booted, OwnFirst
<1>5. CASE Iret
  <2>1. /\ UNCHANGED <<boot, cursor, gates, isr_stubs, installed, imr, irr, in_service, reset>>
        /\ frames' = <<>> /\ stage' = "none" /\ if_flag' = TRUE
    BY <1>1, <1>5 DEF Iret, main, tables
  <2> QED BY <1>2, <2>1 DEF Inv, Typed, Alone, Booted, OwnFirst
<1> QED BY <1>3, <1>4, <1>5 DEF HandlerStep

LEMMA NextInv ==
  ASSUME 7 \notin Lines, 15 \notin Lines, Inv, [Next]_vars
  PROVE  Inv'
<1>1. CASE UNCHANGED vars
  BY <1>1 DEF vars, Inv, Typed, Alone, Booted, OwnFirst
<1>2. CASE \E l \in Lines : Raise(l)
  BY <1>2 DEF Raise, main, tables, Inv, Typed, Alone, Booted, OwnFirst
<1> QED BY <1>1, <1>2, MainInv, AcceptInv, WithdrawInv, HandlerInv DEF Next

\* What an end of interrupt takes out of service, of the handler's lines.
LEMMA EoiEnds ==
  ASSUME Inv, Eoi, NEW v \in Vectors, frames = <<v>>
  PROVE  (in_service \ in_service') \cap Own(v) = in_service \cap Own(v)
<1>1. stage = "eoi" /\ pic_send_eoi(v)
  BY DEF Eoi
<1>2. \A o \in in_service \cap Own(v) : \A m \in in_service : Master(m) = Master(o) => o <= m
  BY <1>1 DEF Inv, OwnFirst
<1>3. ASSUME NEW o \in in_service \cap Own(v) PROVE o \notin in_service'
  <2>1. in_service' = in_service \
          (Highest({m \in in_service : Master(m)}) \cup
           (IF Master(v) THEN {} ELSE Highest({m \in in_service : ~Master(m)})))
    BY <1>1 DEF pic_send_eoi
  <2>2. CASE Master(o)
    <3>1. \A m \in in_service : Master(m) => o <= m
      BY <1>2, <2>2 DEF Master
    <3>2. o \in Highest({m \in in_service : Master(m)})
      BY <2>2, <3>1 DEF Highest
    <3> QED BY <2>1, <3>2
  <2>3. CASE ~Master(o)
    <3>1. \A m \in in_service : ~Master(m) => o <= m
      BY <1>2, <2>3 DEF Master
    <3>2. o \in Highest({m \in in_service : ~Master(m)})
      BY <2>3, <3>1 DEF Highest
    <3>3. ~Master(v)
      BY <2>3 DEF Own, Through, Master, Cascade
    <3> QED BY <2>1, <3>2, <3>3
  <2> QED BY <2>2, <2>3
<1>4. in_service' \subseteq in_service
  BY <1>1 DEF pic_send_eoi
<1> QED BY <1>3, <1>4

\* Every handler ends its own lines and no other that is still to be ended, as
\* long as no device uses the line an 8259 names for a spurious request.
THEOREM EndsOwn ==
  ASSUME 7 \notin Lines, 15 \notin Lines
  PROVE  Spec => EoiEndsOwn
<1>1. Init => Inv BY InitInv
<1>2. Inv /\ [Next]_vars => Inv' BY NextInv
<1>3. Inv /\ [Next]_vars =>
        [stage = "eoi" /\ stage' = "iret" =>
           (in_service \ in_service') \ Stuck
             = in_service \cap ({Head(frames)} \cup Through(Head(frames)))]_vars
  <2> SUFFICES ASSUME Inv, Next, stage = "eoi", stage' = "iret"
               PROVE  (in_service \ in_service') \ Stuck
                        = in_service \cap ({Head(frames)} \cup Through(Head(frames)))
    OBVIOUS
  <2>1. PICK v \in Vectors : frames = <<v>>
    BY DEF Inv, Alone
  <2>2. Eoi
    BY <2>1 DEF Next, MainStep, MainRuns, PicInit, PicSti, IsrInit, IrqInit, InstallCli, InstallSti,
                Raise, Accept, Withdraw, Asks, Take, HandlerStep, Dispatch, Driver, Iret
  <2>3. Owed = Own(v) /\ Head(frames) = v
    BY <2>1, OwedWhenAlone
  <2>4. (in_service \ in_service') \ Stuck = (in_service \ in_service') \cap Own(v)
    BY <2>3 DEF Stuck
  <2> QED BY <2>1, <2>2, <2>3, <2>4, EoiEnds DEF Own
<1> QED BY <1>1, <1>2, <1>3, PTL DEF Spec, EoiEndsOwn

\* The processor is reset only while the gates are being set.
THEOREM ResetsEarly ==
  ASSUME 7 \notin Lines, 15 \notin Lines
  PROVE  Spec => []ResetOnlyBeforeGates
<1>1. Init => Inv BY InitInv
<1>2. Inv /\ [Next]_vars => Inv' BY NextInv
<1>3. Inv => ResetOnlyBeforeGates BY DEF Inv, Booted, ResetOnlyBeforeGates
<1> QED BY <1>1, <1>2, <1>3, PTL DEF Spec

\* The same of the next state.
LEMMA OwedNext ==
  /\ frames' = <<>> => Owed' = {}
  /\ \A v \in Vectors : frames' = <<v>> =>
       Owed' = IF stage' = "iret" THEN {} ELSE Own(v)
<1>1. frames' = <<>> => Owed' = {}
  <2> SUFFICES ASSUME frames' = <<>> PROVE Owed' = {} OBVIOUS
  <2>1. (IF stage' = "iret" THEN 2 ELSE 1) .. Len(frames') = {} OBVIOUS
  <2> QED BY <2>1 DEF Owed
<1>2. ASSUME NEW v \in Vectors, frames' = <<v>>
      PROVE  Owed' = IF stage' = "iret" THEN {} ELSE Own(v)
  <2>1. Len(frames') = 1 /\ frames'[1] = v BY <1>2
  <2>2. CASE stage' = "iret"
    <3>1. (IF stage' = "iret" THEN 2 ELSE 1) .. Len(frames') = {} BY <2>1, <2>2
    <3> QED BY <2>2, <3>1 DEF Owed
  <2>3. CASE stage' # "iret"
    <3>1. (IF stage' = "iret" THEN 2 ELSE 1) .. Len(frames') = {1} BY <2>1, <2>3
    <3> QED BY <2>1, <2>3, <3>1 DEF Owed, Own
  <2> QED BY <2>2, <2>3
<1> QED BY <1>1, <1>2

\* A handler that starts owes what its acceptance put in service.
LEMMA TakeSticksNothing ==
  ASSUME Inv, if_flag, boot \notin {"gates", "stubs"}, NEW v \in Vectors, Take(v),
         in_service' \subseteq in_service \cup Own(v)
  PROVE  Stuck' \subseteq Stuck
<1>1. frames = <<>> /\ v \in gates
  BY DEF Inv, Alone, Booted, Typed
<1>2. frames' = <<v>> /\ stage' = "dispatch"
  BY <1>1 DEF Take
<1>3. Owed = {} /\ Owed' = Own(v)
  BY <1>1, <1>2, OwedWhenAlone, OwedNext
<1> QED BY <1>3 DEF Stuck

\* A step of a handler: the EOI ends what it gives up.
LEMMA HandlerSticksNothing ==
  ASSUME Inv, boot \notin {"gates", "stubs"}, HandlerStep
  PROVE  Stuck' \subseteq Stuck
<1>1. PICK v \in Vectors : frames = <<v>>
  BY DEF Inv, Alone, HandlerStep, Dispatch, Driver, Eoi, Iret
<1>2. Head(frames) = v /\ v \in isr_stubs
  <2>1. Vectors \subseteq isr_stubs
    BY <1>1 DEF Inv, Booted, Typed
  <2> QED BY <1>1, <2>1
<1>3. CASE Dispatch \/ Driver
  <2>1. /\ in_service' = in_service /\ frames' = <<v>>
        /\ stage # "iret" /\ stage' # "iret"
    BY <1>1, <1>2, <1>3 DEF Dispatch, Driver
  <2>2. Owed = Own(v) /\ Owed' = Own(v)
    BY <1>1, <2>1, OwedWhenAlone, OwedNext
  <2> QED BY <2>1, <2>2 DEF Stuck
<1>4. CASE Eoi
  <2>1. frames' = <<v>> /\ stage = "eoi" /\ stage' = "iret"
    BY <1>1, <1>4 DEF Eoi
  <2>2. Owed = Own(v) /\ Owed' = {}
    BY <1>1, <2>1, OwedWhenAlone, OwedNext
  <2>3. in_service' \subseteq in_service
    BY <1>4 DEF Eoi, pic_send_eoi
  <2>4. (in_service \ in_service') \cap Own(v) = in_service \cap Own(v)
    BY <1>1, <1>4, EoiEnds
  <2> QED BY <2>2, <2>3, <2>4 DEF Stuck
<1>5. CASE Iret
  <2>1. frames' = <<>> /\ stage = "iret" /\ in_service' = in_service
    BY <1>1, <1>5 DEF Iret
  <2>2. Owed = {} /\ Owed' = {}
    BY <1>1, <2>1, OwedWhenAlone, OwedNext
  <2> QED BY <2>1, <2>2 DEF Stuck
<1> QED BY <1>3, <1>4, <1>5 DEF HandlerStep

\* Once irq_init has run, whatever an 8259 puts in service is ended: no line
\* gets stuck any more.
THEOREM NoLineSticks ==
  ASSUME 7 \notin Lines, 15 \notin Lines
  PROVE  Spec => NoLineSticksAfterInit
<1>1. Init => Inv BY InitInv
<1>2. Inv /\ [Next]_vars => Inv' BY NextInv
<1>3. Inv /\ [Next]_vars =>
        [boot \notin {"gates", "stubs"} => Stuck' \subseteq Stuck]_vars
  <2> SUFFICES ASSUME Inv, Next, boot \notin {"gates", "stubs"}
               PROVE  Stuck' \subseteq Stuck
    OBVIOUS
  <2>1. CASE MainStep \/ \E l \in Lines : Raise(l)
    <3>1. in_service' \subseteq in_service /\ frames' = frames /\ stage' = stage
      BY <2>1 DEF MainStep, PicInit, PicSti, IsrInit, IrqInit, InstallCli, InstallSti, Raise
    <3>2. Owed' = Owed
      BY <3>1 DEF Owed
    <3> QED BY <3>1, <3>2 DEF Stuck
  <2>2. ASSUME NEW l \in Lines, Accept(l) PROVE Stuck' \subseteq Stuck
    <3>1. l \in Vectors
      BY LineFacts
    <3>2. if_flag /\ Take(l) /\ in_service' \subseteq in_service \cup Own(l)
      BY <2>2 DEF Accept, Asks, Own
    <3> QED BY <3>1, <3>2, TakeSticksNothing
  <2>3. ASSUME NEW l \in Noisy, Withdraw(l) PROVE Stuck' \subseteq Stuck
    <3>1. Spurious(l) \in Vectors
      BY LineFacts, InterruptsAssumption
    <3>2. Through(l) \subseteq Own(Spurious(l))
      BY DEF Own, Through, Spurious, Master
    <3>3. if_flag /\ Take(Spurious(l)) /\ in_service' \subseteq in_service \cup Own(Spurious(l))
      BY <2>3, <3>2 DEF Withdraw, Asks
    <3> QED BY <3>1, <3>3, TakeSticksNothing
  <2> QED BY <2>1, <2>2, <2>3, HandlerSticksNothing DEF Next
<1> QED BY <1>1, <1>2, <1>3, PTL DEF Spec, NoLineSticksAfterInit

\* The registers and tables stay in their ranges.
THEOREM InterruptTypes ==
  ASSUME 7 \notin Lines, 15 \notin Lines
  PROVE  Spec => []TypeOK
<1>1. Init => Inv BY InitInv
<1>2. Inv /\ [Next]_vars => Inv' BY NextInv
<1>3. Inv => TypeOK
  <2> SUFFICES ASSUME Inv PROVE TypeOK OBVIOUS
  <2>1. cursor \in 0 .. 15 \/ cursor \in 1 .. Len(Drivers) + 1
    BY DEF Inv, Typed
  <2>2. /\ frames \in Seq(Vectors)
        /\ stage \in {"none", "dispatch", "driver", "eoi", "iret"}
    <3>1. CASE frames = <<>> /\ stage = "none"
      BY <3>1
    <3>2. CASE ~(frames = <<>> /\ stage = "none")
      <4>1. PICK v \in Vectors : frames = <<v>>
        BY <3>2 DEF Inv, Alone
      <4>2. stage \in {"dispatch", "driver", "eoi", "iret"}
        BY <3>2 DEF Inv, Alone
      <4> QED BY <4>1, <4>2
    <3> QED BY <3>1, <3>2
  <2> QED BY <2>1, <2>2 DEF Inv, Typed, TypeOK
<1> QED BY <1>1, <1>2, <1>3, PTL DEF Spec

=============================================================================
