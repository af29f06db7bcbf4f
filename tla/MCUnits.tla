------------------------------ MODULE MCUnits -------------------------------
(***************************************************************************)
(* Model checking of the components that share no state with another one:  *)
(* the parsers and printers of frames, the block moves, the conversions,   *)
(* the random numbers, the keyboard with donut, the heap with its clients, *)
(* and the pages.  A behaviour chooses its unit at the start and runs that       *)
(* specification; the other variables keep their initial values.           *)
(***************************************************************************)
EXTENDS Frames, BlockMove, Printf, Random, Keyboard, KernelMemory, Paging

MoveContents == [a \in Addresses |-> a]
IntSeeds == -(IntMax + 1) .. IntMax
PrintedNumbers == {-1, 0, 7, 13}
PrintedDoubles == {-896, -64, 0, 64, 160, 352, 2559}   \* of 1 / 256
BufferLengths == 0 .. 8

VARIABLE unit

allVars == <<frameVars, moveVars, printfVars, randVars, keyboardVars,
             memoryVars, pagingVars, unit>>

UnitsInit ==
  /\ unit \in {"frames", "move", "printf", "random", "keyboard", "memory", "paging"}
  /\ FramesInit /\ MoveInit /\ PrintfInit /\ RandInit /\ KeyboardInit /\ MemoryInit
  /\ PagingInit

InFrames ==
  /\ unit = "frames" /\ FramesNext
  /\ UNCHANGED <<moveVars, printfVars, randVars, keyboardVars, memoryVars, pagingVars, unit>>
InMove ==
  /\ unit = "move" /\ MoveNext
  /\ UNCHANGED <<frameVars, printfVars, randVars, keyboardVars, memoryVars, pagingVars, unit>>
InPrintf ==
  /\ unit = "printf" /\ PrintfNext
  /\ UNCHANGED <<frameVars, moveVars, randVars, keyboardVars, memoryVars, pagingVars, unit>>
InRandom ==
  /\ unit = "random" /\ RandNext
  /\ UNCHANGED <<frameVars, moveVars, printfVars, keyboardVars, memoryVars, pagingVars, unit>>
InKeyboard ==
  /\ unit = "keyboard" /\ KeyboardNext
  /\ UNCHANGED <<frameVars, moveVars, printfVars, randVars, memoryVars, pagingVars, unit>>
InMemory ==
  /\ unit = "memory" /\ MemoryNext
  /\ UNCHANGED <<frameVars, moveVars, printfVars, randVars, keyboardVars, pagingVars, unit>>
InPaging ==
  /\ unit = "paging" /\ PagingNext
  /\ UNCHANGED <<frameVars, moveVars, printfVars, randVars, keyboardVars, memoryVars, unit>>

UnitsNext ==
  InFrames \/ InMove \/ InPrintf \/ InRandom \/ InKeyboard \/ InMemory \/ InPaging

\* Donut runs on until it waits, the clock ticks, and a loop that looks at the
\* clock again and again sees it late at some time.
UnitsFairness ==
  /\ WF_allVars(unit = "keyboard" /\ DonutStep /\ InKeyboard)
  /\ SF_allVars(unit = "keyboard" /\ WakeStep /\ InKeyboard)
  /\ WF_allVars(unit = "keyboard" /\ Tick /\ InKeyboard)

UnitsSpec == UnitsInit /\ [][UnitsNext]_allVars /\ UnitsFairness

=============================================================================
