# DonutOS in TLA+

DonutOS is a 32-bit x86 hobby kernel: a boot loader, interrupt plumbing for two
8259 controllers, a first-fit heap, a bitmap allocator of physical pages, a
round-robin scheduler that runs in the timer interrupt, a driver for the
RTL8139 network card, and a text console with a prompt. This directory models
the parts of it whose correctness depends on *order*: of interrupts against the
code they interrupt, of the card against its driver, of long sequences of calls
against a data structure. Each module translates the C code line by line of
control and abstracts the data; `PROJECT.json` maps every definition to the
lines it stands for.

    tlc -workers 2 -config MCHeap.cfg MCHeap      # any of the MC*.cfg files
    tlapm HeapProofs.tla                          # any of the *Proofs modules

## 1. The system

There is one address space, one processor, and one kernel stack. Concurrency
comes from two places only: an **interrupt handler** may run between any two
instructions of the code it interrupts (gates are interrupt gates, so handlers do
not interrupt each other: this is part of what `InterruptsProofs` proves), and the
**devices** go on while the processor works: the card writes packets and sets
status bits, the keyboard and the timer raise lines.

| component | state | operations | talks to | what is hard | what makes it correct |
|---|---|---|---|---|---|
| heap (`malloc.c`) | chain of chunk headers, `memory_used` | `heap_init`, `malloc`, `calloc`, `free` | called by card, scheduler, PCI; `free` from the timer interrupt | `free` between any two steps of a walk or of a merge; remainders around the header size; fragmentation | chunks tile the heap, a grant is nobody else's, a refusal is right |
| pages (`paging.c`) | `page_bitmap` | `paging_setup`, `alloc_page(s)`, `free_page(s)` | scheduler (stacks of processes) | runs at the end of memory, holes, reserved pages | no page has two owners, none leaks, a refusal is right |
| scheduler (`ctx.c`, `timer.c`) | ring of control blocks, `curr_proc`, `lock_ctx`, `ticks` | spawn, switch, reap, toggle, critical sections, the `process` command | timer and keyboard interrupts, heap, pages | a context switch between the load and the store of a counter; freed blocks that are still linked; wrap of the ticks | mutual exclusion, one ring, contexts not mixed up, only finished processes freed |
| interrupts (`kernel.c`, `pic.c`, `idt.c`, `isr.c`, `irq.c`, `isr_wrapper.s`) | masks and registers of the 8259s, IDT, two tables of handlers | `init_os`, `irq_install`, dispatch, end of interrupt | every driver | interrupts enabled before gates and handlers exist; EOIs that name no line; spurious requests | an end of interrupt ends its own lines, no line stuck in service once the tables are filled, requests served |
| card (`rtl8139.c`) | receive ring, `current_packet_ptr`, `ethHeaders`, `firstHeader`, `nHeaders` | `rtl8139_init`, `rtl8139_irq`, `receive_packet` | heap (copies of frames), packet viewer | packets between two register accesses of the handler; alignment and wrap; a full list of headers | driver and card agree on positions, unread packets stay intact, the list is the last packets in order |
| prompt (`tty.c`, input half) | one-key mailbox, edited row, ring of rows | `tty_read`, line editing, history | keyboard interrupt | the mailbox race; editing in place inside the ring of history | the last key acts, the cursor stays in the line, history keeps its lines |
| screen (`tty.c`, output half, `vga.c`) | `tty_ptr`, `tty_prompt_ptr`, the text buffer | `tty_puts`, `tty_scroll`, echo of the keys | everybody prints, also from interrupts | scrolling invalidates `tty_prompt_ptr`; printing of two threads | the screen is the tail of the text, the echo is the line |
| packet viewer (`tty.c`, `print`) | `selectedIndex`, what was last drawn | one loop that polls mailbox and card | mailbox, list of headers | the list moves while it is drawn | what is shown is what was selected |
| parsers (`rtl8139.c`, `net.h`) | a parsed header over a copied frame | `process_received_packet`, `rtl_printFrame`, `rtl_print_buffer`, the rows of `print` | card, screen | byte order, offsets, unions, fields that only some protocols have | the row on the screen is the field of the frame; only frames that end before their headers are read behind their copy |
| keyboard (`kb.c`) and who listens (`donut.c`, `tty.c`) | modifier bits, `kb_key_handler`, donut's `__quit` and colour | `__kb_handler`, `kb_set_key_handler`, the loop of `donut`, `milisleep` | prompt, viewer, donut, scheduler | a handler that is refused; a key between the test and the use of `__quit`; codes that clash; a clock that wraps | a stroke means what its user meant; whoever waits is listened to; donut ends and gives the colour back |
| the heap's clients (`rtl8139.c`, `ctx.c`, `pci.c`) | areas given out | every `malloc` and `free` of the kernel | heap | a `malloc` in an interrupt during another one; results not tested | every area has one owner |
| block moves (`string.c`) | memory | `memcpy`, `memset`, `memmove` | everybody | overlap, words and the bytes behind them | the destination holds what the source held |
| conversions (`itoa.c`, `atoi.c`, `printf.c`) | `helper_str`, the output | `itoa`, `atoi`, `printf` | all output | buffers one short; state shared by directives; fractions by casts; an output buffer without a test | numbers survive; a format prints as the standard says |
| random numbers (`rand.c`, `math.c`) | three seeds | `srand`, `rand` | `rand` command | overflow while seeding; truncation | the range |
| PCI configuration, timer chip, virtio, boot, blue screen | – | – | – | sequential | see section 7 |

## 2. Modules

| module | of the code | how it reads |
|---|---|---|
| `BlockAllocator` | what `malloc`/`free` promise | abstract: a set of live blocks; grant, refuse, release |
| `Heap` | `malloc.c` | `size` is the chain (header address to chunk size), one step per loop iteration of `malloc`; `Free` is enabled everywhere |
| `HeapProofs` | | invariants and the refinement, proved |
| `Paging` | `paging.c` | one action per call (they run with interrupts off); reads past the bitmap are nondeterministic |
| `PagingProofs` | | proved |
| `Scheduler` | `ctx.c`, `ctx.h`, `timer.c` | `cpu` is the interrupted context, `regs` the saved ones; every load and store of `lock_ctx`, `curr_proc` is a step; handlers are `TimerTick`, `Reap`, `Switch`, spawn and toggle |
| `SchedulerProofs` | | proved |
| `Interrupts` | `kernel.c` start-up, `pic.c`, `isr.c`, `irq.c`, `idt.c`, `isr_wrapper.s` | `boot` is where `main` is; `imr`, `irr`, `in_service` are the 8259s; `frames` the handlers on the stack |
| `Rtl8139` | `rtl8139.c` reception | one action per register access of the handler; `Arrive` is the card |
| `LineEditor` | `tty.c` line and history | no specification of its own: what a key does to the edited row and to the ring of rows |
| `TtyInput` | `tty.c` input | `LineEditor` behind the mailbox: `Press` is the keyboard interrupt, `KeyClear`/`KeyTake`/`KeyAct` are `__tty_handle_key` |
| `TtyScreen` | `tty.c` output, `vga.c` | `LineEditor` and its echo: `cells` is the video memory, `tty_puts` a function from screens to screens |
| `PacketViewer` | `tty.c` `print`, `rtl8139.c` list | one action per block of the loop of `__pctprint_command`; keys and packets come between any two |
| `InterruptsProofs`, `RtlProofs`, `PacketViewerProofs` | | proved; `RtlProofs` holds the proofs of `Frames` too |
| `TtyProofs` | | `LineEditor`, `TtyInput` and `TtyScreen`, proved |
| `Frames` | the parsers and printers of `rtl8139.c`, `net.h`, the rows of `tty.c` | a header is a function from the bytes of the structure to the bytes of the frame; a printed number is a sequence of them |
| `Keyboard` | `kb.c`, `donut.c`, `time.c`, who listens in `tty.c` | one action per key event, one per piece of donut's loop between two accesses of shared state |
| `KernelMemory` | `malloc.c` with `rtl8139.c`, `ctx.c`, `pci.c` | main's `malloc` step by step, as in `Heap`; a handler's `malloc` or `free` whole, between any two of those steps |
| `BlockMove` | `string.c` | one step per iteration of a loop |
| `Printf` | `itoa.c`, `atoi.c`, `strrev`, `printf.c` | recursive functions for the conversions, one step per directive of a format |
| `Random` | `rand.c`, `math.c` | ints of a given width, which wrap; the product with 1.97 truncated either way |
| `UnitsProofs` | | `BlockMove`, `Printf`, `Random`, `Keyboard` and `KernelMemory`, proved |
| `MC*` | | values of the constants; `MCUnits` also puts `Frames`, `BlockMove`, `Printf`, `Random`, `Keyboard`, `KernelMemory` and `Paging` side by side, of which a behaviour runs one |

The card itself, the 8259s and the processor are not in the repository. They are
modelled as the code uses them (level-triggered card interrupt, CAPR minus 16,
WRAP = 1; fully nested priorities, non-specific EOI) and marked external in the map.

Definitions that end in `_Something` beside the one they resemble
(`SwitchCtx_Late`, `IrqAck_None`, ...) are plausible mistakes in the code. None
is part of a specification; each shows that a property notices the mistake
(section 6).

### How state and actions correspond

*Heap.* Addresses are relative to `HEAP_ADDRESS`. A chunk's `size` includes its
header, as in the code; the domain of `size` is exactly the set of addresses
where the walk finds a header, so a merge removes an address from it. `pc`
separates the walk, the merge of following free chunks, and the split, and
`tmp` is `memory_used` between the load and the store of `+=`. `snap` is a
history variable: the live blocks when the call began, needed to say that NULL was
a right answer *for that moment*, since blocks may be freed during the walk.

*Scheduler.* A thread is at a place (`phase`) in its code, inside `depth`
critical sections, with one register that holds a loaded value (`tmp`). Only
the outermost instructions that matter are steps: the load and store of
`CRITICAL_SECTION_START`/`END`, the load of `curr_proc` and the store of `dead`
in `__stub`, and the three accesses of the `process` command. `wild` records
that the timer handler followed a pointer to no control block.

*Interrupts.* Priorities follow the cascade: the slave's lines rank as the
master's line 2. `Dispatch` returns without an EOI while `irq_init` has not yet
filled the entry of the line, as `isr_handler` does. `reset` is the triple
fault of an absent gate. `Withdraw` is a device that takes its request back before
the processor fetches the vector: the 8259 then names its last line and puts
nothing in service, except that the slave's request has put the master's line 2
there. `Owed` is what the handlers on the stack will still end, and `Stuck`
what nobody will.

*Rtl8139.* `rx` records, for each multiple of 4, what starts there. A packet
lost because the ring is full is a packet `Fits` refuses. `array_freed` and
`Clobbered` stand for what the heap may do once `removeFirstHeader` has freed
the array of headers. `missed` counts the packets whose arrival set no new
edge of ROK. `pc` is `"stub"` while `__stub` of `irq.c` answers a request that has no
handler yet: it ends the interrupt and acknowledges nothing to the card, so the
request stands when it returns.

*LineEditor, TtyInput, TtyScreen.* A row is a sequence; bytes behind its end are
never read. `TtyInput` takes keys through the mailbox and shows nothing;
`TtyScreen` takes them whole and shows what they do. An overrun of the
caller's array stops both: what follows depends on the stack layout.
In `TtyScreen` the video memory goes on behind the screen, because the code
writes there before it scrolls and never brings that text back. `stale`,
`astray` and `littered` are history variables: they say that the code's own idea
of where the line begins no longer holds, and why.

*PacketViewer.* The list of headers is the code's array with `firstHeader` and
`nHeaders`; rows of the screen remember which packet was drawn on them. The
loop reads `nHeaders` again at each row, as the compiled code does. The stores of
`tty_has_key_ready` and `tty_last_key` that follow the switch are steps of their own
(`Enter`, `Leave`, `ClearFlag`, `ClearKey`), so a key pressed since the switch is lost.

*Frames.* The value of a byte never matters, only where it comes from, so
`parseTCPHeader` is the set of its stores with the swaps of `<< 8`. The reference
`Wire` says which bytes of a frame hold a field, from the published formats,
and knows nothing of the code. A frame has the length the card reports, which need
not hold the headers it names: `CopyLength` is that length and what `receive_packet`
adds, `Sent` where the sender's bytes end.

*Printf.* A double is a whole number of 1 / `Scale`. The loop of `%f` multiplies by ten,
casts and subtracts, six times; in doubles these steps are exact for multiples of
2^-49, hence for every value whose fraction is given by a `float` of at least 2^-20, and
`Scale` stands for those. A double whose whole part no `int` holds (undefined in
C) is left out. `stage` becomes `"overrun"` with the first store behind `str`.

*Random.* `IntOf` wraps each sum and product as the compiled code does (an overflow is
undefined in C); a product with 1.97 beyond an `int` becomes the smallest one.

*Keyboard.* `down` is what the user holds, `shift` and `caps_lock` are the bits of
`mods`; `stroke` records what was meant and what the program got. `raced` is a
history variable: the last key came between donut's test and its store.

*KernelMemory.* `owned` is a history variable: whose area lies where. `interleaved`
says that a handler's `malloc` came during main's, and `lost` that main, or a
handler, took other bytes for a header: the model stops there. `null_written`
records a write through an untested result. `devices_size` goes on from its last value
when a scan follows one whose `malloc` failed (`pci.c:92-104`).

## 3. What each run checks

| run | expect | question | states |
|---|---|---|---|
| `heap` | pass | Do the chunks tile the heap (`ChunksTileHeap`) with frees anywhere, and is the chain a `BlockAllocator` (`AllocatesBlocks`)? | 122 383 |
| `heap_used` | violation | Is `memory_used` what the `ram` command calls it, the bytes used? | – |
| `paging_tables` | violation | Are the page tables ever given to a client? The last one is | – |
| `scheduler` | pass | `MutualExclusion`, `ContextsOwned`, `RingInOrder`, `NoDanglingPointer`, `OnlyFinishedReaped`, `DeadLosesCpu` | 218 440 |
| `interrupts` | pass | `EoiEndsOwn`, `ResetOnlyBeforeGates`, `NoLineSticksAfterInit`, `TimerServed` | 37 845 |
| `rtl8139` | pass | `InSync`, `UnreadIntact`, `LagIsCoalesced`, `RingOrder`, `RokServed` | 103 611 |
| `rtl_frames` | violation | Is the copy of a frame separate from the list of headers? | – |
| `tty_input` | pass | `WalkStaysInHistory`, `EnteredIsRecorded`, `StartKeepsHistory`, `KeyServed` | 362 632 |
| `packet_viewer` | pass | `ScreenCatchesUp`, `FrameIsHighlighted`, `QuitServed` | 19 179 |
| `tty_screen` | pass | `EchoIsLine`: is what stands on the screen the line being edited? | 741 381 |
| `units` | pass | `ScreenIsFrame`, `OnlyShortFramesOverrun` (Frames); `MovedWhole` (BlockMove); `NumbersSurvive`, `FormatsStandard` (Printf); `DrawnInRange` (Random); `StrokeMeant`, `Listening`, `ColourRestored`, `KeyEndsDonut` (Keyboard); `EveryAreaItsOwn` (KernelMemory); `RunsDisjoint`, `BitmapExact`, `RefusedOnlyWhenNone`, and `OverrunOnlyWhenNone`: a run past the end of memory is given only when no run inside is left (Paging) | 175 215 |
| `rand_range` | violation | Does `rand` stay in `0 .. RAND_MAX` for the seeds `main` uses? | – |

Type correctness is proved for the heap, the pages, the scheduler, the interrupts,
the card and the block moves. For the prompt, the viewer and the screen it is a
conjunct of `WalkStaysInHistory`, `FrameIsHighlighted` and `EchoIsLine`, and proved
with them.
What the less obvious properties show:

- **`AllocatesBlocks`** is the refinement `Heap => BlockAllocator`. A refusal is
  right only up to one byte: the code's comparison is strict, so a gap of exactly
  the size asked for is never used. The abstract specification says so
  (`need + 1`).
- **`MutualExclusion`** rests on `LockCountsDepth`, proved beside it: the only code
  that could come between the unprotected load and store of `lock_ctx` and leave
  the counter changed is another thread, and a thread is switched to only when the
  counter is 0 and comes back only when it is 0 again.
- **`DeadLosesCpu`** has three honest exceptions: the scheduler was switched off,
  the processor followed a wild pointer, or `last_ticks + QUANTUM` is the
  largest tick, after which `now > last_ticks + QUANTUM` is never true again
  (`Frozen`).
- **`LagIsCoalesced`** pins the one-packet-per-interrupt design: the driver is
  behind by exactly the packets that arrived while ROK was already set. It never
  catches up, and when the ring is full of them reception stops.
- **`RingOrder`** holds for every packet up to the one after which the array of
  headers has been freed; from then on an entry is right or written over.
- **`EnteredIsRecorded`** excludes the case in which `history_ptr` is not the
  row being edited, which the code reaches when a recalled line is erased and
  entered.
- **`EchoIsLine`** holds through wrapping, shifting, scrolling and recalling. The
  exceptions it names are what the code does wrong: `tty_prompt_ptr` is not moved
  by a scroll nor set by a command that reads a line itself (`color`), so a recall
  then draws elsewhere; an insertion that pushes the end of the line past the
  screen loses what it pushes; and an Enter pressed in an upper row of a wrapped
  line leaves the rest of it where the next line goes.
- **`FrameIsHighlighted`** and **`ScreenCatchesUp`** hold until a full list gives an
  entry up: then `rtl_printFrame` takes the slot and the list the packet, and a
  change that leaves the length alone is not noticed.

- **`EoiEndsOwn`**: the end of interrupt names no line, and a spurious interrupt is
  ended like a real one. Whatever is ended was the handler's own, or was stuck
  already, because a line that is accepted is above all in service.
- **`ScreenIsFrame`** is an equality: the rows that do not show their field are
  exactly those of `KnownWrong`. It names what the code gets wrong: ARP's opcode and
  two fields of IPv6 keep the order of the wire, so every ARP packet is printed
  as a reply; TCP is read one byte late from the flags on; ICMP over IPv4 is
  printed but never parsed; UDP rows are printed of packets that have no UDP (a
  missing `break`, and the `net` command); options before a transport header are
  not skipped.
- **`MovedWhole`** has one exception, `TailLost`: `memmove` to a higher, overlapping
  address copies its last `n % 4` bytes after the words were written over them
  (`string.c:81-91`). The prompt deletes by moves to lower addresses only.
- **`FormatsStandard`** is an equality with the text of the standard, where `Own` does
  not say that `printf` has its own way: a negative `%d` comes out as the unsigned
  number, and a negative `%f` as that and the characters in front of `'0'`; `%f` is cut
  after six digits where the standard rounds (2 / 3 ends in 6, so `ram`'s percentage,
  `tty.c:426`, may be one low in its last digit), and its width is that of the
  part before the point; `%c` and `%s` ignore theirs. It says too that `printf` runs over
  its buffer of `VGA_SCR_SIZE` characters exactly when that text and its terminator do
  not fit; what the stack does after an overrun is not followed.
- **`DrawnInRange`** has no condition on the seed. `rand` is never negative; it exceeds
  `RAND_MAX` only after a seeding that left `s0` or `s2` far outside, and only an
  overflow of `s0 * RAND_MAX - 1` (`rand.c:31`) does that. Every seed beyond 510
  overflows, and `main` seeds with ticks times a scan code: `rand_range` shows that the
  range then fails.
- **`OnlyShortFramesOverrun`** says which frames the parsers read behind their copy: IPv6
  frames shorter than the headers they name (79 bytes with the checksum for TCP after
  hop-by-hop options, 71 for TCP, 66 for UDP and ICMPv6 after options). The copy has
  eight bytes more than the sender wrote, which is why the byte too many of
  TCP is harmless in a frame with complete headers, and IPv4 and ARP need less than
  the shortest frame.
- **`RokServed`** speaks of the time after `irq_install`. Between the last two steps of
  `rtl8139_init` (`rtl8139.c:111-113`) a request is answered by `__stub` and comes again
  at once; no fairness is assumed of `main` there, and the behaviours in which it never
  installs its handler are among those that are checked.
- **`StrokeMeant`** has three exceptions, which the code makes: a capital H, K, M or P
  is an arrow; the right shift does not shift; caps lock acts on its release.
- **`EveryAreaItsOwn`**: frees from handlers, and a handler's `malloc` before or after
  main's, do no harm. Only a handler's `malloc` between two steps of main's can
  lose the heap, and TLC finds that it does: `lost` is reached.

### Disagreements between the code and its own words

1. `heap_used`: `malloc` counts the request, `free` subtracts the chunk; a block
   that kept a short remainder makes the counter drop below the bytes in use
   (`malloc.c:72`, `:106`), while the `ram` command prints it as "used"
   (`tty.c:426`).
2. `paging_tables`: `USER_PAGES_ADDR` (`paging.h:13`) forgets the page of the
   directory, so the first user page is the last page table.
3. `rtl_frames`: `removeFirstHeader` frees the array of headers when the list is
   first full; the next frame, copied "para processamento separado"
   (`rtl8139.c:62`), is written over it.
4. `rand_range`: what `rand` returns exceeds `RAND_MAX` (`rand.c:17`) for seeds whose
   product overflows. With the code's constants, `srand(45 * 6931)` makes the first
   `rand()` return 4279133, above 4206911.

One more is a fact of a single step and has no run: `pic_remap` ends by writing 0
to the mask registers (`PicInit`), after `pic_set_mask` "disabling irq_line"
(`pic.c:84`), so every line is enabled at the first `sti`.

## 4. Bounds, and why they are enough

- `heap`: 17 bytes, headers of 4, requests of 0, 3 and 13. The requests
  leave remainders shorter than, equal to and longer than a header, 13 + 4 is
  the whole heap (refused by the strict test), and up to four chunks exist, so a
  merge takes several iterations while neighbours are freed. `SizeMod` = 20 is the
  number of values of a `size_t`: `memory_used` wraps.
- Pages (in `units` and `paging_tables`): 11 pages, 3 reserved, runs of 1 to 3 pages, so fragmentation, exact
  fits and the runs that leave memory by one or two pages all occur.
- `scheduler`: three processes (the kernel's and two spawned, so that a block in
  the middle and the last one are both reaped), `QUANTUM` = 1, ticks modulo 6 so
  that the wrap happens, `MaxDepth` = 2 nested sections. `MaxDepth` bounds the
  guard of `StartLoad`; the proofs hold for any value that fits the
  `uint8_t` of `lock_ctx`.
- `interrupts`: the timer and the keyboard on the master, two lines on the slave,
  of which one, the card's, gets a driver, in the order of `init_os`; the loops of `isr_init` and `irq_init` run over all 16 indices.
- `rtl8139`: a ring of 32 bytes (8 places) and a list of 2 headers; packets of 5
  and 9 bytes have different residues modulo 4 and wrap at every offset. CAPR has
  its 16 bits. `unread` is bounded by the ring itself.
- `tty_input`: 3 rows of 3 characters and one character; the ring of rows wraps,
  lines fill their row, and lines of different lengths differ.
- `packet_viewer`: a list of 3 headers of which 2 fit in the window, the
  selection one row below its top (`Above`), and 5 packets: the window scrolls
  and the list wraps.
- `tty_screen`: a screen of 2 rows of 3 cells and lines of up to 3 of two
  characters, so that a line wraps, scrolls the screen and has a character on
  each side of the cursor; outputs of a character, of one in the next row, and of two
  newlines, which may scroll the whole screen away; 12 cells behind the screen. Three
  screens of memory are all that text can reach, since what is printed at once moves
  the cursor by a screen at most (`OutputsAssumption`: a string of `printf` has
  `VGA_SCR_SIZE` characters at most, and none has more than a few newlines). `MaxActs` = 3 lines, outputs or clears in all: two lines are needed to
  recall one, and an output between them moves the second; the keys are bounded
  by the lines only.

- `units`: frames of every protocol the code knows and of others, without options and
  with a unit of them, of lengths on both sides of each `LengthRead` and of the end of
  the headers; 13 bytes of memory, so lengths up to three words with every remainder
  and overlap; ints of 6 bits, so that every value, base 2, 10 and 16, and buffer
  length from too short to ample occurs; formats of up to two directives, since
  what one leaves behind is read by the next; doubles of 1/256 with two digits printed:
  negative, exact, cut and rounded alike, a tie, a carry into the whole part; an output
  buffer of 16 characters, which two directives of width 12 overrun and others fill to
  the last; `RAND_MAX` 1000 against ints of 14 bits, all of them as seeds, six draws;
  ticks modulo 6 and a pause of 2, so that the clock wraps during a pause; a heap of 17
  bytes with headers of 1, room for the table, the ring, the list and two or three
  frames or blocks more, with both packets arriving during one scan of the bus. A
  request for the table that no heap satisfies grows no further. The offsets
  of `Frames` are those of the code.
- `rand_range`: the same ints, with seeds that are not negative; the violation needs
  one draw.

Deadlock is checked for the heap and the packet viewer. It is not for the others, because
these systems may really stop: the processor is reset by a missing gate
(`interrupts`), the card receives nothing more once its ring is full of packets
whose interrupts were lost (`rtl8139`), a wild pointer or an overrun ends what is
modelled (`scheduler`, `tty_input`, `tty_screen`), a move, a format or a number is
done, and a lost heap is not followed (`units`).

## 5. Fairness

- `Heap`: the steps of `malloc` are weakly fair: handlers return to the code they
  interrupted, so a call that began goes on. `AllocatesBlocks` needs it, because the
  abstract allocator answers every request. Clients owe nothing.
- `Scheduler`: the timer ticks for ever and a handler that began ends; no
  fairness of threads, which may stay in a critical section as long as they like.
- `Interrupts`: `main`, handlers and the acceptance of a request are weakly fair:
  a processor executes instructions and takes a request that is enabled. Devices
  may stay silent.
- `Rtl8139`: the processor takes a request that stands and goes on with its handler,
  `__stub` or `rtl8139_irq`. Of `rtl8139_init` nothing is asked, and the network owes no
  packet.
- `TtyInput`: `tty_read` goes on once called; the user owes no key.
- `PacketViewer`: the loop goes on; neither the user nor the network owes anything.
- `units`: the pieces of donut's loop go on and the clock ticks (weak fairness); the
  loop of `milisleep` looks again and again at a clock that wraps, and sees it past
  its end at some time (strong fairness of `Wake`): with a pause of 15 of 2^32 ticks
  the loop runs millions of times inside the window in which it would leave. The
  other units have safety properties only.
- `TtyScreen` has safety properties only and assumes none.

## 6. Proofs

TLAPS proves, for every value of the constants that satisfies the named
assumptions:

- `HeapProofs` (from `HeapAssumption`, `RequestsAssumption`): `HeapSafe`, the
  invariants of the run, and `HeapAllocatesBlocks`, that the initial state and
  every step of the chain are those of `BlockAllocator`, or a stutter. For the
  first the inductive invariant is `HeapInv`: tiling and room for headers, and
  `Cursor`, what malloc's pointers are at each of its loops. `p` is a header, and
  a free one from the merge on: an interrupt may only make more chunks free, so
  the chunk malloc stands on cannot be taken from it. The refinement needs
  `RefInv`, which adds `Ahead`: the live blocks of a call are among those it
  started with, and if the heap had a gap long enough for it then, such a gap
  still lies ahead of `p`. Without it a refusal could not be justified, since the
  walk looks at each chunk at a different moment. `HeapCallsEnd` bounds a call: a
  measure of what malloc has not looked at (`StepsLeft`, at most `4 * HeapSize + 1`)
  falls with each of its steps and rises with no free of a handler. That a call is
  *answered* needs the fairness of `MallocStep` besides and stays with TLC.
- `PagingProofs` (from `PagingAssumption`): `PagingSafe` and `OverrunIsLast`. The
  inductive invariant is the conjunction of the run's invariants: the exact
  bitmap is what keeps a new run apart from the others. Two lemmas carry the
  scan: an accepted run is free, and a free run is accepted, whatever the bits
  past the bitmap read as.
- `SchedulerProofs` (from `SchedulerAssumption`): `SchedulerMutualExclusion`,
  `SchedulerRing`, `ContextsStayOwned`, `NothingDangles`, `SchedulerReapsFinished`. The inductive invariant `SchedInv`
  says that a saved context left no section open and belongs to its process
  (`ContextsInv`), what a pending load holds at each place (`ContextOK`), that
  `curr_proc` is the running thread or NULL (`PointersInv`), that a ring under
  construction has its last block in `lst_proc` (`SpawnInv`), and that a dead flag
  means a process that returned (`DeadInv`). One lemma, `ThreadStepEffect`, bounds
  what any instruction of a thread can do; the handlers are treated one by one.

- `InterruptsProofs` (from `InterruptsAssumption`, and no device on lines 7 and 15,
  the ones an 8259 names for a spurious request): `EndsOwn`, `ResetsEarly`,
  `NoLineSticks`, `InterruptTypes`, for every set of lines, noisy or not, and any
  order of drivers. The inductive invariant: at most one handler runs, with
  interrupts off (`Alone`); how far the loops of `isr_init` and `irq_init` came
  (`Booted`); and the lines a handler has to end are the highest in service of their
  chips (`OwnFirst`), which is what makes an EOI without a line number right. With a
  device on line 7 whose line got stuck at boot, the end of a spurious interrupt would
  end another line than the one it seems to own: the assumption is needed. No driver
  of the repository uses either line.
- `RtlProofs` (from `Rtl8139Assumption`, `ExtentAssumption`): `DriverInSync`,
  `UnreadStaysIntact`, `LagIsExact`, `HeadersInOrder`, `ReceptionTypes`, for every size of the
  ring that is a multiple of 4 and divides 2^16, all lengths shorter than the ring and
  any number of headers. Places are measured from where the card reads CAPR
  (`Dist`), so that the wrap disappears: the packets not taken stand in order there
  (`Ordered`), each where the one before it ends (`Chained`). The list of headers
  is a second invariant on top (`RingInv`).
  *Parsers and printers* (`Frames`, from `FramesAssumption`): `OverrunsAreShortFrames`,
  that for every length the card may report a field is read from behind the copy of the
  frame exactly if the frame is IPv6 and shorter than its kind asks for, and never if its
  headers are complete, and
  `ScreenShowsTheFrame`, that `KnownWrong` is exactly what a screen shows wrong, for
  options of any length. The invariant (`ScreenInv`) says that the screen is clear or
  shows rows that are told right but for the exceptions (`Told`), a relation between
  rows and structure that holds for parts (`ToldPart`) and for rows put together
  (`ToldTogether`). A row is followed through three steps: each parser keeps or turns
  the order of its bytes (`Parsed...`), `process_received_packet` moves what it stored
  to its place in the structure (`HeadersStand`), and a number printed from bytes that
  were turned shows them as they were sent (`NumberShown`). For the rows that are
  wrong, the most significant byte tells them from what they should be (`TopTells`).
- `PacketViewerProofs` (from `ViewerAssumption`): `EnterShowsTheSelected`, the frame
  that Enter prints is the one that was drawn as selected, and `ScreenShowsTheList`,
  for every size of the list and of the window and any order of arrivals and keys.
  The inductive invariant: the list is filled up to `nHeaders` and moves only when it
  is full (`ListFilled`); from the drawing to the test of the key the selection is the
  one that was drawn (`Drawing`); the packet on the highlighted row is the one at
  `selectedIndex` until the list moves (`LitFollows`); each row of the screen shows the
  packet of its slot, up to the row whose addresses are still to come (`RowsFollow`);
  and a drawing ends only when the list or the window is used up (`RowsComplete`).
- `TtyProofs`, two parts.
  *History* (from `LineEditorAssumption`): `WalkingStays`, `EnteredLinesAreRecorded`,
  `StartingKeepsLines`, for every number and size of rows and any interleaving of key
  interrupts with `tty_read`. The invariant says that the row being edited is never
  newer than the newest (`RingInv`) and that what `tty_read` copied is in its row until
  the next call (`LineInv`). Rows are compared by `Age`, their distance from the oldest,
  so that the wrap disappears.
  *Screen* (from `ScreenAssumption`, `CharsAssumption`, `OutputsAssumption`):
  `EchoShowsTheLine`, for every size of the screen, length of a line, text that is
  printed and order of keys. The property has to be strengthened much (`EchoInv`): the
  cursor never leaves the line to the left, nor the screen by more than a line
  (`Reached`), which is what keeps deletions inside the memory even where the
  echo has gone wrong; unless it has, the line stands in the cells that begin
  `input_ptr` before the cursor and ends on the screen (`Fits`), those cells begin at
  `tty_prompt_ptr` unless that is stale, and the screen is blank behind the line unless
  other text was left there (`Clean`). Around it: where a text goes that is written
  (`TextWritten`, by the least number at which it would go elsewhere), by how many rows
  `tty_update_cursor` scrolls (`GapIs`), and that a line moves with the screen
  (`FitsUpdated`). The assumptions ask for a line that fits on the screen with a row to
  spare and twice over: 512 and 2000 in the code. Without the spare row a line that
  is redrawn could scroll its own beginning away.
- `UnitsProofs`, one part for each component that shares no state with another:
  *Block moves* (from `BlockMoveAssumption`): `MovesWhole` and `MoveTypes`, for every
  memory, length and overlap. The invariant says which part of the destination
  holds its final bytes at each loop (`Progress`), and that what the loop will read
  was not written yet (`Forth`).
  *Conversions* (from `PrintfAssumption`: bases from 2 to 16; `itoa` accepts up to 36,
  but nothing in the kernel asks for more than 16): `NumbersComeBack`, for every width
  of `int`, number and buffer of two characters or more. What is left of the number
  after so many turns (`LeftIs`) falls to zero (`LeftShrinks`); it is the number divided
  by that power of the base (`LeftDivides`), so that it is zero within the buffer exactly
  when the number is below that power (`FitsIs`); the digits, once
  reversed (`ReversedIs`), are worth the number (`WrittenIs`); and `atoi`, which skips
  the blank and the sign (`PrefixedIs`) and wraps at each digit, agrees with that
  number modulo the range of an `int` (`ReadBack`), in which two ints that agree are
  equal (`SameInt`).
  *Formats* (from `FormatAssumption` besides: an `int` holds the widths of the formats
  and the whole part of each double, and `helper_str` every `int`): `FormatsComeOut`, for
  formats of any length, all their arguments, every precision and length of the output
  buffer and whatever `helper_str` holds before. The invariant (`FormatInv`) says that
  what is left of the format is what the directives not yet done are written with, and
  that the output is what the standard prints for those done, unless one of them is
  `printf`'s own (`Upto` joins as many sequences, `FurtherJoined` adds one). One directive
  is read as it was written (`DirectiveRead`: the digits collected end where its letter
  begins), and adds what the standard asks for (`FieldAdded`), because `itoa` writes the
  shortest numeral (`ItoaShortest`) and the loop of the fraction the digits of the value
  cut off. That nothing before the end overruns follows because the text only grows.
  *Random numbers* (from `RandomAssumption`: the seeds whose product fits lie close to
  0 compared with `RAND_MAX`, and that to 0 compared with the largest `int`):
  `RandStaysInRange`, for every seed, by bounds on the distance of the three seeds
  (`Near`).
  *Keyboard*: `StrokesAreMeant`, `ProgramsListen`, `ColourComesBack`, for every
  pause, every set of colours and every order of strokes. The bits of `mods` follow
  the keys (`ModsFollow`); who may find a handler installed (`HandlerInv`); and the
  colour on top of it (`ColourInv`).
  *The heap with its clients* (from `MemoryAssumption`): `AreasHaveOneOwner`, for every
  heap and any mallocs and frees of handlers between the steps of main's. The invariant
  (`MemoryInv`) speaks of the chain as it will be once main has closed the chunk it is
  splitting (`Closed`), because in between the chain has a hole, across which no
  handler's walk may go: that chain tiles the heap, its taken chunks are the owned
  areas and main's own (`Owners`), and main stands on a free chunk unless a handler's
  malloc came between (`Walking`). The theorem includes that the heap is lost only
  after such a malloc.

The inductive invariants were checked by TLC on the runs before they were proved.
Induction over data is out of the provers' reach, because the library's induction
theorems take an operator. The proofs that need it (the walk of a text, the walk of
the chain, the digits of a number) take the least element of a set instead, which
`WellFoundedInduction` gives as a fact about sets: in `UnitsProofs`, `Climbs` is
induction over a set of numbers, and `Recursion` says that a function given by its
first value and a table of steps exists and has them as its equations.

Only model-checked: liveness (`DeadLosesCpu`, `TimerServed`, `RokServed`, `KeyServed`,
`QuitServed`, `KeyEndsDonut`, and of `AllocatesBlocks` that a call is answered), which
TLAPS does not handle under fairness. Every other property of a passing run is stated by a theorem.

Each property of a passing run is also run against a mutated definition, named in
`PROJECT.json` under `mutants`, and must then fail.

## 7. Not modelled

- The stack: `isr_common` never loads `esp` from the saved registers and all
  processes share one stack. A context in `Scheduler` is a place in the code.
- The overlap of the heap with the page tables and user pages (`malloc.h:6`,
  `paging.h:9-13`): a fact about constants; what follows is memory corruption.
- `calloc` (a `malloc` and a store loop, never called).
- In `KernelMemory`: what follows a lost heap or a write through NULL, and the packet
  after a full list, which frees the list (`rtl_frames` shows that one).
- Processor exceptions; the other modifier bits, which nothing reads; the
  prefix 0xE0, which `kb.c` takes for the release of a key 0x60, and what follows it.
- Of the output: the escape sequences, which only the donut prints, the carriage
  return and the colours of single cells; two outputs mixed character by character
  (the steps of `TtyScreen` are whole operations). Only the test processes of
  `ctx.c`, and the line the keyboard's handler prints about them, print beside main.
- Of `printf`: a format that ends in `%`, which reads past its end. Of `string.c`:
  `strlen`, `strcpy`, `strcat`, `strcmp`, single loops over a terminated string.
- Contents of page tables, values of the bytes of frames, pixels, the hexadecimal
  dump of the receive buffer: data.
- Transmission: the driver has none. `virtio_net.c`: nothing calls it.
- The boot loader, the port instructions, the timer chip's three writes, PCI's
  configuration space, the blue screen: straight-line code with no state another
  component depends on.

## 8. Plan

What is left, in order of importance:

1. `Terminal`: the abstract endless text of which the screen is the tail, with
   `TtyScreen`, its characters and the critical sections of `Scheduler`, against it.
   The lemmas on `TextWritten` and `UpdateCursor` are those its refinement needs.
2. The list of headers as an implementation of a bounded queue that forgets its
   oldest entry, from `RingInv` of `RtlProofs`.
3. The escape sequences of `tty.c` and the colours of cells.
