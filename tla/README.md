# Verification of the RISC-V MOS

TLA+ modules, TLC configurations and TLAPS proofs for the operating system of
the RISC-V Blitter board (`src/src/roms/mos`): a BBC-Micro-like MOS with a VDU
driver, a keyboard driver, buffers, a clock, a debugger target and the trap
kernel that programs enter by `ecall`. Paths below are relative to `src/src`.

* [The system](#the-system)
* [Modules](#modules)
* [Runs](#runs)
* [Fairness](#fairness)
* [What is proved](#what-is-proved)
* [Where code and text disagree](#where-code-and-text-disagree)
* [What is not modelled](#what-is-not-modelled)
* [Plan](#plan)
* [Running it](#running-it)

## The system

There is one hart. Three activities nest on it: the user program (or the
supervisor prompt), the MOS on behalf of an `ecall`, and interrupt handlers,
which may enter either of them between two instructions; a handler of the
program (the escape handler) may run inside the interrupt and make ecalls of
its own. There is no scheduler and there are no locks: what keeps the
activities apart is `interrupts_disable`, where it is called.

| component | state | operations | what is hard |
|---|---|---|---|
| trap kernel and ecall dispatch: `interrupts_hazard3.S`, `mos.c` | the MOS stack, `user_stack_frame`, `user_error_pend`, the error block, `meicontext` | ecall entry and the three ways out, interrupt entry, preemption, NMI | one stack and one error slot for all nested calls |
| ring buffers: `buffers.c` | nine rings, in and out indices | INSV, REMV, CNPV, flush | the interrupt inserts while the program removes |
| escape: `buffers.c`, `osbyte.c` | `ESCAPE_FLAG`, the handler's copy | press, RDCHV, OSBYTE 124, 125, 126 | read-modify-write of a flag that the interrupt sets |
| keyboard: `keyboard.c` | two key codes, semaphore, timers, status | CA2 interrupt, 100Hz poll, translation | keys move while the handler looks at them |
| clock: `osword.c`, `mos.c` | two copies of TIME and a switch | tick, OSWORD 1 and 2 | five bytes, copied with interrupts on |
| line input: `osword.c` | the line, its index, the echo | OSWORD 0 | buffer and screen are two copies of a line |
| text screen: `vdu.c` | VDU queue, cursor, start of the screen, CRTC | the VDU codes | a scroll moves the start, addresses wrap |
| debugger target: `deice.c` | `combuf`, saved registers | nine functions over a serial line | frames lose and change bytes; the reply is built over the request |
| interrupt dispatcher: `mos.c`, `vidula_set` and the palette in `vdu.c` | flags of the VIA, flash timer, the video register and its copy, the mask | one source per call; set the video register, VDU 19 | priorities; the flash against the program; nested masks |
| colours and graphics: `vdu.c` | colours, palette, masks, window, origin, cursor, the line in progress | VDU 17 to 20, 24 to 26, 29 | an address that is stepped and not computed; masks computed ahead of their use |
| handler table: `handlers.c` | 17 functions and their data | set, get, the default error and exit handlers | programs replace handlers and end without putting them back |
| supervisor: `main.c`, number parsing in `mos.c` | the line | prompt, `*` commands | numbers in any base with overflow |
| BBC BASIC: `bbcbasic/RISCVBAS.S` | program, variables, stacks | an interpreter | a client of all of the above |

They interact as follows. The timer and key interrupts run the poll and the
scan of the keyboard, which insert characters with INSV or set the escape flag
and call the escape handler. RDCHV removes with REMV and looks at the flag in
every turn; OSWORD 0 calls RDCHV and echoes through WRCHV to the VDU; OSBYTE
126 flushes buffers, and the flush of an input buffer drops a half-sent VDU
sequence. The supervisor calls OSWORD 0 for a line, OS_READUNS for a number and
OS_HANDLERS' table for where to go on. The frame interrupt calls `vidula_set`, as
mode changes do. All of these are called through the trap kernel, and a trap that no
one expects enters the debugger.

What makes each correct:

* *trap kernel*: frames are the live traps in order; a call is answered with
  its own outcome, whatever is called meanwhile; interrupt levels are restored;
  the stack suffices.
* *buffers*: each is a bounded FIFO with atomic operations; the mask is
  restored on every path.
* *escape*: a press is not lost; what was typed before it is not read after its
  acknowledgement; it ends a read that waits.
* *keyboard*: it never goes dead; a key held is typed; a bounce is not.
* *clock*: reads are times, count the ticks, and return what was set.
* *line input*: what is seen is what is returned.
* *dispatcher*: no tick is lost; the video register and its copy agree whenever an
  interrupt may come; colours flash on, each for a whole phase; a mask taken inside a
  mask does not release it.
* *supervisor, numbers, handlers*: a line runs what its first word names; a number
  is the numeral the string starts with; handlers put back are as before; the prompt
  returns.
* *colours and graphics*: a line is its nearest points in the window, and the steps
  of the address stay with the coordinates and in the memory of the screen; registers
  and masks show the colours asked for, after any sequence of commands.
* *text screen*: however scrolled, it is a grid with a cursor; nothing is drawn
  outside it.
* *debugger target*: a changed frame does nothing, a whole one is served once.

## Modules

Each component has a module with its state, one action per operation or per
memory access of it, and its properties; an `MC` module has the values for TLC.
Operators named `Bug_...` are plausible mistakes: replacing the definition of
the same name by one shows that a property notices. No definition uses them.

**`Buffers`** (`buffers.c`). Each memory access of INSV, REMV, CNPV and
`buffers_flush` is a step of the context that runs it, `"main"` or `"irq"`; a
context's `call` record holds the C locals. The interrupt may enter between any
two steps while the IRQ is not masked, and runs to its end. Either context may
run any operation, since an escape handler may issue any OSBYTE. REMV's byte
offsets wrap at `ByteSize`. `BufferFifo` is the promise: sequences, on which each
call acts at one instant. `Content` maps the rings to it.

**`Clock`** (`osword.c` 54-80, the tick of `mos.c`). `time[5]` and `time[10]` are
the copies. A byte of OSWORD 1 or 2 is a step, a tick is one. `predict`,
`want` and `shown` are history: what an undisturbed read must return, what was
set, and what the clock showed during the call.

**`Interrupts`** (extends `Clock`; `IRQ1V` in `mos.c`, `vidula_set` and the palette in
`vdu.c`). An interrupt is two steps, `Enter` (up to the clearing of the flag, for those
cleared first) and `Leave...`; sources pulse at any point between. `vidula_set` and
VDU 19 are one step per store, under the mask with its saved values in `saved`.
`owed` counts centiseconds that have pulsed and are not yet in the clock, `frames` the
frames served since the register was last written, by a flash or by the program. The clock calls of `Clock` run under it.

**`KeyChars`** and **`Keyboard`** (`keyboard.c`). `KeyChars` translates a key and a
status to a character, with the code's three exclusive-or steps, as pure
operators. In `Keyboard` the handler is masked, so it is alone, but each of its
looks at the matrix is a step and keys go down and up in between. The VIA and
its auto-scan are the environment.

**`Escape`** (RDCHV in `buffers.c`, OSBYTE 124-126). Each access to
`ESCAPE_FLAG` is a step of the program, the keyboard interrupt is one step. The
buffer is the atomic FIFO that `Buffers` is proved to implement. A character is
known by how many escapes came before it.

**`LineInput`** (OSWORD 0). A turn of the loop is a step. The VDU is its
environment: it prints, deletes or swallows the parameters of a control code.
`LineEdit` is the promise: a line, characters added and removed at its end.

**`Numbers`** (`mos_read_unsigned`). Pure operators in the order of the code: bases,
prefixes, flags, the wrap at `WORD`. Beside them, what a numeral is, by its digits and
their powers, without reference to how it is read.

**`Session`** (extends `LineInput` and `Numbers`; `main.c`, `handlers.c`, OS_HANDLERS and
OS_READUNS). `at` says who runs: OSWORD 0, a program, or the handler that is to be called.
The supervisor takes the line that `LineInput` returns, finds its command and jumps; the
program installs and puts back handlers, reads numbers, and ends by an error or a
return; `table` is `active_handlers`, with each entry known by whose code it is. An
entry of a program that has ended stays, as in the code.

**`DeIceProtocol`** and **`DeIce`** (`deice.h`, `deice.c`). The promise gives for each
request, memory and registers the effect and the replies. `DeIce` reads a frame
a byte at a time into `combuf`, checks its sum and builds the reply in the same
buffer in the code's order, while the host sends frames that lose or change a
byte, run together, or come while the target sends.

**`Ecall`** (`interrupts_hazard3.S`, `mos_enter_ecall`). An entry is a step, as
traps enter with interrupts off, and so is an exit; between them are the steps
at which an interrupt may come, among them the two stores of an error (number,
message). A part of the exit runs with interrupts on (`interrupts_hazard3.S` 141-201);
it reads the error slot, which an interrupt changes only by an error of its own, so that
the one step is exact for `NestedRaise = FALSE`. Calls are plain (an error runs the error handler) or of the XOS form
(it comes back in a7). `due` is what the program should be told, `got` what it
was. Frames grow downwards from `TOP`.

**`TextScreen`** and **`VduText`** (`vdu.c`). Addresses count character cells;
the record `t` has the VDU variables that the text routines use and the
registers of the CRTC. A byte given to `vdu_write` is a step, split by whether a
sequence is being collected. `TextScreen` is the promise: a grid, a cursor, rows
that move up; VDU 8 goes back and VDU 127 goes back and blanks. `Shown` maps the memory to it. `VDU_STATUS` stays 0, as no routine
sets it, so the branches for VDU 5, soft scrolling, text windows and cursor
editing, most of them empty, are left out.

**`Colours`** (`vdu.c` 17-88, 432-553, 1396-1505). A byte is the set of its bits that are 1.
A colour command is a step. `asked` is history: the colours and operations last asked
for; `LooksUp` is the video ULA: which registers a pixel of a colour looks up.

**`Graphics`** (extends `Colours`; the rest of the graphics of `vdu.c`). A VDU 25 is a step
up to the first point, `DrawStep` a turn of the line drawer's loop, `MoveCursor` the
end. `spot` is the triple of address, scan line and pixel mask that the drawer moves; as
in the code it is kept from one plot to the next, and a dotted line that starts outside
the window begins at it. It is `NoSpot`, any place at all, until a point is computed in
the mode. `Where` is what `_LD85D_calcpoint` computes from coordinates; `drawn` is history. The
screen scrolls between plots, windows and origins are set, and modes change.

## Runs

Where an invariant is a conjunction of named parts, the runs check the whole:
`MaskInv` is `ITypeOK`, `MaskHeld` and `CopyAgrees`; `HandlerInv` (`Escape`) is `TypeOK`
and `HandlerInStep`; `HandlersInv` (`Session`) is `STypeOK` and `PutBackRestores`;
`SpotInv` is `TypeOK`, `WindowOnScreen`, `SpotFollows` and `DrawnInMemory`; `ColoursShown` is `PaletteShown`,
`TextShown` and `PlotsAsAsked`; `AttendedInv` is `TypeOK`, `Attended` and `TwoKeys`;
`CursorInv` is `TypeOK` and `CursorShown`.

| run | shows | bounds, and why they suffice |
|---|---|---|
| `buffers` | with interrupts between any two accesses the rings are FIFOs (`RefinesFifo`), no local is stale, the mask brackets every call and is always released | an input buffer as long as a byte has values (3), so that the byte offset wraps by itself, and an output buffer with its events; the proofs remove the bound |
| `interrupts` | undisturbed clock reads count ticks and return what was set; no tick is lost; copy and register agree, masks nest, what is shown stays for one whole phase, colours keep flashing | two digits of base 2, so that the carry stops at each digit and the clock wraps; two ticks in a call, which flip the switch there and back; the four sources; phases of 2 and 3 frames, so that a phase may be cut short between them; two palette writes, so that one is followed by another under the outer mask |
| `clock_torn_read` | violated, see below | one tick |
| `escape` | type-ahead is gone, the handler knows the flag, an escape ends a read | three presses: before, during and after a call; a buffer of two; a flag of three bits, so that the shift may run out |
| `escape_lost` | violated, see below | |
| `session` | the echo is the line, the result is terminated, `LineEdit` is implemented; commands, numbers and handlers as above; the prompt returns | lines of up to three characters, RETURN at the limit and before it, a control code with two parameters; a letter, a full stop and a space, so that GO (one letter here, and the letter is a hexadecimal digit) is typed in full, abbreviated, and with a number; numbers of up to four characters out of space, `&`, `_`, a digit and a letter, which reach every prefix and error, in three bases, one outside 2..36; four handlers, one without a default, a bad number, two replaced at a time |
| `deice` | a changed frame is refused, a whole one served, and effect and reply are those promised | two frames: a second after a first that was lost, cut or served; every function, WRITE_RG right and wrong, READ_MEM of more than the buffer holds, WRITE_M without an address, writes over the end of memory; a byte of 25 values keeps the function codes apart |
| `ecall` | frames are the live traps, the program gets its own answer, handlers' calls come back to them | a stack of five frames, the deepest nest: the program's call, a call of the escape handler inside it, an interrupt, a call of the escape handler inside that, the NMI; two errors |
| `keyboard` | never dead, debounced, typed when held, forgotten when up; every key in every state of the locks, with SHIFT and CTRL, gives the character of its cap, the two cases below apart | a letter, ESCAPE and CAPS LOCK, in two columns of the matrix, and SHIFT; repeat timers of two and one with a byte of four values, so that the timer wraps |
| `vdu` | what is displayed is a `TextScreen`, the cursor and the next cell are at X, Y (in teletext the cursor to eight columns), nothing is drawn outside | a mode with one cell more than its rows need, so that rows straddle the end of memory as in the modes of 25 rows, and a teletext mode that fills it; every VDU code of the component |
| `vdu_scroll_down` | violated, see below | |
| `graphics` | a line from a point in the window is the line, and its address follows it; what any line draws is in the memory of the screen once a point was computed in the mode; windows on the screen; palette, text and plot masks show what was asked; a new origin keeps the cursor | a screen of 2 rows of 4 cells of 2 scan lines, so that lines cross cells in both directions and the seam of a scroll; modes of 2, 4 and 16 colours and mode 7; points inside, on the left and below, a line out of the top, a dotted line from outside over a stale spot; a window that is accepted or refused by where the cursor is; two colour commands, the fewest in which a background and a foreground meet; bits do not mix in a byte, so all-0 and all-1 bytes stand for all |

Bounds that exclude behaviour of the code, each a named constant or guard:

* `NestedRaise = FALSE` (`ecall`): a plain call of an interrupt handler does not
  end in an error. With TRUE TLC finds in six steps that the error of the
  handler's call reaches the program: `user_error_pend` and the error block are
  one slot. The comment at `mos.c` 190 asks for this check, so it is an
  assumption of the last two theorems, and no finding.
* A handler is not entered while it runs (`ecall`): the escape handler's own
  calls do not call it again.
* `UpAtTop = FALSE` (`vdu`): no move up from the top row, which breaks the screen
  (below).
* `OnScreen` (`vdu`): VDU 31 names a place on the screen. Outside it the code puts
  Y back as X (`vdu.c` 1330).
* `OneInUse` (`buffers`): a behaviour uses one of the two buffers. What they share
  is the mask, which an operation holds whichever buffer it is on; the proofs
  need no such bound.
* `Untouched` (`graphics`): a program draws or it sets colours; nothing that places a
  point reads a colour, and the masks are functions of the colours. A scroll comes
  before any window (`set = 0`).
* `ReadNumber` (`session`) is called with no handler replaced; `MaxKept` bounds the
  handlers replaced at a time.
* `EXTENT` (`graphics`): external coordinates, so that 16 bits do not overflow.
* `MaxPresses`, `MaxTicks`, `FRAMES`: how often the environment acts. A program
  may stop then, or the host fall silent, for which `deice` checks no deadlock.
* Requests (`deice`) are frames that fit `combuf`. `deice.c` 115 accepts two bytes more,
  and what a frame of that length would overwrite is not modelled; `TypeOK` has the index
  of such a garbled length as the code does, up to two behind the buffer.

`RolloverSilent` is of a special kind: it states what the comment at
`keyboard.c` 10 calls broken, that of two keys held none is typed. It holds.

## Fairness

Five runs check liveness.

* `buffers`: weak fairness of the step of the running operation. A context that
  has entered an operation with the mask set is alone and executes.
* `escape`: weak fairness of the program's steps. Interrupts are finite.
* `keyboard`: weak fairness of the timer, of the handler and of the auto-scan, as
  these are hardware or masked code, and strong fairness of the CA2 interrupt,
  which yields to T1: a run of the handler is far shorter than the 10ms between
  two ticks, so that it returns again and again with no tick pending. Nothing is
  assumed of the user.

* `interrupts`: strong fairness of the frame sync and of taking an interrupt, as both are
  off again and again, the one while a pulse waits and the other in every mask, but no
  mask lasts as long as a pulse; weak fairness of the handlers' return and of the steps
  of a call of the palette, the video register or the clock. The program is not asked to
  do anything. One that sets the video register for ever keeps the phase from ending, and
  is the one exception of `KeepsFlashing`: calls of the clock and masks of VDU 19, however
  many, do not stop the flashing.
* `session`: weak fairness of the called handlers. Nobody needs to type.

The safety runs have none.

## What is proved

All theorems hold for every value of the constants that the named `ASSUME`s of
the modules allow; TLC evaluates these in the runs. A component `X` has its proofs in
`XProofs`, eight modules with 15,062 obligations. The proofs about `Clock` are in
`InterruptsProofs`, those about `LineInput` in `SessionProofs`, about `Colours` in
`GraphicsProofs`, each with the component that runs it, and those about `Escape`, whose
handler makes the calls of the trap kernel, in `EcallProofs`.

| theorem | says | along |
|---|---|---|
| `BuffersProofs!TypeCorrect`, `MaskCorrect`, `LocalsCorrect` | the three invariants of `buffers`, for rings of every length up to the values of a byte | their conjunction `IInv` is inductive. None is so alone: an index stays in the ring because it is computed from a local that is not stale, the local is not stale because the mask keeps the other context out, and the mask is what the call found |
| `BuffersProofs!BuffersImplementFifo` | `Spec => RefinesFifo` | from `IInv`: lemmas on what an insertion, a removal and a purge do to `Content`, then one case per step: the commit, the advance, the purge, or a test that fails is the instant of the call, the others stutter |
| `InterruptsProofs!TypeCorrect`, `QuietReadsCorrect` | `Clock!TypeOK` and `QuietReadsCount`, for clocks of every length and base | `InStep` ties the prediction to the two copies: the bytes read so far are those of the visible copy unless a tick has come, and the hidden copy after an undisturbed write is what was set |
| `InterruptsProofs!DispatcherRunsClock`, `QuietReadsUnderDispatch` | every behaviour of `Interrupts` is one of `Clock`, so the reads are right among the other sources too | each action is a step of `Clock` or leaves it alone |
| `InterruptsProofs!MaskCorrect`, `NoTickLostCorrect`, `WholePhasesCorrect` | `MaskInv`, `NoTickLost` and `WholePhases`, for any sources, phases and number of palette writes | where the program is decides which masks it holds and what they found, and between the two stores of `vidula_set` the copy is ahead (`Nested`, `CopyStep`); what is owed is the pending flag and the tick being served (`Owed`); the frames since the register was written and the timer add up to the time of a phase (`Countdown`) |
| `EcallProofs!HandlerCorrect`, `TypeAheadCorrect` | `HandlerInv` and `TypeAheadGone`, for flags of every width and buffers of every size | `Fresh`: all that waits was typed after the last acknowledgement, and between the load of the flag and the flush after the escape that was seen |
| `SessionProofs!EchoCorrect`, `LineInputImplementsEdit` | `EchoIsLine`, `LineEdit` is implemented, for lines of every size. That the line fits the caller's buffer is not among them, see below | `LineInv`: the characters below the index are printable, RETURN stands at the size that is returned |
| `SessionProofs!SessionReadsLines`, `SessionEchoCorrect`, `SessionImplementsEdit` | the same at the prompt | the steps of the supervisor are steps of `LineInput` |
| `SessionProofs!HandlersCorrect` | `HandlersInv`, for any handlers and any number replaced at a time | `Restorable`: an entry is the program's only if something is kept for it, and what was kept first for it is not the program's |
| `SessionProofs!LineMeansCommandCorrect` | `LineMeansCommand`, for every name, every junk past the table and lines of every size | the comparison stops at exactly one place, and a line has at most one first word: where `WordStart` and `WordEnd` look |
| `SessionProofs!NumberReadCorrect` | `NumberRead`, for strings, bases, limits and words of every size | multiply-and-add modulo the word is the sum of weighted digits modulo the word; `OneNumeral`, digits end in one place; `PrefixIs` and `StartsAre`, a number starts at the place where the code looks, or nowhere |
| `KeyboardProofs!KeyboardCorrect`, `AttendedCorrect`, `DebouncedCorrect` | `AttendedInv` and `Debounced`, for every set of keys and every timer | `KeyInv` has for each place of the handler what it has found out: which code is a key's, which of them was down, which was confirmed, who attends |
| `VduTextProofs!CursorCorrect`, `ScanCorrect`, `DrawsCorrect` | `CursorInv` and `DrawsInScreen`, for every geometry, assuming `~UpAtTop` | the next cell is in the memory of the screen because X and Y are, and the start of the screen is in it, however scrolled |
| `VduTextProofs!VduImplementsScreen` | `RefinesScreen`, with the same assumption | places are counted from the start along the rows: a scroll shifts all of them by a row, and the row that leaves is the one that is cleared; VDU 8 changes no cell (`GoesLeft`), VDU 127 the one it goes back to (`Deletes`) |
| `DeIceProofs!TypesCorrect`, `GarbledCorrect`, `WholeCorrect` | `TypeOK`, `GarbledRefused` and `WholeServed`, for bytes, buffers and requests of every size. A frame that fits is stored inside the buffer; a longer one is taken too, and the index then goes up to two behind it | the buffer as far as it is read and the line are together the frame, and its sum tells whether it is as it was sent. One changed byte changes the sum |
| `DeIceProofs!PromiseCorrect` | `PromiseKept`: each function does what `DeIceProtocol` promises, on requests that are `WellFormed` | per function: the reply is written over the request only where that has been read |
| `EcallProofs!TypeCorrect`, `StackCorrect` | every stack of five frames or more suffices, and holds the live traps | `Nest`, the chain of frames with contexts and levels: levels rise along interrupts, of which there are two, and calls nest once per level, which bounds the chain |
| `EcallProofs!OwnAnswer`, `NestedAnswer` | `AnswerIsOwn` and `NestedCallReturns`, assuming `~NestedRaise` | `OwnCall` says what the slot and the block hold at each place of the program's call; `NoNestedRaise` that no handler's call is between its stores |
| `GraphicsProofs!ColoursCorrect` | `ColoursShown`, for any commands in any order in any modes | `ColoursInv`: colours are the patterns of the colours last asked for and the masks are computed from them; each register of the ULA belongs to the one logical colour whose pixels look it up, and the masks of the five operations are counted out on one pixel |
| `GraphicsProofs!GraphicsInvariant`, `SpotCorrect` | `SpotInv`, for screens of every size, any windows, origins, plots and scrolls: places are those of the coordinates in lines from a point in the window, and points are in the memory of the screen in all lines, except dotted ones from outside before a point was computed in the mode | `StepFollows`: a step of the address, the scan line and the mask in any direction leads from the place of a point to the place of its neighbour, through `Offset`, which counts cells from the start of the screen and forgets the wrap. `BetweenOnScreen`: a line whose next point is on the screen has not left it before. `MemoryInv`: a step from a place of the screen in any direction leads to one, so that a line that starts at a stale place stays in the memory |
| `GraphicsProofs!LineCorrect` | `LineDrawn`, for lines of every length and slope in every window | `Turned`: the error is half the distance less the run times the minor distance plus the rise times the major one (`ErrorAt`), so that it is in range exactly at the nearest point of its column (`NearHere`, `NearUnique`); the dot is the parity of the run, the counter the room of the window less the rise. `DrawnTo`: what is drawn are the wanted points before the present one, each once, as no two points share a place (`WhereUnique`); a counter that runs out does so only at the end (`StopsAtEnd`) |
| `GraphicsProofs!OriginCorrect` | `OriginKeepsCursor`, for any cursor and origins | scaling takes back what `Unscaled` does: the divisions are of multiples |

Assumptions worth a word: a name and what is typed are bytes (`CharAssumption`,
`CommandAssumption`, `StringsAssumption`: a string has no 0 in it); VDU 22 takes one
parameter and VDU 31 two (`ParamsAssumption` of `VduText`), as the table in `vdu.c` has it;
a request says its own length and fits the buffer (`HostAssumption` of `DeIce`); the
screen has at most as many scan lines as a byte has values, and its upper right corner is
within the bound on coordinates (`HeightAssumption` and `ExtentAssumption` of `Graphics`).
The proofs about `Graphics` use none of its bounds on the order of commands (`Untouched`,
`set`).

The provers cannot use the library's induction theorems. Where a sum or a recursive
function is met for every input (the checksum of `DeIce`, the numbers of `Session`),
the proofs do the induction over a set that has a name: a set of numbers that is not
empty has a least one (`Least`, from `WFMin`), so that the set of counterexamples is
empty. No module has a RECURSIVE operator.

Not proved, and left to TLC: liveness, which needs ENABLED (`MaskReleased`,
`KeepsFlashing`, `EscapeEndsRead`, `PromptReturns`, `HeldIsTyped`, `AllUpForgotten`,
`RolloverSilent`); and `Translated`, whose keys, bytes and locks TLC enumerates in full.
Every other property of the passing runs is stated by a theorem.

## Where code and text disagree

* `clock_torn_read`: OSWORD 1 latches the visible copy and reads five bytes with
  interrupts on (`osword.c` 64). One tick makes it the hidden copy and rewrites
  it under the reader. "//read time" (line 60) then reads none.
* `escape_lost`: `ESCAPE_FLAG = ESCAPE_FLAG >> 1` (`osbyte.c` 57) is a load and a
  store. A press in between is stored over.
* `vdu_scroll_down`: a scroll down adds the size of the screen when the address is
  above its first page, not below (`vdu.c` 741), so the start leaves the memory
  of the screen, against the comment at line 689.

The models have the following as coded too; the properties name the case they leave
out.

* WRITE_RG of a wrong length (`deice.c` 260) answers the error and goes on, so it writes
  the registers from the buffer of the answer and answers again; `deice.h` 12 has one
  status. `WellFormed` leaves the case out: `DeIceProtocol` promises nothing for it, nor for
  a READ_MEM without a length or of more than the buffer holds. A WRITE_M without an
  address is promised the status the code gives it.
* OSWORD 0 takes a word that `oslib.h` 44 calls the size of the buffer as its last index
  (`osword.c` 41): `main.c` 109-117 passes 256 for 256 bytes, and the RETURN of a line of
  256 characters is stored behind them. `LineInput` counts as the code does and has no
  property that the line fits the buffer.
* The command search (`main.c` 82) looks at one entry past its table, and prefers it
  (`Junk`).
* A number past 32 bits wraps before it is compared with the limit (`mos.c` 105), and so
  does the base that a prefix names: `4294967298_1` is in base 2.
* An entry of the handler table without a default cannot be put back, since null
  leaves it; the entries of a program that ended stay and are called (`handlers.c` 72).
* `mos.c` 231-236 gives the second phase the time `OSB_FLASH_SPC`, and `vidula_set`, called
  next, puts `OSB_FLASH_MARK` over it (`vdu.c` 402): both phases last as long as the first.
  `WholePhases` takes no side; it holds with either time.
* A line from the window to outside it is not clipped: `vdu.c` 1009 looks at the start,
  not at the end. The counter that stops such a line (`vdu.c` 1042) is the room of the
  major axis in a byte, and is counted down by minor steps.
* A dotted line that starts outside the window draws from the address of the last plot
  (`vdu.c` 1069), since only the other branch computes one; after a MODE that address may
  be outside the memory of the screen. VDU 26 clears the scan line in it
  (`VDU_G_CURS_SCAN`, `vdu.c` 1238), and not the rest.
* VDU 24 counts its corners from the cursor, which is at 1279,1023 after VDU 26 while the
  internal one is at 0,0: the same window is accepted or refused by what came before.
* A new origin in modes 4 and 5 moves the cursor, as `vdu.c` 1219 leaves out
  `VDU_MAP_TYPE`. Negative coordinates truncate towards 0.
* In modes of two colours COLOUR does not change characters (`vdu.c` 1485).
* VDU 31 outside the screen puts Y back as X (`vdu.c` 1330); a cursor may stand behind the
  last column (`vdu.c` 783); the cursor of teletext is computed from a byte address divided
  by eight, so that it stands for eight columns (`vdu.c` 566); the repeat timer wraps at 0
  (`keyboard.c` 262).
* With neither lock on, as one CAPS LOCK leaves it, SHIFT does nothing (`keyboard.c`
  316-318), and SHIFT with 0 is a character that no cap has. `LocksAndShift` has a table of
  the caps and leaves out these two.
* OSBYTE 126 releases the mask whatever it was (`osbyte.c` 74); the exit of an ecall on
  the Hazard3 clobbers t0 (`interrupts_hazard3.S` 177); on the PicoRV32 the search for an
  unknown interrupt does not end (`deice_picorv32.c` 62). These are not in a model.

`PROJECT.json` lists under "hazards" the other places that are hard to test,
with the properties that watch them, or why none does.

## What is not modelled

| part | why |
|---|---|
| breakpoint, debug and unexpected traps into DeIce | the trap entry only copies registers; a fault inside the debugger re-enters it over its own buffer, which is listed as a hazard |
| trap kernel of the PicoRV32 | built on custom instructions whose meaning is not in the repository |
| fills, triangles, VDU 5, user-defined characters, soft scrolling | the code has none, or returns at once |
| graphics coordinates past 16 bits | the arithmetic of `Graphics` is unbounded, and `EXTENT` keeps it small |
| GCOL 6 and above | the index of `GCOL_OPTS` runs past the table at 7; the constant `Operation` ends at 5 |
| BASIC | a ported interpreter in assembly and a program of its own; what it asks of the MOS is in the modules of the calls |
| client library, test ROMs, fonts, printing, reset code, linker scripts | no state, data, or straight-line code before interrupts are on |
| registers across traps, the instruction encodings | the level of the models is the memory access |

## Plan

Modelled, in this order: `BufferFifo` and `Buffers`; `Clock`; `KeyChars`, `Keyboard`;
`Escape`; `LineEdit`, `LineInput`; `DeIceProtocol`, `DeIce`; `Ecall`; `TextScreen`,
`VduText`; `Interrupts` over `Clock`; `Numbers` and `Session` over `LineInput`; `Colours`
and `Graphics`. All are proved about, as far as the provers reach.

Worth modelling next: `vdu_write` access by access against the flush from the
interrupt; OS_HANDLERS called from an interrupt handler; the trap entry of the debugger
with `DeIce`.

## Running it

In this directory, `tlc -workers 2 -config MCBuffers.cfg MCBuffers` checks a run
(the `MC` module is named by each `.cfg`: `MCClockTorn`, `MCEscapeLost` and
`MCVduTextUp` belong to `MCClock`, `MCEscape` and `MCVduText`), and `tlapm BuffersProofs.tla` checks the proofs of a module. The
longest run takes about two minutes, the longest proof about three.
