# TLA+ models of the uCore lab1 kernel

The repository holds lab1 of uCore for RISC-V: a kernel that boots in supervisor
mode under an SBI firmware, takes two exceptions on purpose, runs a timer,
reports every hundredth tick and switches the machine off after the tenth
report. Built with `-DDEBUG_GRADE` it panics into a debug monitor after the
first report instead. All of it runs on one hart and one 8 KB stack.

Paths below are relative to `src/lab1`.

## The system

| component | state | operations | talks to |
|---|---|---|---|
| boot thread `kern/init` | none of its own; the program counter | `kern_entry`, `kern_init` | everything, by calls in a fixed order |
| clock `kern/driver/clock.c`, `intr.c` | `ticks`; the firmware's deadline; `sie.STIE`, `sstatus.SIE` | `clock_init`, `clock_set_next_event`, `intr_enable`, `intr_disable` | firmware (`sbi_set_timer`), handler |
| trap handlers `kern/trap/trap.c` | `num`; `stvec`, the frame they are given | `idt_init`, `trap`, `interrupt_handler`, `exception_handler`, `print_ticks` | clock, console, panic, firmware (`sbi_shutdown`) |
| trap path `kern/trap/trapentry.S` | 32 registers, `sscratch`, `sepc`, `sstatus`, the frame on the stack | `SAVE_ALL`, `RESTORE_ALL`, `__alltraps`, `__trapret` | `trap()` by the calling convention, `struct trapframe` |
| panic and monitor `kern/debug` | `is_panic`, the C stack | `__panic`, `kmonitor`, `parse`, `runcmd`, three commands | line input, console |
| line input `libs/readline.c`, `kern/libs/stdio.c`, `kern/driver/console.c` | static `buf`, `i` | `readline`, `getchar`, `cputchar` | firmware console |
| formatted output `libs/printfmt.c` | none; a buffer cursor for `snprintf` | `vprintfmt`, `printnum`, `vsnprintf` | console or a buffer |
| strings `libs/string.c` | none | `mem*`, `str*`, `strtol` | all |
| SBI stubs `libs/sbi.c` | call numbers | `sbi_call` and its wrappers | firmware |

What makes it hard to test: the timer interrupt may come anywhere the enables
allow; time passes between reading the counter and arming the deadline; the trap
path works on registers it has not saved yet; the handlers move the address they
return to by a literal; `.bss` is garbage until it is cleared; the panic leaves a
handler that never returns; the line buffer is static and is split in place; the
firmware's answers are taken on trust. What would make each part correct:

- boot: every trap finds a vector, and interrupts come on last;
- clock: no tick early, none lost, delays bounded, always a next deadline;
- handlers: one report per hundred ticks, ten reports, then off;
- trap path: whoever is interrupted cannot tell;
- monitor: a command sees the words of the line typed, nothing is stored out of
  bounds, and the prompt comes back after every line there is room for;
- line input: the line handed over is the line on the screen;
- formatted output: numbers read back as the argument, the buffer is never
  overrun and holds a prefix of the text;
- strings: overlaps, missing NULs and prefixes do what the comments say.

PROJECT.json lists the components, the hazards at their lines and the properties
that answer them.

## The modules

**Kernel** is the hart running `kern_init`, the traps and the handlers. `pc` is
a label for a C statement; the few statements that an interrupt or the passing
of time can split (`rdtime`, the `sbi_set_timer` that uses what it read, the
increment of `ticks` and the test of it) have labels of their own. A trap saves
`pc` in `sepc` as a statement and a byte offset, so that the handlers' `epc += 2`
and `epc += 4` are what they are in the code, and `Resume` says where such an
address lies: on an instruction of the program or in the "wild". `console` is
the list of lines written, with the address where a line shows one. One `cprintf`
is one step; `InterruptsOnlyWhenIdle`, checked and proved, is what allows that.
The variable `epoch` is history. `FairSpec` assumes that the hart executes and
that its time counter counts, which is all the code itself relies on.
`TimerPending` models the firmware: `STIP` is pending from the deadline until
`sbi_set_timer` is called again. A DEBUG_GRADE run ends here at the call of
`__panic`; `PanicCall` and what comes after it are steps of Machine. Both literals of the source, the `100` tested and the
`TICK_NUM` printed, are `TickNum`.

**TickCounter** is what the timer promises, in three actions: serve, report,
switch off. Kernel implements it (`TickCounterSpec`) with `served` mapped to
`ticks` once `.bss` is cleared, `reported` to the report lines on the console
and `on` to the power.

**KernelProofs** proves the safety invariants of Kernel, **ConsoleProofs** the
transcript and that Kernel implements TickCounter, **MachineProofs** what of this
holds with the monitor on top, and **TrapEntryProofs**, **TrapDispatchProofs**,
**MonitorProofs**, **StringProofs** and **PrintProofs** prove about the modules they
are named after ("What is proved").

**TrapEntry** runs `trapentry.S` instruction by instruction: the code is a
sequence of instruction records that follows the source line by line, and there
is one action for each kind of instruction. The interrupted program and `trap()`
are abstract here, reduced to what the calling convention allows: the program
does anything to its registers and to the stack below its pointer; `trap()` keeps
`ra` and `tf` in its own frame, leaves junk in every caller-saved register, may
advance `tf->epc` once, and may itself be trapped. `ctx` is history: what each
trap in hand interrupted.

**TrapDispatch** says what those two are. Inside the trap it has `trap`,
`trap_dispatch` and both switches of `trap.c` for every value of `scause`, with
what each case prints in `shown`: a line with the address, or the whole frame by
the names `print_regs` gives its words, each cut to an `unsigned int` as `%08x`
does. Outside it the program is a caller of the firmware: `sbi_call`'s four moves,
its `ecall` and the move of the answer, one step each, with the operands in the
registers of the build the repository records (`obj/kernel.asm`) or in those of the C ABI. Its
specification implements TrapEntry's (`ImplementsTrapEntry`), so that what
TrapEntry allows is what the C code does.

**LineEdit** is the line editor the comment above `readline` describes;
**Monitor** is `kmonitor`, `readline`, `parse`, `runcmd`, the three commands and
the panic behind `backtrace`. `buf` is the static array with its NULs, `argv`
holds indices into it, `p` is the pointer `parse` moves, `screen` what stands left of the
cursor since the last prompt. Command names are single characters, since the code
only tests names for equality. `parse`'s store past the end of `argv` leads to
`pc = "undefined"`, and the monitor that no longer fits on the boot stack to
`pc = "overflow"`: from there nothing can be said of the program and the model stops.
`depth` counts the monitors on the stack, of which it holds `StackDepth`; no monitor
returns, so the count only goes up. `LinesAreServed` promises the prompt for a line
`argv` and the stack have the room for (`Servable`) and for no other.
`FairSpec` assumes that the monitor runs; nothing is assumed of who types.

**Machine** composes Kernel and Monitor into the DEBUG_GRADE build from reset to
the last key: the kernel runs up to the panic in its timer handler, `kmonitor` is
Monitor from there on, and the `backtrace` command's panic is `__panic` once more,
with what it does to `is_panic`, the console and the interrupt enable. Time goes
on under the monitor, so that the timer interrupt becomes pending and stays so.
`MSpec` has Kernel's and Monitor's fairness, and again none for the keys.

Not in the model of the monitor: `kmonitor(tf)` with a frame and `kmonitor`'s `break`, since no
caller passes a frame and no command returns a negative number.

**StringLib** is `string.c`: `Init` picks one call that the comments allow and a
memory for it, then the function runs, one action per turn of its loop. `r` holds
its local variables, `read` the addresses it has looked at. What a function
promises is stated over `before`, the memory at the call.

**PrintFmt** is `vsnprintf` over `vprintfmt`: one action per case of the switch and
per turn of the loops. `Init` picks a directive as a record of its parts and renders
it into the format; the code reads the format character by character, while
`Shown` says from the parts what is to appear. A plain `%d` follows, so that
padding, width or an argument carried over from one directive to the next is seen.
`printnum`'s recursion is a recursive function; its characters are put one by one.
In both modules the width of a type is given by its greatest value (`IntMax`, `LongMax`).
`-err` of the least int leads to `pc = "undefined"`.

## What the runs check

| run | instance | what it shows |
|---|---|---|
| `kernel_release` | 2 ticks a report, 2 reports, period 2, up to 3 late, `.bss` words 0 or 3 | the program never leaves its text, interrupts are on in the idle loop alone, an idle kernel can be woken, ticks are neither early nor late beyond the delays, the console shows the whole transcript in order, the timer implements TickCounter, the machine goes off |
| `kernel_debug_grade` (Machine) | the same in a DEBUG_GRADE build, with a buffer of 4, `argv` of 1, a stack of two monitors, key `b` | the transcript ends in one panic message whatever is typed, nothing of the kernel moves once the monitor runs, and the monitor asks for a key, again after every line and panic there is room for |
| `trap_entry` (TrapDispatch) | 80 words of stack, 2 traps in hand, words of 14 bits with 12 in an `unsigned int`; causes 2, 3, 5, 12 and interrupts 2, 3, 5, 9, 12; 3 and 12 inside `trap()` too | the frame `trap()` gets is the interrupted state, outer frames survive, `sscratch` is 0 outside the trap path, `sret` restores everything; each cause resumes where it should and prints the state it interrupted; a firmware call gets through whole with traps between its moves; TrapEntry is implemented |
| `monitor` | buffer of 6, `argv` of 2, a stack of two monitors, keys `b`, `x`, blank, erase, end | readline implements LineEdit; every line whose words fit and whose panic fits is served |
| `monitor_firmware` | buffer of 5, `argv` of 3, firmware answering -1 | the echo follows the buffer and commands see the typed words although lines are abandoned at any key |
| `monitor_args` (violation) | `argv` of 2 | a third word is stored past the end |
| `monitor_backtrace` (violation) | | `backtrace` nests a monitor |
| `monitor_getchar` (violation) | firmware answering -1 | a typed line is lost while no key waits |
| `strings` | 4 bytes of memory, bytes NUL, b, 200; strtol on blanks, signs, 0, 9, B, b, x, bases 0, 10, 16, a long of 6 bits | moves through overlaps, extents and padding of copies, scans, comparisons, conversions; nothing is read beyond what was given |
| `strings_prefix` (violation) | a newline and an X among the characters | a newline is not discarded before the number, `0X` is not taken as a prefix |
| `print` | int of 4 bits, long of 6; flags, widths 4, 10 and `*`, precisions 1 and `*`, up to two l's; buffers of 0, 1, 5, 30 | every directive prints what its parts say, the buffer is the truncated text |
| `print_padding` (violation) | numbers with the flag `-` as well | dashes on the left of the number; strings padded to a field width |

The bounds. In Kernel 3 units of lateness exceed a period of 2, so a deadline can be
missed, be in the past when it is set, and be served two periods late; two reports of two ticks
let a report be missed, doubled or reordered. A garbage value of 3 lies above
both limits. In TrapEntry two traps in hand are the
first depth at which frames can overlap, and the stack has the exact size they
need. The causes have one of each kind the switches tell apart, with interrupts
and exceptions of the same numbers. Traps inside `trap()` are of two causes, one
that is reported and one that shows its frame, since what a trap does to the frames under it does not
depend on its cause. What a trap left below the stack pointer multiplies states, so
the constants `Stale` and `StaleAt` say which causes may be raised over it, and where in
the program: in `trap_entry` that is the timer interrupt at 1000, as in the idle loop, which
calls nothing in between. Before any other trap the program's own frames have been
there (`Reused`). The theorems hold for any choice of the two. The program has one place
of its own that traps (1000); interrupts come at every instruction of
`sbi_call`. That is more than this kernel lets happen, since its calls are made with
`sstatus.SIE` off, at boot and in the handler; `sbi.c` itself does not ask for that.

In Monitor a buffer of 6 holds lines of five characters, that of 5 lines of four: the
most words per length, leading, inner and trailing blanks, and stale text of an
older, longer line. In `monitor` two words fit `argv` and a third ends the model; in
`monitor_firmware` every word fits. With room for two monitors, one `backtrace` adds a
monitor and the next finds no room. Machine's buffer of four holds the one-letter
command alone, with blanks on either side, and two of it, one too many; what
longer lines do is Monitor's business. In the code argv holds 16 words and each
monitor takes at least the 128 bytes of an `argv` of the 8 KB, so the real limits are
reached by longer sequences of the same steps. Machine's time too runs up to 3 units past the
deadline, so the timer interrupt can become pending before the monitor is entered
or in it. In StringLib four bytes are enough for every order of two regions of two
bytes with a byte between, before or behind them, and for a sign, a prefix and a
digit with its NUL; the third byte, 200, makes signed and unsigned comparison
differ. In PrintFmt the words hold both signs, zero and the least value of either
width, and a code on each side of `MAXERROR`; five bytes cut most texts, one byte
holds the NUL alone.

## What is proved

`KernelProofs` proves, for every period, tick and report count, lateness and
build, and for any contents of `.bss`:
`TypeCorrect`, `StaysInProgram`, `OnlyIdleIsInterrupted`, `IdleAlwaysWakeable`,
`NeverAhead` and `LatenessBounded`, the six invariants `kernel_release` checks
beside the transcript. The only assumption is `KernelAssumption`: positive
constants, natural numbers in `.bss`.

None of the six is inductive alone. Where `sret` goes depends on what the handler
made of the address, which depends on where the trap was taken; so `Control`
carries, for each place of the trap path, the origin of the trap in hand
(`TakenFrom`) or the address it will resume at (`ResumesAt`), with what that
place implies of the stack, the vector and the enables. `Clock` adds the
arithmetic: the deadline in force lies at least `ticks + 1` periods after boot,
one more between the rearming and the increment (`Rearmed`), and an interrupt in
service was taken after its deadline. `ControlStep` and `ClockStep` have one step
per action, the two of the panic included; `Invariance` combines them.

`ConsoleProofs` proves `TranscriptWritten` and `ImplementsTickCounter`, from the
same assumption. The transcript's prefix property is not inductive: which line may
come next depends on where the hart is. `Written` says how many lines are out at
each place, by the place itself or, on the trap path, by where the trap was taken;
`Log` says that the console holds just those. In the timer handler the count
depends on `num`, so `Counts` bounds `num` at each place (below `MaxNum` outside a
report, 1 at most in a DEBUG_GRADE build) and `Dues` ties it to `ticks`: `num` is
the quotient of `ticks` by `TickNum`, except between the increment and the test.
`ReportsAre` counts the report lines of a console that stands at `Written`. With these the
steps of Kernel map to those of TickCounter: `TimerTick` serves, `PrintTicks` reports, `Shutdown`
switches off, and every other step leaves all three variables as they are.

`MachineProofs` carries this over to Machine. Every step of Machine is one of
Kernel, one of `PanicCall`, or leaves Kernel's variables alone; the step that needs an
argument is the monitor's own panic, which finds `is_panic` set and interrupts off
(`PanicAgain`). So `ConsoleInv` holds there as well, and with it
`MachineTranscript` and `MonitorKeepsTheHart`.

`TrapEntryProofs` proves all that `trap_entry` checks of TrapEntry, for any depth of
traps, any stack that holds them (`Words >= 38 * MaxDepth + 4`: 36 words of a frame and
two of `trap()` for each trap), any register contents, causes and advances:
`EntryTypeCorrect`, `FrameIsFaithful`, `OuterFramesStayIntact`, `ScratchStaysClear` and
the action property `TrapsAreTransparent`. None is inductive, since they speak of
single places and the values they speak of arrive there over eighty instructions. `Inv`
gives the frame of the k-th trap in hand an address (`FrameAt`) and says of each trap
but the innermost that its frame is `Whole` and `trap()`'s own frame below it `Linked`; of the
innermost, instruction by instruction, which registers are saved or restored so far and
what the scratch registers, the CSRs and the frame hold meanwhile (`Entering`,
`Calling`, `Leaving`). `StackKept` says that nothing above a frame has changed since the
trap. Outer frames survive by one argument, `Aside`: a step inside the trap path writes
below the stack pointer of the state the innermost trap interrupted, and nowhere else. That `Code` is
what the macros of `trapentry.S` expand to, place by place, is a lemma of its own.

`TrapDispatchProofs` builds on it: `HandlersImplementTrapEntry` is the refinement, so
every theorem of TrapEntryProofs holds of the handlers and the firmware calls. `TDInv`
adds to `Inv` that each frame in hand tells its own trap (`Noted`), that a handler that
has come to its end has advanced `epc` by the cause of its own trap (`Settled`,
`AdvanceOf`) and that a call of the firmware, interrupted or not, has its operands where
`sbi_call`'s moves so far have put them (`CallAt`). From these follow
`SbiCallsAreFaithful`, `TrapsResumeByCause` and `PrintsTheInterruptedState`. The
assumptions: causes below twice `IntBit`, `IntBit` above the highest cause the switches
name, and TrapEntry's handlers free to add 0, 2 and 4. `sbi_call`'s registers are
those of either build, so the order of the moves matters: an operand must not be
overwritten before it is moved.

`MonitorProofs` proves, for every `BUFSIZE`, `MAXARGS`, set of characters and firmware,
`MonitorTypeCorrect` (the buffer's and `argv`'s bounds), `EchoIsTheBuffer`,
`ArgumentsAreTheWords`, and, for a firmware that waits (`NoKeyIsZero`, as LineEdit
requires), `ReadlineEditsLines`, the refinement of LineEdit. `Typing` says that the screen
shows the buffer while a line is typed; `Split`, that while it is parsed the buffer is still the
line, but for the blanks before `p` that are NULs by now; `Arguments`, that `argv` holds, in
order, the words that start before `p`. The monitor is abandoned in the middle of all
this when `backtrace` panics; the new monitor starts over, which is why `Inv` claims nothing of
`argv` outside `parse` and the lookup.

`StringProofs` proves, for any size of memory, any bytes and any arguments the comments
allow: `MoveCorrect` (memmove and memcpy move as through a copy, whatever overlaps),
`StringTypeCorrect`, `StringExtents`, `StringScans`, `StringCompares` and `StringReads`. `MoveInv`
says which bytes each loop has moved and that the ones it has overwritten lie behind
it: going forward, because the source starts at or above the destination or ends below
it; going backward, because it starts below. `LibInv` adds one conjunct for each other loop:
what the turns so far have written, that no NUL (no `c`, no difference) was among the
bytes passed (`Plain`), and how far a function may have read (`Reach`). The memory is
assumed not to be larger than a long counts (`Size <= LongMax`); without it `strlen`'s
`cnt` may wrap.

`StrtolValue` is the theorem that `strtol` converts: the value is that of the longest
run of digits, the sign and the base being what the text and the argument say, modulo
the width of a long, for numbers of any length. It leaves out the texts that start with
the prefix 0X (`UpperPrefix`) and those with a line break behind their leading blanks
(`LineBreakLed`), where `strings_prefix` shows the code to differ from its comment. `ConvertInv` says, beside `LibInv`, that after any number of turns `value` is
`Wrap` of the numeral of the digits passed (`Numeral`). Every turn wraps and the result
should wrap once: `WrapOnce`, from uniqueness of quotient and remainder, is why that is the same.
The library's induction rules take operators and are no use to the provers, so
`Induction` is about a set of numbers that holds 0 and with every number the next, and
follows from its complement having no least element; `Recursion` derives from it that the
recursive functions `Weight` and `Numeral` exist and have the values their equations give.

`PrintProofs` proves, for any size of the buffer, any arguments and any width of the
numbers, and for the directives `Directives` lists, `BufferCorrect` and
`PrintTypeCorrect`. `BufferInv` relates the buffer to the text put so far (`Filled`); every
action but the first and the last puts one character or none (`PutsOrSilent`), and
`PutStep` is the only place where the buffer changes. That `f` stays on the format needs
to know what stands there: `FormatOK` says it part by part of the directive, and
`ParseOK`, for each place of the program, on which part `f` stands and which arguments
are left from there on (`InDirective`, `Advance`). So each part of a directive takes its own
argument, `lflag` counts the l's, the digits of a width are taken together, and an unknown
directive is scanned again from behind its `%`, without finding another `%` in it.

`PrintCorrect` is the theorem that, for the same directives, `vprintfmt` prints what the parts
ask for (`Shown`), and the plain `%d` behind it as if it stood alone. It holds for any
arguments, sizes and widths of words, and leaves out the numbers with the flag `-`
(`Dashed`), which print dashes on the left, against the comment at `printfmt.c:139`. `Shown` pads strings to the field width, as the case `s` of the code does; the head of the file keeps padding to numbers (`printfmt.c:8-9`), and
`print_padding` violates `PaddingAsCommented` by both. `PrintsAsAsked` is the same for constants like those of `print`,
where no number has that flag. Three facts carry it. `PrintnumIs` says that `printnum` returns
the padding and the digits, by `Induction` over its argument; that these are the digits of the
numeral needs that a number has one size (`OneSize`, `SizeExists`) and that dividing by the
base drops the last digit (`DivideTwice`, `InBaseIs`). `LocalsOK` says that `padc`, `width`,
`precision`, `lflag` and `altflag` hold what the flags and fields passed so far ask for.
`OutInv` says, at each place of the program, that what has been printed, followed by what the
local variables still ask for, is the text to be shown: in `%s`
that is the padding, the characters left (`Clean`) and the padding behind them.

Except where one is named, the theorems have no assumption but those of the modules on
their constants, which TLC evaluates in every run.

Model-checked only: the liveness properties (`PowersOff`, `AsksAgain`,
`LinesAreServed`), which the proof system does not reach. Every other property of a
passing run is stated by a theorem. The violations are counterexamples of TLC's, not theorems.

## Not modelled, and why

A firmware whose shutdown returns (`sbi.c:43`), `%e` of the least int and a `%.Ns`
text without a NUL are listed as hazards without a property; no comment says what
is to happen, and no code of the kernel gets there. `cputs`, `cputch`'s counter,
`__warn` and `is_kernel_panic` have no caller or no reader and only print or read.
Register allocations of `sbi_call` other than the two of TrapDispatch are not
considered. The memory layout is constants for the linker and `pmm.c` is empty. The 8 KB of the
boot stack have no guard; of what fills them, only traps (TrapEntry's `Words`) and
nested monitors (`StackDepth`) are modelled, not what a store below the stack hits. Of
`riscv.h` only the cause numbers are used by the modelled code; the rest, like
`defs.h` and `stab.h`, is macros and types. The host tools `sign.c` and `vector.c`
are left over from the x86 version and not part of the image.

## Plan

1. Kernel, TickCounter, KernelProofs; TrapEntry; Monitor, LineEdit; StringLib,
   PrintFmt and their proofs (done).
2. TrapDispatch, the causes and the firmware calls TrapEntry leaves open, and its
   refinement; Machine, Kernel and Monitor composed (done).
3. Proofs: Kernel implements TickCounter, and the transcript, with the monitor on top
   too; the trap path, its handlers and the firmware calls, and their refinement; the
   monitor's buffer, words and refinement of LineEdit; the functions of StringLib; the
   buffer and the parsing of PrintFmt (done).
4. By induction over the digits, `strtol`'s value and what `vprintfmt` prints (done).

Nothing of the plan is left but what the proof system does not reach, liveness.
