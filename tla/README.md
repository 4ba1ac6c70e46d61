# A TLA+ development of philix

philix boots a Xeon Phi card with a custom kernel and is the card's console.
The host program (`src/philix.c`) maps the memory of the card; a kernel on the
card (`winky/` is the example) draws into a VGA-like frame buffer there and
tells the host through a few registers behind it; the boot loader (`inky/`)
brings the kernel up. Nothing orders the two sides but these registers, and no
test covers them. This directory models the parts whose correctness depends on
interleaving, on pointers and on arithmetic, checks them with TLC and proves
the central results with TLAPS.

## Inventory

| Component | State | Operations | Interacts through |
|---|---|---|---|
| Console registers (`philix.c`, `winky/xeon_phi.c`) | `OUTPUT_AVAIL`, `OUTPUT_DRAWN`, `CHAR_REG`, `LINE_REG` | the `phi_notify_*` functions, `wait_for_out_cmpl`, `wait_for_cons_update`, `draw_done` | shared memory, polled by both sides |
| Scroll-back (`philix.c`) | `line_hist` ring, `hist_cnt`, `win_ptr`, `line_idx`, the terminal | `handle_scrollup`, scroll keys, `draw_output_win`, `dump_console_to_file` | called from the main loops; reads the frame buffer |
| Card terminal (`winky/cga.c`) | cursor, colour, frame buffer | `term_init`, `putchar`, `term_scrollup`, `term_clear` | frame buffer, console registers |
| philix process (`philix.c`) | options, mapping, driver state file, handlers | `main`, `boot_phi`, `map_phi`, `console_init`, signal and exit handlers | the MPSS driver through sysfs, `micctrl` |
| SBOX interrupts (`philix.c`, `phi_sbox.h`) | SICE0, APIC ICRs | `sbox_interrupt_enable`, `sbox_send_int` | device registers of the card |
| Boot loader (`inky/loader.c`, `lib.c`, `elf64.c`, `boot.S`) | memory layout, multiboot information, `phys_alloc_start` | copying command line and ramdisk, `elf64_load`, jump | memory left by the card's firmware, read by the kernel |
| Boot image tools (`inky/multiboot`, `inky/patcher`) | files | generating the table of modules, file header | the table is compiled into the loader, the header read by the firmware |
| `philix_sbox_dump` | none | one-shot register dump | none |

What is hard in this code:

* two polling loops on different machines with one flag each way and a
  **timeout that is not told apart from an event** (the console registers);
* a doubly linked ring with an **external pointer into it**, bounded by
  eviction, walked by six keys while lines arrive, and by a **signal handler in
  the middle of an update** (the scroll-back);
* **unchecked failures** and handlers that interrupt each other (the process);
* **copies by absolute addresses** in the loader, with nothing but an assertion
  to tell an overlap.

What makes each part correct:

* registers: no notification is handled twice, out of order or without having
  been raised; the losses are bounded by their cause; the card stands still
  while the host handles its notification; the card is released unless philix dies
  without a reset;
* scroll-back: the ring is whole and holds the newest lines in order, and can be
  walked at every store of an update; the window shows what its index says; a
  reader is not disturbed by new output; a dump holds what philix holds;
* terminal: the history followed by the frame buffer is the kernel's output, and
  a dump of it is in order whatever the kernel does meanwhile;
* process: the boot string goes to a ready card, the card is reset whenever
  `exit()` is reached, and the log is written before the reset;
* loader: command line, ramdisk and modules survive the copies and stand where
  the kernel is told; every segment is where the kernel is linked; the menu's
  kernel, in a good place, is the one started.

## Modules

| Module | What it is |
|---|---|
| `UpdateChannel` | abstract: a channel that may lose notifications but keeps their order and repeats none |
| `Handshake` | the register protocol, one action per access to a register |
| `MCHandshake` | register contents for its model-checked instances |
| `HandshakeProofs` | its inductive invariant, safety theorems and refinement proof |
| `Scrollback` | abstract: the newest `MaxHist` lines, oldest first |
| `LineHistory` | the ring, the window, the drawings, the keys and the dump |
| `MCLineHistory` | symmetric memory cells for its model-checked instances |
| `LineHistoryProofs` | the ring's inductive invariant and the refinement of `Scrollback` |
| `WindowProofs` | the window, the drawings and the dump over that ring |
| `HistoryUpdate` | `handle_scrollup` store by store, with batch mode's interrupt handler between the stores |
| `MCHistoryUpdate` | symmetric memory cells for its model-checked instance |
| `HistoryUpdateProofs` | the list can be walked at every store; the stores together are `LineHistory`'s step |
| `Console` | the card terminal printing through `Handshake` to philix's history and screen |
| `MCConsole` | register contents for its model-checked instances |
| `ConsoleProofs` | it keeps to `Handshake`; without unearned acknowledgements its output is kept and shown |
| `ViewerProofs` | what history and dump show, also when the card runs ahead |
| `Lifecycle` | the philix process: boot, signals, faults, dump, exit, against the driver |
| `LifecycleProofs` | it boots a ready card, dumps a live one before it resets it, leaves it reset when it exits; its stack is shallow |
| `Multiboot` | the table of modules `inky_mbgen` generates and the loader's search in it |
| `Loader` | the boot loader on the card's memory, up to the jump into the kernel |
| `MCLoader` | menus, kernels and layouts for its model-checked instance |
| `LoaderProofs` | what it names to the kernel is there and whole, and the kernel stands as it is linked |

### Handshake

`cpc` is the position of the card kernel: running, about to raise a
notification whose argument it has stored (`signal`), spinning in
`wait_for_out_cmpl` (`wait`), about to zero `OUTPUT_DRAWN` (`clear`), halted
after the shutdown notification, or reset by philix. `hpc` is the position of
the host loop: polling, in the switch, about to zero `OUTPUT_AVAIL` (`ack`),
about to set `OUTPUT_DRAWN` (`draw`), leaving (`stopping`), or ended, in one of
three ways (`Ended`). On its way out philix has the card reset: `Exit` if
`micctrl` does it (`gone`), `ExitLost` if `micctrl` fails, which `reset_phi` does
not look at (`lost`). An assertion ends it without a reset (`aborted`): a leftover
line update may name a row that is none (`LineAborts`, `philix.c:580`), and a scroll
key without a history has no line to start from (`KeyAborts`, `philix.c:369`). The
key `o` can end philix as well, through `exit()`, if no file can be opened or there is
no history to walk (`KeyExits`). Keys come in curses mode only, after the
acknowledgement; those that end nothing touch no register and are not actions
here. SIGINT is in `Lifecycle`. `CardReleased` says that nothing else leaves the
kernel spinning: unless philix is `lost` or `aborted`, a kernel that waits is
answered or reset. The thousand reads of a poll are
two actions: `PollHit` for the read that finds something and `PollExpire` for
the last read that finds nothing; a read that finds nothing and is not the last
changes nothing. The kinds of notification are kept apart as far as the loops
do. The registers start with anything a previous boot may have left
(`LeftAvail`, `LeftDrawn`). The two main loops differ, as far as registers are
concerned, in that batch mode does not read coordinates (`NoCurses`).

`sent`, `slot`, `seen`, `cur`, `got`, `handled` and `unearned` are history
variables: they number the notifications and follow each number through the
registers. No guard but the bounds reads them. The central notion is the
**unearned acknowledgement**: one the host gives after a poll that expired, or
for a leftover value.

`CardAtMostTwoAhead` says how far the two sides can drift apart: the card is at
most two notifications ahead of the one philix is handling, however many polls
expire, because `OUTPUT_DRAWN` is one flag. One is not enough: an acknowledgement may stand in
the flag while the host still owes one. They never fall back into step, either.
An unearned acknowledgement stays in the flag as a credit, and each later
wait is ended by the acknowledgement of the notification before.

`MaxSent` bounds the notifications and `MaxUnearned` the expired polls.

### LineHistory

A struct `line_elm` is a cell of memory with fields `line`, `next` and `prev`;
`malloc` returns any cell that is not allocated, so a freed cell may come back.
A row of text is the number of the line of output it shows: row *r* of the
frame buffer is line `base + r`. `handle_scrollup` saves the first row and the
card shifts the frame buffer afterwards (`CardScroll`); keys may come between.
`screen` holds, for each row of the terminal, the set of lines that can be read
there: one after the row is drawn, two when `handle_char_update` puts a
character of the frame buffer over it.

A read through a freed pointer, a failing assertion and a read through `NULL`
end the behaviour with the reason in `fault`. A freed cell that has been
allocated again is an allocated cell like any other: the model then follows the
program through the wrong line. `chain` (the cells of the ring in order) and
`astray` (the window pointer has outlived its cell) are history variables.

The history module takes the card to be quiescent, i.e. one shift per saved
line; `Handshake` shows when that holds (`Quiescent`).

`dump` is what the last step wrote to the dump file, if it was a dump.
`MaxLines` bounds the lines that scroll off.

A character update is drawn at its place in the frame buffer even if the window
shows history there. `CharactersPass` says what remains true: nothing changes at
the live end, and in the history the next drawing mends every row, save for the
one that `draw_hist_buf` may leave undrawn (see *Findings*).

### HistoryUpdate

`LineHistory` saves a line in one step; the program takes up to seven stores and
a call of `free`. `nocurses_sigint_handler` may come between any two of them: it
dumps the history, i.e. walks the list forth and back, resets the card and
returns into the update. `pc` is the statement that comes next and `new` its
local variable; the list has `LineHistory`'s variables. `Trail` is the
condition under which both loops of `output_hist_to_file` come to their end, and
the handler dumps along such a trail (`Trails`); that there is one whenever there
is a history is the property `Walkable`. A list that cannot be walked makes the
model's handler impossible, so `Walkable` is what its dumps rest on, and the
mutant that frees the oldest line before cutting it off breaks it.

`settled` is a history variable, the list as the last finished update has left
it. `AtomicSpec` instantiates `LineHistory` with it: to all that looks at the list
between two updates (keys, drawings, the main loops) `handle_scrollup` is atomic.

The order of the stores is the compiler's. `configure.ac` builds with `-O2`
unless `--enable-debug` is given. gcc 12 keeps the source's order at `-O0`; at
`-O2` it stores `console.line_hist` before `new->next`, and leaves the stores
before, and those around `free`, where they are. `optimised` is the choice of
build; both are checked and proved about. In the optimised build an interrupt
between the two exchanged stores finds a list of one line (`Severed`), so its dump
holds no history at all; it is still well formed.

Left out: `malloc` and stdio called by a handler that has interrupted the same
functions; an interrupt of the dump itself (it is in `Lifecycle`); what a reset
does to the frame buffer, which is taken to keep its text. The card's shift is one
step here; `Console` has it word by word.

### Console

The composition of the two sides at the level of words: `Console` instantiates
`Handshake` for every access to a register and adds the frame buffer, the
terminal of `winky/cga.c` and what philix copies from the frame buffer. Each
row is two words, enough to see a torn line. `tpc` is what the terminal does
next: print a word (`putchar`), end the line (`phi_notify_line_draw`), announce
the scroll, move the frame buffer one word per step (`term_scrollup`), ask for a
redraw, shut down. A step of the terminal needs the card to be running, i.e.
not inside a `phi_notify_*` function. philix copies the first row one word per
step (`CopyWord`), between reading the notification and acknowledging it. A
redraw and a line update draw the whole frame buffer in one step; `screen` is
not looked at when the card may run meanwhile. A dump writes the frame buffer one
word per step (`DumpWord`): by the key `o`, which is handled after the
acknowledgement, while the kernel prints and scrolls, or at the shutdown. A dump
needs a history; without one `dump_console_to_file` faults, which `Lifecycle` and
`LineHistory` show. The words of the *n*-th line are
*n*, so a line with two different words is torn and a missing number is a lost
line.

The history is not bounded here and the user does not scroll back: both are in
`LineHistory`. The frame buffer starts with what the previous boot has left
(`Left`), and `term_init` blanks it word by word (`BlankWord`) while philix
already polls: a leftover notification can make it save, draw or dump a line before
it is blanked, or while it is. Such a line stands in the history in front of the
output; `HistoryReadable` makes an exception for it, `OutputKept` and the second
half of `DumpReadable` speak of runs without unearned acknowledgements, in which
there is none. The ends of philix are `Handshake`'s. `term_clear`, which
the kernel does not call, and long lines (which `putchar` ends the same way as a
newline) are left out. `MaxLines` bounds the lines printed.

### Lifecycle

`stack` is the process: a frame is the name of what a function does next, a
signal handler is pushed on what it interrupts, `dump_console_to_file` on its
caller, and `exit()` replaces the stack by the exit handler. So an interrupt can
come between any two steps, in the middle of a dump, of another handler or of
the exit. `masked` and `installed` are the signal masks and the handlers.
`Segfault` leaves the faulting frame where it is; a handler that returns comes
back to it. `end` says how the process ended: by `exit`, by an `exit()` nested
in the exit handler, killed by a signal, or by a failed assertion.

`WriteBoot` has three outcomes. A card that is not ready takes no boot string; one
that is ready takes it (`card` becomes `ours`), or the string does not reach it,
because the driver refuses it or the write fails. `boot_phi` notices nothing of
this (`philix.c:948-953` compares `fwrite`'s count with less than 0 and ignores
`fclose`) and succeeds all the same; `refused` remembers it. So `ConsoleHasCard`
says what is left: the string is written to a ready card only. `LogOfLiveCard`
is about the dumps: of a card that has taken the string, a dump in curses mode never
shows what a reset has left, and in batch mode an interrupt handler that is the first
to reset the card has dumped it before. A later dump in batch mode, of a second
interrupt or of a shutdown that is handled after the first, does overwrite that log
with what the reset has left, unless the dump file is named by its time; that is
what the program does.

The driver (`card`, `CardReady`, `Micctrl`), the C library and the kernel are
external; three of their rules matter and were measured with glibc 2.36 on Linux:

* an `exit()` called while an exit handler runs does not run it again;
* `system()` ignores SIGINT in philix, while a `^C` in the terminal reaches
  `micctrl`, unless philix has SIGINT masked;
* the first `rewind` of a stream repositions it; a later one stays within the
  buffer, so `fscanf` does not see what has changed in the file, unless the read
  before has hit the end of the file. A state file that ends in a newline
  (`newline`) is never read to its end by `"%s"`. Both kinds of file are checked.

The main loop is reduced to what matters here: a line is saved (`hist`), the
loop fails, an assertion fails, a shutdown arrives, a key dumps or writes the
SBOX. `mapped` are the two maps that succeeded; the loop of a process without the
card's memory faults at its first register. `log` is the dump file and tells a
dump of the running card from one of a card that had been reset. Not modelled:
calls of `malloc` and stdio in a handler that has interrupted the same call.
`MaxInt` bounds the interrupts.

### Loader and Multiboot

The loader runs alone; what matters is where things stand. `mem` is the card's
memory, a function from addresses to contents: a cell of the loader itself, of
the command line, of the ramdisk (`<<"image", k>>`), zero, the status byte, or
anything else. A behaviour begins with one layout of loader, command line and
ramdisk (`Boot`), nothing overlapping. The multiboot table, which `inky_mbgen`
computes from a menu, is part of it; paths are sequences of words and slashes.

`pc` names the part of `loader()` that comes next: the checks, the three copies
(`CopyCmdline`, `MoveAway`, `PlaceImage`), `AdjustModules`, the search, then
`elf64_load` header by header (`CheckHeader`, `LoadSegment`, `Relocate`) and
`Finish`. The loader reads the ELF headers again for each segment: `HeadersRead`
says that they still stand where they were read. `stop` says why a loader has
stopped: an error it reports, a failed assertion in `memcpy` (an endless loop),
the doorbell, or `lost` when it has overwritten itself or what it reads. Each
`print_status` of `loader.c` writes a byte to a fixed address (`StatusPort`) that
is ordinary memory; the one in `elf64.c` waits for a doorbell.

The copies are good in some layouts only; `OutOfTheWay` and `WellPlaced` name
them. The ramdisk must not begin below the end of the command line's copy, or
that copy overwrites it; the ramdisk's copy must end below the fixed address the
kernel is loaded at; the status byte must hit neither the loader nor a copy or
its source. `WellPlaced` adds that the ramdisk does not begin below its own copy:
if it begins up to one megabyte below it, the loader moves it up by its size and a
page only, the second copy can still overlap the first, and the assertion in
`memcpy` hangs the card. And `elf64_load` packs the segments page by page from
16 MB whatever their addresses are, so a kernel comes out in one piece only if
its segments follow each other page by page (`Linked`, which also asks that the
kernel's file is in the ramdisk, its segments in the file and memory there for
them). It need not be linked for 16 MB: `KernelStands` says that such a kernel is
moved there as a whole (`Move`), its entry point by the same distance. Of an ELF
file that is no such kernel nothing is assumed, and `entry` may come out negative
where the program's arithmetic wraps around. The exception is a kernel of several segments
linked at 0, for which `elf_virtual_base64` returns the second segment's address
(0 is its mark for "no address yet", and the comment at `elf64.c:75-76` asks for
the lowest one). A second TLS segment, or one at address 0, fails an assertion
(`TlsFits`). A length in the menu may differ from the file's (`k1om.cfg` gives a
fixed one): the loader uses it for two tests, that it is not zero and that the
program headers (`headers`) end within it.

`StaticBoots` says which file is started: the kernel line of the menu, provided that
it has a plain name (`Findable`). The search compares prefixes of what follows the
last slash, so `cpufreq` passes for `cpu`; a slash in the arguments (`root=/dev/...`)
hides the name, and one that is the only one and the first character of the path is
not seen by `strrchr`. `Findable` excludes these; it is stated with the path's last
component and does not use the search's own definitions. At its end the loader tells
the host if the file has no relocations or no dynamic symbols (`N1`, `N2`); the
section types are left open, so `Finish` writes a status byte or none.

## Runs

| Run | Result | Shows |
|---|---|---|
| `handshake` | passes | `TypeOK`, `LossBound`, `Quiescent`, `ArgsFresh`, `CardAtMostTwoAhead`, `ChannelSpec`, `CardReleased`, `AllHandled` |
| `handshake_shutdown` | violated | a shutdown notification is lost and philix never leaves |
| `scrollback` | passes | `TypeOK`, `ListIntact`, `WindowBehind`, `HistoryInOrder`, `HistorySpec`, `ReaderUndisturbed`, `CharactersPass`, `DumpNearlyWhole` |
| `update` | passes | `TypeOK`, `Walkable`, `DumpNearlyWhole`, `AtomicSpec` |
| `console` | passes | `TypeOK`, `OutputKept`, `HistoryReadable`, `ScreenCurrent`, `DumpReadable`, `RunCompletes` |
| `console_history` | violated | an expired poll makes philix save lines that are being overwritten |
| `scrollback_pointer` | violated | the window pointer outlives an evicted line |
| `lifecycle` | passes | `TypeOK`, `ConsoleHasCard`, `ResetOnExit`, `LogOfLiveCard`, `HandlerEnds`, `BatchInterruptResets`, `BootFinishesUnbuffered` |
| `lifecycle_boot` | violated | a card still resetting at the first reread is never booted |
| `lifecycle_shutdown` | violated | a shutdown in batch mode before any history is an endless loop of resets |
| `loader` | passes | `TypeOK`, `KernelStands`, `HandedOver`, `StaticBoots` |
| `loader_relocatable` | violated | a kernel with relocations is never started |

**Bounds.** Four notifications and three expired polls, on top of a leftover in
either register, let an acknowledgement be unearned before, during and after
the handling of a notification and its effect reach the second notification
after it; the theorems below hold without the bounds. A history of three lines
(four cells of memory) with a window of two rows has an index inside, at and
above the window's height; five lines fill it, evict twice and let the second
allocation after an eviction reuse the freed cell. `update` uses the same sizes:
the first line, a growing and a full list, an eviction of a line in a recycled
cell, each interrupted at each store in both builds. The terminal prints three
lines on two rows: it scrolls twice, and two unearned acknowledgements
(plus a leftover, which may be a scroll, a line update or no update philix knows)
reach the state where the card is two notifications ahead and
the line philix saves is torn, in either direction, or is a line of the previous
boot. A dump of those four words
can be overtaken by one whole scroll, and begin before, in and after it. Three interrupts reach an
interrupt of the boot, of a dump, of the exit that the first one has started and
of the exit's reset in one run; handlers nest two deep at most. The loader's memory
has 46 cells with pages of two and a kernel at 18: five sizes and places of the
loader, three places and sizes of the command line and every place of a ramdisk
of five or six cells below 23 cover a ramdisk below, among and above the copies,
moved or not, a copy that meets the kernel, a status byte in each of the areas,
a failing assertion in each copy, and a loader that overwrites itself. Eleven
kernels go with them (static, with a gap, with a second TLS segment or one at 0,
linked elsewhere, linked at 0 with one or two segments, with an empty and a filled
relocation table, with longer headers, not an ELF file), and seven menus: kernels
named by a word, by a path of several slashes, by one whose only slash comes first,
with a slash in the arguments, with a module that passes for `cpu`, and with a length
shorter than the headers.

**Fairness.** `FairSpec` assumes that the kernel finishes a `phi_notify_*` call
it has started and that the host process keeps running its loop: both are
straight-line code or polls. Nothing is assumed of the kernel sending another
notification, of a poll expiring, of an allocation failing or of a key. An
`exit()` that has been reached runs the exit handler (`Exit` or `ExitLost`, whichever
`micctrl` makes of it). Curses mode, which the
runs use, reads the keyboard without waiting (`wtimeout(w, 0)`); batch mode has
the same loop and draws nothing.

`Console!FairSpec` assumes the same of philix and that the kernel goes on
printing until it has printed everything, as the example kernel does. A dump
that has been begun, or that batch mode owes, goes on; no key has to be pressed.
`RunCompletes` needs no fairness of the failing actions: no poll has to expire
and no allocation has to fail.

`Lifecycle!FairSpec` assumes that philix goes on with what it has begun (boot,
handlers, dump, exit), that `system()` returns and that the driver finishes a
reset. `Loader!FairSpec` assumes that the loader, which runs alone, goes on. What comes from outside, i.e. notifications, keys, interrupts and failing
calls, need not happen.

**Deadlock** is not checked: the kernel may halt, philix may exit, and the loader
ends in the kernel or in an endless loop.

## Proofs

`HandshakeProofs` proves for every number of notifications and expired polls,
every leftover and both modes that `Handshake` satisfies `TypeOK`, `LossBound`,
`Quiescent`, `ArgsFresh` and `CardAtMostTwoAhead` and implements
`UpdateChannel`. It uses the assumptions on the constants' types only.

`LossBound` is not inductive: whether a store to `OUTPUT_AVAIL` costs the
pending notification depends on why the card was let go earlier. `Accounting`
strengthens it by counting acknowledgements: those consumed by the card (one
per notification raised, less the one it waits for), the one standing in
`OUTPUT_DRAWN` and the one the host is about to give are together no more than
the notifications handled and the unearned ones. The card can therefore only
overwrite, and the host only zero, a pending notification on the account of an
unearned acknowledgement. `HandShape`, `SlotShape`, `Ordered` and `ArgShape`
relate the numbers in the registers to the two positions. `Quiescent` follows
from the books: with nothing unearned and a notification in hand they balance
only if the card waits for it. `CardAtMostTwoAhead` has an invariant of its own
on top, `AheadInv`: `Credit` is how many notifications the card can still raise
before it needs another acknowledgement, and while the host has notification
`cur` in hand the notifications raised and that credit come to `cur` + 2 at most.

`LineHistoryProofs` proves for every memory, every height of the window, every
number of lines and every `MaxHist` of at least two (with one, the code reads
`prev->prev` of a ring of one and cuts its only link) that the ring stays whole
(`ListStaysIntact`) and that it implements the bounded history (`HistoryKept`:
`Spec => HistorySpec`). `chain` makes the pointers a sequence, so that
no induction along them is needed: `GrowStep` and `ReplaceStep` show how each
part of `ListIntact` moves up by one place. The refinement needs one fact more,
`LinesCountDown`: the lines along the ring are the last ones saved, so the
history before and after a save are runs of consecutive numbers (`UpTo`).
`OtherSteps` shows that no key, drawing or dump touches the ring.

`WindowProofs` goes on from there, under the same assumptions, to all that walks
the ring: `WindowStaysBehind` (`WindowBehind`), `HistoryStaysInOrder`,
`ReaderIsUndisturbed`, `CharactersAlwaysPass`, `DumpIsNearlyWhole` and
`TypesCorrect`. The functions that walk are recursive. That such a function
satisfies its equations, and what it then returns, is shown by induction along its
domain (`Steps`, from the least number that is not in a set: `LeastNumber`):
`FollowIs` for a chain of pointers, `DrawingIs` for the rows a drawing puts on the
screen, `DumpIs` for what a dump writes, `BackMoves` and `ForwardMoves` for the
loops behind the scroll keys. `WindowBehind` is not inductive: it
says nothing of the pointer while `line_idx` is 0, although the pointer may be on the
list by then and the next key moves both. `Behind` says it for every index: unless the
line has been freed under it (`astray`), a pointer that is set is at a place in `chain`
that is at least `line_idx` lines behind, counting the newest as the first. It may be
further behind, since a new line moves the place of the pointer by one and leaves the
index alone. `PtrInv` bounds the index by the lines kept and lets the pointer be NULL only
with an index of 0. `WindowInv` joins the two to `ListInv`. It implies `Started`: a
pointer to a line that is still kept gives the drawing a line to begin with.

For `ReaderUndisturbed`, saving a line moves the places of all the lines kept up by
one and leaves the pointer and the index alone, so the drawing starts at the same line
as before (`SameLine`) and has at least as many rows to show (`RowsDrawn`). The
property excludes a step that leads astray, since the pointer is lost there.

`HistoryUpdateProofs` proves for every memory, height, number of lines and
`MaxHist` of at least two, and for both orders of the stores, that the list can be
walked at every store (`AlwaysWalkable`), that a dump taken there is in order and
lacks the ends only (`DumpsNearlyWhole`), and that whole updates implement
`LineHistory` (`StatementsAreAtomic`, with its variables replaced by `settled`).
The invariant has the ring of `LineHistoryProofs` (`Ring!ListInv`) for `settled`,
and `Progress`, which says for each value of `pc` by what the list differs from
`settled`. `AtomicSpec` then needs nothing new about rings: a last store is
`LineHistory`'s step (`LastIsSave`), and `Ring!SaveStep` keeps its invariant. `TrailsAgree` says
that there is at most one trail, so that what is proved of `Reach` holds of the
trail the handler takes; it takes the first place at which two trails differ
(`LeastNumber`).

`ConsoleProofs` proves that every step of `Console` is a step of `Handshake` or
leaves the registers alone (`KeepsProtocol`), so that everything proved about the
registers holds of the composition. `StandsStill` is what `Quiescent` comes to
there: between philix reading a notification and having handled it, no step changes
the frame buffer, if no acknowledgement is unearned. It says nothing of keys and of the
dump by key, which read the frame buffer while the kernel runs (`DumpReadable` says
what such a dump shows). On top of it stand
`KeepsOutput` (`OutputKept`) and `DrawsWhatStands` (`ScreenCurrent`), for every
height, every number of lines and every leftover. `Turns` is what the books of
`HandshakeProofs` say, without unearned acknowledgements, about whose turn it
is: the kernel runs only when its latest notification has been handled and
nothing of it stands in `OUTPUT_AVAIL`. `OutputKept` is not inductive, for it
says nothing while the frame buffer is being moved. `TextInv` does: `Gone` lines
have left the frame buffer, `Saved` says that the history holds those, and the
next one as soon as the scroll is acknowledged, and `Shown` says which rows above
and below `pos` have moved. `InHand` ties the two sides together: philix has in
hand what the terminal has announced last, so it copies the first row only while
`term_scrollup` is waiting to move it.

`ViewerProofs` proves what holds whatever is unearned. `HistoryStaysReadable`
(`HistoryReadable`) needs neither `Turns` nor `TextInv`: `Standing` gives every word
of the frame buffer (`Content`) from the terminal's own state, also in the middle
of a scroll, so the words of a row are at most one line apart (`FirstRow`) and
no word above the last row goes back (`WordsRise`). philix copies the two words of
the first row at different times; the second is at most one line ahead or behind
unless the kernel scrolls twice meanwhile. `Need` is the number of waits it must
still pass before it moves the first word again, `Credit` the number it can pass
without philix (`OUTPUT_DRAWN` is one flag); once the first word has moved under
the copy, `Need > Credit` until philix acknowledges (`NeedStep`). With fewer waits
in `term_scrollup` and `putchar` the history would mix lines further apart.
`DumpStaysReadable` (`DumpReadable`) has two parts: `Ascending` holds in any
case, since the words of a column ascend (`WordsAscend`) and rise. `Current` is
about a dump with nothing unearned and takes the length of the history from `Saved`; a
row written as blank can be filled only once before philix must go on
(`StaysBlank`, `BlankStep`). `TypesCorrect` (`TypeOK`) needs no more than the
guards of the terminal.

`LifecycleProofs` proves `BootsACard` (`ConsoleHasCard`) and `CardLeftReset`
(`ResetOnExit`) for any number of interrupts, both modes, both kinds of state
file, and a boot string that may be refused. `Stacked` says that main's frame, or the exit handler's, stands at the
bottom of the stack and only handlers and the dump above it. All that matters to
the card then depends on the bottom: until the boot string is written (`Booting`)
nothing is installed, so nothing can stand above, and what `boot_phi` has read is
the card's state or is not "ready"; afterwards (`StandsBy`) the exit handler is
installed, or running, or has run. `Climb` shows that nothing above the bottom
disturbs this, `ExitStep` that an `exit()` from anywhere keeps it. `LogShowsLiveCard`
(`LogOfLiveCard`) has an invariant of its own: `Bottoms` says for each step what can come
to the bottom of the stack, so that until a handler has returned a card that was booted
runs the kernel whenever something stands there that can dump (`LogInv`). `AnswerInv` says
that a handler of SIGINT in batch mode comes to its reset from its dump only, `CursesInv`
that in curses mode only the exit handler resets the card and a dump stands on the
main loop, never on that handler, and `FileInv` what follows for the file. `StackIsShallow`
(`TypeOK`) bounds the stack: a signal is masked while its handler runs, so each
handler is on the stack once, and a dump stands on the main loop or on the
interrupt handler (`Nested`), which makes five frames at most (`NestedShort`).

`LoaderProofs` proves `HandsOver` (`HandedOver`): for every page and memory size,
menu, kernel and layout, if the layout is out of the way the kernel finds command
line, ramdisk and every module whole where the multiboot information names them.
It assumes that what the firmware has placed does not overlap (`Laid`) and that
the table and the files have their types (`Boot`). `HandedOver` speaks of the end
only; `Places` follows the two areas through memory: before each copy they stand
where it reads, and afterwards where it has written. `CopyBrings`, `CopyKeeps` and
`SetKeeps` say what a write does to an area, and `Apartness`, `Room` and
`SegmentApart` that the copies, the status byte and the kernel's segments, which
only go up from `KernelLoad`, do not meet it. The search returns an index
(`Finds`) because a non-empty set of numbers has a least element (`LeastNumber`,
by well-foundedness of `<`).

`KernelStandsLinked` (`KernelStands`) follows `linear_alloc` from segment to
segment: `Progress` says that the allocator's next address is where the next
segment is linked, moved by `Move`, and that the segments before it stand where
they belong and end below (`LoadKeeps`). The entry point needs that
`elf_virtual_base64` returns the lowest address (`BaseIsLowest`, by induction over
the headers), which fails with a segment at 0; hence the condition in
`KernelStands`. `TypesCorrect` (`TypeOK`) uses the invariants before and `Ranges`.

Every invariant and every safety property of a step that the runs check is proved,
with the assumptions of the modules only. By TLC alone are checked the
liveness properties (`CardReleased`, `AllHandled`, `RunCompletes`, `HandlerEnds`,
`BatchInterruptResets`, `BootFinishesUnbuffered`, `StaticBoots`): liveness and
fairness are out of the prover's reach. What the violation runs refute is shown
by TLC's counterexamples.

## Findings

Each is shown by a run of the same name in the table above.

1. `console_history`: both loops acknowledge after an expired poll
   (`philix.c:707-708`, `773-774`). A kernel that is idle for 0.1 s (the example
   kernel idles for three seconds) finds `OUTPUT_DRAWN` set when it next
   notifies and goes on at once. From then on it is ahead for good and shifts
   the frame buffer while philix copies its first line: lines are torn, doubled
   or missing. How many notifications are lost is bounded by the expired polls
   (`LossBound`); how many lines are spoiled is not. `HistoryReadable` is what
   remains true: no line mixes text more than one line apart, and the history
   never goes back. (`src/README:165` describes the call as made after the
   line has scrolled; it has to come before, as `cga.c` does it.)
2. `handshake_shutdown`: the same acknowledgement zeroes `OUTPUT_AVAIL` without
   having looked at it again, so a shutdown can be lost.
3. `scrollback_pointer`: `win_ptr` is left behind by the eviction.
4. `lifecycle_boot`: `boot_phi` rereads the state through a buffered stream
   (`philix.c:938-943`). If the state file ends in a newline only the first
   reread after the reset reaches the driver; when the reset takes longer than
   that, philix rereads its buffer for ever. `BootFinishesUnbuffered` is what
   holds otherwise.
5. `lifecycle_shutdown`: `dump_console_to_file` reads `cur->next` of `NULL` when
   nothing has scrolled. In batch mode the SIGSEGV handler resets the card and
   returns to the same instruction, without end.
6. `loader_relocatable`: `elf64_relocate` prints its progress through a doorbell
   that philix does not know. The second message waits for ever, so a kernel
   with relocations is not started, although `loader.c` promises to load a
   relocatable kernel. The example kernel is linked for 16 MB
   (`winky/linker.lds`) and needs none.

Seen on the way, without a run of their own:

* a scroll key before anything has scrolled fails `assert(line)`
  (`philix.c:369`; the macro that would switch assertions off is spelled
  `NODEBUG`), and a leftover in `LINE_REG` fails `assert(row < PHI_FB_HEIGHT)`
  (`philix.c:580`): philix dies without resetting the card, whose kernel then spins
  for ever at its next notification (`CardReleased` excepts it); `LineHistory` ends
  with `fault = "assert"`;
* `boot_phi` does not notice that the driver has refused the boot string
  (`ConsoleHasCard` excepts it);
* a slash in the kernel's arguments, or as the first character of its path only,
  hides the kernel from the loader's search, and a module `cpufreq` passes for `cpu`
  (`Findable` excludes them);
* a second dump in batch mode, after the first has been followed by a reset, writes
  what the reset has left over the first log (`LogOfLiveCard` is about the first);
* `output_hist_to_file` stops at the newest line of the history without writing
  it, and `draw_hist_buf` without drawing it (`DumpNearlyWhole` and
  `CharactersPass` say that no other line is missing);
* in the optimised build an interrupt between the two exchanged stores of
  `handle_scrollup` dumps no history, although `src/README:86` and `src/README:96`
  promise a dump on interrupt (`DumpNearlyWhole` of `HistoryUpdate` says so);
* `elf_virtual_base64` is wrong for kernels of several segments linked at 0
  (`KernelStands` excludes their entry point);
* `curses_sigint_handler` exits without the dump that `-d` asks for.

## Plan

What is left to prove is not checked by a run yet: a bound on the history cells
in use, that the scroll keys undo each other, and the link between the card's single shift
in `LineHistory` and the words of `Console`, i.e. that `Console` without unearned
acknowledgements implements `Scrollback` with an unbounded history.
The runs are kept few: a run of a new module replaces a violation run
whose finding says least.

## Not modelled

* The SBOX interrupts: the keys `p` and `b` read, modify and write `SICE0` and an
  APIC command register. philix has one thread, nothing on the card's side in
  `src/` touches these registers, and no answer comes back, so there is nothing for
  them to interfere with. That the stores fault when the map has failed is in
  `Lifecycle`.
* Colours, popups and window layout of curses.
* Hardware bring-up on the card: mode switch and page tables of both `boot.S`.
* `inky_patcher`, whose header only the firmware reads; what a relocation would
  write, since none is ever reached; `elf64_find_section_header_name`, which
  nothing calls.
* `philix_sbox_dump`, a one-shot dump without state.
* The vendored headers under `inky/include`: third-party, most of them used by
  nothing here. They are by far the larger part of the source lines.
