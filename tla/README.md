# SimplrOS in TLA+

SimplrOS is a small x86-64 operating system: a UEFI bootloader loads an ELF
kernel, which finds a SATA controller, mounts a read-only file system (FSSO)
and runs a shell. The FSSO image is built on the host by `tools/mkfsso`. This
directory models every part of the running system, from the bootloader to the
shell's commands, and the image builder; checks the models with TLC; and proves
the properties that matter most with TLAPS.

## 1. Inventory

| component | source | state | operations |
|---|---|---|---|
| bootloader | `bootloader/bootloader.c` (twin in `SimplrOsPkg/Bootloader`) | firmware handles, kernel buffer, memory map key | open and load `kernel.elf`, copy segments, leave boot services, jump |
| kernel start-up | `kernel/kernel.c` | boot info | `memory_init`, clear screen, `ahci_init`, `fsso_mount`, `shell_run`; stops if either of the two fails |
| keyboard | `kernel/kernel.c` `read_key` | `shift_pressed` | poll, translate scancode |
| console | `draw_char`, `shell_putchar` | framebuffer, `cursor_x`, `cursor_y` | draw, newline, wrap, erase |
| shell | `kernel/shell.c` | input line, argv | readline, parse, `echo`, `clear`, `ls`, `cat`, `help` |
| heap | `kernel/memory.c` | `heap_offset` | `memory_init`, `kmalloc`, `kfree` (empty) |
| PCI | `kernel/pci.c` | none | scan function 0 of every slot for a SATA controller, return BAR5 |
| AHCI driver | `kernel/ahci.c` | `active_port`, port registers, command table | `ahci_init`, `port_rebase`, `ahci_read` |
| FSSO driver | `kernel/fsso.c` | copy of the superblock | `fsso_mount`, `fsso_read_inode`, `fsso_find_in_dir`, `fsso_resolve_path`, `fsso_read_file` |
| FSSO builder | `tools/mkfsso.c` | the image: counters, two bitmaps, inodes, root directory, data | format, `fsso_add_file`, write |
| test program | `tools/test_fsso.c` | | mount, find, read one file |
| binutils | `binutils-2.42` | | vendored, not part of the system |

Interactions. The shell calls the FSSO driver; that calls `read_block`, which
calls `ahci_read` for two sectors and throws its result away. `ahci_read` shares
the command table, the port registers and the caller's buffer with the host bus
adapter (HBA), the only concurrent actor of the running system: the kernel uses
one CPU, no interrupts and no threads. Builder and kernel share nothing but the
bytes of the image. Two more actors surround the kernel: the firmware, which may
change its memory map between two calls of the bootloader, and the keyboard,
whose controller queues codes while nobody reads them.

What is hard:

* *Concurrency*: the HBA fetches the command table and writes memory on its
  own time. There is one command slot and `ahci_read` never looks whether it is
  free.
* *Timeouts*: a call that times out leaves its command outstanding; the
  completion of that command is then taken for the next call's.
* *Errors*: a stopped port is not restarted; a failed read is not reported to
  the file system, which goes on with whatever the buffer holds.
* *Two implementations of one format*: builder and kernel address inodes
  differently, and agree only for as many inodes as the root directory can name.
* *Edges*: partial last blocks, buffers that are no multiple of a block,
  wrap-around of 32-bit sums, full directory, bitmaps and heap; the last column
  of the screen, the last character of a line, the last word of argv.
* *Memory without a manager*: segments, command structures and framebuffer are
  written at addresses that nothing reserves.

What makes each part correct: a read that reports success has delivered the
right sectors to the right buffer and to no other; the drive chosen is the
FSSO drive; calls return; images hold what was added and no block twice; the
kernel finds the file the builder stored and never writes outside its caller's
buffer; the heap hands out no byte twice; what the shell executes is what was
typed and what the screen shows; a kernel that is started was loaded as its file
says, with the firmware out of the way.

## 2. Modules

| module | models | remarks |
|---|---|---|
| `Ahci` | `ahci.c` and the HBA | two actors; one action per store or register access that the HBA can observe |
| `BlockDevice` | what `ahci_read` promises | abstract; `Ahci` implements it (`IsBlockDevice`) |
| `AhciProofs` | | theorems about `Ahci`, the refinement included |
| `FssoLayout` | `fsso.h` | geometry constants with their assumptions; `WriterOffset` and `ReaderOffset`, the two ways to address an inode |
| `Mkfsso` | `mkfsso.c` | extends `FssoLayout` |
| `MkfssoProofs` | | theorems about `Mkfsso` |
| `Fsso` | `fsso.c` and its callers | extends `Mkfsso`: runs on the image the builder wrote |
| `Memory` | `memory.c` | arithmetic modulo `Word` |
| `MemoryProofs` | | theorems about `Memory` |
| `FssoProofs` | | theorems about `Fsso` and `ShellCommands`; extends `MkfssoProofs` |
| `Keyboard` | `read_key` | keyboard and controller queue are external actors |
| `Terminal` | line editing, printing, `clear`, `draw_char`, `draw_string` | the framebuffer as sets of ink |
| `TerminalProofs` | | theorems about `Terminal` |
| `ShellParse` | `shell_run`'s loop, `shell_parse`, `str_eq`, `echo` | the input buffer with the remains of earlier lines |
| `InputProofs` | | theorems about `Keyboard` and `ShellParse` |
| `ShellCommands` | `ls`, `cat` | extends `Fsso`: composition of builder, driver and shell |
| `Pci` | `pci.c` | the packed address word and the host bridge that unpacks it |
| `KernelMain` | `kernel_main`, `linker.ld` | extends `Pci`; regions at their real addresses |
| `KernelMainProofs` | | theorems about `Pci` and `KernelMain` |
| `Bootloader` | `bootloader.c` | memory cell by cell, map key, firmware events |
| `BootloaderProofs` | | theorems about `Bootloader` |
| `MC...` | | constants for TLC |

Definitions named `...Unchecked`, `...PastEnd` and the like, under a comment
that starts with "Mutant", are plausible mistakes in the definition that follows
them. They occur in no specification; replacing the definition by one of them
must violate a property (`mutants` in `PROJECT.json`).

### Ahci

`pc` is the place of the driver. `ahci_init` is `InitNoController` /
`InitController`, one `ScanPort` per port, `ScanDone`, and the three parts of
`port_rebase`: `RebaseStop`, `RebaseBases` (the first spin loop is its guard),
`RebaseStart` (guarded by the second). `ahci_read` is `Call`, the stores
`ClearTable`, `WritePrdt`, `WriteFisCommand`, `WriteFisLba`, the register writes
`AckStatus` and `Issue`, the loop `PollCi` / `PollIs`, and `ReadFinal`. `buf[b]`
is the LBA whose sectors buffer `b` holds.

The HBA follows ST and FRE with CR and FR, fetches the table of slot 0 *as it is
at that moment* when CI is set, moves data, then completes (CI clears) or fails
(the error bit is raised, CI stays set, the port is dead until ST is cleared,
which the driver does only in `port_rebase`). A table whose FIS is not yet a read command
moves nothing. The kernel is compiled without optimisation, so stores reach
memory in program order. Zeroing the table is one step: its FIS comes first in
memory, so a half-zeroed table is, for the HBA, a table without a command. The
six stores of the LBA are one step: only a command fetched after a timeout could
see a mixture, and such a call is exempt from the properties anyway.

Several properties are about calls that began with the slot free
(`busyAtEntry = FALSE`). That restriction is the real one: without it the
properties are false, because the code does not wait for the slot.

`BlockDevice` is the same component as its callers see it: a call delivers and
returns 0, or returns a negative value. Its two holes are the driver's. After a
timeout the transfer may still happen, and the next call is *tainted*: it may
return 0 with anything in any buffer. A device that failed is dead. The mapping
is: a call is in progress while `pc` is in `ahci_read`, it is tainted when the
slot was busy at its entry, the device is dead when the HBA is halted.
`read_block` in `Fsso` is this promise with the result thrown away: an untainted
delivery is the block, everything else is the old content or garbage.

### Mkfsso and Fsso

In `Mkfsso` any list of files may be added; `main` adds two fixed ones. The exits of
`fsso_add_file` are separate actions (`NoFreeInodes`, `NotEnoughBlocks`,
`DirectoryFull`, `AddFile`), each with the marks the code leaves behind. A
failed call ends the program, as in `main`. Data blocks hold chunks
`<<datum, index>>`. File sizes are limited to `DirectBlocks` blocks
(`FileSizeAssumption`): the code does not check it. `AllocationExact` says what
the bitmaps mark, bit by bit: what the files in the directory use and, after a
failed call, what that call took and did not give back, which is one inode and
its blocks, or all blocks if there were too few. The counters change only at the
end of a call, so they are right for the files in the directory whether or not a
call failed, but for the block of the root directory.

`Fsso` starts when an image has been written. `read_block(b, old)` is the set of
outcomes of a read into a buffer that holds `old`: the block, or, on failure,
`old` or `Garbage`. What is taken out of garbage is a choice from
`GarbageInode` and `GarbageWord`. Garbage covers the sectors of another block as
well, so a stale completion of the AHCI driver is such a failure. `dirty`
records that a read of the current call failed. `fsso_read_inode` is one action
for all callers; `FindStep` and `ReadStep` are one iteration of the loops. Each
call's locals die when it returns. `fsso_resolve_path` (`SkipDot`,
`LookUpComponent`, `Resolved`) runs a search per component. A path is a sequence
of dot-free names and `Dot`s: the code splits at every dot, so a file whose own
name contains one, like `hello.txt`, is no path component and can only be found
with `fsso_find_in_dir`, which is what the shell uses. Names are assumed to fit
their 255 characters.

### Memory

`ptr` is an offset into the heap array. Requests are any words. For a size within
7 of the largest word the rounding wraps to 0 and the next allocation gets the
same address; for a large size at a heap in use the sum with `heap_offset` wraps
and the block reaches behind the heap. `Wrapped` is the condition on offset and size
for either, and the two properties hold of exactly the other allocations.
`kmalloc` has no caller yet.

### Keyboard, Terminal, ShellParse, ShellCommands

The four share no variables the code does not make them share, so they are
checked separately: `read_key` hands characters to the line editor, the editor a
finished line to the parser, the parser words to a command.

In `Keyboard` each code in the queue carries what was true when it was sent
(whether a shift was held, whether several had been, whether the last shift code
had been lost at a full queue). The properties compare that with what `read_key`
makes of it later. The 0xE0 prefix is skipped by the code, so the fake shifts of
extended keys look like a second shift key and are modelled as one.

In `Terminal` the cursor is a column, which may be negative, and a scanline. A
pixel is the set of characters inked there, because `draw_char` never clears. A
glyph inks its whole cell, the space nothing. `TermInit` has the status lines
`kernel_main` drew; `StatusAssumption` says that they end above the shell's first
line and fit in its columns, as they do at y = 0, 10 and 20 (the shell starts at
40). Below the last line the code goes on drawing behind the
framebuffer; `DrawsInside` is about the lines that are on the screen.
`CursorMatchesLine` counts through wraps: after a wrap a backspace makes the
column negative and stays on the lower line, so the sum is right although the
position on the screen is not; `ScreenShowsLine` is therefore about lines that
have not wrapped. `WideEnough` is a precondition the code does not establish:
the bootloader selects mode 0 whatever its width.

In `ShellParse` the buffer starts with arbitrary content and keeps the cut-up
remains of earlier lines behind the new terminator. The scan is one action per
character. `ArgvCorrect` compares the result with a definition of "the words of
a line" that knows nothing of the scan. `SymbolAssumption` says that a command's
name has letters only and that no command is called like the model's two markers
for "no command".

`ShellCommands` runs `cmd_cat` as a search and a read of `Fsso`, and `cmd_ls` as
its own walk of the root directory. `cmd_ls` ignores whether the inode was read.

### Pci, KernelMain, Bootloader

`Pci` takes the memory base of the first SATA controller; whether it is an AHCI
controller with a BAR5 is left to `ahci_init` (`InitNoController`).
The class word is the upper half of the register. A vendor is any number; 65535
(0xFFFF) means that there is no device.

`KernelMain` has the real addresses: code and heap from the committed
`kernel.elf` (`.text` 0x100000, 0x1a5c bytes; `heap` at 0x1025a0).

`Bootloader` copies segments byte by byte, re-reading the program header from
the file's copy for every byte as the code does. `used` has the cells that are
allocated. The firmware knows nothing of the segments, so the buffer for the
memory map, and whatever a handler of the firmware allocates, may lie over them:
`GetMap` and `FirmwareEvent` then overwrite `mem`. `LoadedIntact` is about the other
cells. "wild" is undefined behaviour, which is not followed further. It may follow
the reading of an overwritten header, a store to memory in use (`StoreAstray`,
which may also go unnoticed), the uninitialised `Gop`, and the null pointer that
the first, unchecked `AllocatePool` may return: UEFI's GetInfo has no error for a
null buffer, so the size of the file may even come through address 0
(`InfoThroughNull`). Only the second unchecked allocation is harmless:
GetMemoryMap is specified to refuse a null buffer. Every firmware call may fail.
An allocation or a release changes the number of descriptors by at most two.
`KernelAssumption` says the headers describe a file that fits in memory and are
themselves in the file.

## 3. Runs

| run | bounds | what it shows |
|---|---|---|
| `ahci` | 2 ports of any kind, 2 LBAs, 2 buffers, 2 polls | what a result says of the buffer, which buffers the HBA writes to, that calls return, and that the driver implements `BlockDevice`; 455,561 states |
| `fsso` | 10-byte blocks, 3 inodes or 2 entries per block, 3 data blocks, 3 inodes, 2 names, 2 contents, sizes 5 and 15; buffers of 10, 12 and 25 bytes; 4 garbage inodes; 4 paths | the kernel reads what the builder wrote, under any failures; 392,765 states |
| `shell_commands` | the same geometry with 5 inodes, sizes 0, 5, 10, 15; `cat` buffer of 12 bytes | images are sound, even when a call of the builder fails; `ls` and `cat` on them under any failures; 735,537 states |
| `memory` | heap 32, word 64, 10 sizes from 0 to 63, 4 allocations | allocations are apart and in the heap unless a sum wrapped; 4,327 states |
| `keyboard` | 2 shift keys, 1 key with and 1 without a character, queue of 3 | when flag and keys held agree; 504,251 states |
| `terminal` | 4 columns, 4 lines, 1-pixel glyphs at distance 2, lines of up to 4 characters, 2 characters | editing and drawing; 250,793 states |
| `shell_parse` | lines of up to 7 of a letter and the space, argv of 3, 2 commands | words, dispatch and what `echo` prints; 46,569 states |
| `bootloader` | 4 files of 4 or 5 cells, 11 cells of memory, a map of 1 cell, 1 firmware event | load and hand-over; 692,346 states |
| `kernel_main` | 3 buses of 4 slots, up to 2 devices of 3 kinds; all 32 ports | first controller, placement, start-up ends; 33,063 states |
| `fsso_read_errors` | as `fsso` | violation: failed read reported as success |
| `fsso_terminator` | as `fsso` | violation: `file_buffer[bytes]` is outside the buffer |
| `kernel_image` | as `kernel_main` | violation: command structures in code and heap |

Why the bounds are enough. `ahci`: two buffers and two LBAs suffice to tell the
requested from an earlier one; two polls allow a poll that sees the command
outstanding, one that sees it done, and a timeout; calls repeat without a bound,
so every combination of late completion, error and retry occurs; two ports give
none, one and two disks. `shell_commands`: sizes cover no block, a partial, a full and a
partial second block; three data blocks and two files make blocks, slots and
(with the 3 inodes of `fsso`) inodes run out; with 5 inodes the last two lie where builder and
kernel disagree. `fsso`: buffers end on a block, inside the second block, and
beyond the file. `memory`: the sizes 0 to 33 wrap
nothing, 49 and 56 wrap the sum with `heap_offset` unless it is 0, 57 and 63 the
rounding; 24 does not divide the heap.
`keyboard`: a queue of 3 overflows between any two codes, and two shift keys
suffice to release one of several. `terminal`: the prompt takes a column, so a
line of 4 characters wraps and is erased back over the wrap; 4 lines are filled
by one command. `Output` and `MaxY` limit commands that print to the first line
after a clear; an edited line moves the cursor down freely. `shell_parse`: 7
characters hold four words, one more than argv, so `echo` prints two words and the
space between them and drops a third; there are leading, trailing and double spaces, and every pair
of lines follows one another in the same buffer; one command's name is the
beginning of the other's. One letter is enough for the scan, which only tells
spaces from others; that names of equal length are told apart is `StrEq`, proved
for every alphabet. `bootloader`: the copy of the file may be before, over
and after the segments; a segment may hit the firmware, have cells to clear, or
not be loadable; the buffer of the map and one allocation of
the firmware may take any free cell, those of the segments included; one event
between any two calls makes map or key stale.
`kernel_main`: two controllers on any two slots tell first from last; three buses
against a loop variable of 8 values keep the proportion of 256 to 65,536.

Fairness. In `ahci` the driver's own steps are weakly fair (a running CPU) and so
are the HBA's answers to ST and FRE, on which the unbounded spin loops rely.
Nothing is assumed of commands: `ReadReturns` holds for a disk that never
answers. In `fsso` the steps inside a call are weakly fair; nothing is assumed of
the disk, since `read_block` always returns. Deadlock is not checked where the
program ends (the builder in `fsso` and `shell_commands`, `bootloader`), the kernel stops after
a failed initialisation (the same and `kernel_main`) or the model ends with the
shell started (`kernel_main`). In `shell_parse` the
steps between two prompts, in `shell_commands` those of a command, in
`bootloader` those of `efi_main` and in `kernel_main` all steps are weakly fair:
a running CPU and firmware calls that return. Nothing is assumed of the user.

## 4. Proofs

`AhciProofs`, for every number of ports, LBAs, buffers and polls:
`TypeCorrect`, `ReadCorrect`, `NoOrphan`, `LastDisk`, `TransferTarget`,
`RebaseSafe`, `ErrorIsFinal`. `TypeCorrect` needs that the loop body is entered
only below the polling bound. The others rest on `IInv`:

* `SlotInv`: CI is set from the fetch until the completion, and never before the
  first call. This is what makes "CI is clear" mean "the HBA is done".
* `ErrorInv`: an error bit the polling loop sees was raised after this call's
  acknowledgement, hence by a stopped port.
* `TableInv`: what the command table holds after each store.
* `CleanInv`: in a call that began with the slot free the HBA stays idle until
  `Issue`, so it only sees the finished table, and CI clears only after the data
  moved.
* `ScanInv`: `active_port` is the last disk among the ports scanned.
* `RebaseInv`: ST stays clear in `port_rebase`, so engines that stopped stay so.
* `NoOrphanTransfer` itself.

None of the properties is inductive alone: a completion can only be trusted
because of what was fetched, and what was fetched because of the order of the
stores. `IInv` has also been checked by TLC on the instance of the run `ahci`.

`ImplementsBlockDevice` proves `Spec => IsBlockDevice` step by step: every
action of driver and HBA is an action of `BlockDevice` or leaves its variables
alone. It rests on `IInv`: a call may return 0 only because, if it is not
tainted, CI clears after the data moved (`CleanInv`), and the HBA moves data
only during a call or after a timeout (`NoOrphanTransfer`).

`TerminalProofs`, for every screen, glyph and line size: `TerminalType` (the line
and its terminator fit in the buffer, the cursor never passes the last column)
and `CursorTracksLine`. The invariant `IInv` adds that the cursor's and the
origin's coordinates are integers. `DistanceMoves` is the arithmetic of the
wrap: it adds as much to the distance as any other column does, which needs that
the cursor wraps exactly at the last column.

`LineIsShown` and `DrawingStaysInside` need `DrawInv`, which adds:

* `ColumnInv`: while a line is read the cursor is some number of wraps below, and
  as many screen widths left of, where the line's length alone would put it. So
  a backspace goes at most a screen width to the left for every line below the
  first, and the linear address never falls before the framebuffer.
* `ScreenInv`: nothing is inked below the cursor's line, nor to the right of the
  cursor while something is printed. `draw_char` only adds ink, so a character
  shows as itself only where there was none. This is what fails after a wrap and
  a backspace, and why `ScreenShowsLine` stops there.

The lemmas before it (`CellAbove`, `CellBehind`, `CellsApart`, ...) say which cells
of the linear framebuffer can share a pixel.

`BootloaderProofs`, for every kernel file, memory and number of firmware events:
`KernelStartsSafely`, `NeverDefeatsItself`, `KernelLoaded`,
`DefinedUnlessOverlap`. For the first two, `MapInv` follows the map from the
size request to the exit, and `FailInv` says where an unnoticed failure can be:
the graphics protocol's and the first allocation's anywhere, the map's only until
the next call, which fails because of it. For the others, `LoadInv` has

* `PlaceInv`: the loop indices against the header being read, which holds whatever
  the segments overwrite;
* `FileInv`: if no segment overlaps the file's copy, that copy is intact, so the
  header read again for every byte is still that of the file. It needs that the
  copy stays in `used`, so that neither map nor firmware is put there;
* `SegInv`: what has been copied or cleared so far holds in every cell the firmware
  has not taken;
* `WildOnlyWithCause` itself.

`KernelMainProofs`: `FirstController`, for every machine, any number of buses up
to 256 and of slots up to 32. `ScanInv` says that no controller lies before the
place of the scan. That the device which answers is the one addressed
is the arithmetic of the packed word: slot, function and offset are each less
than the next field's unit. `ApartAtEveryPort`: `StoredInv` says that all
structures stored belong to the one port chosen; `PortsApart` compares those of
any two ports.

`InputProofs`, about `Keyboard`, for every set of keys and queue size:
`UpperUnderShift`, `ShiftApplies`. A code may be read long after it was sent, so
`QueueInv` says of every queued code that the last shift code before it, or the
flag if there is none, agrees with the keys that were held when it was sent; and
that the same would hold of a code sent now.

About `ShellParse`, for every alphabet, line length, size of argv and set of
commands: `ParserType`, `WordsAreCorrect`, `DispatchIsCorrect`. `ParseInv` is:

* `AheadInv`: what is not scanned yet is as typed, with its terminator, although
  what was scanned is cut up and old lines lie behind.
* `ArgvInv`: argv[k] is where the k-th word of the typed line begins, and each
  word but the one being scanned is followed by a terminator.
* `ScanInv`: argv has as many words as begin before the pointer.
* `RanInv` and `DispatchCorrect`.

`StartsStep` counts words as the pointer moves, `CutWord` identifies what argv
points to with the word of the line, `StrEq` says that `str_eq` is equality.
`EchoTextShows` is about `cmd_echo`: `Shows` gives the words and the spaces of the
text printed so far, and each round keeps it.

`MkfssoProofs`, for every geometry, list of files and content: `Allocation`,
`ReadsBack`, `Locatable`. `MkInv` (`ImageInvariant`) says that what is not in use
is blank (`UnusedInv`), what the root's inode is (`RootInv`), `AllocationExact`, and (`LayoutInv`) that the k-th file has inode k,
directory slot k - 1 and the data of its own. The first free bit is always
the next one because nothing is ever freed. `Locatable` follows: the directory
has fewer slots than a block has inodes (`DirectoryAssumption`), so no file has
an inode beyond the first block, where builder and kernel would disagree.

`FssoProofs`, for every such image and every pattern of failed reads:
`CopyStaysInside`, `FindIsCorrect`, `ReadIsCorrect`, `ResolveIsCorrect` of the driver;
`StorageTypes`, `ImageUntouched`, `CatIsCorrect`, `LsIsCorrect` of the composition with
the shell. The invariant has two halves. `DriverInv` holds whatever the reads
deliver: `MkInv`, types that admit garbage, and in `CopyInv` that after i rounds
at most i blocks and never more than the buffer holds have been copied.
`CleanInv` is about calls in which no read failed, after a clean mount
(`total_inodes = TotalInodes`): a search has passed only entries with other names
(`SearchInv`), after i rounds the first i blocks of the file are copied
(`ReadInv`), the components done lead to the present inode (`ResolveInv`). `ShInv`
adds how far a command has come and what it has shown (`StageInv`, `CatInv`,
`LsInv`).

`MemoryProofs`, for every heap and word size and every set of requests:
`HeapType`, `HeapDisjoint`, `HeapInside`. The invariant adds that an allocation
ends at or before `heap_offset` as long as neither its sums nor those of a later
one wrapped (`BelowOffset`). `OneWrap` says that a sum is reduced at most once, so
that `heap_offset` stays a multiple of 8 inside the heap even then; `AlignedBounds`
is the arithmetic of the rounding.

All inductive invariants have also been checked by TLC on the instances of the
runs. Where a fact needs induction over a number or a set (the first
match of a search, the stop of `str_eq`, the rounds of `cmd_echo`), the proof
takes the least counterexample (`Least`, from the well-foundedness of the natural
numbers) instead.

Assumptions used: the named `ASSUME`s of the modules, which TLC evaluates in the
runs. Every invariant and every action property that a run checks is proved.
Only model-checked are the liveness properties (`ReadReturns`, `InitReturns`,
`CallReturns`, `PromptReturns`, `CommandReturns`, `BootEnds`, `StartUpEnds`): they
depend on fairness, which is outside the prover's reach.

## 5. Findings

See `findings` in `PROJECT.json`: unreported read errors, the test's terminator,
and the command structures inside the kernel's code and heap.
Seen while modelling, without a run of their own:

* The free block count of an image is one too high: the root directory's block
  is marked in the bitmap and not subtracted (`mkfsso.c:134`). `CountersExact`
  states the count as it is.
* `kmalloc` wraps for sizes near 2^32 (see Memory above).
* `clear` blanks 768 scanlines whatever the height of the screen
  (`shell.c:99`): `ClearRows` in `Terminal`, and why `ScreenShowsLine` asks for a screen that is
  not higher.
* `echo` prints only the first 15 words of its text, since argv ends there
  (`shell.c:70`); `DispatchCorrect` says so.
* `mkfsso.c:174` lacks a parenthesis, so the tool in use is an older build;
  `test_fsso.c` includes `fsso.c`, which now calls `ahci_read`, and no longer
  links.

## 6. Not modelled, and the plan

Every component of the running system is modelled. Not modelled:

* `binutils-2.42`: a vendored copy of the GNU toolchain. It is not part of
  SimplrOS and none of the repository's own code uses it, but with some 2.5
  million lines it is nearly all of the repository: any share of the whole
  repository's lines that models of SimplrOS cover is therefore close to zero.
  Of SimplrOS's own sources (`bootloader`, `kernel`, `tools`) nearly every line
  that does something is modelled.
* `run.sh` (build and launch commands), `test_fsso.c` (a straight-line caller; its
  one interesting store is the run `fsso_terminator`), the twin of the bootloader
  in `SimplrOsPkg`, which does the same.
* Font data, the wording of messages, colours, the entries of the scancode maps.
* The firmware's stack: whether `ahci_read`'s truncation of a buffer address to
  32 bits loses anything depends on where the firmware put it.

What could still be proved: measures for the loops (each step of a call, a
command or a scan brings it closer to its end), the safety half of the liveness
properties; and that the outcomes of `read_block` in `Fsso` are those
`BlockDevice` allows.
