# xv6-gui: TLA+ specifications, model checking and proofs

xv6-gui is the xv6 teaching kernel (x86, shared-memory multiprocessor) with a window
manager inside the kernel and graphical programs on top of it. This directory holds a
formal model of the parts of it in which processes, interrupts, crashes and long
sequences of calls interact, the TLC runs that check them on small instances, and TLAPS
proofs of what holds for every instance. `PROJECT.json` lists components, runs, the
source lines behind every definition, findings, hazards and theorems.

## 1. The system

| Part | Source | State | Operations | Talks to |
|---|---|---|---|---|
| Message buffers | `window_manager.c:121-150` | per window a ring: `data`, `front`, `rear`, `cnt` | dispatch, get, reset | filled by event handling, polled by processes |
| Window list | `window_manager.c:90-119,220-238` | `windowlist[].next/prev`, head, tail | add, remove, focus | everything in the window manager |
| Window manager | `window_manager.c` | list, `desktopId`, owners, minimized flags, popup, three "clicked on" flags, `wmlock` | `wmHandleMessage`, `updateScreen`, the `GUI_*` system calls | mouse and keyboard interrupts above, processes below |
| GUI processes | `user_window.c`, `desktop.c`, `startWindow.c`, `init.c`, `explorer.c` | a window struct with a handler | poll, react, start programs, redraw | system calls |
| Widgets, input fields | `user_window.c`, `user_handler.c` | index-linked list of widgets, key focus, a text with a cursor | add, remove, keys, clicks | GUI processes |
| Mouse, keyboard | `mouse.c`, `kbd.c` | recovery automaton, packet, last buttons and ticks; modifiers | interrupt handlers | one controller below, window manager above |
| Console | `console.c` | input ring with three indices, cursor | interrupt, read, write | serial line, sleeping readers |
| Process table | `proc.c`, `trap.c`, `sysproc.c` | per slot: state, pid, parent, killed, chan | fork, exit, wait, kill, sleep, wakeup, scheduler | everything that blocks |
| Locks | `spinlock.c`, `sleeplock.c` | lock word and owner; per CPU `ncli`, `intena` | acquire, release, pushcli, popcli, switching | everything |
| Memory | `kalloc.c`, `vm.c`, `exec.c` | free pages, page tables, what each CPU has in cr3 | kalloc, kfree, sbrk, fork, exec, exit, wait | process table |
| Heap | `umalloc.c` | circular free list | malloc, free, morecore | sbrk |
| Pipes | `pipe.c` | ring of bytes, two unsigned counters, two open flags | write, read, close | sleep/wakeup, kill, file table |
| Open files | `file.c`, `sysfile.c` | descriptors, reference counts | open, dup, pipe, close, fork, exit | pipes, inodes |
| Log | `log.c` | header in memory and on disk, log blocks, `outstanding`, `committing` | begin_op, log_write, end_op, commit, recovery | buffer cache below, file system above |
| Buffer cache, disk | `bio.c`, `sleeplock.c`, `ide.c` | LRU list of buffers, their locks, request queue | bread, bwrite, brelse, the disk interrupt | log, interrupts |
| File system | `fs.c`, `sysfile.c` | inodes on disk and in the cache, directories, bitmap, blocks | the file system calls | log |
| Image builder | `mkfs.c` | the image, next free block and inode | append, finish | what the kernel reads |
| Shells | `shell.c`, `sh.c` | descriptors, pipes, children | parse, run a line, show its output | system calls |
| grep, cat, echo | `grep.c`, `cat.c`, `echo.c` | a buffer with part of a line | read, match, write | pipes, files |

What makes it hard: processes run on several CPUs, are preempted and move between them;
a few tests are made without the lock that protects what they test (`getMessage`,
`log_write`, the `killed` flag); processes block and must be woken; the machine may crash
between two disk writes; memory may run out in the middle of building an address space;
two devices share one output buffer; the window list and the popup outlive the processes
that own them; users can click and type anything in any order.

What makes each part correct: a buffer is a FIFO and an empty one yields nothing; the
window list represents the z-order in both directions and free slots are free; a listed
window belongs to a process that has made and not closed it; a close request is honoured; the widgets stay linked and the
cursor in its text; the packet decoder stays in step and a press comes to an end; the
console hands out lines once and in order; the disk changes only from one consistent
state to another and no call is torn by a crash; sleepers are woken; pipes neither lose
nor reorder bytes; every zombie is reaped; killed processes exit; a lock excludes and
interrupts come back as they were; every page and every block has one use; the buffer
cache is transparent; a file is the bytes written to it; references, links, cached inodes
and the bitmap agree whatever calls run side by side; a command line is parsed as its
grammar says, its programs get their descriptors, and all of them end.

## 2. Modules

| Module | Models | Extends / instantiates |
|---|---|---|
| `BoundedFifo` | what a message buffer promises | |
| `MessageQueue` | `msg_buf` and its functions | refines `BoundedFifo` |
| `WindowListOps` | the list functions, as maps from list to list | |
| `WindowList` | the list under create, focus, minimize, close | `WindowListOps` |
| `WindowManager` | event handling, GUI system calls, GUI processes | `WindowListOps` |
| `WindowManagerProofs` | theorems about it and the list | `WindowManager`, `WindowList` |
| `Widgets` | the widget table as shell and explorer use it | |
| `TextBuffer` | what an input field promises | |
| `InputField` | text, cursor, positions, keys | refines `TextBuffer` |
| `InputDevices` | mouse and keyboard drivers over their controller | |
| `LineBuffer` | what the console's input promises | |
| `Console` | `console.c` | refines `LineBuffer` |
| `InputProofs` | theorems about the devices, the console and the message buffer | `InputDevices`, `Console`, `MessageQueue` |
| `AtomicDisk` | what the log promises | |
| `Log` | `log.c` over a cache and a disk that survive or lose their contents in a crash | refines `AtomicDisk` |
| `BlockStore` | what the buffer cache promises | |
| `BufferCache` | `bio.c`, `sleeplock.c` and the queue of `ide.c` | refines `BlockStore` |
| `FileSystem` | inodes, directories and blocks under the system calls | |
| `FileSystemSteps` | what its steps do | `FileSystem` |
| `FileSystemProofs` | theorems about it | `FileSystemSteps` |
| `ByteFile` | what an open file promises | |
| `FileData` | block maps, `readi`, `writei`, the chunks of `filewrite` | refines `ByteFile` |
| `MakeImage` | `mkfs.c` | reads its image with `FileData` |
| `ByteStream` | what a pipe promises | |
| `Pipe` | `pipe.c` with sleep, wakeup, kill | refines `ByteStream` |
| `ProcTable` | `proc.c` | |
| `Spinlock` | `spinlock.c`, `sched`, the timer | |
| `Memory` | pages and address spaces | |
| `Heap` | `umalloc.c` | |
| `Files` | descriptors and open files | |
| `CommandLine` | the parser | |
| `Shell` | `runcmd`, the GUI shell, its commands | `CommandLine`, `Files` |
| `Grep` | matcher and reading loop | |
| `MCStructures` | one of buffer, pipe, list, widgets, field per behaviour | `MessageQueue`, `Pipe`, `WindowList`, `Widgets`, `InputField` |
| `MCWindowManager` | the window manager with bounds on what goes wrong | `WindowManager` |
| `MCInput` | PS/2 devices, the left mouse button only, or serial line | `InputDevices`, `Console` |
| `MCKernel` | one of pages, pages while windows are drawn, heap, locks, bytes, image per behaviour | `Memory`, `Heap`, `Spinlock`, `FileData`, `MakeImage` |
| `MCShell` | shell, parser, calls about files, matcher or loop of grep | `Shell`, `Grep` |
| `MCFileSystem` | the calls of two instances | `FileSystem` |

An MC module with several parts checks them side by side: its initial states choose one
part, and only that part moves. `ProcTable`, `Pipe` and the other modules take a critical
section for one step; `Spinlock` shows, with single instructions, that this is sound.

Conventions. Definitions keep the names of the C functions. A critical section of a lock
is one action; what a function does before it takes the lock, or between two locks, is
an action of its own. Definitions introduced as a "slip" or "mutant" are not used by the
specifications: each replaces one definition in a run that must then fail, so that every
property, and most parts of those that are conjunctions, are known to be able to fail.

### MessageQueue
`data`, `front`, `rear`, `cnt` are the fields of the struct. `dispatchMessage` and
`initMessageQueue` run under `wmlock`. `getMessage` is two actions: the test of `cnt`
without the lock, and the critical section, which does not test again. `Consumers` is
the set of processes that poll the buffer (`getting` says where each is): one for a window, because
`sys_GUI_getMessage` compares the caller with the owner; any number for the popup.
Coordinates and message parameters are abstracted; the order in which the code changes
`cnt` and copies the message inside a critical section is not visible.

### WindowListOps, WindowList
A list is the record of `windowlisthead`, `windowlisttail`, `next[]`, `prev[]`; a slot
outside the list points to itself. The write to `windowlist[-1]` that some calls would
make is a predicate (`focusWild`). `Represents` says that a list is the z-order `s`;
`WindowList` adds the z-order as a history variable.
`HeadMayClose` separates the sequences for which the C list is right from those for
which it is not.

### WindowManager
`wm` is a record of all static variables. An event is one action, since
`wmHandleMessage` holds `wmlock` throughout; the walks over the list are computed, and a
walk that does not end makes `status` "hang". `status` also records the panic in
`updateScreen` and writes outside the arrays; after any of these the model stops.
Instead of coordinates an event chooses which window is under the mouse and which part
of the focused window; `possiblePart` keeps the choice to what geometry allows: the
desktop's window covers the screen, and its title bar region (its rectangle moved up by
`TITLE_HEIGHT`) meets the screen in one row of pixels. `ClickTopRow` allows or forbids
clicks there. A process is its polling loop: `create`, `poll` (tests without the lock),
`take`, then `close`, `minimize`, `maximize`, starting a program or, in the shell, a handler
that sleeps until the commands of a line have ended (`busy`, `return`). `create` and
`createPopup` may find no memory and do nothing, as `malloc` may fail in them (`Poor`).

A process ends by `close` or `closePopup`, or by `exit`: it is killed, traps in user mode,
or calls `exit()` itself, as the shell does when `pipe()` or `fork()` fail. Nothing takes its
window off the screen then (`gone`); `updateScreen()` goes on to call `switchuvm()` with
its slot of the process table, which works until the process is reaped and is a panic after
that (`refresh`, which also lets a new desktop have the slot of the last one, and pass
the test at the beginning). Abstracted: a process that has none of the windows is not taken
for the earlier user of its slot when it polls, and what becomes of a window whose owner's
slot is given to another program is not followed beyond the panic.

`faults` is a history variable that records three occurrences the code does not survive: a
closed head, a closed desktop, and a window that could not be made for want of a slot or of
memory.

### Widgets
A window is a record of the fields of `struct window`: links, head, tail, types, handlers,
key focus, and the set of widgets whose memory is allocated. The operations are those of
the two programs that add and remove widgets as they run: the shell, which on every line
replaces its input field by the command and its output and adds a new one, and the
explorer, which on a double click lists another directory or, with "back", the parent.
`getparentpath` writes into a static buffer of 31 bytes: before it in the root, whose path
has no slash, and behind it if the parent's path is longer. The model stops there
(`overrun`). `wild` records an access to
`widgets[-1]`, `crowded` an explorer whose first directory left no room for it.

### InputField
`text` and `current_pos`; `charPerLine` is the width. The three conversions between
offset and position are folds over the text. `ContentsIntact` also says that they invert
each other.

### InputDevices
The controller has one byte of output, whose sender raises its own interrupt; both
handlers read whatever is there, as the code does, and `stray` says that one went to
the wrong one. `mouseintr` reads one byte per action (`mouseByte`): recovery automaton,
counter, packet, and behind the third byte `genMouseMessage`. `mouseinit` may leave an
acknowledgement behind, because `mouse_wait` gives up. Ticks are a clock that may jump over the
limits of the click recogniser, and differences are unsigned. `seen` is a history variable: what the window manager was
told. `excused` marks the packets that the driver drops by design (overflow, recovery)
and the uninitialised message. Keys are their make codes; characters are left out, since
only modifiers are state.

### Console
`r`, `w`, `e` are modulo `UintRange`, a multiple of `INPUT_BUF`. A key is one action of
`consoleintr`; `consoleread` takes a character per action with `cons.lock` held as long
as the code holds it. `pos` is the cursor, on a small screen.

### Log
The disk is `home`, `logBlock`, `head`; everything else is lost in `crash`, which may
happen in any state. Each disk write of `commit` and of recovery is one action, and a crash
may come in the middle of it: a block is four sectors (BSIZE is 2048), so that it may be
left with any value (`torn`). Only the header is written or not, since it fits into the first
sector of its block: 31 words. Recovery repairs the rest, as a torn block of the log precedes the header,
and a torn home block is written again. `log_write` is two actions because it tests the size of
the log before it takes the lock. `bget_recycle` is the buffer cache as far as the log
depends on it: a buffer that is neither held nor dirty may be dropped. A file system
call writes at most `MAXOPBLOCKS` different blocks (the contract of `begin_op`), chosen
freely.

### BufferCache
`buf` holds the fields of the buffers, `lru` the doubly linked list as a sequence,
`idequeue` the queue and `request` what the controller is working on. `bget` is its
critical section; the wait for the buffer's sleep-lock, without `bcache.lock`, is
`acquiresleep`, one turn of its loop, which also tests B_VALID. `brelse` is two actions,
as the sleep-lock is let go before `bcache.lock` is taken. `iderw` is two as well, before
and after its `sleep()`; `ideintr` completes the head of the queue and starts the next
request. The user of a buffer may change its data and call `bwrite` or `log_write`; the
latter keeps at most `MaxPinned` buffers dirty. A buffer that `log_write` made dirty and
that is then written by `bwrite`, as commit does, is clean again.

### FileSystem
`fs` is a record of the inodes on the disk, the inode cache, the directory entries and
the bitmap; functions of `fs.c` are maps from `fs` to `fs`. An action runs from one
acquisition of an inode's sleep-lock to the next and keeps the locks that the code keeps:
`unlinkEntry` and `createNew` run with parent and child locked. What happens inside such
a section concerns inodes that the process has locked, and blocks and inode numbers that
it takes or gives back under the locks of buffers, so nobody sees the middle of it.
`iput` is two actions, `iput` under the sleep-lock and `iputDrop`, because the reference
is given back after the lock. `namex` is one action per path element. A process has one
file descriptor and a current directory. Each call is one transaction of the log; that
transactions are atomic under crashes is the business of `Log`. Abstracted: file contents
and offsets, the block lists (sets of blocks here), devices.

### FileData
Blocks are functions from offsets to bytes, and an indirect block is a block whose bytes
are numbers of blocks, so that a recycled block can be taken for one. A step of `write()`
is a turn of the loop of `filewrite`, a transaction; `fs.log` is the set of blocks that it
logs. `Opens` are open files, several of one inode, each with one offset for all
processes that share it. A write that finds no block panics (`full`).

### MakeImage
`iappend` is a fold over cells; `main` is three actions, the root directory, a file, the
end. The finished image is read through `FileData`, with the kernel's `address`
and `blocksOf`.

### Spinlock
A thread, and the scheduler of a CPU, is the sequence of instructions it still has to do;
`acquire`, `release`, `sched`, `sleep`, `yield` say which. The timer may interrupt between
any two instructions of a CPU that lets it. `pick` chooses any runnable thread or the end
of the table.

### Memory
An address space is a directory, page tables and pages, each a physical page. Growing,
copying and loading take one page per action, and every allocation fails when the free list is empty,
whereupon the code gives everything back. `cr3` is the directory each CPU uses, also
while the scheduler runs. Addresses are counted in parts of a page, so that sizes need
not be multiples of it. `desktop` is the process that draws, or nobody; `shown` are those the
window list names. While it draws, with `wmlock` held, its CPU is on the directories of the
others, one after the other (`drawWindow`), and no window can be closed, nor can the timer
preempt it. `left` is a history variable: who went without closing the window. A program with a window
does not call exec: those that start others fork first.

### Heap
Memory in units of a header. `free` and `malloc` walk the circular list as the code does
(`walk`); a block that is in use is remembered in `blocks`.

### CommandLine, Files, Shell
A line is a sequence of tokens. The parser's functions map a position to a command and a
position (`after` goes on behind what was parsed), and `panic` (a syntax error) is a command that stops. `Files` has the
descriptor tables, the file table with its counts and, of a pipe, how much is in it and
which ends are open. Closing is two steps: the last reference goes under `ftable.lock`
(`sys_close`), and the end of the pipe is closed after that (`closing`, `closeEnd`). `exit()`
closes one descriptor after the other (`ExitCloses`). A write fails without a reader only if
the pipe is full. It can be used with any calls in any order (`FilesSpec`), which is what is
proved about, or with those of the shell. In `Shell` a process is the sequence of system calls it still makes:
`runcmd` says which, for a command, and `inputHandler`, for a line. Programs are those
with one shape of behaviour each: one that writes, one that copies, one that writes a NUL,
one with a window, one that does not exist. Files are at their end; reading the console
sleeps (`readsConsole`), and for ever, since the keyboard's bytes go to the window manager
(`kbd.c:66`) and nobody types on the serial line. So `cat` on a line of its own keeps the
shell in `read()` at `shell.c:243`, as an open window of a command does.

### Grep
The matcher as recursive operators, against the set of texts a pattern denotes
(`accepts`); the loop of `grep()` with any size that `read()` may return.

### Pipe
Every process is idle, about to take `p->lock` ("loop"), about to call `sleep()` with
the lock held ("sleepy"), or asleep. `kill` changes `killed` in between because it
takes only `ptable.lock`. Counters are modulo `UintRange`, a multiple of `PIPESIZE` as
2^32 is of 512. A killed process makes no further call and closes its end.

### ProcTable
One record per slot; `at` is the place in the kernel at which a process is. `allocproc`
and the rest of `fork` are separate because the lock is released between them and memory
may run out there; `wait` is one turn of its loop; `exit` is its critical section (what
it does to files before it is not part of the table). init follows `init.c`: it starts a
desktop, waits until that is reaped, and exits, which panics, when it cannot fork.

## 3. Runs

| Run | Instance | Shows |
|---|---|---|
| `structures` | ring of 3 with 2 messages and its owner; 2 writers and 1 reader of a pipe of 2 bytes, counters modulo 4; 5 windows; 6 widgets, 2 names, paths of depth 2; texts of up to 4 characters with breaks, 1 column | FIFO, delivered, unlocked test harmless; byte stream, no lost wakeup, writes return; list right while the head stays; widgets linked; a text with a cursor |
| `window_list_head_close` | 3 slots | **violated**: head closed |
| `window_manager` | 2 slots, buffers of 2, 2 desktops in turn, 1 program that may sleep in its handler, 2 menus, 5 events, top row; the first desktop, the program and a menu may be killed, the last two be out of memory | list and buffers consistent, only the named failures, what is drawn was not closed, close requests honoured |
| `log` | 2 calls, 2 blocks, 2 values, log of 4 with 2 blocks per call | atomic under crashes, torn writes included, sleepers woken |
| `log_too_big` | 4 blocks | **violated**: reservation exceeds the log |
| `proc_table` | 4 slots, 1 CPU, pids to 4 | nobody orphaned, no exit missed, orphans reaped, killed processes exit |
| `buffer_cache` | 2 processes, 3 blocks, 2 values, 2 buffers, 1 pinned | transparent, no second copy, requests served, waiters woken |
| `file_system` | 2 processes, 3 inodes, 2 blocks, 2 names, 7 calls with paths | references, links, cache and bitmap agree; nothing in use is freed; the one deadlock |
| `file_system_lost_parent` | 1 process, 3 inodes, 3 blocks, 2 names, 6 calls with paths | **violated**: a removed directory's parent is found free |
| `input` | 6 mouse reports, 2 keys, 4 events, 6 with the left button only, ticks 0, 30, 60; 2 readers, ring of 3, indices modulo 6, screen of 2 by 3 | decoder in step, clicks justified, no modifier stuck; lines in order, nobody asleep on input |
| `kernel` | 17 pages, 2 processes, 2 CPUs, the same with 3 processes that fork, exit and have windows; heap of 8 units; 2 threads on 2 CPUs; 3 open files of 2 inodes, 4 blocks; images of 14 blocks, 3 files | one use per page, unit and block; directories in use; locks and interrupts; files of bytes; images readable |
| `shell` | 5 processes, 7 descriptors, 11 lines and one of 3 behind, a failing fork; any calls with 3 descriptors open, one file, one pipe fewer; lines of 5 tokens; patterns of 4 and texts of 3 characters | references exact, under any calls of 2 processes with 3 descriptors too; programs connected as their line says, everything ends; grammar; matches and lines |

Bounds. Five windows let every operation work away from both ends; two suffice in
`window_manager` for a desktop and a program, head and tail. Buffers of two or three are
full, wrap and drop within a few events. Five events suffice to open a program and a menu,
raise, close and restart; a process ends without closing its window, has none, or sleeps in
its handler within four (`MaxEventsThen`), and one process per behaviour ends like that. Six widgets are one more than the shell has after a line and
fewer than it has after two. One column makes every character wrap. Four input events
(`MaxMixed`) are a press and a release with a packet between them and a key; six, with one button
and no keys, are three clicks, so that a slow press comes between a click and a quick one; ticks of 30 lie on the limits
30 and 60 of the click recogniser. A ring of three with indices modulo six wraps after two
lines. The log instance has a transaction of two blocks, so that
crashes fall between log writes and between installs, and a call that must wait for
space. Two buffers for three blocks make every miss recycle; one of them pinned makes two
processes run out, as they can in the kernel, where NBUF = LOGSIZE = 30 and the log pins
up to 29. Three inodes are the root, a directory and a file; two data blocks are the
root's and one that moves between files and directories, so that the disk is full soon
and blocks are reused. Seventeen pages hold one process of any size and most of a second,
so that fork and exec fail at every point; page tables of two pages make sizes cross
them. Three processes, without exec and sbrk, are init, the desktop and a program with a window
that is closed, or left, while the desktop draws it. The heap gets two portions of sbrk. One direct and two indirect blocks of three
bytes make a write of eight bytes use all of them; with four blocks on the disk, files take the
blocks of removed ones, and with one bit per bitmap block every block has another one,
the worst case for what a chunk logs. In `FileData` BSIZE is three sectors instead of
four. Three files with the two dots are five entries of the root, in blocks of three. Pipes
write up to three bytes into room for two; counters modulo four wrap after
two fills; a read takes one byte, since for any number the theorems say more. Four slots of the process table are the fewest in which a process whose parent
is not init leaves a zombie to init; one CPU is enough there because a process may be
preempted between any two of its actions, each of which is a critical section. Seven
descriptors are full after the leaks of a few lines, five processes run a pipeline in a
block. Patterns of four characters have a star behind an anchor or before one.
`MaxEvents`, `MaxTick`, `MaxPid`, `MaxRead`, `MaxPinned`, `MaxFile`, `MaxLinks`,
`MaxDepth`, `MaxEntries`, `MaxCommands`, `MaxForkFails`, `MaxTokens`, `MaxPattern`,
`MaxText`, `MaxFiles`, `MaxOpen` (with `FewOpen`), `MCSecondLines` (with `FewSeconds`: the lines
behind another, none behind a failed fork), `Few` and the texts of pipes and files are the bounds that the code does
not have. Threads of `Spinlock`, readers of the console and processes of `FileSystem` are
symmetric.

`CHECK_DEADLOCK FALSE` is used where the system may stop: after a panic or hang
(`WindowManager`, `ProcTable`, `BufferCache`, `FileSystem`), when a disk is full or an
image finished, after the last event, line or token, when everybody has closed a pipe,
when two calls wait for each other (section 5).

Fairness. The scheduler scans the whole table again and again, so a runnable process
runs: weak fairness of process steps. In `Shell` less is enough: some process makes its
next call as long as one can, since no command runs for ever. Where a step needs a spin-lock or a CPU that
others take in between, strong fairness is assumed: spin-locks are not queues, so this
is an assumption about the hardware (`Pipe`, `ProcTable`) and about calls that end
(`Log!end_op`), or `releasesleep` by a process that may use its buffer any number of
times before (`BufferCache`). The disk answers. Users need not do anything; programs with
windows need not end, nor handlers of the shell return, nor need anybody be killed. Readers of a pipe that are not killed go on reading, until they
close. The parts of an
MC module that rest have no fair action enabled. The machine need not crash.

## 4. Proofs

Eight modules prove, for every value of the constants, what runs check on small instances.
Each follows the same argument: an invariant `Inv` that contains the property, one lemma
for the initial states, one for each action, and then the theorem by `PTL`. `Inv` was
checked by TLC on the instance of the run before it was proved.

`InputProofs`, on the message buffer. *RingSafe*: with one consumer, for every size and message set,
`QueueSafe` always holds, that is `QueueTypeOK`, `RingOK` and `CheckStillHolds`. Their
conjunction is inductive:
`CheckStillHolds` alone is not, since only the owner lowers `cnt`, which needs
`SingleConsumer`; `RingOK` needs the range of `cnt`. *RingImplementsFifo*: every step
maps to a step of `BoundedFifo` or a stutter. The mapping reads the ring from `front`,
so each action gets a lemma on what it does to that sequence.

`WindowManagerProofs`, on the list. *WindowListSafe*: for every number of slots, if the head is not
closed, `ListSafe` always holds, that is `ListTypeOK`, `DoublyLinked` and `NoWildWrite`. The invariant is
inductive as it stands because it determines the arrays from the z-order; the proof has
one lemma per list function on the shape before and after, which the window manager's proofs
use as well.

`WindowManagerProofs`. *ListStaysIntact*, *OwnersStayKnown* and *FailuresAreKnown*:
`ManagerSafe`, `DrawnOwnersKnown` and `OnlyKnownFailures` always hold, for every number of
windows, processes and events and every size of the buffers, and whichever processes are
killed, trap or exit by themselves. An invariant that speaks of
lists in order only is not enough, since the properties also say what holds after a fault.
So `Inv` has two parts about the list: `OrderOK`, until the head is closed it represents
some z-order; and `LinksSane`, which always holds: following `next` never comes back
(`Chained`, by some strict order that goes with it) and no window that is open has itself
as its `next`. The second is what keeps a process from closing a slot it does not own. The
rest relates the table to the processes: a window is its creator's and no other's
(`OwnersOK`), the windows of the list are open (`ListedOwned`), `desktopId` names the
desktop's window until that is closed, left over or could not be created (`DesktopOK`), and the popup
has an owner that did not close it, whose messages nobody else takes while there is one start menu
(`PopupOK`). Input events are handled together: each delivers messages, and focuses at most
one window that is in the list or the desktop's (`Moved`). What the walks over the list
visit follows from the z-order by taking the first step at which they would differ
(`WalkExists`, `WalkVisits`).

`LogProofs`. *CommitsRunAlone*: `LogSafe` always holds. That `log.lh` never overflows
needs `RoomReserved`, which counts: the blocks in the log and what every call in progress may still
write fit into `LOGSIZE`. A call pays from its reservation when its block goes into the
log, so the invariant subtracts the pairs of a call and a block of it that is already
there (`Logged`), and `CallsOK` keeps each call to `MAXOPBLOCKS`. *LogIsAtomic*: the log
implements `AtomicDisk`. This needs where the commit and recovery are (`StageOK`), that
the header on the disk is empty or the one in memory (`HeadOK`), how much of the log is
written and installed (`BlocksOK`), and that a buffer differs from its home block only if
it is pinned or held (`CacheOK`). The one step that shows is `write_head`: it is the
commit; installing, before a crash or after it, is a stutter, and what a crash tears does not
count (`TornHidden`): a block of the log while the header is empty, or the home of a block that
the header names.

`PipeProofs`. *NobodyMissesAWakeup*: `PipeSafe` always holds; it lacks only `HoldersOK`,
which process is between its test and its sleep and what the flags say, to be inductive.
*PipeIsAStream*: the pipe implements `ByteStream`. The counters wrap around at a multiple
of `PIPESIZE` (`PipeAssumption`; 2^32 and 512 in the code): the lemmas on remainders show
that `Count` and the slot of each byte waiting come out right across the wrap.

`ProcTableProofs`, on processes. *NoExitMissed*: `TableSafe` always holds: every process has a living
parent and nobody sleeps in `wait()` with a reason to go on. It needs that init lives and
nobody is its own parent (`FamilyOK`), that the slot `fork()` fills is the caller's alone and no
child of anybody yet (`FreshOK`, `ForkOK`), and that who sleeps in `wait()` sleeps on its
own slot (`WaitChannel`), where `exit()` wakes it.

`ProcTableProofs`, on what processes have open. *FilesStayExact*: `FilesExact` always holds, for any
calls of any number of processes: every open file counts exactly the descriptors that name
it, in all tables, and an end of a pipe is open exactly as long as there is a file for it, or
a process that has dropped the last reference and is about to close the end. The
references are cardinalities of sets of pairs of a process and a descriptor (`namedIn`):
one lemma says what a descriptor more or less does to them, one what a whole table does
that `fork()` copies. `FilesInv` adds that a file for a pipe says for
which (`PipesKnown`) and that no end has two files or closers (`OneEach`). So the last reference to a
file is the last to its end, and closing it closes just the end that is lost, once, whatever
others did to the pipe after the reference went.

`BufferCacheProofs`. *OneBufferPerBlock*: `CacheSafe` always holds. The reference counts
are cardinalities of sets of processes (`CountsOK`), so a buffer with count 0 is nobody's
and may be recycled; the queue holds each buffer once, with somebody waiting for it, and
the controller works on the first (`QueueOK`); the flags of a buffer follow from where its
holder is (`StageOK`). *CacheIsTransparent*: the cache implements `BlockStore`. Recycling
is a stutter because a clean copy is what the disk has (`DataOK`), an interrupt because
the block it reads has no other copy (`OneCopy`).

`FileSystemSteps` and `FileSystemProofs`. *InodesStayExact*, *LocksStayOrdered* and
*TypesAreFound*: for any number of processes, inodes, blocks and names, and any calls,
`InodesExact`, `LocksOrdered` and `InodesHaveTypes` (a part of the first) always hold, provided that nobody looks
up the parent of a removed directory (`[]~LostParent`). The premise is not for the proof's
convenience: without it the code fails (section 5, `file_system_lost_parent`). `Inv` consists of
- `Shapes`, `FsOK` and `RefsExact`: what the local variables, slots and counts are; a valid
  inode is what the disk has, and a locked one is valid;
- `Locked`: who holds which lock where, from which `LocksOrdered` follows;
- `PointersMade`, `FreshOK` and `Panics`: what a process points to has a type on the disk
  and, if it is a directory, its block; only the inode that `create()` has just taken from
  `ialloc()` is empty still, and nobody else points to it (`Fresh`);
- `ParentsAreDirs`, `LinkedAreFiles`, `EntryThere`: the parent in a call is a directory, what
  is linked is a file, and between finding an entry and removing it, with the directory
  locked, `sys_unlink()` still has the entry it found;
- `Tree` and `Root`: a directory has `.` and `..`, anything else has no entries; a name leads to
  an inode that is made, and from there, if it is a directory, `..` leads back; the root is
  its own parent. So only a directory without names can have a `..` that leads nowhere;
- `Blocked`: inodes share no block and the bitmap marks theirs;
- `Links`: an inode has at least as many links as names and directories in it, and those that
  calls have counted before the name is there or not yet taken off. The property asks for
  names only, but `sys_unlink()` takes a link from the parent for the `..` of the child.

The argument has two steps. Every action has one of about thirty outcomes (`Effect`): which
lock is taken or left, which reference goes where, what changes on the disk. Then one lemma
for each outcome and part of `Inv`, and most parts need only to know that an outcome leaves
their variables alone. References are counted as cardinalities of sets of pointers, so
`iput()` with a count of one and no links frees an inode that no other process points to.
`Inv` was checked by TLC on two instances before, one of them with `..` in the calls.

`InputProofs`, on the devices. *DriversStaySafe*, *ButtonsAreReported* and *PacketsStayInStep*:
`DriversSafe`, `ButtonsReported` and `StaysInStep` always hold, whatever the mouse
reports, however many keys there are and however the interrupts fall. That the decoder
stays in step although it drops bytes needs `Marked`: a report that nobody has begun to
read starts with a byte that has bit 3, and the automaton that looks for 12, 0, 0 has not
seen two of them when one byte is in the packet. So when it drops, it drops a whole
report. What windows are told needs `Honest`: unless a byte went astray or was dropped, the
driver knows the buttons or will when it has read the report on its way (`Synced`, byte by
byte), and what it remembers of the last press and click is what it said (`Told`). A report
without movement differs in its buttons, which is why a click cannot come out of nothing.
That no modifier sticks says something only when all is read, so its invariant follows the
bytes on their way: `settled` is what the modifiers will be after them, by `kbdgetc()` as a
function of modifiers and byte (`after`), and it has nothing but the locks and what the keys held
are for (`KeysInv`), unless a byte went astray.

*NobodySleepsForever* and *ConsoleIsALineBuffer*: `NobodySleepsOnInput` always holds, and
`Console` implements `LineBuffer`. Besides types (`Shape`), `ConsoleInv` says that a reader
that found nothing keeps the lock until it sleeps (`Holders`), and that the line being
edited contains no newline (`EditPlain`), which is why ^U, looking for one, goes back
exactly to `w`. The lemmas on distances show that the three indices come out right across
their wrap-around, and `SlotsDiffer` that a slot is not in use when it is written.

Assumptions: the named ASSUMEs of the modules only. `InputAssumption` says what a PS/2
mouse and keyboard send (a key is one byte below 128 or two with 224 before it, as `kbd.h`
has it; Pause is left out), and that `ticks` does not wrap around within the bound on
time: 2^32 ticks are more than a year. `ConsoleAssumption` says that the range
of the console's indices is a multiple of its size (2^32 and 128 in the code), and that letters
are no control characters. The others say that the sizes are positive,
that `Ops` of the log, `Procs` of the cache, of the file table and of the file system, its names and the start
menus are finite, that the kinds
of GUI processes are apart, and that the values that stand for "none" are no process or
block.

Left to TLC: liveness; where the console's
cursor is and what the walk of `Heap`, the folds of `InputField`, `FileData` and `MakeImage`, and
the recursive operators of `CommandLine`, `Shell` and `Grep` compute (induction over data
is beyond the prover); all modules not named in this section.

## 5. Findings

The violated runs are disagreements between the code and its comments, assertions or
README; `PROJECT.json` quotes the lines. In short: closing the bottom-most window corrupts
the list; the log's reservation is one block larger than the log; a process whose current
directory was removed together with its parent panics in `ilock()` when it looks up `..`,
since the entry `..` of a removed directory is no longer counted as a link. The proof of
`InodesExact` showed the last: its invariant is inductive only up to that step.

Other peculiarities of the code are in the models and shape the properties.

- The popup's buffer may be polled by two processes, whose unlocked tests can both see
  its last message; the second then takes from an empty buffer. `MessageQueue` is checked
  and proved with one consumer, and `OnlyKnownFailures` excepts two menus.
- `desktopId` outlives the desktop's window: the restarted desktop may get another slot,
  and its `updateScreen()` panics; `OnlyKnownFailures` names the case.
- `exit()` does not look at windows: what a killed, trapped or self-exiting process (a shell
  whose `pipe()` or `fork()` fails, `shell.c:207-219`) had on the screen stays there, and
  `updateScreen()` loads the directory of a process that may have been reaped
  (`window_manager.c:566`). `OnlyKnownFailures` names the case (`Orphaned`), `DirectoryInUse`
  excepts it (`left`), and `RequestsHonoured` asks nothing of a process that is gone. A
  process that got no memory for its window (`user_window.c:87`) polls all the same.
- While the shell runs the commands of a line it sleeps in `read()` and does not poll: its
  window closes when they have ended, and never if one of them does not.
- A bottom-most window that is closed leaves a `next` that names its freed slot. With three
  slots this reaches further than the list: the slot is used again, its new window closed,
  and then the window with the stale `next` too, which writes to the `prev` of the slot:
  the slot is then neither free nor anybody's. Hence
  `OwnersKnown` excepts a closed head as well as a closed desktop; the invariant of the
  proof showed it, as two slots are too few.
- init exits when it cannot fork a new desktop, and an exiting init is a panic
  (`init.c:27`): `ProcTable` stops there.
- `unlink()` and `create()` call `iput()` for the parent while they hold the child, and
  `iput()` takes the sleep-lock of what it puts. A second process that has the parent and
  waits for the child then waits for ever, as does the first: `LocksOrdered` says that
  this is the only way two calls wait for each other.
- A call that has found a directory may use it after it was removed: what it links or
  creates there is never freed. This is why `LinksCover` allows more links than entries.
- A writer killed on a full pipe leaves without waking the readers (`pipe.c:86`): the
  exception in `NoLostWakeup`. Of two writers one can be overtaken for ever.
- A reader killed between its test of `killed` and `sleep()` sleeps on until somebody
  writes or closes (`pipe.c:107`): no property of `Pipe` promises that killed processes
  leave.
- `kill()` compares pids without looking at the state of a slot (`proc.c:486`) and
  `allocproc()` does not clear `killed`, so that a process can be born killed:
  `KilledExits` includes those.
- Mouse. The bytes 12, 0, 0, a press of the middle button at rest, are what the recovery
  automaton looks for, and dropped. A button pressed while the mouse moves is reported as
  an UP, not a DOWN. A slow press between a click and a quick one does not keep them from
  being a double click, since an UP leaves `lastclicktick` (`mouse.c:147-150`). After a slow
  release an uninitialised message goes to the window
  manager (`mouse.c:147-152`): `ButtonsReported` does not judge what follows it. A handler may read the other device's byte (`mouse.c:159`),
  and an acknowledgement that comes after `mouse_wait` gave up is the first byte of a
  packet: `StaysInStep` starts from a decoder in step and excepts stray bytes.
- `sbrk(-sz)` frees all memory but returns -1 and keeps `sz`, because `deallocuvm`
  returns the new size 0 (`proc.c:169`): the exception in `ImageMatchesSize`.
- `removeFromWidgetList` loses the list when the head goes (`user_window.c:334`). No
  program gets there: the background is added first and never removed. A shell whose
  widget table is full has no input field any more; an explorer in a large directory
  writes to `widgets[-1]` (`crowded`), and its "back" writes outside a buffer of 31 bytes in
  the root and where the parent's path is long (`explorer.c:66`, `overrun`). Input fields do not test the length of their text.
- The shell never closes what a line leaves open: one descriptor, two for a GUI program.
  After NOFILE - 4 lines `pipe()` fails and the shell exits (`shell.c:207`). It waits for
  none of its children, `&` makes no difference, `a & b` is a syntax error, of two
  redirections of a descriptor the first counts, the input of a line is the output pipe
  of the line before, and a NUL in the output ends the reading, after which the writer
  may wait for ever. `read_buf` is filled without a test of its size.
- `filewrite()` computes its chunks with 512 while BSIZE is 2048: chunks are smaller than
  a block and always fit into the log's reservation.
- mkfs rounds the root directory's size up, by a whole block if the entries end with one:
  that block does not exist (`mkfs.c:161`); the exception `rootFull` in `ImageRight`. It
  tests neither MAXFILE nor FSSIZE.
- grep drops what it has if a read brings no end of line (`grep.c:29`), and never looks at
  a last line without one: `LinesFound` excepts both.

## 6. Plan

Modelling follows the plan of the first version of this document to its end; what is left
out is in section 7. Theorems worth proving next, in this order:
1. `Spinlock!MutualExclusion` and `Memory!DirectoryInUse`, which runs check inside
   `MCKernel`;
2. `Widgets!WidgetListIntact`, along the lines of the window list's proof.

## 7. Not modelled

Drawing, fonts and icons (`gui.c`, `user_gui.c`, `character.h`, `icons.h`: pixels only); boot, segments and interrupt
controllers (set-up of hardware, run once); the system call table and the fetching of
arguments; ELF headers and the copying of arguments in `exec`; `printf` and string
functions; the small user programs that make a few calls in a row, and the tests
(`usertests.c`, `forktest.c`, `stressfs.c`), which exercise what is modelled;
`sh.c`'s main loop, which reads descriptors from its arguments and which no program
starts; the handlers of the editor and the demo; `turnoffScreen`, which no program can call because its system call number
is that of `minimizeWindow`; the memory disk `memide.c` of the kernelmemfs build; disk
errors, `mknod`; the limit NINODE of the inode cache.
