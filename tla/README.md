# TLA+ models of AmiInternals

AmiInternals is a suite of 47 small command line tools for the classic Amiga
(AmigaOS 1.2 and later, 68000). Most of them read structures that belong to
the operating system while the rest of the machine keeps running; a few write
(a file, a boot block, a message to another program). This directory holds
TLA+ models of all of these tools and of the startup code they are linked
with, TLC configurations for small instances, and TLAPS proofs of all their safety
properties for every value of the constants: of the tools that can do damage
(`BootSave`/`BootRestore`, `RexxSend`), of the list walkers and snapshots, `env`,
the memory figures, the stopwatches, the startup code with `which` and the
reports, the directory scans, and the text tools.

Paths below are relative to the repository (`src/rexxsend/main.c`); in
`PROJECT.json` they carry the prefix `src/`.

## 1. Inventory

| part | state it keeps | operations | with whom it interacts |
|---|---|---|---|
| `bootsave`, `bootrestore` | static block buffers, an `IOStdReq` and its port, a file handle | parse arguments, open device, CMD_READ / CMD_WRITE / CMD_UPDATE, read or write the file, verify | trackdisk.device and its track buffer, the file system, another run of either tool, the user's hand on the drive |
| `rexxsend` | library base, reply port and signal, one `RexxMsg`, its argstring | allocate, find the port and put the message under Forbid, wait, get, report, free | the host program behind the port |
| `watchtask`, `taskinfo`, `tasks`, `snapshot`, `execinfo` | a row table, counts, a truncation flag | walk TaskReady and TaskWait under Forbid | the scheduler; interrupts, which Forbid does not stop |
| `ports`, `libs`, `devices`, `resources`, `residents`, `rexxports`, `assigns`, `mounts`, `handlers`, `df` | a row table, visit and row counters | copy rows under Forbid, print after Permit | other tasks that change the lists; `df` also locks each volume |
| `watchport`, `rexxprobe`, `inputinfo` | found / unknown | look for one entry under Forbid | other tasks |
| `env` | a lock borrowed from the ENV: assign, the current directory, a file handle, `value[256]` | find the lock under Forbid, then CurrentDir, Open, Read | tasks that change assigns |
| `info`, `mem`, `watchmem`, `doctor` (and `snapshot`) via `common/compat.c` | `struct AIExecInfo` | six AvailMem calls, print | tasks that allocate and free |
| `timer`, `bench` | two DateStamps | stamp, wait or loop, stamp, print the difference | the clock |
| `common/start_cli*.c` | `argv[]` in a fixed buffer, dos.library | split the command line, call main; refuse a Workbench start | the CLI, Workbench |
| `common/output.c` | - | print strings and numbers | Output() |
| `du`, `find`, `tree` | per-depth locks, FileInfoBlocks and paths; error counts | recursive directory scan | the file system |
| `head`, `tail`, `hex`, `strings`, `snapdiff` | a read buffer, line and offset counters | read a file, print a part of it | the file system, tasks that append to the file |
| `which` | the components it has visited, the current directory, two locks | search of the current directory, the CLI's path and C: | the CLI, the file system |
| `diskinfo`, `diskcheck`, `floppytest`, `trackinfo` | an InfoData | Lock, Info, UnLock, checks | a volume |
| `alerts`, `patches`, `bootinfo`, `interrupts`, `vectors`, `rominfo` | a copy of a few fields | copy under Forbid or Disable, print | ExecBase, interrupts |
| `Makefile`, `ci/` | - | build, emulator smoke tests, qualification | - |

The hard behaviours, and what makes each part correct:

* **Shared drive, write-back buffer, failing calls** (boot block tools): what
  reaches a disk must be a whole, confirmed block; a success message must be
  true; every one of a dozen early returns must give back what it holds.
* **Two programs and one message** (`rexxsend`): the message must outlive its
  use by the host, must not go to a port that is gone, and must be answered
  before the tool may leave.
* **Interrupts under Forbid** (task lists): nodes move between lists while
  they are walked. Walks must end, must stand on live nodes, and must tell
  "absent" from "not known".
* **Limits** (all list tools): a table or visit limit that is reached must be
  reported, one that is only just not reached must not lose an entry.
* **State read under Forbid and used after Permit** (`env`, `df`).
* **Reads that come in pieces** (text tools): line counts, runs of characters
  and offsets carry over from one buffer to the next, and a Read may come short.
* **Buffers at their last byte** (`build_argv`, `strings`, `which`), **lists
  that run into themselves** (`which`).
* **Several reads that are one figure** (`compat.c`), **unsigned differences**
  (`mem`, `timer`, `bench`).

`PROJECT.json` lists these hazards line by line, with the properties that
would catch each.

## 2. Modules

| module | models | notes |
|---|---|---|
| `BootBlock` | `bootsave`, `bootrestore` | any number of CLI processes, units, files; trackdisk.device and AmigaDOS are external |
| `BootBlockProofs` | - | TLAPS proofs about `BootBlock` |
| `RexxExchange` | - | abstract specification: what a user sees of a command |
| `RexxSend` | `rexxsend` | any number of clients and one host; implements `RexxExchange` |
| `RexxSendProofs` | - | TLAPS proofs about `RexxSend`, including the refinement |
| `TaskLists`, `MCTaskLists` | `watchtask`, `taskinfo`, `tasks`, `snapshot`, `execinfo` | the two task lists node by node |
| `TaskListsProofs` | - | TLAPS proofs about `TaskLists` |
| `ListSnapshot` | the thirteen other list tools | one loop, one rule per tool |
| `ListSnapshotProofs` | - | TLAPS proofs about `ListSnapshot` |
| `MCReadings` | - | a behaviour of `MemInfo` or of `Stopwatch`, for one run of both |
| `Program` | - | place in main, return code and tool, which `EnvLookup`, `MemInfo` and `Stopwatch` have in common |
| `EnvLookup` | `env` | the borrowed lock |
| `MemInfo` | `ai_get_exec_info` and its users | one step per AvailMem call |
| `DirScan` | `du`, `find`, `tree` | the recursion as a stack of frames |
| `DirScanProofs` | - | TLAPS proofs about `DirScan` |
| `Numbers` | `parse_ticks`, `parse_loops`, `ai_put_u32` | conversions as operators, used by `Stopwatch` |
| `Stopwatch` | `timer`, `bench` | the clock as an actor |
| `ReadingsProofs` | - | TLAPS proofs about `EnvLookup`, `MemInfo`, `Numbers` and `Stopwatch` |
| `Startup` | `common/start_cli.c`, `common/start_cli_args.c` | from entry to return code; main is supplied by a module that extends it |
| `Which` | `which` | main |
| `VolumeReport` | `diskinfo`, `diskcheck`, `floppytest`, `trackinfo` | main |
| `VectorReport` | `alerts`, `patches`, `bootinfo`, `interrupts`, `vectors`, `rominfo` | main |
| `MCCliTools` | - | composes `Startup` with the three modules above |
| `CliToolsProofs` | - | TLAPS proofs about `MCCliTools` and its parts |
| `TextTools` | `head`, `tail`, `strings`, `hex`, `snapdiff` | from the arguments to the return code |
| `TextToolsProofs` | - | TLAPS proofs about `TextTools` |

### BootBlock

One action per call with an effect. `pc[p]` is the place in `main`, `held[p]`
the signal bit, device and file handle the process owns, `block[p]` the static
`bootblock[]`. A boot block is an element of `Blocks`; a file is its length
class against 1024 bytes (absent, short, exact, long) and its data. Every call
that the code tests for failure has a failing disjunct.

The drive is external and modelled from how the tools use it: `track[u]` is
the buffered track (`NoBlock` if it is not valid), `writer[u]` the process
whose CMD_WRITE the buffer holds and the medium does not. CMD_WRITE changes
the buffer, CMD_UPDATE records it, and recording may put *any* block on the
medium: that is what a verification is for. `taken[u]` remembers whether the
last recording put the buffer on the medium. After CMD_UPDATE the buffer may
stay valid or not, at every CMD_UPDATE anew: the tools never issue CMD_CLEAR,
which alone would end its validity. `ReuseTrack` (another track is accessed)
and `ChangeDisk` happen at any time. `setup_io` is two steps, AllocSignal and
OpenDevice, each of which may fail.

### RexxSend and RexxExchange

`held[c]` is what a client has allocated, `where[c]` where its message is,
`forbid` who is between Forbid and Permit, during which nobody else takes a
step. Freeing what one does not own sets `wild`. The host may publish and
remove its port, take commands and answer them, in any order, or never; it
does remove its port properly, with an empty queue. A result string becomes
the client's with the answer, if the primary result is 0.

`RexxExchange` has four phases per client (local, sent, answered, closed):
a command is sent at most once, a sent command is never abandoned, and the
return code tells how it ended. The refinement mapping is `Phase`.

### TaskLists

The lists are sequences of tasks. `Wake` is an interrupt's Signal and may come
at any moment, also under Forbid; everything else that other tasks do waits
for Permit. The walker is one node (`cursor`) and follows whatever `ln_Succ`
that node has now. The tools differ in what they do with a node (compare,
copy a row, count), in which limit stops them and in when they warn
(`Warning`). The lists that Snapshot and
ExecInfo count and that no interrupt touches are one list, `libraries`.

### ListSnapshot

Each tool is a rule: the kinds of entries it wants, what ends its loop
besides the end of the list, and when it warns. The loop itself, Forbid and
Permit (`forbid`), dos.library and its root, which may each be missing, DF's Lock / Info / UnLock per volume and WatchPort's
samples are the actions. Names, versions and DF's block figures do not
matter to the properties and are left out. Residents walks a table that
nobody changes, and therefore does not call Forbid; `ListChanges` leaves its
list alone.

### EnvLookup

OpenLibrary and the root of dos.library may be missing (`MissingRoot`), with a
CloseLibrary of its own for the latter. The walk is one step, because it is under Forbid. Afterwards other tasks may
remove the assign or give it another lock, which frees the old one; through a
freed lock, `Open` may find anything. A file is a sequence of characters and
line ends, so that the buffer limit and the cut at the first line end are
modelled by what they do.

### MemInfo

Chip and fast memory are two rows of cells. Other tasks allocate and free
runs of cells between the six calls. `Fragmented` is the unsigned difference.
A piece is a pair of cells with everything between them free (`Pieces`).

### DirScan

`stack` holds one frame per open directory: the directory, the entries seen
and those ExNext has not delivered yet, in any order. `slot[d]` is what the
path buffer of depth d holds, and `seen` remembers the entries that ExNext has
delivered, which no tool keeps but the properties speak of. Whether a path fits its buffer and whether a
name contains the pattern are attributes of a node. The tree does not change
during a scan; what a scan meets of changes by others is that Lock, Examine or
ExNext fails, which each may do at any time.

### Stopwatch

`StampTicks` is `stamp_ticks` as it is written, modulo the word size; the
numbers of the calendar are constants so that days are short. The argument is
a text (`typed`), which `ParseTicks` or `ParseLoops` of `Numbers` turns into a
number; what is printed is a text too (`shown`, by `PutU32`). The base and the
word size are constants, so that every text around the limits can be tried.
`Meaning`, the reference for the conversions, is the sum of the digits with
their weights (`Power`), which none of them computes. `PutU32` needs no more
digits than its buffer has, because the word is at most `Power[BufferDigits]`
(2^32 and ten digits in the code); the loop limit of `bench` has at least the
size of the base, as 4000000000 has, so that its test cannot go below 0.

### Startup, Which, VolumeReport, VectorReport

`Startup` is one step per character of `build_argv`, over character classes:
blank, quote, `:` or `/`, any other. `argbuf` and `argv` are the two static
arrays. A Workbench start waits for its message and replies to it; the reply
allows Workbench to unload the program (`UnloadSeg`) as soon as multitasking
is permitted.

The other three modules extend `Startup` and add main: it begins at
`pc = "main"`, reads its arguments from `argbuf` (`Arg(k)`) and ends with
`Return(code)`. `MCCliTools` is the disjunction of all of them, with two
stand-ins for any other main. The makefile links Info, Mem and Tasks with
`start_cli.c`; the qualification scripts link further tools with it and DF, DU
and Find with `start_cli_args.c`. Which and the disk reports get the
compiler's startup code in the present makefile. It is not part of the
repository, and the model links them with the repository's.

`Which`: the CLI's path is a list, given by its length and by where its last
component leads, which may be back into the list. The file system is the set
of places that have the name. `VolumeReport`: Info may deliver any figures,
negative ones too. `VectorReport`: a table of fields that an interrupt may
change as long as interrupts are enabled. ROMInfo calls Forbid only; its
resident is taken to be one that nobody changes, and no property speaks of its
copy. The test for a missing SysBase is
kept because it is the tools' only error path.

### TextTools

Each return of the five tools closes the files it closes in the code
(`Return(code, closed)`): no file is closed by the mere end of a tool. Number
parsing is accept or refuse, and no property depends on it. A file is a
sequence of characters and line ends. `Chunks` is what one Read
may deliver: at least one byte unless the file is at its end, at most the
buffer. A failing Write may have written a part. `out` is what has been
written; for Hex it is the addresses and bytes shown. The section after
`Spec` says what each tool is for in terms of the whole file (`FirstLines`,
`LastLines`, `Runs`, `Dump`), and the properties compare `out` with that.
`Runs` is a recursive function on the places of the file (`RunsFrom`).

### Conditions of the code that are left out

The tests for `SysBase == 0` and `ThisTask == 0` guard against a machine that
does not run; except in `VectorReport` they are left out. Printing and `copy_name` /
`copy_bstr` truncation of names are left out. Return codes are kept.

## 3. Runs

All runs are in `PROJECT.json`. TLC needs less than a minute for each.

| run | shows | bounds |
|---|---|---|
| `boot_block` | the five properties below | two processes, one unit, one file, two blocks, three runs per behaviour: two runs overlap in every way, and a third meets what they left in the buffer |
| `boot_block_verify` (violated) | a verify read may be served from the buffer | one process, one run |
| `rexx_send` | the six properties below | two clients and one port, results 0 and 20: one client's Forbid against the other and the host |
| `task_lists` | the four properties below | three tasks, two priorities, 2 visits, 3 rows, 2 samples: limits below, at and above |
| `list_snapshot` | the three properties below | all lists of up to 4 entries, 2 rows, 3 visits, one change: shorter, exact and longer than either limit |
| `env_lookup` | the two properties below | up to 3 entries of which 2 are visited, texts of up to 3 characters in a buffer of 3, one change of an assign |
| `readings` | the three properties below | memory: 3 chip cells (a hole is possible), 1 fast cell, 2 samples; clock: days of 12 ticks, a word of 16 (wraps within a day), 2 days; arguments of up to 5 binary digits, limits of 3 and 13: texts beyond the limit and beyond the word |
| `mem_info_largest` (violated) | Largest exceeds Free | 2 and 1 cells |
| `dir_scan` | the three properties below | the root and up to 4 nodes in any shape, 2 levels scanned, 3 entries per directory, a word of 3 for sizes of 2: trees below, at and beyond every limit |
| `stopwatch_midnight` (violated) | the elapsed time is wrong across midnight | a word too large to wrap |
| `cli_tools` | the seven properties below | all lines of up to 6 characters for a buffer of 6, 2 arguments; paths of up to 3 components of which 2 are visited, every way to run into themselves; names of which some do not fit the buffer for C:; block counts around 2^32 scaled to a word of 10^6; a table of 2 fields and 2 changes |
| `text_tools` | the five properties below | all files of up to 5 characters (two files for SnapDiff) through a read buffer of 2 and a text buffer of 2, an address space of 4, numbers up to 4, one appended character: files below, at and beyond each of them |

**boot_block.** `NothingHeldAtExit`: no ending keeps a signal, device or
handle. `OnlyWholeFilesReachDisks`: a pending buffer holds a block that came
from a file of exactly 1024 bytes, for that unit, with YES. `SavedMeansWhole`:
BootSave returns 0 only with its whole block in the file, though other runs
use the same name. `RestoredUnlessBuffered`: BootRestore returns 0 only if its
block is on the disk (or pending from a later run with the same block), or if
the disk took the record badly and the verify read came from the buffer.
`boot_block_verify` shows that the last case happens (section 5).

**rexx_send.** `HostSeesLiveMessage`, `NoOrphanCommand` and `NothingHeldAtExit`
(everything is freed, and nothing that is not owned) are the memory safety of
the exchange. The last one also shows that the branch "No ARexx reply received", which keeps the message, is
dead. `ImplementsExchange` is the refinement. `StuckOnlyOnHost`: a client that
does not return waits for a host that has its command.

**task_lists.** `WalksLiveNodes`, `WalkEnds` and what `FindersSound` says of
PRESENT hold whatever interrupts do. What it says of ABSENT, and `ReportsExact`
(the rows of Tasks and its warning, the counts of Snapshot and ExecInfo), hold for walks during
which no interrupt woke a task, which is exactly where the code's Forbid falls
short (section 5).

**list_snapshot.** `RowsAreOneMoment`: the rows are a prefix of the wanted
entries at Forbid. `NoSilentLoss`: whatever is missing is covered by a
warning, and RexxPorts' code 5 has a cause. The others of the
group may warn although nothing is missing, when the table is exactly full.
`NothingHeldAtExit`: Permit, the locks of DF, the library on each early return.

**env_lookup.** `ValueIsFirstLine`: the value begins the file's text, has no
line end in it, and stops only at one, at the end of the file or of the buffer.
It holds as long as the lock stays valid; section 5 says what
happens otherwise. `NothingHeldAtExit` includes the library and the current
directory.

**readings.** `FiguresFit`: Largest stays within Free as long as other tasks only
allocate, and on a machine at rest all six figures fit together.
`RequestIsTyped`: an argument is taken for the number it means,
or refused. `ElapsedExactWithinDay`: the text that is printed means the ticks
that passed, also when the tick counts wrap, and fits its buffer.

**dir_scan.** `ReturnCodeIsTrue`: return code 0 means that every file,
directory, byte or match was counted once; for Tree only if no ExNext failed.
Code 5 means a failed call or a limit. A directory of
exactly 1024 entries is such a limit, though all of it has been seen.
`PathsIntact` and `NothingHeldAtExit` are about the recursion: the path of an
open directory is not overwritten, and every level unlocks.

**cli_tools.** `ArgvIsWords`: main gets exactly the words of the line, each
with its terminator, also from a line that fills the buffer. `RunsLoadedCode`:
Forbid before the reply keeps the program in memory until it has returned.
`WhichIsRight`: what Which prints is the first place that has the name, "not found" is true, and
the cycle warning is for cycles; the exceptions (a failed call, the limit, a
name too long for C:) are named in the property. `FiguresAreTrue`: DiskInfo's
products are exact or reported as overflow, DiskCheck and FloppyTest pass the
same disks, and TrackInfo's geometry adds up. `TableIsOneMoment` is about the copies
under Disable. `NothingHeldAtExit` is for all of them: locks, library, current
directory, Forbid, Disable and the Workbench message. `CommandReturns`: a start from the
CLI, and a start from Workbench once its message was sent, ends.

**text_tools.** `OutputIsRightSoFar`: at any time, what has been written is a
beginning of what the file calls for, however it is cut into pieces.
`ZeroMeansWhole`: return code 0 means all of it, Tail of a file that grows loses
nothing, and IDENTICAL is true even with short reads; `DifferencesExact` holds
only without them (section 5). `TypeOK` bounds the text buffer of Strings.
`NothingHeldAtExit` tests the Close calls before each of the returns.

Every module has a type invariant (`TypeOK`, or `EnvTypeOK`, `MemTypeOK` and
`WatchTypeOK` in the three that extend `Program`). Where it says no more than the other
properties, the run does not list it; it is there for the reader and for proofs.

Every property has a mutant in `PROJECT.json`, and one for each of its parts where
it has several: a variant of one action or
operator, kept in the module just before it, with which TLC finds the
property violated.

**Fairness** matters to the three liveness properties, `StuckOnlyOnHost`,
`WalkEnds` and `CommandReturns`. A process that can run is scheduled, and DOS
calls return: weak fairness of each client (`RexxSend`) or of the tool
(`TaskLists`, `MCCliTools`). No fairness is assumed of hosts, other tasks, interrupts or the
user. A walker under Forbid is the running task, and interrupts return to it;
a model in which they wake tasks for ever starves nobody, because only
finitely many tasks wait. `StuckOnlyOnHost` excepts a host that does not answer,
and `CommandReturns` claims nothing of a Workbench that never sends its message.

**Deadlock** is checked where the system goes on (`BootBlock`: the user may
always change a disk; `RexxSend`: the host; `TaskLists`: the other tasks). The
remaining models end when the tool has returned.

## 4. Proofs

`tlapm` checks the modules named `...Proofs` for every value of the constants,
from the assumptions named in the modules they are about: limits are naturals
(some at least 1), sets of processes, tasks or results are any sets. There is one
lemma per action (or per group of like ones) that it keeps the inductive
invariant, and the properties follow from that invariant.

**BootBlock.** `TypeCorrect`, `NoLeak`, `WholeFilesOnly`, `SavedWhole`, and
`RestoredOrBuffered` (`RestoredUnlessBuffered`), for drives that keep their
buffer after CMD_UPDATE and drives that drop it. None of the properties is
inductive. `IndInv` adds: the job of a process belongs to its place in the code
(`JobOK`), what it holds is exactly what that place calls for (`HeldOK`), a file
being written holds the writer's block (`FileOK`) and has one writer
(`OneWriter`), the block of a restoring process is an accepted one
(`BlockAccepted`), after its CMD_UPDATE a process is not the writer of a
pending buffer (`Flushed`), and a valid buffer that is not pending equals the
medium, unless the disk took the last record badly (`Coherent`). The last one is
why a verify read that finds the block has found it on the disk in all other
cases. There is
one lemma per action, and the action properties follow from `IndInv` and the
one action that can set the return code.

**RexxSend.** `TypeCorrect`, `LiveMessage`, `NoOrphan`, `CleanExit`
(`NothingHeldAtExit`) and `Refinement`
(`Spec => ImplementsExchange`). The invariant `ClientOK` ties `held`, `where`,
`result` and `rc` to `pc` for each client; the refinement goes through the
actions once more, each mapped to a step of `RexxExchange` or a stutter.

**EnvLookup.** `EnvTypeCorrect`, `NoLeak`, `FirstLinePrinted`,
in `ReadingsProofs`. The invariant `EnvInv` adds what holds of the library, the
directory, the lock and the file handle at each place (`LibOK`, `DirOK`, `LockOK`,
`FileOK`); `FirstLineIs` is what the cut at the first line end returns.

**MemInfo.** `MemTypeCorrect` and `FiguresAlwaysFit` (`FiguresFit`), in
`ReadingsProofs`, for any number of cells. `FiguresFit` speaks of the six figures
when they are printed; the invariant `FiguresOK` relates those read *so far* to the
memory *now*. Until memory is freed, each of them is at least what AvailMem would
say now, and each largest piece is within the free memory of its kind, which was
read before it. While nothing changes they are equal to what AvailMem would say.
That invariant survives an allocation because fewer free cells have no larger
piece (`LargestGrows`, `ValueShrinks`), and a reading because no piece has more
cells than are free (`PieceIs`, `ValueBounds`). The order of the calls matters:
`ReadOrder_LargestFirst` breaks it.

**Numbers.** `ParseTicksIs`, `ParseLoopsIs` and `TextIs`, in `ReadingsProofs`, say
what the conversions compute for texts of any length, in any base: the parsers
return `Meaning` if it is within the limit and refuse otherwise, and `PutU32(v)`
means v and is no longer than v needs. They rest on `MeaningAppend` (a further
digit multiplies by the base and adds itself) and, for the parsers, on `Limited`, the
value of the first k digits; `LoopsTest` is the division with which `parse_loops`
tests for its limit before it multiplies. `Recursion`, `TextsExist` and
`Agreement` stand for the induction that the prover does not have: they show by
least counterexample that the recursive functions exist and are unique.

**Stopwatch.** `WatchTypeCorrect`, `RequestRight` and `ElapsedRight`, in
`ReadingsProofs`, for any calendar and word size. `PassedOK` says that the ticks passed are the
difference of the clock and the first stamp, and then of the two stamps, counted
with the right weights (`Ticks`); `TickIs` carries it over the end of a minute
and of a day. `StampDifference` is why the wrong day term of `stamp_ticks` does not matter
within a day: it cancels, also modulo the word (`RemainderOfDifference`).

**ListSnapshot.** `TypeCorrect`, `NoLeak`, `OneMoment`, `LossIsTold`. `CopyOK`
says that in the loop the rows are what `Picked` picks of the entries visited so
far and that no limit has been passed, `VerdictOK` what the flags mean after the
loop. `Picked` is a recursive function. That it exists and grows by one entry
per visit is proved from its least counterexample (`LeastNat`, from the
well-foundedness of `<`), which replaces induction over data; the other
recursive functions are treated in the same way.

**TaskLists.** `TypeCorrect`, `LiveNodes`, `FindersAreSound`, `ReportsAreExact`.
`IndInv` has a part that survives interrupts (`WalksLiveNodes`, `FoundOK`,
`SamplesOK`) and a part for a walk in which no task was woken: `PlaceOK` (the
cursor is the successor of the k entries visited), `RowsOK`, `FinderOK` and
`CounterOK` (rows, answers and counts are those of these k entries). `EnqueueIs`
and `RemoveFirstIs` say what the list operations of exec do.

**CliTools.** Of `MCCliTools`, `Startup`, `Which`, `VolumeReport` and
`VectorReport`: `TypeCorrect`, `LoadedCode`, `NoLeak`, `OneMoment`,
`FiguresHold`, `WhichRight` and `ArgvRight`. `PhaseOK` and `HeldOK` tie the
kind of start and what is held to the place; `BufferOK` is the bound of
`build_argv`, which holds because what has been copied is never ahead of what
has been read; `VectorOK`, `VolumeOK` and `WhichOK` are those of the three mains,
the last one saying that the components passed so far do not have the name.
`ArgvRight` has a layer of its own, `ArgsOK`: the arguments so far are whole and
terminated in `argbuf` (`Done`), what has been copied of the word at hand is its
beginning (`InWord`, `Copied`), and the words of the line are these and those of
the rest (`Remain`).

**DirScan.** `TypeCorrect`, `PathsKept`, `NoLeak`, `CodeIsTrue`. `ShapeOK` says that
the stack is a path of the tree, one frame per depth, with its locks and path
buffers. On it rest three layers: `CauseOK` (a counted error has a cause),
`TallyOK` (without errors, the counters are the numbers and sizes of the nodes
scanned, each once) and `ClosedOK` (nothing is passed over: the entries of a
scanned directory are seen, unless it is open). At return the stack is empty, so
that all nodes have been seen, by their least depth (`AllSeen`).

**TextTools.** `TypeCorrect`, `NoLeak`, `RightSoFar`, `ZeroIsWhole`,
`FiguresExact`, for files, buffers and numbers of any size. `ShapeOK` holds also
while the file grows: the place fits the tool and its arguments (`ControlOK`), nothing is
written before the first Read (`StartOK`), no handle is behind the end of its
file (`ReachOK`), Hex stays in its range, Head reads on only while lines are
missing, and Tail has written the file from its start on, to at least the end it
found (`SinceOK`). The other parts are for a file that does not change, one per
tool, and say what has been carried over from one Read to the next. `HeadOK`:
the output is the file up to the handle, and `lines` the line ends in it.
`TailOK`: going backwards, `lines` is the number of line ends behind `pos`; when
it prints, `pos` is where the wanted lines begin. `HexOK`: the addresses shown
are those from the offset to the handle. `SnapOK`: without a difference the
snapshots agree up to the handles, and without short reads the figures are those
of the part read (`Unequal`). `StringsOK` is the hardest: the runs of the file are those before the run at
hand and those from its first character on (`RunOK`); of the run at hand
everything is either in `text` or, once a full buffer was flushed, partly in
`out`. Line ends are counted across a cut by `CountPart`, differences by
`UnequalGrows`, and `RunsFrom` exists by its least counterexample, as above.

**Only model-checked:** liveness (`StuckOnlyOnHost`,
`WalkEnds`, `CommandReturns`), which needs fairness and ENABLED. Every safety
property of a passing run is the statement of a theorem.

## 5. Findings

Three runs are expected to fail; each compares the code with a sentence of the
documentation or of the program itself, quoted in `PROJECT.json`.

1. `boot_block_verify`: BootRestore issues no CMD_CLEAR between CMD_UPDATE and
   its verify read. With a device that keeps its buffer valid, "Restored and
   verified" has verified the buffer, and a disk that took the record badly is
   reported as restored.
2. `mem_info_largest`: the qualification sheet demands that Largest never
   exceeds Free; six separate AvailMem calls cannot promise that, and
   `Fragmented` then wraps.
3. `stopwatch_midnight`: the day term of `stamp_ticks` lacks a factor of 60.

Where a property or a theorem has a condition, the code needs it:

* `RestoredUnlessBuffered` excepts the verify read of finding 1.
* `FindersSound` excepts walks during which an interrupt woke a task. Forbid
  without Disable lets a node move from TaskWait to TaskReady after TaskReady
  was walked, and WatchTask then reports an existing task as ABSENT.
* `WhichIsRight` excepts components behind Which's limit: the warning is printed
  with "Not found" only, not when the name is then found in C:.
* `DifferencesExact` excepts short reads: SnapDiff compares what the two Reads
  delivered, so a short one makes equal files differ.
* `LastLines` is the wanted number of complete lines *and* what follows the last
  line end: Tail of one line prints two of a file whose last line is not ended.

Smaller things the models contain and no run states: BootSave prints "partial
output removed" without looking at the result of DeleteFile (`SaveDelete`);
Env reports a visit limit as "ENV: assign unavailable" (`FindEnvLock`) and uses the
lock of the assign after Permit without DupLock (`EnterDir`, `Openable`);
RexxSend waits for a reply without a timeout or a break check, so it hangs
with its host (`StuckOnlyOnHost` says that nothing else hangs it); Tree
returns 0 for a scan that a failing ExNext cut short (`Leave`).

## 6. Plan

Done, in this order: `BootBlock` (what can destroy data), `RexxSend` with its
abstract specification, the list walkers, the figures, the directory scans, the
startup code with Which, the disk and the table reports, and the text tools. Then the proofs, in
the order of section 4, those of `ReadingsProofs` last. Nothing of the plan is
left.

Not modelled and not planned: the rest of `common/output.c` (strings and signs),
number formats and table layouts, and the build, smoke and qualification
scripts, which drive an emulator around the program.
