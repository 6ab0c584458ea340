# A TLA+ model of FastNx

FastNx emulates a game console: it opens a game's archive, decrypts and
unpacks its modules, lays them out in the memory of an emulated process, and
runs the process's threads on a just-in-time compiler, with an emulated kernel
behind the system calls. This directory models the part of it where state
outlives a call and calls depend on what earlier ones left: the kernel's
objects, handles, memory and threads, the loader that fills them, the files
it reads, the JIT that the threads share, the logger, and the program's own run
with what it leaves on disk. TLC checks small instances. For every instance of
the constants TLAPS proves the handle table, the scheduler's lists and fibers, the
memory and the loader that fills it, the threads' registers, the logger, the files a
game is read through and, of a run, the instances, the tickets, the choice of the game
and the exported archive.

Paths below are relative to `src/source/` of the repository.

## 1. The system

### Parts, state and operations

| Part | State it keeps | Operations | Correct when |
|---|---|---|---|
| Kernel objects (`kernel/kauto_object`) | a U32 count per object; `autorefs`, raw pointers by U64 | `IncreaseLifetime`, `DeteriorateLifetime`, `AddReference`, `RemoveReference`, `GetObjectBy` | the count is the references that exist; `Destroyed()` runs once per return to zero; the last release takes the object's only name away and nobody else's |
| Handle table (`kernel/types/khandle_table`) | slots of count and object, a stack of free slots, a U16 counter | `Allocate`, `Free`, `GetObject`, `CloseAll` | a handle names its object from the call that returned it to the one that frees it, and nothing after |
| Slab heaps (`kernel/memory/kslab_heap`) | a list of free objects | `Allocate`, `Reserve`, `Free` | an object is handed out once |
| Guest memory (`kernel/memory/k_memory`, `kmemory_block_manager`, `common/memory`, `device/memory`) | segments, the block map, host allocations, host protection | `InitializeForProcess`, `Map*Memory`, `SetMemoryPermission`, `FillMemory`, `QueryMemory` | blocks tile the space, each says what is mapped there, no host page backs two guest pages |
| Page table (`jit/page_table`) | entries with a type | `CreateTable`, `DelimitTable`, `Contains`, reads and writes | code is code to the JIT, a stack a stack |
| Process loader (`horizon/process_loader`) | the layout of the sections, sizes of `.bss`, the state of the pass over them | `GetCodeSet`, `Load`, `SetProcessMemory` | every section of every module is mapped where it was laid out, with its permission and its `.bss` |
| Process (`kernel/types/kprocess`, `kernel/memory/ktls_pagemanager`) | threads, TLS pages with free slots and full ones, the handle table | `Initialize`, `Start`, `Kill`, `AllocateTls`, `Destroyed` | two threads never share a TLS slot; the process starts, and can end |
| Scheduler (`kernel/threads/kscheduler`) | a list of threads, a list per core, a fiber per core | `Emplace`, `Reeschedule`, `PreemptThread`, `StartThread`, `KillThread`, `Yield`, `Sleep`, `Quit` | a live thread reaches its core, once; a killed one stops; no fiber waits for itself |
| Thread (`kernel/types/kthread`) | `state`, core, JIT parameters | `Initialize`, `ResumeThread`, `Destroyed` | it runs slices until it is killed |
| Kernel (`kernel/kernel`) | process identifiers, JITs by core, processes | `GetPid`, `CreateThread`, `CreateJit`, `CreateProcess` | identifiers are unique |
| JIT and system calls (`jit/dynarmic_*`, `kernel/svc`) | registers, ticks, a spin lock | `Run`, `GetContext`, `SetContext`, `CallSVC`, `QueryMemory` | a thread's registers are its own, whoever shares its core; a slice ends; a system call returns |
| Application start (`horizon/switch_ns`, `core/application`, `core/app_setup`) | list of loaders, the kernel | `Initialize`, `GetLoaders`, `LoadFirstPickedGame`, `LoadApplicationFile` | one instance runs; the game that starts is the first and was loaded |
| Loaders (`loaders/*`) | status, sections | one per format | status says what was found |
| Key set and tickets (`horizon/key_set`, `crypto/ticket`) | keys by name, tickets in memory and on disk | load, add, get, remove | a package is deciphered by its own tickets, whatever earlier runs left |
| File system (`fs_sys/fsio`, `refs`, `vfs`) | offsets, one buffered window | read, write | a read through any stack of files returns the bytes of the file below |
| Switch file formats (`fs_sys/nx_fmt`, `fs_sys/aes`) | tables of files, cipher position | open, list, read | block arithmetic covers each byte once |
| Caches and assets (`core/cache`, `core/tarball`, ...) | files on disk, the archive and its offset | include, finish, clear | clearing leaves no ticket; the archive holds all files, whatever an older one left |
| Logger (`common/async_logger`) | buffered lines, a count of them | `Log`, `Puts`, `ClearLine`, `FlushBuffers` | the count is that of the buffer, so a flush loses no line |
| Cryptography, host queries, debugging output | none a model would tell apart | | |

### How they interact

The application start picks a loader for the file; the loader gives
`ProcessLoader` the modules and the npdm file (stack size, main core). The
process loader lays the modules out (`GetCodeSet`), has `KMemory` make the
segments (`InitializeForProcess`), and maps, protects and fills the sections
(`SetProcessMemory`). `KMemory` asks the block manager for a block; that asks
the slab heap `poffset` for host pages, the allocator to `mmap` them at the
guest's address, and the page table to record the range. `KProcess::Initialize`
adds the TLS, the stack and the main thread: it is put on the scheduler's list
and opened in the process's handle table. `KProcess::Start` makes a fiber that
calls `Reeschedule`; that dispatches each thread of the list to the fiber of its
core and joins it; the core's fiber resumes its threads, each slice of which
(`Run`, then `Yield`) ends in `Reeschedule` again. A system call comes back
through `CallSVC` to the kernel's table of calls, which has one entry today,
`QueryMemory`. All of them write to one logger, which the start replaces once.

A run begins with the check for other instances, then the keys, the tickets of
the directory `tiks`, and a loader for each game, whose package adds tickets and
asks for them when it opens its archives. Then it does one of three things: start
the first game, clear the cache, or export the directory into `fastnx.tar`. Of a
run only the files remain.

The calls share state, not messages. Everything runs on one host thread:
`ismultithread` is false and never set, so the only switches are a fiber's join
and its end. The code has locks, but within one host thread they can only block
for ever or do nothing.

### What is hard

* The block map is changed by arithmetic on whichever block lies before the one
  asked for, so a mapping is right or wrong depending on all earlier ones.
* A count of references, an entry in `autorefs` and slots in the handle table
  end together, and handles outlive them in the guest's registers.
* Fibers that yield all walk one list, splice it while they walk, and wait for
  each other in a chain.
* `SetProcessMemory` carries its position within a module from one section to
  the next.
* Threads of one core share a JIT, and their registers are copied in and out
  around slices and system calls.
* Text reaches the logger in parts, is taken back, and is flushed by calls that
  know nothing of each other; a count of its own says how much there is.
* A run may end at any step, and the next one works with the tickets and the
  archive it finds.
* Resources run out: DRAM, TLS pages, TLS slots, handles, the U16 of handles.

`PROJECT.json` lists each hazard at its line, with the properties that watch it
or the reason none does.

## 2. Modules

    HandleRegistry          what a handle table promises (abstract)
      ^ implemented by
    HandleTable  extends  AutoObject
      ^ HandleTableProofs   theorems      ^ MCHandleTable   run
    ProcessLoader  extends  GuestMemory  extends  SlabHeap
      ^ LoaderProofs        theorems      ^ MCProcessLoader runs
    Scheduler
      ^ SchedulerProofs     theorems      ^ MCScheduler     runs
    BufferedFile
      ^ BufferedFileProofs  theorems      ^ MCBufferedFile  runs
    FileStack
      ^ FileStackProofs     theorems      ^ MCFileStack     run

    OwnRegisters            what threads expect of shared cores (abstract)
      ^ implemented by
    Jit  extends  AsyncLogger
      ^ JitProofs  extends  LoggerProofs      theorems      ^ MCJit   run
    Application  extends  TicketCache, Tarball
      ^ ApplicationProofs   theorems      ^ MCApplication   run

Mistakes that a version of the code could contain are kept beside the definition
they would change, under a name of their own (`ReleaseLosesSlot` beside
`Release`). No action uses them; each is what one property is there to exclude,
and putting it in the place of the definition does violate that property.

**AutoObject** (`kernel/kauto_object`). `lifetime` is the U32 counter,
`destroyed` counts runs of `Destroyed()`, `autorefs` is the map of the kernel,
`borrowed` the references that callers of `GetObjectBy` have not returned. The
count wraps at `LifetimeMod`. `DeteriorateLifetimes` is one or several calls of
`DeteriorateLifetime`, as `CloseAll` makes them. `AddReference` asks only that the
key is free: any object may be named, often, and also after it was destroyed.
`RemoveReference(0)`, which the last release calls, erases one entry: the first of
the object with a key other than 0, or else the key 0, whoever has it. So a
destroyed object with two names keeps one. Nothing in the repository calls
`AddReference` yet; whoever does has to name an object once, and not 0.

**HandleTable** (`kernel/types/khandle_table`). `itemstable`, `freelist` and
`counter` are the fields of the class. A handle is written `<<count, slot>>`; the
code packs them as `count << 15 | slot`, one to one with at most 2^15 slots.
`Allocate`, `Free` and `CloseAll` are one step each. Two undefined cases set
`fault`: `back()` of the empty stack and a release through a null object.
`issued` and `open` are histories: what was ever returned, and what the clients
hold. `Free` takes any handle ever issued, so repeated and outdated ones too.
After `CloseAll`, which only `KProcess::Destroyed` calls, the table is not used.

**HandleRegistry** is what a client sees: pairs of a handle and an object.
`HandleTable` maps the slots off the stack to it.

**SlabHeap** (`kernel/memory/kslab_heap`). `SlabAllocate` and `SlabReserve`,
with what they do at the end of the list: a null pointer, and `front()` of an
empty list.

**GuestMemory** (`kernel/memory/k_memory`, `kmemory_block_manager`,
`common/memory`, `jit/page_table`). The memory is a record and each call an
operator from one record to the next, because a call is sequential code on behalf
of the loader. `MapBlock` is `KMemoryBlockManager::Map`: the lookups, the block
pages are taken from, the two ways to split, the host pages. A thrown exception
or an undefined read ends the record's life with that `outcome`.

**ProcessLoader** (`horizon/process_loader`, `KProcess::Initialize` and
`AllocateTls`, `KTlsPageManager`). One step per module laid out, one for
`InitializeForProcess`, one per section mapped, then the exception TLS, the
stack with the main thread's TLS, and further TLS slots. `debug` is the build:
without `NDEBUG` the assertion of `MapCodeMemory` aborts, and
`SetProcessMemory` returns at a read-only section in which it finds no strings
(a choice here: contents are not modelled). Section sizes are in half pages, so
that a section may fill its last page or not. `codeset.start` is 0 in the code
and left out.

**Scheduler** (`kernel/threads/kscheduler`, `KProcess::Start` and `Kill`,
`KThread::ResumeThread`). Each fiber has a `pc`, the fiber it `waits` for, and an
iterator of the list while it is in `Reeschedule`; `current` and `ready` are
Boost.Fiber's, whose part is `Dispatch`, `Join` and `End`. `PassThread` and
`PreemptThread` are the two ways through the loop of `Reeschedule`, `ResumeFront`,
`RunSlice` and `ThreadReturns` those through the loops of `StartThread` and
`ResumeThread`. A slice of the guest may also create a thread (`CreateThread`)
or end the process (`Kill`). The program makes neither call yet and creates the
main thread only: the runs take the scheduler's operations at their word, with
several threads created before `Start`, and say what they would do. A run with
one thread is among their behaviours.

**BufferedFile** (`fs_sys/refs/buffered_file`, `VfsBackingFile::ReadLine` and
`GetAllLines`). `buffer`, `start` and `valid` are the fields of the class, `file`
what its descriptor reads. Each call is a step. A read is a fold over the turns
of its loop, each of which is `ReadTurn`, and gives the object as it is afterwards,
the bytes in the caller's memory (`Unset` where nothing was written) and how many
of them it counts. `ReadLine` is a fold of such reads, `GetAllLines` one of
lines. `answer` is what the last call returned, until the file changes.

**FileStack** (`HugeFile`, `PartitionFileSystem`, `OffsetFile`, `XtsFile`,
`CtrFile`, `AesCipher`, `ContentArchive::GetFile`). The files a game is read through, one inside the other:
the mapped package, a file of its partition, and of an archive the header and a
section. A byte is its position in the package, and is enciphered with its
position in the archive: deciphering gives it back if the code computed that
position, and `Garbage` otherwise. So a property can say which bytes a read
returned and that they deciphered. Where the files are is computed twice: from
the package's format (`FileBegin`) and as the code does (`DataOffset`).
Deciphering changes one thing that later calls see, `sectorsz`. A section is one of
three `Kinds`: `AesCtr` and `AesCtrEx` are read through `CtrFile`, `AesXts` through an
`XtsFile` whose key is all zeros (`content_archive.cpp:197`), so that every byte of it is
`Garbage`, and the others through an `OffsetFile` as they are. What an XTS read of a part
of a sector does to the memory behind the caller's is not modelled. Partitions with
hashes (`HFS0`) are not modelled, nor are the names in a package with more files
than the table is read for.

**AsyncLogger** (`common/async_logger`). Text is a sequence of messages and
newlines; what a message says, and the time and place before it, are left out, and
messages have one line. The operators take the logger from before a call to after
it. `count` is the code's, beside the buffer; `FlushBuffers` writes that many
lines and clears the whole buffer. `lost` is a history: text that left the buffer
unwritten, or that a later flush wrote over, since each flush of a log file
begins at offset 0 again.

**Jit** (`jit/dynarmic_jit`, `jit/dynarmic_callbacks`, `kernel/svc`, the slices of
`KThread::ResumeThread`). `arm` is what a thread's `arm_reglist` keeps between
slices, `cpu` what the JIT of each core holds. Guest code is arbitrary: it leaves
any of `Contexts` behind at the end of a block, may call any of `Calls`, or touch
memory that is not mapped. `where` is where the one host thread is: at the start,
loading, in a turn of dynarmic, in a call. Registers that the code treats
alike are one: `x0` stands for those a call returns in, `x29` and `x30` are the
two taken for SP and PC, `floats` are the vectors. `early` counts the lines of the
start as the first logger's buffer does. Start, loading and calls all write
to the logger as their code does (`LogFiles`, `LogSections`, `LogTopics` and
`PrintArm` are the ways to write in parts).

**OwnRegisters** is what guest threads expect: general registers each of its own.
`Jit` maps the JIT's registers for the thread that runs, and the kept ones for
the others, to it.

**TicketCache** (`horizon/key_set`, `crypto/ticket`, `OpenFile` of
`fs_sys/refs/directory_file_access`, `fs_sys/match`). `disk` is the directory
`tiks`: for each name no file, an empty one, one cut after the signature, or a
whole ticket, for which its title key stands. `tickets` is the map of `KeySet`:
the file a ticket came from and what was parsed of it. File objects are
identified by name and mode, because the directory keeps one at a time. `Ticket`
has no value for what it does not read: of a file that is too short the content
is what the stack holds, here nothing of use or the ticket parsed before
(`Parse`).

**Tarball** (`core/tarball`). The archive is a sequence of cells, a block
`TarBlockSize` of them; one cell stands for the header. Writes go where the code's
offset says, over whatever an older archive left (`Old`). `Turn` and `CopyAt` are the
turns of `CopyToFile`, `ZerosBehind` the padding. `Entries` is an external reader of
such archives, one that passes over blocks of zeros (as `tar --ignore-zeros` does).

**Application** (`core/application`, `horizon/switch_ns`, `loaders/nsp_es`,
`fs_sys/nx_fmt/submission_package`, `core/cache`, `GetSizeBySeek`). `Begin`,
`ListAllTopLevelFiles`, `ReadStatus`, `Leave` and `Enter` are `Initialize`'s look
through `/proc`, with other instances doing the same between its steps; the code
reads every status before it compares any, which makes no difference to
who goes on. A status file that has vanished passes `BufferedFile::operator bool` and ends
the run at its first line, which is `Leave`. `Include` is three kinds of steps, one for
each of its writes: the header (`IncludeNext`), each turn of `CopyToFile`, and
`WriteZeros`. `End` ends a run at any step, between two of these too: exceptions, which nobody catches, and
a killed process are this step. The steps of a package are the turns of the loop
of `SubmissionPackage` and of `GetAll`. `where` says which part the instance
inside is in.

## 3. Runs

| Run | Instance | Shows |
|---|---|---|
| `handle_table` | 2 objects (symmetric), keys 0, 1 and 2, 2 slots, 4 handles | handles resolve to what they were opened for and to nothing afterwards; counts are references; `Destroyed()` runs at the last release, which takes the only name of an object and nobody else's; the table implements `HandleRegistry` |
| `load_process` | up to 3 of 6 modules, 2 stack sizes, 3 TLS pages of 2 slots, 16 host pages, both builds | blocks conserve pages and match what is mapped and backed, no host page is used twice, sections and their `.bss` are placed and protected, TLS slots are exclusive, nothing fails while there is room; loading ends |
| `load_bss` | the same | violated: `DataCoversBss` |
| `load_assert` | the same | violated: `ContentFits` |
| `load_stack` | the same | violated: `StackIsWhole` |
| `scheduler` | 3 threads, 3 cores, 2 slices a round | a core holds a thread once, `Kill` finds every thread, one fiber can run and it is the last of the chain, every live thread reaches its core, the main thread runs for ever |
| `scheduler_return` | the same | violated: `StartResumes` |
| `buffered_file` | files of up to 4 bytes, a buffer of 3 | reads that fit the buffer return the file's bytes after any calls, lines are the file's |
| `buffered_large` | the same | violated: `ReadsReturnFile` |
| `file_stack` | 5 packages, files of up to 13 bytes | files of a partition are where their names say, reads return all bytes asked for or none, headers and the sections that are plain or in counter mode come back as they were |
| `guest_calls` | 2 threads, 2 cores, 2 turns of 2 ticks, a known call and an unknown one | registers are each thread's own (`OwnRegisters`), a thread alone keeps its vectors and TLS, no line is lost between start and call but where the logger is replaced or a file written again, every slice ends but for the unknown call |
| `application` | 2 instances (symmetric), 2 rights, 2 keys, 7 lists of games, an archive of blocks of 2 copied by 3 | one instance goes on, a package's own tickets decipher it, clearing leaves no ticket, the first game starts, the archive holds all files whatever an export that ended anywhere left before |

### Bounds

* *Handle table.* Two slots and four handles let each slot be reused and leave
  outdated handles of both; two objects tell a handle to the right object from
  one to a wrong one, and either can have two handles at once. Moduli of 8 are
  above every count the run reaches; see the assumptions below for what lies
  beyond. `MaxAllocs`, `MaxOpen` and `MaxBorrowed` are the bounds.
* *Loader.* Text of one page or one and a half, data that fills half a page or
  one, `.bss` absent, within the last page, or beyond it: the cases of every
  rounding. With two modules the state carried over matters; of three, the middle
  one comes after a module with or without `.bss` and before another.
  With 16 host pages the larger images, stacks and TLS pages exhaust DRAM; with
  nine slots in pages of two, and three pages, `userslabs` runs out, and the
  fourth and fifth page are those the null pointer gives. The stack of one page
  is the one that later TLS pages use up. `MaxModules` and `MaxTls` are the
  bounds.
  `BlocksMatchSegments`, `TlsExclusive` and `NoFailure` are stated for applications
  with `.bss` in every module but the last (`EachHasBss`): after one without,
  `SetProcessMemory` loses its step (`load_bss`), the sections it maps have fewer
  pages than the image gives them, and `Map` finds blocks in its way: it may insert
  the block of a TLS page elsewhere and back it with nothing. `PagesConserved` needs
  that only when `userslabs` has no page left: the block `Map` then inserts for the
  null pointer may replace one that has pages. TLC found that with other constants
  than the run's, where a stack fills its segment and a TLS page has one slot. The
  other properties hold of all applications.
* *Scheduler.* Three threads on three cores give a core that dispatches to
  itself, to one that waits, and to new ones in a row. Two slices stand for the
  hundred of `ResumeThread`: the counts told apart are none, some, all.
* *Buffered file.* A buffer of three bytes and files and reads of four: reads
  below, at and beyond the buffer's size, windows that begin before and after the
  offset, writes inside, across and beyond the window and the end of the file.
  `MaxFile`, `MaxRead` and `MaxWrite` are the bounds. `LinesFit` keeps lines
  within the buffer, beyond which `ReadLine` need not end (see the findings).
  `LineBuffer` of 1 makes each line take several reads.
* *File stack.* Sectors of three bytes (sections) and two (header), strides of
  five, pages of eight: no two of them divide each other, so that a read can cross
  any of their ends alone. The header keeps its six sectors and the cipher its
  blocks of 16. The packages have neighbours before and after the archive, an
  empty file, and more files than the table is read for (`MaxEntries` is 2 for
  16). Every offset and length of every open file is read.

* *Jit.* Two threads with any placement share a core or have one each. Two turns
  and two ticks for the 100 turns and 100000 ticks of the code: none, some, all.
  A block takes up to `Quantum + 1` ticks, more than are left. Guest code stops
  with its frame set up or not and vectors in use or not. The logger's thresholds
  are 2 and 3 for 4 and 32: a count is below, at or (after `Puts`) above it.
  `MaxText` bounds the text after which no more is loaded and no access aborts.
* *Application.* Two rights and two keys: tickets under other names and newer
  tickets under the same. The lists of games have files that are too small, of no
  known type, without a partition, and packages with tickets before, between and
  after the metadata files, and without one that is required. Ticket and key files
  have 1, 2 or 3 cells, with blocks of 2: below, at and above a block. `CopyToFile`
  copies 3 cells in a turn: a ticket takes one, the archive itself several. An export
  begins while `fastnx.tar` has at most `MaxTape` cells: at least twice in a row,
  over an older one that ended after any of its writes.

### Fairness

* `ProcessLoader`: weak fairness of the loader's steps and of the start of the
  process. Both are sequential code on the thread that called it, which the
  host's scheduler lets go on; a module more to lay out is bounded by
  `MaxModules`. Further TLS slots have no fairness: no thread needs to be made.
* `Scheduler`: weak fairness of `System`, the steps of the fibers. There is one
  running fiber, on a host thread that goes on. The guest's own steps
  (`CreateThread`, `Kill`) have none. So `ThreadReachesCore` holds unless the
  fibers all wait or one failed, which the property says.
* `Jit`: weak fairness of `Next`. There is one host thread, which goes on, and
  dynarmic counts ticks down while guest code runs. It says nothing of which
  thread has the next slice.
* `HandleTable`, `BufferedFile`, `FileStack` and `Application`: none, only safety
  is stated.

### Deadlock

`CHECK_DEADLOCK FALSE` is set where the system stops: after `CloseAll` or the
last handle, when loading is over, when every fiber waits or one failed, when
a package is not a valid partition, and when a call the table lacks spins.

### Findings

* `load_bss`: a `.data` section without `.bss` leaves `SetProcessMemory` through
  a `continue` (`horizon/process_loader.cpp:82`) that skips the reset of
  `bintype` and the pop of `bsslayoutsize`. Every later section is then taken for
  `.data` with a `.bss` of 0: no later `.bss` is mapped, and later text is
  writable and not executable. `SectionsPlaced` holds for all modules before it.
* `load_assert`: `MapCodeMemory` asserts that the size is greater than the
  content, but the caller rounds up to pages, so they are equal for a section
  that fills its pages.
* `load_stack`: `Map` takes a new block's pages off the block before without
  asking whether that is free. The second TLS page shortens the stack's block,
  and a stack of one page and a third TLS page throw. It takes more threads than
  a TLS page has slots.
* `buffered_large`: a read larger than the buffer (64 KB) reads at `offset` in
  every turn, into the start of the caller's memory. It returns the first bytes
  again and leaves counted bytes unwritten, against the assertion of `ReadSome`
  (`fs_sys/types.h:46`). The reads of the tarball and of `MatchFiles` are that
  large.
* `scheduler_return`: a core's list is never emptied, so `Start` does not return
  after `Kill`. `Kill` has no caller yet.

What the code does without a document saying otherwise is no finding, but the
properties show it by what they leave out:

* `AloneKeepsState` is about threads alone on their core. Of others the vectors
  are not restored when they are zero, and the TLS is that of the core's first.
* `LinesReachBacking` allows the two places lines are lost: the first logger is
  replaced with text still in its buffer, unless exactly as many lines came before
  as fill it, and a log file is written from its beginning at each flush.
* `SliceEnds` excepts a call the table lacks: `CallSVC` locks its own lock again
  (`jit/dynarmic_callbacks.cpp:44`), on purpose as the name `endless` says.
* `OwnTicketDecrypts` leaves out runs that found a ticket cut short by the end of
  an earlier one (`NoneCut`). Such a file is never written again; its ticket has
  the stack's content, which can be that of another ticket, and be found
  first. It also leaves out tickets behind the XML metadata file, which are
  not read once the other one is known. With the XML file
  before the other one the loop does not end: `subit` is not moved on
  (`submission_package.cpp:30`). The partition is listed by name, so that needs
  two metadata files with different stems.
* `ClearRemovesTickets` is about the tickets on disk. Those read from packages
  stay in the key set, and the logs, which the logger has open, are not deleted.
* `ArchiveHoldsAll` is about a reader that passes over blocks of zeros. The padding
  after a file that fills its last block is a whole block of zeros
  (`core/tarball.cpp:87`), which the format gives another meaning: to a reader that
  takes it for the end, the files behind it are lost, although the help text says
  "Exports all content produced by the system" (`common/main.cpp:42`). Nor does
  it say that a reader finds nothing more: `Finish` moves the offset on before it
  writes (`core/tarball.cpp:99`), and what lies in the gap may be old. The archive
  contains itself, with the size it had when it was first asked for. How many bytes
  are there is modelled, not which: a file larger than the buffer of `BufferedFile`
  is read as `buffered_large` shows.

Three conditions mark what the properties of `file_stack` leave out, because the
code does not promise it. `ArchiveDeciphered` excludes reads that begin inside a
last sector the section has only a part of: `CtrFile` deciphers zeros there
(`fs_sys/aes/ctr_file.cpp:58`). `EntryIsItsFile` excludes packages with more
files than the table is read for (`TableRead`): their names and data are looked
for too early (`fs_sys/nx_fmt/partition_filesystem.cpp:30`). And nothing is said of a
section with `AesXts`, none of which is deciphered.

Where a property leaves a hazard out, no other one watches it: `PROJECT.json` lists
it without a property and says why (the wrap of the U16, tickets cut short or not
read, the early return of a debug build, fibers that all wait, the vectors and
the TLS of threads that share a core).

The `scheduler` run also states, as `GuestCreatesNoThread`, that a guest thread
cannot create another one: `Emplace` wants alone the mutex that the fiber which
dispatched the thread holds until the thread's core ends, which is never.

## 4. Proofs

`HandleTableProofs` proves, for every number of slots, set of objects, set of
keys and bounds, that `Spec` implies `[]TypeOK`, `[]NoFault`,
`[]ResolvesExactlyOpen`, `[]LifetimeIsReferences`, `DestroyedAtLastRelease`,
`OnlyNameGoesAtLastRelease` and `ImplementsRegistry`.

None of the properties is inductive. `Free` looks for the count alone, so that a
handle resolves correctly only because no two issued handles share a count; a
release is of a real object only because the slots off the stack are those with a
count; the count of an object can be compared with the clients' only because open
handles are exactly the slots off the stack. `IInv` says all that:

* `CounterInv`, `IssuedInv`: counts of issued handles are positive, below the
  next one, and all different;
* `StackInv`, `SlotInv`: the stack repeats no slot; a slot is on it exactly when
  its count is 0; off it, the slot holds an object and an issued count;
* `OpenInv`: the clients hold exactly the slots off the stack;
* `LifetimeInv`: an object's count is what was borrowed plus the slots that
  hold it.

For the two action properties, a step either takes no reference away or releases
several at once, no more than there are (`StepReleases`), and an object dies in the
release that takes its last reference (`DyingIsLastReleased`). Of `autorefs` no
invariant is needed: the entry erased is looked up in the state as it is.

`OpenInv` makes the stack never empty below `MaxOpen <= Size` open handles, by
counting (`FiniteSetTheorems`). `Refinement` follows because `Allocate` opens a
new handle, `Free` closes the one at its slot or nothing, and the steps of
`AutoObject` change neither.

The proofs assume, and TLC evaluates in `handle_table`: fewer handles than the
U16 counts (`MaxAllocs + 1 < CounterMod`), no more open handles than slots,
lifetimes that do not wrap (`TableAssumption`), natural keys (`KeysAssumption`), a
null pointer that is no object (`ObjectsAssumption`), and natural bounds of what
`GetObjectBy` lends (`BorrowAssumption`). The first two are
what the code needs and does not check: `Allocate` asks neither whether a slot is
left nor whether a count is still in use.

`LoggerProofs` proves about the logger's operators, for every text and threshold,
that each keeps a logger a logger, keeps `count` the number of lines in the buffer
(the lemmas on `FirstLines` say which newlines a prefix has), and loses a line
only where it may. `JitProofs` proves for every set of threads, cores, words,
contexts and calls that `Spec` implies `[]TypeOK`, `[]AloneKeepsState`,
`[]LinesReachBacking` and `ImplementsOwnRegisters`. Its `IInv` adds to the types
what connects one slice to the next: a core whose thread is alone has the vectors
and the TLS of that thread from its first slice on, so that not setting zero
vectors leaves the right ones; the logger's count is its number of lines at every
step, so that a flush writes the buffer whole; and `early` is the first logger's
count as long as it may be replaced. The refinement follows step by step: a slice
begins with the thread's registers as they were kept and ends by keeping them, a
call changes those of the caller only, and everything else stutters.
Its assumptions are the kinds of the constants (`JitAssumption`,
`LoggerAssumption`).

`SchedulerProofs` proves for every finite set of threads and of cores and every
number of slices that `Spec` implies `[]TypeOK`, `[]PreemptedOnce`,
`[]KillFindsEveryThread`, `[]OnlyTheLastRuns` and `GuestCreatesNoThread`. All rest
on one fact about fibers, `FiberInv`: the fibers there are form a path, from the
main one over the one that `Start` makes to those of the cores in the order in
which they were created; each but the last waits for the next, and the last is
the current one until nobody runs. A join extends the path by a new fiber or closes
it to a loop in which all wait; an end takes the last fiber off. So `ready` is
empty, only one fiber is inside `Reeschedule` or a slice, and what a list holds
can be said between any two steps: `CoreInv` (the thread a core resumes is on its
list) and `ListInv` (only the running fiber has an iterator, and it is at a thread
of the list). With them `PreemptedOnce` and `KillFindsEveryThread` are
inductive. `GuestCreatesNoThread` follows because a slice
runs on a core's fiber, for which the fiber that dispatched it waits inside
`Reeschedule`, with the mutex. Assumed (`SchedulerAssumption`): finite sets,
at least one slice a round, and that fibers and threads are told apart.

`LoaderProofs` begins with lemmas about the operators of `GuestMemory`. Its
theorems: `Spec` implies `[]TypeOK`, `[]HostExclusive`, `NeverRemapped`,
`[]TlsExclusive`, `[]BlocksMatchSegments`, `[]SectionsPlaced`,
`[]TablesMatchSegments`, `[]NoFailure` and `[]PagesConserved`, for every set of
modules, sizes of the segments, of DRAM and of the stacks. None of them is inductive, and they need each other:

* `HostInv`: `poffset` is what `Reserve` left of the slab, and the pages given out
  are those above it but for one that the next reservation begins with; allocations
  cover exactly the backed pages. It holds whatever `Map` does to the blocks, so
  that no host page is used twice even in applications for which the blocks go
  wrong;
* `LayoutInv`, `BssInv`, `PlaceInv`: sections follow each other without a gap;
  `SetProcessMemory` is in step with them, or out of step because the next size of
  `.bss` is 0, in which case a section maps no more than its place in the image
  (`SectionFits`). So pages are mapped from low to high addresses, and none again
  (`MemInv`);
* `ShapeInv`, under `EachHasBss`: one free block from the place reached to the end
  marker while sections are mapped; then the first TLS block at the end of its
  segment; then the stack's block, which lends its pages to the TLS pages put
  behind it one by one, from higher addresses to lower;
* `SlotInv`: a page with free slots is a mapped TLS page, and no slot given out is
  free on it;
* `NameInv`: the last block at or before a backed page has the state of the page's
  segment, and blocks of a segment count backed pages only;
* `TableInv`: entries of the page table are within the image, the stack (once the
  process runs) or a TLS page, and those of the stack have its type;
* `PlacedInv`: the block of a section that is mapped keeps its place, permission,
  protection and entry of the page table, because every later call of `Map` works
  behind it and finds a block there to take pages from (`MapBlockStays`); up to the
  first module without `.bss`, `SetProcessMemory` is in step and the free block
  begins where the next section does (`ReadyInv`);
* `CountInv`: what is left. TLS slots are given out in order, so the number of
  threads says how many TLS pages there are; `userslabs` holds the others; the
  objects of `poffset` and the pages mapped so far are no fewer than DRAM's pages;
  and the stack's block has the pages of the stack but for those lent. So each
  reservation, block and pointer a call asks for is there (`NothingFails`);
* `PagesInv`: a call of `Map` conserves the pages when it takes from a block
  what it gives to one with a new key (`MapBlockDivides`), so the invariant says
  where no keys are. While sections are mapped there is none between the place
  reached and the end marker. Later, a block that `Map` puts behind another one is at
  the end of the image, of the stack, or at the first page of the thread local
  segment (`Landed`); the segment's other keys are those of pages that `userslabs`
  no longer has (`Apart`). Only the null pointer leads to a key that may be there,
  and with `.bss` in every module but the last, its page is backed then, so that
  `Map` throws.

`PagesConserved` is a sum over the keys of a map, which the community modules take
one after the other in an order nobody knows. `SumExists` says that the recursive
function over the sets of keys exists, `SumOf` that it is the same whichever key is
taken first, and `TotalStays` that a block that gives pages to a new one leaves the
sum as it was (`FiniteSetTheorems`).

The assumptions are those of `MemoryAssumption` (a heap segment of at least a page,
so that image and stack are apart) and `LoaderAssumption`: sections are not empty,
stacks fit into the segment of 2 GB, and `userslabs` into that of thread local
storage.

`ApplicationProofs` proves for every set of instances, rights and keys and all
lists of games that `Spec` implies `[]TypeOK`, `[]OneInstance`, `[]FirstGameStarts`,
`[]ClearRemovesTickets`, `[]OwnTicketDecrypts` and `[]ArchiveHoldsAll`. The
invariants are:

* `InstanceInv`: of two instances past the list of `/proc`, one has yet to look
  at the other, or saw it; the one that is inside has nobody left to look at;
* `LoaderInv`: a loader with success is that of a package of the list;
* `TicketInv`, `PhaseInv`: a ticket of the directory in memory is the file object
  that the directory has open, so that `RemoveTicket` finds it; nothing is being
  written while tickets are loaded or deleted;
* `ContentInv`, `PackageInv`: a ticket of a whole file has its name's rights and
  its file's key; each ticket of the package that the loop passed is in the key
  set, or is the one `Ticket::Export` is writing;
* `GamesInv`, `TapeInv`, for the types: there are as many loaders as files were
  opened; the archive's offset is a multiple of the block size after each
  file, because the padding goes on to the next multiple;
* `ArchiveInv`: what an ended run left of `fastnx.tar` may be any cells. During an
  export the files included so far lie one behind the other, each with a header of its
  size, its content and zeros (`Layout`), up to the offset, or to the header of the file
  that is being written, of which what is copied is there (`PartAt`). A write behind a
  place keeps what lies before it (`LiesStays`), whatever was there. Every file that is
  exported is included, being written or to come. `Entries`, the reader, is a recursive
  function on the places of the tape; it is defined because each step leads it to a
  higher place, and it passes every file of a `Layout` (`ReadsAll`).

Assumed, and evaluated by TLC in `application`: what the constants are
(`TicketAssumption`, `TarAssumption`, `ApplicationAssumption`), that `None` is no file being
copied (`ExportAssumption`), and that a package has at most one
ticket of a name (`PackageAssumption`), as `PartitionFileSystem` keeps its files
by name (`fs_sys/nx_fmt/partition_filesystem.cpp:53`).

`BufferedFileProofs` proves for every set of bytes, sizes of the buffer, of files,
of reads and of writes that `Spec` implies `[]TypeOK`, `[]SmallReadsReturnFile`
and `[]LinesReturnFile`. The three are inductive together: what a call returns does not depend on what
the buffer holds, only on its kind. What takes the work are the loops: `ReadIsLoop`, `LineIsLoop` and
`AllLinesIsLoop` say that each ends, after how many turns, and what holds of its
last state whenever it holds of the first and every turn keeps it. A read that
fits the buffer takes one turn and copies the file's bytes (`SmallRead`); a
turn of `ReadLine` appends what the file has next (`LineStep`) until the newline,
which is then the first one after the offset (`LineIs`); and `GetAllLines` goes on
where the newline was (`LinesStep`). Assumed (`FileAssumption`): no byte is 0, and
the line buffer divides the chunk, which in the code is 64 KB by 32.

`FileStackProofs` proves for every set of packages, all sizes of sectors, strides
and pages that `Spec` implies `[]EntryIsItsFile` and `[]ArchiveDeciphered`. Its
`IInv` adds `FilesInv`: an open file is one of the table and lies within the
package (`EntryInPackage`, from `SumsGrow`: later names begin behind), an open
section, of whatever kind, lies within the archive, and the cipher's size of a sector is that of XTS.
From it, `ReadEntry` reads by strides what one read would (`FasterIs`);
`CtrReadIs` joins the part of the first sector, the whole ones and the part of
the last, and `SectionReadIs` adds the plain sections; and a header is deciphered though a tweak that is a multiple of the
cipher's block becomes its size of a sector, because no sector of the header but
the first is numbered so (`HeaderSector`). That is the assumption `HeaderSectors <=
CipherBlock` of `StackAssumption`, 6 and 16 in the code.

Loops, sums over files or blocks, reads by strides and the reader of archives are
recursive functions. The provers have no induction theorem to instantiate, so the
last two modules, `ApplicationProofs` and `LoaderProofs` state it in first-order
form: `Smallest` (a set of numbers that is not empty has a smallest, from
`WellFoundedInduction`), `Induction` (the statement is the set of the numbers it
holds for), and lemmas like `Recursion` and `Loop`, by which a function that is
chosen for its recursive equation exists and satisfies it.

Model-checked only: liveness, that is `LoadingEnds`, `ThreadReachesCore`,
`MainThreadRuns` and `SliceEnds`. TLAPS has no rules for liveness under fairness or
for `ENABLED`.

## 5. Not modelled

* Threads of the host: `ismultithread` is never set. (With it, `StartThread` waits
  for a condition without a predicate, `kscheduler.cpp:28`.) `Sleep` and `Quit` have no
  effect on what is modelled.
* Address spaces other than 64-bit: `InitializeForProcess` makes segments for
  that kind only.
* Contents: of sections, of archives, of keys. Parsing, checksums and signatures
  are functions of bytes without state; of the cipher only positions and sector
  sizes are modelled.
* Opening, locking and sharing of files, but for the ticket directory: each file
  object has one user. `GetSizeBySeek` is modelled for the archive, whose size
  changes; an inode that is used again for another file is not.
* Of the logger: messages of several lines, and a log file that cannot be opened.
* Of the JIT: what guest code reads and writes, what `QueryMemory` stores there.
* Of the application: fewer than two key files (the tickets are then not loaded),
  packages' tickets that are themselves cut, SDK versions, settings, the selection
  of games and the directory the program moves to. Games in directories cannot be
  reached: `GetApplicationType` throws for them. `app_lock` (`common/main.cpp:56`) is a lock held by
  nobody: the file object that locks it is gone when the statement ends, so it
  excludes no instance and is left out.
* The end of a process: nothing calls `Kill` outside the scheduler's model,
  `KProcess::Destroyed` and the assertion of `KThread::Destroyed`
  (`kernel/types/kthread.cpp:55`) are planned.
* `KSlabHeap::Free` and `KTlsPageManager::Free` have no caller. Both look wrong in
  the source: the first lets through only pointers at or below the slab's base
  (`kslab_heap.cpp:52`), the second subtracts the address from the base
  (`ktls_pagemanager.cpp:27`).
* Text output, host queries, the call tracer.
* The parts listed as planned below.

## 6. Plan

1. *Core* (done): handle table with proofs; slab, memory and loader; scheduler;
   `BufferedFile` and `FileStack`.
2. *Slices, logger and application* (done): `Jit` over `AsyncLogger` with proofs
   and the refinement of `OwnRegisters`; `Application` over `TicketCache` and
   `Tarball`, with proofs.
3. `ProcessLifecycle`: identifiers, the process's end and the assertion of
   `KThread::Destroyed`, composed with `HandleTable`.
4. `QueryMemory` over `GuestMemory`, whose search passes the end marker
   (`kernel/memory/kmemory_block_manager.cpp:128`).

An abstract specification worth stating yet: a flat file for `FileStack`.

Proved: every safety property of every module that a passing run checks.
