----------------------------- MODULE GuestMemory -----------------------------
(***************************************************************************)
(* The memory of the guest: KMemory, KMemoryBlockManager, SysAllocator,    *)
(* the page table and the host pages of poffset                            *)
(* (kernel/memory/{k_memory,kmemory_block_manager}.cpp, common/memory.cpp, *)
(* jit/page_table.cpp).                                                    *)
(*                                                                         *)
(* The calls are sequential code that the loader and the process drive, so *)
(* the whole memory is one record, and each operation maps a record to the *)
(* record it leaves:                                                       *)
(*   blocks   KMemoryBlockManager::blocksmap: page -> [pages, state, perm] *)
(*   objects  the free list of poffset                                     *)
(*   allocs   SysAllocator::alloclists: [guest, host, pages]               *)
(*   mapping  what mmap and the page table made of it: page -> host page   *)
(*   writable the guest pages the host may write                           *)
(*   tables   PageTable::tableinfo: [type, first, end]                     *)
(*   outcome  "ok", "exception" (one was thrown) or "undefined"            *)
(* Addresses are page numbers, counted from the start of the address space.*)
(***************************************************************************)
EXTENDS SlabHeap, FiniteSets

CONSTANTS
    HostPages,    \* pages of emulated DRAM (4 GB in the code)
    RegionPages,  \* RegionAlignment: the code segment is a multiple of it
    AliasPages,   \* pages of the alias, heap, stack and TLS segments
    HeapPages,
    StackSegmentPages,
    TlsIoPages

ASSUME MemoryAssumption ==
    /\ {HostPages, RegionPages, HeapPages, StackSegmentPages, TlsIoPages} \subseteq Nat \ {0}
    /\ AliasPages \in Nat

NoPage == -1
PageUnits == 2     \* sizes that need not be whole pages are counted in half pages
Pages(units) == (units + PageUnits - 1) \div PageUnits

\* Permission::Text, Ro and Data; the kernel creates blocks with permission 0.
Text == "r-x"
Ro == "r--"
Data == "rw-"
NoPermission == "---"

Block(pages, state) == [pages |-> pages, state |-> state, perm |-> NoPermission]

\* The segments of KMemory::InitializeForProcess, one after the other.
CodePages(count) == ((count + RegionPages - 1) \div RegionPages) * RegionPages
StackBegin(count) == CodePages(count) + AliasPages + HeapPages
TlsIoBegin(count) == StackBegin(count) + StackSegmentPages
SpaceEnd(count) == TlsIoBegin(count) + TlsIoPages

\* KMemory::InitializeForProcess for a 64-bit process with count code pages, and
\* KMemoryBlockManager::Initialize: one free block and the end marker.
InitializeForProcess(count) ==
    LET end == SpaceEnd(count)
    IN  [blocks |-> [p \in {0, end} |-> IF p = 0 THEN Block(end, "Free")
                                                 ELSE Block(0, "Inaccessible")],
         objects |-> SlabObjects(0, HostPages),
         allocs |-> {},
         mapping |-> [p \in 0 .. end - 1 |-> NoPage],
         writable |-> 0 .. end - 1,
         tables |-> <<>>,
         outcome |-> "ok"]

\* One call after another: the next one starts from the record the first leaves.
\* Likewise for an address that is worked out before the lookup.
Then(value, Call(_)) == CHOOSE left \in {Call(v) : v \in {value}} : TRUE

Span(first, pages) == first .. first + pages - 1
Fail(mem, how) == [mem EXCEPT !.outcome = how]
-----------------------------------------------------------------------------
(* The map of blocks: std::map lookups. A key beyond all others stands for   *)
(* end().                                                                    *)

Keys(blocks) == DOMAIN blocks
EndKey(blocks) == CHOOSE k \in Keys(blocks) : \A j \in Keys(blocks) : j <= k
LowerBound(blocks, at) ==
    Then(at, LAMBDA a :
        IF a > EndKey(blocks) THEN EndKey(blocks) + 1
        ELSE CHOOSE k \in Keys(blocks) : k >= a /\ \A j \in Keys(blocks) : j >= a => k <= j)
Before(blocks, at) ==
    Then(at, LAMBDA a :
        CHOOSE k \in Keys(blocks) : k < a /\ \A j \in Keys(blocks) : j < a => j <= k)
With(blocks, at, block) ==
    [k \in Keys(blocks) \cup {at} |-> IF k = at THEN block ELSE blocks[k]]

\* FindBlock: the block at the address, else the one before it. Beyond the end
\* marker the code reads through end(): callers stay within the address space.
FindBlock(blocks, at) ==
    IF at \in Keys(blocks) THEN at ELSE Before(blocks, at)

\* SysAllocator::CanAllocate: only the first page of the region is looked at.
\* (Mistake: the test of the size is the wrong way round.)
CanAllocateNonempty(mem, at, pages) ==
    \A a \in mem.allocs : at \in Span(a.guest, a.pages) => pages # 0
CanAllocate(mem, at, pages) ==
    \A a \in mem.allocs : at \in Span(a.guest, a.pages) => pages = 0

\* The lambda isallocated of Map. (Mistake: the allocations are not asked.)
IsUsed(mem, blocks, key) == blocks[key].state # "Free"
IsAllocated(mem, blocks, key) ==
    ~CanAllocate(mem, key, blocks[key].pages) /\ blocks[key].state # "Free"

\* mmap at a fixed address, host pages from host upwards, and the table of
\* PageTable::CreateTable. (Mistake: a guard page is mapped as well.)
MapPagesAndGuard(mapping, at, host, pages) ==
    [p \in DOMAIN mapping |-> IF p \in Span(at, pages + 1) THEN host + (p - at) ELSE mapping[p]]
MapPages(mapping, at, host, pages) ==
    [p \in DOMAIN mapping |-> IF p \in Span(at, pages) THEN host + (p - at) ELSE mapping[p]]

\* SysAllocator::Map and PageTable::CreateTable.
AllocatorMap(mem, at, host, pages) ==
    IF \E a \in mem.allocs : a.guest = at /\ a.host = host THEN mem
    ELSE [mem EXCEPT
             !.allocs = @ \cup {[guest |-> at, host |-> host, pages |-> pages]},
             !.mapping = MapPages(@, at, host, pages),
             !.writable = @ \cup Span(at, pages),
             !.tables = Append(@, [type |-> "Allocated", first |-> at, end |-> at + pages])]

\* A count that would become negative wraps in the code, to one that is never too
\* small; it is negative here.
FewerThan(count, pages) == 0 <= count /\ count < pages

\* The block to take the pages from, and the map with the new block in it.
\* (Mistake: the pages are not taken from the block that had them.)
NotShrunk(block, pages) == block
Shrunk(block, pages) == [block EXCEPT !.pages = @ - pages]

SplitBlocks(mem, at, new, first, last) ==
    LET b == mem.blocks
    IN  IF first + new.pages < last /\ ~IsAllocated(mem, b, first)
        THEN IF at > first
             THEN With(With(b, first, Shrunk(b[first], new.pages)), at, new)
             ELSE With(With(b, at + new.pages, Shrunk(b[first], new.pages)), first, new)
        ELSE With(With(b, first, Shrunk(b[first], new.pages)), first + new.pages, new)

\* Host pages for the block, unless the block the insertion ended at had some.
BackBlock(mem, blocks, at, pages, ended) ==
    LET after == [mem EXCEPT !.blocks = blocks]
        host == SlabReserve(mem.objects, pages)
    IN  IF IsAllocated(mem, blocks, ended) THEN after
        ELSE IF host.pointer = Undefined THEN Fail(after, "undefined")
        ELSE AllocatorMap([after EXCEPT !.objects = host.objects], at, host.pointer, pages)

\* KMemoryBlockManager::Map. Every caller's block has permission 0, so the call of
\* Reprotec that ends it is never made.
MapBlock(mem, at, new) ==
    LET b == mem.blocks
        found == LowerBound(b, at)
        first == IF found = EndKey(b) THEN Before(b, found) ELSE found
        last == LowerBound(b, at + new.pages)
        donor == IF IsAllocated(mem, b, first) THEN Before(b, first) ELSE first
    IN  IF mem.outcome # "ok" THEN mem
        ELSE IF ~CanAllocate(mem, at, new.pages) THEN Fail(mem, "exception")
        ELSE IF first = last
        THEN IF FewerThan(b[donor].pages, new.pages) THEN Fail(mem, "exception")
             ELSE BackBlock(mem, With(With(b, donor, Shrunk(b[donor], new.pages)), at, new),
                            at, new.pages, at)
        ELSE BackBlock(mem, SplitBlocks(mem, at, new, first, last), at, new.pages, first)

-----------------------------------------------------------------------------
(* The operations of KMemory.                                               *)

\* memset and memcpy through the guest's addresses.
WriteMemory(mem, at, pages) ==
    IF mem.outcome # "ok" \/ Span(at, pages) \subseteq mem.writable THEN mem
    ELSE Fail(mem, "undefined")

\* PageTable::DelimitTable: the entry for exactly this range gets the type.
\* (Mistake: every later range matches as well.)
MatchesLater(table, at, pages) == table.type = "Allocated" /\ table.first >= at
MatchesTable(table, at, pages) ==
    table.type = "Allocated" /\ table.first = at /\ table.end = at + pages
DelimitTable(mem, type, at, pages) ==
    IF mem.outcome # "ok" THEN mem
    ELSE [mem EXCEPT !.tables =
             [i \in DOMAIN @ |-> IF MatchesTable(@[i], at, pages)
                                 THEN [@[i] EXCEPT !.type = type] ELSE @[i]]]

\* MapSegmentMemory, which writes the new pages, or has the caller write them.
MapSegment(mem, at, pages, state) ==
    Then(MapBlock(mem, at, Block(pages, state)), LAMBDA m : WriteMemory(m, at, pages))

MapCodeMemory(mem, at, pages) ==
    Then(MapSegment(mem, at, pages, "Code"), LAMBDA m : DelimitTable(m, "Code", at, pages))

MapTlsMemory(mem, count, at) == MapSegment(mem, TlsIoBegin(count) + at, 1, "ThreadLocal")

MapStackMemory(mem, count, pages) ==
    LET at == StackBegin(count)
    IN  Then(MapSegment(mem, at, pages, "Stack"),
             LAMBDA m : DelimitTable(m, "Stack", at, pages))

\* KMemoryBlockManager::Reprotect with SysAllocator::Reprotec.
Reprotect(mem, at, pages, perm) ==
    [mem EXCEPT !.blocks[FindBlock(mem.blocks, at)].perm = perm,
                !.writable = IF perm = Data THEN @ \cup Span(at, pages)
                                            ELSE @ \ Span(at, pages)]

\* SetMemoryPermission over ForEach. ForEach steps from block to block with ++ on
\* the pointer to one map node: with pages left after the first block the next
\* read is undefined.
SetMemoryPermission(mem, at, pages, perm) ==
    LET key == FindBlock(mem.blocks, at)
        block == mem.blocks[key]
    IN  IF mem.outcome # "ok" THEN mem
        ELSE IF FewerThan(block.pages, pages) THEN Fail(mem, "undefined")
        ELSE IF block.state = "Code" /\ block.perm # perm THEN Reprotect(mem, at, pages, perm)
        ELSE mem

\* IsMappedInRange: from begin, each step skips as many pages as the block there
\* has, until it is in the block of end; a free block on the way says no.
IsMappedInRange(blocks, begin, end) ==
    LET reaches[at \in begin .. EndKey(blocks)] ==
            LET key == FindBlock(blocks, at)
            IN  \/ key = FindBlock(blocks, end)
                \/ blocks[key].state # "Free" /\ reaches[at + blocks[key].pages]
    IN  reaches[begin]

\* FillMemory, for the pages the filled bytes touch.
FillMemory(mem, begin, end) ==
    IF mem.outcome = "ok" /\ IsMappedInRange(mem.blocks, begin, end)
    THEN WriteMemory(mem, begin, end - begin) ELSE mem

\* The type the page table gives an address: the last entry that covers it.
TableType(mem, at) ==
    LET covers == {i \in DOMAIN mem.tables : mem.tables[i].first <= at /\ at < mem.tables[i].end}
    IN  IF covers = {} THEN "Allocated"
        ELSE mem.tables[CHOOSE i \in covers : \A j \in covers : j <= i].type
=============================================================================
