---------------------------- MODULE ProcessLoader ----------------------------
(***************************************************************************)
(* From the modules of an application to a process that can start:         *)
(* ProcessLoader (horizon/process_loader.cpp) lays the NSO modules out and *)
(* maps their sections, KProcess::Initialize and AllocateTls               *)
(* (kernel/types/kprocess.cpp) add the stack and the thread local storage, *)
(* KTlsPageManager shares a page among threads. All of them work on the    *)
(* memory of module GuestMemory.                                           *)
(*                                                                         *)
(* Section sizes are in half pages (PageUnits), addresses in pages from    *)
(* the start of the segment.                                               *)
(***************************************************************************)
EXTENDS GuestMemory

CONSTANTS
    Modules,     \* what an NSO can hold: records [text, ro, data, bss] of sizes
    MaxModules,  \* bound: modules of one application
    StackSizes,  \* stack sizes of the npdm file, in pages: no more than the segment has
    UserBase,    \* userslabs: first page and number of pages
    UserPages,
    TlsSlotCount,
    MaxTls       \* bound: calls of AllocateTls

ASSUME LoaderAssumption ==
    /\ \A m \in Modules : {m.text, m.ro, m.data} \subseteq Nat \ {0} /\ m.bss \in Nat
    /\ StackSizes \subseteq 1 .. StackSegmentPages
    /\ {MaxModules, TlsSlotCount, MaxTls, UserBase} \subseteq Nat \ {0}
    /\ UserPages \in Nat /\ UserBase + UserPages <= TlsIoPages

VARIABLES
    debug,      \* built without NDEBUG
    phase,      \* "layout", "map", "start", "run"
    modules,    \* the modules laid out, a history of the inputs
    procimage,  \* ProcessCodeLayout: [offset, size, kind, module] of each section
    bsslayout,  \* bsslayoutsize
    offset,     \* ProcessCodeLayout::offset
    index,      \* SetProcessMemory: the section it is at, and its bintype
    bintype,
    mem,
    stack,      \* stacksize, in pages
    userslabs,  \* the free list of Kernel::userslabs
    freetls,    \* freetlslist and fulltlslist: [page, freeslots]
    fulltls,
    tls         \* what AllocateTls returned, in order: [page, slot]

vars == <<debug, phase, modules, procimage, bsslayout, offset, index, bintype,
          mem, stack, userslabs, freetls, fulltls, tls>>
layoutVars == <<modules, procimage, bsslayout, offset>>
processVars == <<stack, userslabs, freetls, fulltls, tls>>

NoMemory == [blocks |-> <<>>, objects |-> <<>>, allocs |-> {}, mapping |-> <<>>,
             writable |-> {}, tables |-> <<>>, outcome |-> "ok"]

Init ==
    /\ debug \in BOOLEAN
    /\ phase = "layout"
    /\ modules = <<>> /\ procimage = <<>> /\ bsslayout = <<>> /\ offset = 0
    /\ index = 1 /\ bintype = 0
    /\ mem = NoMemory
    /\ stack = 0
    /\ userslabs = SlabObjects(UserBase, UserPages)
    /\ freetls = <<>> /\ fulltls = <<>> /\ tls = <<>>

-----------------------------------------------------------------------------
(* GetCodeSet.                                                              *)

\* The bytes a section takes in the image: .data with its .bss.
\* (Mistake: the .bss is not counted.)
DataSpanIgnoresBss(m) == m.data
DataSpan(m) == m.data + m.bss

Sections(m, base) ==
    LET ro == base + Pages(m.text)
        data == ro + Pages(m.ro)
        section(at, size, kind) ==
            [offset |-> at, size |-> size, kind |-> kind, module |-> Len(modules) + 1]
    IN  <<section(base, m.text, Text), section(ro, m.ro, Ro), section(data, m.data, Data)>>

GetCodeSet(m) ==
    /\ phase = "layout" /\ Len(modules) < MaxModules
    /\ modules' = Append(modules, m)
    /\ procimage' = procimage \o Sections(m, offset)
    /\ bsslayout' = Append(bsslayout, m.bss)
    /\ offset' = offset + Pages(m.text) + Pages(m.ro) + Pages(DataSpan(m))
    /\ UNCHANGED <<debug, phase, index, bintype, mem>> /\ UNCHANGED processVars

\* The rest of Load up to SetProcessMemory; an application has a module (rtld).
LoadMemory ==
    /\ phase = "layout" /\ modules # <<>>
    /\ mem' = InitializeForProcess(offset)
    /\ phase' = "map"
    /\ UNCHANGED <<debug, index, bintype>> /\ UNCHANGED layoutVars /\ UNCHANGED processVars

-----------------------------------------------------------------------------
(* SetProcessMemory, a section at a time. (\E x \in {e} names the value e.)   *)

Live == mem.outcome = "ok"
Current == procimage[index]

PermissionOf(type) == CASE type = 0 -> Text [] type = 1 -> Ro [] OTHER -> Data

\* The .bss of the section at hand, and all its bytes.
BssSize == IF PermissionOf(bintype) = Data THEN Head(bsslayout) ELSE 0
SectionSize == Current.size + BssSize

\* (Mistake: one section more than there are.)
BeyondPastSections == index > Len(procimage) + 1
PastSections == index > Len(procimage)

\* MapCodeMemory asserts that the content does not fill the pages.
MapSection ==
    IF debug /\ Pages(SectionSize) * PageUnits <= Current.size
    THEN Fail(mem, "aborted")
    ELSE MapCodeMemory(mem, Current.offset, Pages(SectionSize))

\* FillMemory of the .bss, from the page it begins in to the one it ends in.
FillBss(m) ==
    FillMemory(m, Current.offset + Current.size \div PageUnits,
               Current.offset + Pages(SectionSize))

\* A module ends with its .bss: with none, the next section is taken for .data,
\* and the size of no .bss stays in front. (Mistake: only the type goes back.)
EndOfModuleKeepsBss == bintype' = 0 /\ bsslayout' = bsslayout
EndOfModule == bintype' = 0 /\ bsslayout' = Tail(bsslayout)

SetSection ==
    /\ phase = "map" /\ index <= Len(procimage) /\ Live
    /\ \E mapped \in {MapSection} :
       \E set \in {SetMemoryPermission(mapped, Current.offset, Pages(SectionSize),
                                        PermissionOf(bintype))} :
           IF BssSize = 0
           THEN mem' = set /\ bintype' = bintype + 1 /\ UNCHANGED bsslayout
           ELSE (\E filled \in {FillBss(set)} : mem' = filled) /\ EndOfModule
    /\ index' = index + 1
    /\ UNCHANGED <<debug, phase, modules, procimage, offset>> /\ UNCHANGED processVars

\* A debug build returns at a read-only section in which it finds no strings.
ReturnAtSilentSection ==
    /\ phase = "map" /\ index <= Len(procimage) /\ Live
    /\ debug /\ PermissionOf(bintype) = Ro
    /\ \E mapped \in {MapSection} : mem' = mapped
    /\ phase' = "start"
    /\ UNCHANGED <<debug, index, bintype>> /\ UNCHANGED layoutVars /\ UNCHANGED processVars

EndOfSections ==
    /\ phase = "map" /\ PastSections /\ Live
    /\ phase' = "start"
    /\ UNCHANGED <<debug, index, bintype, mem>> /\ UNCHANGED layoutVars /\ UNCHANGED processVars

-----------------------------------------------------------------------------
(* KProcess::AllocateTls with KTlsPageManager.                              *)

\* KTlsPageManager::Allocate takes the first free slot; Allocatable.
\* (Mistake: the slot stays free.)
TakeKeepsSlot(manager, slot) == manager
TakeSlot(manager, slot) == [manager EXCEPT !.freeslots = @ \ {slot}]
FirstSlot(manager) == CHOOSE s \in manager.freeslots : \A t \in manager.freeslots : s <= t
\* (Mistake: a page with slots, free or not, is allocatable.)
HasSlots(manager) == TlsSlotCount > 0
Allocatable(manager) == manager.freeslots # {}

\* A page whose last slot is taken moves to the list of full pages.
TakeFrom(managers) ==
    LET slot == FirstSlot(Head(managers))
        left == TakeSlot(Head(managers), slot)
    IN  /\ tls' = Append(tls, [page |-> left.page, slot |-> slot])
        /\ IF Allocatable(left)
           THEN freetls' = <<left>> \o Tail(managers) /\ UNCHANGED fulltls
           ELSE freetls' = Tail(managers) /\ fulltls' = <<left>> \o fulltls

\* With no page to take from, userslabs gives the next one; an empty slab gives
\* the null pointer, which is mapped like any other page offset.
AllocateTls(before) ==
    IF freetls # <<>>
    THEN TakeFrom(freetls) /\ mem' = before /\ UNCHANGED userslabs
    ELSE LET slab == SlabAllocate(userslabs)
             fresh == [page |-> TlsIoBegin(offset) + slab.pointer, freeslots |-> 1 .. TlsSlotCount]
         IN  \E mapped \in {MapTlsMemory(before, offset, slab.pointer)} :
                /\ userslabs' = slab.objects
                /\ mem' = mapped
                /\ IF mapped.outcome = "ok" THEN TakeFrom(<<fresh>>)
                                            ELSE UNCHANGED <<freetls, fulltls, tls>>

\* KProcess::Initialize: the TLS of the process, the stack, and the TLS of the
\* main thread (KThread::Initialize).
AllocateExceptionTls(size) ==
    /\ phase = "start" /\ Live /\ tls = <<>>
    /\ stack' = size
    /\ AllocateTls(mem)
    /\ UNCHANGED <<debug, phase, index, bintype>> /\ UNCHANGED layoutVars

InitializeThread ==
    /\ phase = "start" /\ Live /\ tls # <<>>
    /\ \E mapped \in {MapStackMemory(mem, offset, stack)} :
           IF mapped.outcome = "ok" THEN AllocateTls(mapped)
           ELSE mem' = mapped /\ UNCHANGED <<userslabs, freetls, fulltls, tls>>
    /\ phase' = "run"
    /\ UNCHANGED <<debug, index, bintype, stack>> /\ UNCHANGED layoutVars

\* A further thread of the process.
AllocateThreadTls ==
    /\ phase = "run" /\ Live /\ Len(tls) < MaxTls
    /\ AllocateTls(mem)
    /\ UNCHANGED <<debug, phase, index, bintype, stack>> /\ UNCHANGED layoutVars

Load == \/ \E m \in Modules : GetCodeSet(m)
        \/ LoadMemory
        \/ SetSection
        \/ ReturnAtSilentSection
        \/ EndOfSections
StartProcess == \/ \E size \in StackSizes : AllocateExceptionTls(size)
                \/ InitializeThread

Next == Load \/ StartProcess \/ AllocateThreadTls

\* The loader runs on the thread that called it: it goes on until it returns.
Spec == Init /\ [][Next]_vars /\ WF_vars(Load) /\ WF_vars(StartProcess)
-----------------------------------------------------------------------------
(* Properties.                                                              *)

Laid == phase # "layout"
Guest == DOMAIN mem.mapping
Mapped == {p \in Guest : mem.mapping[p] # NoPage}
BlockOf(p) == mem.blocks[FindBlock(mem.blocks, p)]
EachHasBss == \A m \in 1 .. Len(modules) - 1 : modules[m].bss > 0
TlsPage == Len(tls) \div TlsSlotCount    \* pages before the one the next slot is on

TypeOK ==
    /\ debug \in BOOLEAN /\ phase \in {"layout", "map", "start", "run"}
    /\ modules \in Seq(Modules) /\ Len(procimage) = 3 * Len(modules)
    /\ offset \in Nat /\ index \in 1 .. Len(procimage) + 1 /\ bintype \in Nat
    /\ Len(bsslayout) <= Len(modules)
    /\ mem.outcome \in {"ok", "exception", "undefined", "aborted"}
    /\ Laid => mem.mapping \in [0 .. SpaceEnd(offset) - 1 -> -1 .. HostPages - 1]
    /\ \A m \in ToSet(freetls) : m.freeslots \subseteq 1 .. TlsSlotCount /\ m.freeslots # {}
    /\ \A m \in ToSet(fulltls) : m.freeslots = {}

\* The pages of all blocks are the pages of the address space, whatever was split
\* off and taken from where (KMemoryBlockManager::Map). So it is as long as userslabs
\* has pages; and after that, with .bss in every module but the last. (If not, the
\* block that Map inserts for the null pointer may replace one that has pages.)
PagesConserved ==
    Laid /\ (EachHasBss \/ TlsPage < UserPages) =>
        MapThenSumSet(LAMBDA k : mem.blocks[k].pages, DOMAIN mem.blocks) = SpaceEnd(offset)

\* No page of DRAM backs two guest pages, and none that does can be reserved again:
\* the base Reserve last returned is still the first of the free list, and only it.
HostExclusive ==
    /\ \A p, q \in Mapped : mem.mapping[p] = mem.mapping[q] => p = q
    /\ Laid => {mem.mapping[p] : p \in Mapped} \cap ToSet(mem.objects) \subseteq {Head(mem.objects)}

\* What a mapping was made for is what QueryMemory and ForEach find there: each
\* mapped page belongs to a block of its segment's state, and no such block counts a
\* page that nothing backs, although Map takes the pages of a new block from
\* whichever block is before it. That is so if every module but the last has .bss.
BlocksMatchSegments ==
    EachHasBss =>
    /\ \A p \in Mapped :
           BlockOf(p).state = IF p < CodePages(offset) THEN "Code"
                              ELSE IF p < TlsIoBegin(offset) THEN "Stack" ELSE "ThreadLocal"
    /\ Laid /\ Live => \A k \in DOMAIN mem.blocks :
           mem.blocks[k].state \in {"Code", "Stack", "ThreadLocal"}
           => Span(k, mem.blocks[k].pages) \subseteq Mapped

\* The sections SetProcessMemory is done with, up to the first module without .bss
\* and its sections, have all their pages, the .bss of .data included; each has the
\* permission and the host protection of its kind and is code to the JIT.
ModuleSpan(s) == Span(s.offset, Pages(IF s.kind = Data THEN DataSpan(modules[s.module]) ELSE s.size))
InOrder(s) == \A m \in 1 .. s.module - 1 : modules[m].bss > 0
SectionPlaced(s) ==
    \A p \in ModuleSpan(s) :
        /\ p \in Mapped
        /\ BlockOf(p).perm = s.kind
        /\ p \in mem.writable <=> s.kind = Data
        /\ TableType(mem, p) = "Code"
Done == IF Live THEN 1 .. index - 1 ELSE {}
SectionsPlaced == \A i \in Done : InOrder(procimage[i]) => SectionPlaced(procimage[i])

\* To the JIT, stack pages are of the stack and thread local pages of neither kind.
TablesMatchSegments ==
    \A p \in Mapped : p >= CodePages(offset) =>
        TableType(mem, p) = IF p < TlsIoBegin(offset) /\ phase = "run" THEN "Stack" ELSE "Allocated"

\* Two threads never share a TLS slot, and each slot is on a thread local page that
\* is mapped and can be written, if every module but the last has .bss. (If not, Map
\* may insert the block of a TLS page elsewhere and back it by nothing.)
TlsExclusive ==
    EachHasBss =>
    /\ \A i, j \in DOMAIN tls : tls[i] = tls[j] => i = j
    /\ \A i \in DOMAIN tls : tls[i].page \in Mapped /\ tls[i].page \in mem.writable
                             /\ BlockOf(tls[i].page).state = "ThreadLocal"

\* As long as the image, the stack and the TLS pages leave one page of DRAM,
\* userslabs has pages, and the TLS pages after the first, each of which takes a
\* page off the block of the stack, are no more than its pages, nothing is undefined
\* and no exception is thrown, with .bss in every module but the last.
NoFailure ==
    EachHasBss /\ offset + stack + TlsPage + 1 < HostPages /\ TlsPage < UserPages /\ TlsPage <= stack
    => mem.outcome \in {"ok", "aborted"}

\* The guest page a mapping gave to the guest is never mapped again (MAP_FIXED would
\* replace it without a word).
NeverRemapped ==
    [][Laid => \A p \in Mapped : mem.mapping'[p] = mem.mapping[p]]_vars

\* Loading ends: the process runs, or an error ended it.
LoadingEnds == <>(phase = "run" \/ ~Live)

\* process_loader.cpp says that "the size of the data section is aligned together
\* with the size of the .bss section": every .data section has its .bss mapped.
DataCoversBss ==
    phase = "run" /\ ~debug /\ Live =>
        \A i \in DOMAIN procimage :
            procimage[i].kind = Data => ModuleSpan(procimage[i]) \subseteq Mapped

\* MapCodeMemory asserts that a section's pages are more than its content.
ContentFits == mem.outcome # "aborted"

\* Map says of the block it takes pages from that it is free: the stack keeps its own.
StackIsWhole ==
    phase = "run" /\ Live => mem.blocks[StackBegin(offset)].pages = stack
=============================================================================
