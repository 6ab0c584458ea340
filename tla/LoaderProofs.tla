----------------------------- MODULE LoaderProofs -----------------------------
(***************************************************************************)
(* Of loading and starting a process, for every layout of modules and      *)
(* sizes of the segments: its types, that no host page backs two guest     *)
(* pages, that what is mapped stays, that TLS slots are exclusive, that    *)
(* the blocks and the page table name the segments, that the sections of   *)
(* the modules stay in place, that nothing fails while pages are left, and *)
(* that the pages of all blocks are those of the address space.            *)
(***************************************************************************)
EXTENDS ProcessLoader, TLAPS, FiniteSetTheorems, WellFoundedInduction, SequenceTheorems

-----------------------------------------------------------------------------
(* What the operations of GuestMemory leave of the host pages, the allocations  *)
(* and the mapping, whatever the map of blocks says.                           *)


Fields == {"blocks", "objects", "allocs", "mapping", "writable", "tables", "outcome"}
Outcomes == {"ok", "exception", "undefined", "aborted"}
Proper(m) == DOMAIN m = Fields /\ m.outcome \in Outcomes
Backed(m) == {p \in DOMAIN m.mapping : m.mapping[p] # NoPage}

\* The free list is what Reserve left of the slab, its first object aside all DRAM
\* that backs a page is above it.
SlabInv(m) ==
    \E n \in 1 .. HostPages :
        /\ m.objects = SlabObjects(0, n)
        /\ \A p \in Backed(m) : m.mapping[p] >= n - 1

\* The page table maps what SysAllocator has allocated, and all of it.
AllocInv(m) ==
    /\ \A a \in m.allocs : a.guest \in Int /\ a.pages \in Nat \ {0}
    /\ \A p \in Backed(m) : \E a \in m.allocs : p \in Span(a.guest, a.pages)
    /\ \A a \in m.allocs : \A p \in Span(a.guest, a.pages) \cap DOMAIN m.mapping : m.mapping[p] # NoPage

HostInv(m, end) ==
    /\ Proper(m)
    /\ m.mapping \in [0 .. end - 1 -> -1 .. HostPages - 1]
    /\ \A p, q \in Backed(m) : m.mapping[p] = m.mapping[q] => p = q
    /\ SlabInv(m) /\ AllocInv(m)

\* Nothing changed but the blocks, the outcome and the tables, or the pages were free
\* to allocate and have the next host pages.
Untouched(m, left) ==
    /\ left.mapping = m.mapping /\ left.objects = m.objects /\ left.allocs = m.allocs
    /\ left.writable = m.writable
MapsAt(m, left, at, pages) ==
    /\ CanAllocate(m, at, pages)
    /\ \E n \in 1 .. HostPages :
        /\ m.objects = SlabObjects(0, n) /\ pages < n
        /\ left.objects = SlabObjects(0, n - pages)
        /\ left.mapping = MapPages(m.mapping, at, n - 1 - pages, pages)
        /\ left.allocs = m.allocs \cup {[guest |-> at, host |-> n - 1 - pages, pages |-> pages]}
        /\ left.writable = m.writable \cup Span(at, pages)
Maps(m, left, at, pages) ==
    Proper(left) /\ (Untouched(m, left) \/ MapsAt(m, left, at, pages))

\* The entry of the page table for the pages, if they were mapped.
Entry(at, pages) == [type |-> "Allocated", first |-> at, end |-> at + pages]
Enters(m, left, at, pages) ==
    \/ left.mapping = m.mapping /\ left.tables = m.tables
    \/ /\ left.outcome = "ok" /\ Span(at, pages) \subseteq left.writable
       /\ left.tables = Append(m.tables, Entry(at, pages))
-----------------------------------------------------------------------------
(* The slab.                                                                *)

LEMMA SlabList ==
    ASSUME NEW n \in Nat
    PROVE  /\ SlabObjects(0, n) \in Seq(Nat) /\ Len(SlabObjects(0, n)) = n
           /\ \A i \in 1 .. n : SlabObjects(0, n)[i] = n - i
<1> DEFINE s == [i \in 1 .. n |-> 0 + n - i]
<1>1. SlabObjects(0, n) = s
  BY DEF SlabObjects
<1>2. \A i \in 1 .. n : 0 + n - i \in Nat
  OBVIOUS
<1>3. s \in Seq(Nat) /\ Len(s) = n
  BY <1>2
<1>4. QED BY <1>1, <1>3

\* The objects that Reserve takes are those above the one it returns, but for the highest.
LEMMA ReserveOf ==
    ASSUME NEW n \in Nat \ {0}, NEW pages \in Nat,
           SlabReserve(SlabObjects(0, n), pages).pointer # Undefined
    PROVE  /\ pages < n
           /\ SlabReserve(SlabObjects(0, n), pages).pointer = n - 1 - pages
           /\ SlabReserve(SlabObjects(0, n), pages).objects = SlabObjects(0, n - pages)
<1> DEFINE s == SlabObjects(0, n)
           rest == SubSeq(s, pages + 1, Len(s))
<1>1. s \in Seq(Nat) /\ Len(s) = n /\ \A i \in 1 .. n : s[i] = n - i
  BY SlabList
<1> HIDE DEF s
<1>2. ~(Len(s) < 2 \/ pages >= Len(s))
  BY DEF SlabReserve, s
<1>3. pages < n /\ s[pages + 1] = n - 1 - pages
  BY <1>1, <1>2
<1>4. rest = SlabObjects(0, n - pages)
  <2>1. /\ rest \in Seq(Nat) /\ Len(rest) = n - pages /\ DOMAIN rest = 1 .. n - pages
        /\ \A i \in 1 .. n - pages : rest[i] = s[pages + i]
    BY <1>1, <1>3
  <2>2. ASSUME NEW i \in 1 .. n - pages
        PROVE  rest[i] = 0 + (n - pages) - i
    <3>1. pages + i \in 1 .. n
      BY <1>3
    <3>2. QED BY <1>1, <2>1, <3>1
  <2> HIDE DEF rest
  <2>3. rest = [i \in 1 .. n - pages |-> 0 + (n - pages) - i]
    <3>1. rest = [i \in 1 .. n - pages |-> rest[i]]
      BY <2>1
    <3>2. QED BY <2>2, <3>1
  <2>4. QED BY <2>3 DEF SlabObjects
<1>5. QED BY <1>2, <1>3, <1>4 DEF SlabReserve, s

-----------------------------------------------------------------------------
(* KMemoryBlockManager::Map.                                                *)

\* A page that an allocation has is not allocated again.
LEMMA NotAgain ==
    ASSUME NEW m, NEW at \in Int, NEW pages \in Nat \ {0}, AllocInv(m), CanAllocate(m, at, pages)
    PROVE  /\ at \notin Backed(m)
           /\ \A a \in m.allocs : a.guest # at
<1>1. \A a \in m.allocs : at \notin Span(a.guest, a.pages)
  BY DEF CanAllocate
<1>2. \A a \in m.allocs : a.guest \in Span(a.guest, a.pages)
  BY DEF AllocInv, Span
<1>3. QED BY <1>1, <1>2 DEF AllocInv

LEMMA FailOf ==
    ASSUME NEW m, NEW how \in Outcomes, Proper(m)
    PROVE  Proper(Fail(m, how)) /\ Untouched(m, Fail(m, how)) /\ Fail(m, how).outcome = how
           /\ Fail(m, how).blocks = m.blocks /\ Fail(m, how).tables = m.tables
BY DEF Fail, Fields, Proper, Untouched

LEMMA BackBlockOf ==
    ASSUME NEW m, NEW end, HostInv(m, end), NEW blocks, NEW at \in Int, NEW pages \in Nat \ {0}, NEW ended,
           CanAllocate(m, at, pages)
    PROVE  LET left == BackBlock(m, blocks, at, pages, ended)
           IN  /\ Maps(m, left, at, pages) /\ left.blocks = blocks
               /\ ~IsAllocated(m, blocks, ended) /\ left.outcome = "ok" => MapsAt(m, left, at, pages)
               /\ m.outcome = "ok" => Enters(m, left, at, pages)
<1> DEFINE after == [m EXCEPT !.blocks = blocks]
           host == SlabReserve(m.objects, pages)
           before == [after EXCEPT !.objects = host.objects]
<1>1. /\ Proper(after) /\ Untouched(m, after) /\ after.blocks = blocks
      /\ after.outcome = m.outcome /\ after.tables = m.tables
  BY DEF HostInv, Fields, Proper, Untouched
<1>2. CASE IsAllocated(m, blocks, ended)
  <2>1. BackBlock(m, blocks, at, pages, ended) = after
    BY <1>2 DEF BackBlock
  <2> HIDE DEF after
  <2>2. QED BY <1>1, <1>2, <2>1 DEF Maps, Enters, Untouched
<1>3. CASE ~IsAllocated(m, blocks, ended) /\ host.pointer = Undefined
  <2>1. BackBlock(m, blocks, at, pages, ended) = Fail(after, "undefined")
    BY <1>3 DEF BackBlock
  <2> HIDE DEF after
  <2> DEFINE failed == Fail(after, "undefined")
  <2>2. /\ Proper(failed) /\ Untouched(after, failed) /\ failed.outcome # "ok"
        /\ failed.blocks = after.blocks /\ failed.tables = after.tables
    BY <1>1, FailOf DEF Outcomes
  <2> HIDE DEF failed
  <2>3. Untouched(m, failed)
    BY <1>1, <2>2 DEF Untouched
  <2>4. QED BY <1>1, <2>1, <2>2, <2>3 DEF Maps, Enters, Untouched, failed
<1>4. CASE ~IsAllocated(m, blocks, ended) /\ host.pointer # Undefined
  <2>1. PICK n \in 1 .. HostPages : m.objects = SlabObjects(0, n)
    BY DEF HostInv, SlabInv
  <2>2. pages < n /\ host.pointer = n - 1 - pages /\ host.objects = SlabObjects(0, n - pages)
    BY <1>4, <2>1, ReserveOf
  <2>3. BackBlock(m, blocks, at, pages, ended) = AllocatorMap(before, at, host.pointer, pages)
    BY <1>4 DEF BackBlock
  <2>4. /\ Proper(before) /\ before.mapping = m.mapping /\ before.allocs = m.allocs
        /\ before.writable = m.writable /\ before.objects = host.objects /\ before.blocks = blocks
        /\ before.outcome = m.outcome /\ before.tables = m.tables
    BY <1>1 DEF Fields, Proper, Untouched
  <2> DEFINE left == AllocatorMap(before, at, host.pointer, pages)
  <2> HIDE DEF before, after, host
  <2>5. ~\E a \in before.allocs : a.guest = at /\ a.host = host.pointer
    <3>1. AllocInv(m)
      BY DEF HostInv
    <3>2. \A a \in m.allocs : a.guest # at
      BY <3>1, NotAgain
    <3>3. QED BY <2>4, <3>2
  <2>6. /\ Proper(left) /\ left.objects = before.objects
        /\ left.allocs = before.allocs \cup {[guest |-> at, host |-> host.pointer, pages |-> pages]}
        /\ left.mapping = MapPages(before.mapping, at, host.pointer, pages)
        /\ left.writable = before.writable \cup Span(at, pages) /\ left.blocks = before.blocks
        /\ left.tables = Append(before.tables, Entry(at, pages)) /\ left.outcome = before.outcome
    BY <2>4, <2>5 DEF AllocatorMap, Fields, Proper, Entry
  <2> HIDE DEF left
  <2>7. MapsAt(m, left, at, pages)
    BY <2>1, <2>2, <2>4, <2>6 DEF MapsAt
  <2>8. m.outcome = "ok" => Enters(m, left, at, pages)
    BY <2>4, <2>6 DEF Enters
  <2>9. QED BY <2>3, <2>4, <2>6, <2>7, <2>8 DEF Maps, left
<1>5. QED BY <1>2, <1>3, <1>4

LEMMA MapBlockOf ==
    ASSUME NEW m, NEW end, HostInv(m, end), NEW at \in Int, NEW new, new.pages \in Nat \ {0}
    PROVE  /\ Maps(m, MapBlock(m, at, new), at, new.pages)
           /\ Enters(m, MapBlock(m, at, new), at, new.pages)
<1> DEFINE Good(left) == Maps(m, left, at, new.pages) /\ Enters(m, left, at, new.pages)
<1>1. Good(Fail(m, "exception"))
  BY FailOf DEF Outcomes, Maps, Enters, Untouched, HostInv
<1>2. CASE m.outcome # "ok"
  <2>1. MapBlock(m, at, new) = m
    BY <1>2 DEF MapBlock
  <2>2. QED BY <2>1 DEF Maps, Enters, Untouched, HostInv
<1>3. CASE m.outcome = "ok" /\ ~CanAllocate(m, at, new.pages)
  <2>1. MapBlock(m, at, new) = Fail(m, "exception")
    BY <1>3 DEF MapBlock
  <2>2. QED BY <1>1, <2>1
<1>4. CASE m.outcome = "ok" /\ CanAllocate(m, at, new.pages)
  <2>1. \A blocks, ended : Good(BackBlock(m, blocks, at, new.pages, ended))
    BY <1>4, BackBlockOf
  <2>2. \/ MapBlock(m, at, new) = Fail(m, "exception")
        \/ \E blocks, ended : MapBlock(m, at, new) = BackBlock(m, blocks, at, new.pages, ended)
    BY <1>4 DEF MapBlock
  <2>3. QED BY <1>1, <2>1, <2>2
<1>5. QED BY <1>2, <1>3, <1>4

\* The new pages have host pages below all that were given out, and above those left.
LEMMA MapsKeeps ==
    ASSUME NEW m, NEW left, NEW end, NEW at \in Int, NEW pages \in Nat \ {0},
           HostInv(m, end), Maps(m, left, at, pages)
    PROVE  /\ HostInv(left, end)
           /\ Backed(left) \subseteq Backed(m) \cup Span(at, pages)
           /\ \A p \in Backed(m) \ Span(at, pages) : left.mapping[p] = m.mapping[p] /\ p \in Backed(left)
<1>1. CASE Untouched(m, left)
  <2>1. Backed(left) = Backed(m)
    BY <1>1 DEF Untouched, Backed
  <2>2. QED BY <1>1, <2>1 DEF Untouched, HostInv, SlabInv, AllocInv, Maps
<1>2. CASE MapsAt(m, left, at, pages)
  <2>1. PICK n \in 1 .. HostPages :
            /\ m.objects = SlabObjects(0, n) /\ pages < n
            /\ left.objects = SlabObjects(0, n - pages)
            /\ left.mapping = MapPages(m.mapping, at, n - 1 - pages, pages)
            /\ left.allocs = m.allocs \cup {[guest |-> at, host |-> n - 1 - pages, pages |-> pages]}
    BY <1>2 DEF MapsAt
  <2>2. \A p \in Backed(m) : m.mapping[p] >= n - 1
    <3>1. PICK k \in 1 .. HostPages :
              m.objects = SlabObjects(0, k) /\ \A p \in Backed(m) : m.mapping[p] >= k - 1
      BY DEF HostInv, SlabInv
    <3>2. k = n
      <4>1. Len(SlabObjects(0, k)) = k /\ Len(SlabObjects(0, n)) = n
        BY SlabList
      <4>2. QED BY <4>1, <3>1, <2>1
    <3>3. QED BY <3>1, <3>2
  <2>3. /\ m.mapping \in [0 .. end - 1 -> -1 .. HostPages - 1] /\ HostPages \in Nat
        /\ \A p \in Backed(m) : p \in 0 .. end - 1
    BY MemoryAssumption DEF HostInv, Backed
  <2> DEFINE host == n - 1 - pages
  <2>4. host \in Nat /\ host + pages = n - 1
    BY <2>1
  <2>5. \A p \in Span(at, pages) : host + (p - at) \in host .. n - 2
    BY <2>4 DEF Span
  <2>6. \A p \in 0 .. end - 1 : left.mapping[p] = IF p \in Span(at, pages) THEN host + (p - at) ELSE m.mapping[p]
    BY <2>1, <2>3 DEF MapPages
  <2>7. left.mapping \in [0 .. end - 1 -> -1 .. HostPages - 1]
    <3>1. DOMAIN left.mapping = 0 .. end - 1 /\ left.mapping = [p \in 0 .. end - 1 |-> left.mapping[p]]
      BY <2>1, <2>3 DEF MapPages
    <3>2. \A p \in 0 .. end - 1 : left.mapping[p] \in -1 .. HostPages - 1
      <4> SUFFICES ASSUME NEW p \in 0 .. end - 1 PROVE left.mapping[p] \in -1 .. HostPages - 1
        OBVIOUS
      <4>1. CASE p \in Span(at, pages)
        <5>1. left.mapping[p] \in host .. n - 2
          BY <4>1, <2>5, <2>6
        <5> HIDE DEF host
        <5>2. QED BY <5>1, <2>3, <2>4
      <4>2. CASE p \notin Span(at, pages)
        BY <4>2, <2>3, <2>6
      <4>3. QED BY <4>1, <4>2
    <3>3. QED BY <3>1, <3>2
  <2> HIDE DEF host
  <2>8. /\ \A p \in Backed(left) : p \in 0 .. end - 1 /\ (p \in Backed(m) \/ p \in Span(at, pages))
        /\ \A p \in Backed(m) \ Span(at, pages) : left.mapping[p] = m.mapping[p] /\ p \in Backed(left)
    BY <2>3, <2>6, <2>7 DEF Backed
  <2>9. \A p \in Backed(left) : left.mapping[p] >= n - pages - 1
    <3> SUFFICES ASSUME NEW p \in Backed(left) PROVE left.mapping[p] >= n - pages - 1
      OBVIOUS
    <3>1. CASE p \in Span(at, pages)
      <4>1. left.mapping[p] \in host .. n - 2
        BY <3>1, <2>5, <2>6, <2>8
      <4>2. QED BY <4>1, <2>4
    <3>2. CASE p \notin Span(at, pages)
      <4>1. p \in Backed(m) /\ p \in 0 .. end - 1 /\ left.mapping[p] = m.mapping[p]
        BY <3>2, <2>6, <2>8
      <4>2. m.mapping[p] >= n - 1 /\ m.mapping[p] \in Int
        <5>1. m.mapping[p] \in -1 .. HostPages - 1
          BY <4>1, <2>3
        <5>2. QED BY <4>1, <5>1, <2>2, <2>3
      <4>3. QED BY <4>1, <4>2
    <3>3. QED BY <3>1, <3>2
  <2>10. \A p, q \in Backed(left) : left.mapping[p] = left.mapping[q] => p = q
    <3> SUFFICES ASSUME NEW p \in Backed(left), NEW q \in Backed(left), left.mapping[p] = left.mapping[q]
                 PROVE  p = q
      OBVIOUS
    <3>1. p \in 0 .. end - 1 /\ q \in 0 .. end - 1
      BY <2>8
    <3>2. CASE p \in Span(at, pages) /\ q \in Span(at, pages)
      BY <3>1, <3>2, <2>4, <2>6
    <3>3. CASE p \notin Span(at, pages) /\ q \notin Span(at, pages)
      BY <3>1, <3>3, <2>6, <2>8 DEF HostInv
    <3>4. CASE p \in Span(at, pages) /\ q \notin Span(at, pages)
      BY <3>1, <3>4, <2>2, <2>3, <2>5, <2>6, <2>8
    <3>5. CASE p \notin Span(at, pages) /\ q \in Span(at, pages)
      BY <3>1, <3>5, <2>2, <2>3, <2>5, <2>6, <2>8
    <3>6. QED BY <3>2, <3>3, <3>4, <3>5
  <2>11. SlabInv(left)
    <3>1. n - pages \in 1 .. HostPages
      BY <2>1, <2>3
    <3>2. QED BY <3>1, <2>1, <2>9 DEF SlabInv
  <2>12. AllocInv(left)
    <3>1. \A p \in Backed(left) : \E a \in left.allocs : p \in Span(a.guest, a.pages)
      <4> SUFFICES ASSUME NEW p \in Backed(left)
                   PROVE  \E a \in left.allocs : p \in Span(a.guest, a.pages)
        OBVIOUS
      <4> DEFINE new == [guest |-> at, host |-> host, pages |-> pages]
      <4>1. new \in left.allocs /\ new.guest = at /\ new.pages = pages
        BY <2>1 DEF host
      <4> HIDE DEF new
      <4>2. CASE p \in Span(at, pages)
        BY <4>1, <4>2
      <4>3. CASE p \notin Span(at, pages)
        BY <4>3, <2>1, <2>8 DEF HostInv, AllocInv
      <4>4. QED BY <4>2, <4>3
    <3>2. \A a \in left.allocs : a.guest \in Int /\ a.pages \in Nat \ {0}
      BY <2>1 DEF HostInv, AllocInv
    <3>3. ASSUME NEW a \in left.allocs, NEW p \in Span(a.guest, a.pages), p \in DOMAIN left.mapping
          PROVE  left.mapping[p] # NoPage
      <4>1. p \in 0 .. end - 1 /\ p \in DOMAIN m.mapping
        BY <2>3, <2>7, <3>3
      <4>2. CASE p \in Span(at, pages)
        <5>1. left.mapping[p] \in host .. n - 2
          BY <4>1, <4>2, <2>5, <2>6
        <5>2. QED BY <5>1, <2>4 DEF NoPage
      <4>3. CASE p \notin Span(at, pages)
        <5>1. a \in m.allocs
          BY <2>1, <3>3, <4>3 DEF host
        <5>2. m.mapping[p] # NoPage
          BY <3>3, <4>1, <5>1 DEF HostInv, AllocInv
        <5>3. QED BY <2>6, <4>1, <4>3, <5>2
      <4>4. QED BY <4>2, <4>3
    <3>4. QED BY <3>1, <3>2, <3>3 DEF AllocInv
  <2>13. QED BY <2>7, <2>8, <2>10, <2>11, <2>12 DEF HostInv, Maps
<1>3. QED BY <1>1, <1>2 DEF Maps

-----------------------------------------------------------------------------
(* The operations of KMemory. Each is the call of Map, and leaves what it    *)
(* left.                                                                    *)

\* What one more call leaves that changes no mapping.
LEMMA MapsThen ==
    ASSUME NEW m, NEW mid, NEW left, NEW at, NEW pages, Maps(m, mid, at, pages),
           Proper(left), Untouched(mid, left)
    PROVE  Maps(m, left, at, pages)
BY DEF Maps, Untouched, MapsAt

LEMMA WriteMemoryOf ==
    ASSUME NEW m, Proper(m), NEW at, NEW pages
    PROVE  /\ Proper(WriteMemory(m, at, pages)) /\ Untouched(m, WriteMemory(m, at, pages))
           /\ WriteMemory(m, at, pages).blocks = m.blocks /\ WriteMemory(m, at, pages).tables = m.tables
           /\ (WriteMemory(m, at, pages).outcome = "ok" => m.outcome = "ok")
BY FailOf DEF Outcomes, WriteMemory, Untouched

LEMMA DelimitTableOf ==
    ASSUME NEW m, Proper(m), NEW type, NEW at, NEW pages
    PROVE  /\ Proper(DelimitTable(m, type, at, pages))
           /\ Untouched(m, DelimitTable(m, type, at, pages))
           /\ DelimitTable(m, type, at, pages).blocks = m.blocks
           /\ DelimitTable(m, type, at, pages).outcome = m.outcome
BY DEF DelimitTable, Untouched, Fields, Proper

\* Only entries for exactly these pages get the type.
Retyped(tables, left, type, at, pages) ==
    left = [i \in DOMAIN tables |-> IF MatchesTable(tables[i], at, pages)
                                    THEN [tables[i] EXCEPT !.type = type] ELSE tables[i]]

LEMMA DelimitTableEntries ==
    ASSUME NEW m, Proper(m), NEW type, NEW at, NEW pages
    PROVE  /\ m.outcome # "ok" => DelimitTable(m, type, at, pages) = m
           /\ m.outcome = "ok" => Retyped(m.tables, DelimitTable(m, type, at, pages).tables, type, at, pages)
BY DEF DelimitTable, Retyped, Fields, Proper

LEMMA MapSegmentOf ==
    ASSUME NEW m, NEW end, HostInv(m, end), NEW at \in Int, NEW pages \in Nat \ {0}, NEW kind
    PROVE  /\ Maps(m, MapSegment(m, at, pages, kind), at, pages)
           /\ Enters(m, MapSegment(m, at, pages, kind), at, pages)
           /\ MapSegment(m, at, pages, kind) = WriteMemory(MapBlock(m, at, Block(pages, kind)), at, pages)
<1> DEFINE mid == MapBlock(m, at, Block(pages, kind))
           left == WriteMemory(mid, at, pages)
<1>1. Maps(m, mid, at, pages) /\ Enters(m, mid, at, pages)
  <2>1. Block(pages, kind).pages = pages
    BY DEF Block
  <2>2. QED BY <2>1, MapBlockOf
<1> HIDE DEF mid
<1>2. MapSegment(m, at, pages, kind) = left
  BY DEF MapSegment, Then, mid
<1>3. /\ Proper(left) /\ Untouched(mid, left) /\ left.tables = mid.tables
      /\ Span(at, pages) \subseteq mid.writable => left = mid
  BY <1>1, WriteMemoryOf DEF Maps, WriteMemory
<1> HIDE DEF left
<1>4. Maps(m, left, at, pages)
  BY <1>1, <1>3, MapsThen
<1>5. Enters(m, left, at, pages)
  BY <1>1, <1>3 DEF Enters, Untouched
<1>6. QED BY <1>2, <1>4, <1>5 DEF left, mid

LEMMA MapCodeMemoryOf ==
    ASSUME NEW m, NEW end, HostInv(m, end), NEW at \in Int, NEW pages \in Nat \ {0}
    PROVE  /\ Maps(m, MapCodeMemory(m, at, pages), at, pages)
           /\ MapCodeMemory(m, at, pages) = DelimitTable(MapSegment(m, at, pages, "Code"), "Code", at, pages)
<1> DEFINE mid == MapSegment(m, at, pages, "Code")
           left == DelimitTable(mid, "Code", at, pages)
<1>1. Maps(m, mid, at, pages)
  BY MapSegmentOf
<1> HIDE DEF mid
<1>2. MapCodeMemory(m, at, pages) = left
  BY DEF MapCodeMemory, Then, mid
<1>3. Proper(left) /\ Untouched(mid, left)
  BY <1>1, DelimitTableOf DEF Maps
<1> HIDE DEF left
<1>4. Maps(m, left, at, pages)
  BY <1>1, <1>3, MapsThen
<1>5. QED BY <1>2, <1>4 DEF left, mid

LEMMA MapStackMemoryOf ==
    ASSUME NEW m, NEW end, HostInv(m, end), NEW count, NEW pages \in Nat \ {0}, StackBegin(count) \in Int
    PROVE  /\ Maps(m, MapStackMemory(m, count, pages), StackBegin(count), pages)
           /\ MapStackMemory(m, count, pages)
                = DelimitTable(MapSegment(m, StackBegin(count), pages, "Stack"), "Stack", StackBegin(count), pages)
<1> DEFINE at == StackBegin(count)
           mid == MapSegment(m, at, pages, "Stack")
           left == DelimitTable(mid, "Stack", at, pages)
<1>1. Maps(m, mid, at, pages)
  BY MapSegmentOf
<1> HIDE DEF mid
<1>2. MapStackMemory(m, count, pages) = left
  BY DEF MapStackMemory, Then, mid
<1>3. Proper(left) /\ Untouched(mid, left)
  BY <1>1, DelimitTableOf DEF Maps
<1> HIDE DEF left
<1>4. Maps(m, left, at, pages)
  BY <1>1, <1>3, MapsThen
<1>5. QED BY <1>2, <1>4 DEF left, mid

LEMMA SetMemoryPermissionOf ==
    ASSUME NEW m, Proper(m), NEW at, NEW pages, NEW perm
    PROVE  LET left == SetMemoryPermission(m, at, pages, perm)
           IN  /\ Proper(left)
               /\ left.mapping = m.mapping /\ left.objects = m.objects /\ left.allocs = m.allocs
               /\ left.tables = m.tables
BY FailOf DEF Outcomes, SetMemoryPermission, Reprotect, Untouched, Fields, Proper

LEMMA FillMemoryOf ==
    ASSUME NEW m, Proper(m), NEW begin, NEW end
    PROVE  /\ Proper(FillMemory(m, begin, end)) /\ Untouched(m, FillMemory(m, begin, end))
           /\ FillMemory(m, begin, end).blocks = m.blocks /\ FillMemory(m, begin, end).tables = m.tables
           /\ FillMemory(m, begin, end).outcome = "ok" => m.outcome = "ok"
<1>1. CASE FillMemory(m, begin, end) = m
  BY <1>1 DEF Untouched
<1>2. CASE FillMemory(m, begin, end) = WriteMemory(m, begin, end - begin)
  BY <1>2, WriteMemoryOf
<1>3. QED BY <1>1, <1>2 DEF FillMemory

-----------------------------------------------------------------------------
(* What a call that maps pages keeps, with its changes of protection.       *)

Gives(m, left, at, pages) ==
    /\ Proper(left)
    /\ \E mid : /\ Maps(m, mid, at, pages)
                /\ left.mapping = mid.mapping /\ left.objects = mid.objects /\ left.allocs = mid.allocs

\* The pages are new, or one page that CanAllocate has looked at.
LEMMA GivesKeeps ==
    ASSUME NEW m, NEW left, NEW end, NEW at \in Int, NEW pages \in Nat \ {0},
           HostInv(m, end), Gives(m, left, at, pages),
           pages = 1 \/ Backed(m) \cap Span(at, pages) = {}
    PROVE  /\ HostInv(left, end)
           /\ Backed(left) \subseteq Backed(m) \cup Span(at, pages)
           /\ \A p \in Backed(m) : left.mapping[p] = m.mapping[p] /\ p \in Backed(left)
<1>1. PICK mid : /\ Maps(m, mid, at, pages)
                 /\ left.mapping = mid.mapping /\ left.objects = mid.objects /\ left.allocs = mid.allocs
  BY DEF Gives
<1>2. /\ HostInv(mid, end)
      /\ Backed(mid) \subseteq Backed(m) \cup Span(at, pages)
      /\ \A p \in Backed(m) \ Span(at, pages) : mid.mapping[p] = m.mapping[p] /\ p \in Backed(mid)
  BY <1>1, MapsKeeps
<1>3. Backed(left) = Backed(mid)
  BY <1>1 DEF Backed
<1>4. HostInv(left, end)
  BY <1>1, <1>2, <1>3 DEF HostInv, SlabInv, AllocInv, Gives
<1>5. ASSUME NEW p \in Backed(m)
      PROVE  mid.mapping[p] = m.mapping[p] /\ p \in Backed(mid)
  <2>1. CASE Untouched(m, mid)
    BY <2>1 DEF Untouched, Backed
  <2>2. CASE MapsAt(m, mid, at, pages)
    <3>1. p \notin Span(at, pages)
      <4>1. CASE pages = 1
        <5>1. at \notin Backed(m)
          BY <2>2, NotAgain DEF MapsAt, HostInv
        <5>2. Span(at, pages) = {at}
          BY <4>1 DEF Span
        <5>3. QED BY <5>1, <5>2
      <4>2. QED BY <4>1
    <3>2. QED BY <1>2, <3>1
  <2>3. QED BY <1>1, <2>1, <2>2 DEF Maps
<1>6. QED BY <1>1, <1>2, <1>3, <1>4, <1>5

-----------------------------------------------------------------------------
(* The map of blocks.                                                       *)

\* A set of natural numbers has a smallest one.
LEMMA Smallest ==
    ASSUME NEW S, S \subseteq Nat, S # {}
    PROVE  \E s \in S : \A t \in S : s <= t
<1>1. PICK s \in S : \A y \in S : <<y, s>> \notin OpToRel(<, Nat)
  BY NatLessThanWellFounded, WFMin
<1>2. ASSUME NEW y \in S PROVE ~(y < s)
  <2>1. <<y, s>> \in Nat \X Nat /\ <<y, s>>[1] = y /\ <<y, s>>[2] = s
    OBVIOUS
  <2>2. y < s => <<y, s>>[1] < <<y, s>>[2]
    BY <2>1
  <2>3. <<y, s>>[1] < <<y, s>>[2] => <<y, s>> \in OpToRel(<, Nat)
    BY <2>1, Zenon DEF OpToRel
  <2>4. QED BY <1>1, <2>2, <2>3
<1>3. QED BY <1>2

LEMMA EndKeyIs ==
    ASSUME NEW b, NEW end, end \in Keys(b), \A k \in Keys(b) : k \in Nat /\ k <= end
    PROVE  EndKey(b) = end
BY DEF EndKey

LEMMA LowerBoundIs ==
    ASSUME NEW b, NEW end, end \in Keys(b), \A k \in Keys(b) : k \in Nat /\ k <= end,
           NEW at \in Nat, at <= end,
           NEW key, key \in Keys(b), at <= key, \A k \in Keys(b) : at <= k => key <= k
    PROVE  LowerBound(b, at) = key
<1>1. EndKey(b) = end
  BY EndKeyIs
<1>2. LowerBound(b, at) = CHOOSE k \in Keys(b) : k >= at /\ \A j \in Keys(b) : j >= at => k <= j
  <2>1. LowerBound(b, at) =
            IF at > EndKey(b) THEN EndKey(b) + 1
            ELSE CHOOSE k \in Keys(b) : k >= at /\ \A j \in Keys(b) : j >= at => k <= j
    BY DEF LowerBound, Then
  <2>2. ~(at > EndKey(b))
    BY <1>1
  <2>3. QED BY <2>1, <2>2
<1>3. key \in Keys(b) /\ key >= at /\ \A j \in Keys(b) : j >= at => key <= j
  OBVIOUS
<1>4. \A k \in Keys(b) : (k >= at /\ \A j \in Keys(b) : j >= at => k <= j) => k = key
  OBVIOUS
<1>5. QED BY <1>2, <1>3, <1>4

LEMMA BeforeIs ==
    ASSUME NEW b, \A k \in Keys(b) : k \in Nat, NEW at \in Nat,
           NEW key, key \in Keys(b), key < at, \A k \in Keys(b) : k < at => k <= key
    PROVE  Before(b, at) = key
<1>1. \A k \in Keys(b) : (k < at /\ \A j \in Keys(b) : j < at => j <= k) => k = key
  OBVIOUS
<1>2. Before(b, at) = CHOOSE k \in Keys(b) : k < at /\ \A j \in Keys(b) : j < at => j <= k
  BY DEF Before, Then
<1>3. QED BY <1>1, <1>2

LEMMA WithIs ==
    ASSUME NEW b, NEW at, NEW block
    PROVE  /\ Keys(With(b, at, block)) = Keys(b) \cup {at}
           /\ With(b, at, block)[at] = block
           /\ \A k \in Keys(b) : k # at => With(b, at, block)[k] = b[k]
BY DEF With, Keys

\* A block whose first page is allocated, and one whose is not.
LEMMA Allocated ==
    ASSUME NEW m, AllocInv(m), NEW b, NEW key, b[key].pages # 0, b[key].state # "Free", key \in Backed(m)
    PROVE  IsAllocated(m, b, key)
BY DEF AllocInv, IsAllocated, CanAllocate

LEMMA NotAllocated ==
    ASSUME NEW m, NEW b, NEW key, b[key].state = "Free" \/ CanAllocate(m, key, b[key].pages)
    PROVE  ~IsAllocated(m, b, key)
BY DEF IsAllocated

\* What a call of Map needs, but for the block to take the pages from.
Room(m, at, pages) == m.outcome = "ok" /\ CanAllocate(m, at, pages) /\ pages < Len(m.objects)

\* A page that nothing backs can be allocated.
LEMMA RoomAt ==
    ASSUME NEW m, NEW end, HostInv(m, end), m.outcome = "ok", NEW at \in 0 .. end - 1, at \notin Backed(m),
           NEW pages, pages < Len(m.objects)
    PROVE  Room(m, at, pages)
<1>1. at \in DOMAIN m.mapping
  BY DEF HostInv
<1>2. \A a \in m.allocs : at \notin Span(a.guest, a.pages)
  BY <1>1 DEF HostInv, AllocInv, Backed
<1>3. QED BY <1>2 DEF Room, CanAllocate

\* With free objects enough, the block has host pages.
LEMMA BackBlockGoes ==
    ASSUME NEW m, NEW end, HostInv(m, end), NEW blocks, NEW at \in Int, NEW pages \in Nat \ {0}, NEW ended,
           ~IsAllocated(m, blocks, ended), Room(m, at, pages)
    PROVE  BackBlock(m, blocks, at, pages, ended).outcome = "ok"
<1> DEFINE after == [m EXCEPT !.blocks = blocks]
           host == SlabReserve(m.objects, pages)
           before == [after EXCEPT !.objects = host.objects]
<1>1. PICK n \in 1 .. HostPages : m.objects = SlabObjects(0, n)
  BY DEF HostInv, SlabInv
<1>2. /\ n \in Nat /\ Len(m.objects) = n /\ pages < n
      /\ \A i \in 1 .. n : m.objects[i] = n - i
  BY <1>1, SlabList, MemoryAssumption DEF Room
<1>3. host.pointer # Undefined
  <2>1. pages + 1 \in 1 .. n /\ ~(n < 2 \/ pages >= n)
    BY <1>2
  <2>2. host.pointer = m.objects[pages + 1]
    BY <1>2, <2>1 DEF SlabReserve
  <2>3. m.objects[pages + 1] = n - (pages + 1)
    BY <1>2, <2>1
  <2>4. QED BY <1>2, <2>1, <2>2, <2>3 DEF Undefined
<1>4. BackBlock(m, blocks, at, pages, ended) = AllocatorMap(before, at, host.pointer, pages)
  BY <1>3 DEF BackBlock
<1> HIDE DEF host
<1>5. Proper(before) /\ before.outcome = m.outcome
  BY DEF HostInv, Fields, Proper
<1> HIDE DEF before
<1>6. AllocatorMap(before, at, host.pointer, pages).outcome = before.outcome
  BY <1>5 DEF AllocatorMap, Fields, Proper
<1>7. QED BY <1>4, <1>5, <1>6 DEF Room

-----------------------------------------------------------------------------
(* Where Map puts a block. Each time it ends the insertion at a block that    *)
(* is not allocated, so what it leaves, if all went well, is backed.         *)

\* The state a call of Map starts from, and how it ends when a block can be put.
Puts(m, left, at, pages, blocks) ==
    /\ \/ left.blocks = m.blocks /\ left.mapping = m.mapping
       \/ left.blocks = blocks /\ CanAllocate(m, at, pages)
    /\ left.outcome = "ok" => left.blocks = blocks /\ m.outcome = "ok" /\ MapsAt(m, left, at, pages)

LEMMA BackBlockPuts ==
    ASSUME NEW m, NEW end, HostInv(m, end), NEW blocks, NEW at \in Int, NEW pages \in Nat \ {0}, NEW ended,
           CanAllocate(m, at, pages), ~IsAllocated(m, blocks, ended), m.outcome = "ok"
    PROVE  Puts(m, BackBlock(m, blocks, at, pages, ended), at, pages, blocks)
BY BackBlockOf DEF Puts

LEMMA FailPuts ==
    ASSUME NEW m, Proper(m), NEW at, NEW pages, NEW blocks
    PROVE  Puts(m, Fail(m, "exception"), at, pages, blocks)
BY FailOf DEF Puts, Outcomes, Untouched

\* At the block that is free up to the end.
LEMMA PutsAtFree ==
    ASSUME NEW m, NEW end, HostInv(m, end), NEW at, NEW new, new.pages \in Nat \ {0}, new.state # "Free",
           at \in Keys(m.blocks), end \in Keys(m.blocks), at + new.pages < end,
           \A k \in Keys(m.blocks) : k \in Nat /\ (k <= at \/ k = end), m.blocks[at].state = "Free"
    PROVE  /\ Puts(m, MapBlock(m, at, new), at, new.pages,
                   With(With(m.blocks, at + new.pages, Shrunk(m.blocks[at], new.pages)), at, new))
           /\ Room(m, at, new.pages) => MapBlock(m, at, new).outcome = "ok"
<1> DEFINE b == m.blocks
           pages == new.pages
           blocks == With(With(b, at + pages, Shrunk(b[at], pages)), at, new)
<1>1. at \in Nat /\ end \in Nat /\ pages \in Nat \ {0} /\ at + pages \in Nat /\ at < end
  OBVIOUS
<1>2. \A k \in Keys(b) : k \in Nat /\ k <= end
  BY <1>1
<1>3. LowerBound(b, at) = at
  BY <1>1, <1>2, LowerBoundIs
<1>4. LowerBound(b, at + pages) = end
  <2>1. at + pages <= end /\ at < at + pages
    BY <1>1
  <2>2. ASSUME NEW k \in Keys(b), at + pages <= k PROVE end <= k
    <3>1. k \in Nat /\ (k <= at \/ k = end)
      OBVIOUS
    <3> HIDE DEF pages
    <3>2. QED BY <1>1, <2>1, <2>2, <3>1
  <2>3. QED BY <1>1, <1>2, <2>1, <2>2, LowerBoundIs
<1>5. EndKey(b) = end
  BY <1>2, EndKeyIs
<1>6. ~IsAllocated(m, b, at)
  BY NotAllocated
<1>7. SplitBlocks(m, at, new, at, end) = blocks
  BY <1>1, <1>6 DEF SplitBlocks
<1>8. CASE m.outcome # "ok"
  <2>1. MapBlock(m, at, new) = m
    BY <1>8 DEF MapBlock
  <2>2. QED BY <1>8, <2>1 DEF Puts, Room
<1>9. CASE m.outcome = "ok" /\ ~CanAllocate(m, at, pages)
  <2>1. MapBlock(m, at, new) = Fail(m, "exception")
    BY <1>9 DEF MapBlock
  <2>2. QED BY <1>9, <2>1, FailPuts DEF HostInv, Room
<1>10. CASE m.outcome = "ok" /\ CanAllocate(m, at, pages)
  <2>1. blocks[at] = new
    BY WithIs
  <2>2. ~IsAllocated(m, blocks, at)
    BY <1>10, <2>1, NotAllocated
  <2> HIDE DEF blocks
  <2>3. MapBlock(m, at, new) = BackBlock(m, blocks, at, pages, at)
    BY <1>1, <1>3, <1>4, <1>5, <1>7, <1>10 DEF MapBlock
  <2>4. at \in Int
    BY <1>1
  <2>5. Room(m, at, pages) => BackBlock(m, blocks, at, pages, at).outcome = "ok"
    BY <2>2, <2>4, BackBlockGoes
  <2>6. QED BY <1>10, <2>2, <2>3, <2>4, <2>5, BackBlockPuts DEF blocks
<1>11. QED BY <1>8, <1>9, <1>10

BlockFields == {"pages", "state", "perm"}

\* The insertion of a block changes one other block: the one that the pages are taken
\* from, or that holds what is left of it behind the new one.
Rearranged(b, blocks, at, new, donor) ==
    /\ Keys(blocks) = Keys(b) \cup {donor, at} /\ donor \in Nat /\ donor # at /\ blocks[at] = new
    /\ \A k \in Keys(b) \ {donor, at} : blocks[k] = b[k]
    /\ \A k \in Keys(b) : k <= at \/ at + new.pages <= k
    /\ \/ /\ donor \in Keys(b) /\ blocks[donor].state = b[donor].state
          /\ b[donor].pages \in Int /\ blocks[donor].pages = b[donor].pages - new.pages
       \/ /\ donor \notin Keys(b) /\ donor = at + new.pages
          /\ blocks[donor].state = "Free"
PutsBlock(m, left, at, new) ==
    \E blocks, donor : Rearranged(m.blocks, blocks, at, new, donor) /\ Puts(m, left, at, new.pages, blocks)

LEMMA ShrunkIs ==
    ASSUME NEW block, DOMAIN block = BlockFields, NEW pages
    PROVE  /\ DOMAIN Shrunk(block, pages) = BlockFields /\ Shrunk(block, pages).state = block.state
           /\ Shrunk(block, pages).pages = block.pages - pages
BY DEF Shrunk, BlockFields

LEMMA RearrangedWith ==
    ASSUME NEW b, NEW at \in Nat, NEW new, NEW low, low \in Keys(b), low \in Nat, low # at,
           DOMAIN b[low] = BlockFields, b[low].pages \in Int,
           \A k \in Keys(b) : k <= at \/ at + new.pages <= k
    PROVE  Rearranged(b, With(With(b, low, Shrunk(b[low], new.pages)), at, new), at, new, low)
<1> DEFINE rest == Shrunk(b[low], new.pages)
           c == With(b, low, rest)
           blocks == With(c, at, new)
<1> HIDE DEF rest
<1>1. Keys(c) = Keys(b) \cup {low} /\ c[low] = rest /\ \A k \in Keys(b) : k # low => c[k] = b[k]
  BY WithIs
<1>2. rest.state = b[low].state /\ rest.pages = b[low].pages - new.pages
  BY ShrunkIs DEF rest
<1> HIDE DEF c
<1>3. /\ Keys(blocks) = Keys(c) \cup {at} /\ blocks[at] = new
      /\ \A k \in Keys(c) : k # at => blocks[k] = c[k]
  <2>1. Keys(blocks) = Keys(c) \cup {at}
    BY WithIs
  <2>2. blocks[at] = new
    BY WithIs
  <2>3. \A k \in Keys(c) : k # at => blocks[k] = c[k]
    BY WithIs
  <2>4. QED BY <2>1, <2>2, <2>3
<1> HIDE DEF blocks
<1>4. blocks[low] = rest /\ \A k \in Keys(b) \ {low, at} : blocks[k] = b[k]
  BY <1>1, <1>3
<1>5. Keys(blocks) = Keys(b) \cup {low, at}
  BY <1>1, <1>3
<1>6. Rearranged(b, blocks, at, new, low)
  BY <1>2, <1>3, <1>4, <1>5 DEF Rearranged
<1>7. QED BY <1>6 DEF blocks, c, rest

LEMMA RearrangedBehind ==
    ASSUME NEW b, NEW at \in Nat, NEW new, new.pages \in Nat \ {0}, at \in Keys(b),
           at + new.pages \notin Keys(b), DOMAIN b[at] = BlockFields, b[at].state = "Free",
           \A k \in Keys(b) : k <= at \/ at + new.pages <= k
    PROVE  Rearranged(b, With(With(b, at + new.pages, Shrunk(b[at], new.pages)), at, new), at, new,
                      at + new.pages)
<1> DEFINE next == at + new.pages
           rest == Shrunk(b[at], new.pages)
           c == With(b, next, rest)
           blocks == With(c, at, new)
<1>1. Keys(c) = Keys(b) \cup {next} /\ c[next] = rest /\ \A k \in Keys(b) : k # next => c[k] = b[k]
  BY WithIs
<1>2. rest.state = "Free"
  BY ShrunkIs
<1>3. next \in Nat /\ next # at /\ next \notin Keys(b) /\ next = at + new.pages
  OBVIOUS
<1> HIDE DEF c, rest, next
<1>4. /\ Keys(blocks) = Keys(c) \cup {at} /\ blocks[at] = new
      /\ \A k \in Keys(c) : k # at => blocks[k] = c[k]
  BY WithIs
<1> HIDE DEF blocks
<1>5. blocks[next] = rest /\ \A k \in Keys(b) \ {next, at} : blocks[k] = b[k]
  BY <1>1, <1>3, <1>4
<1>6. Keys(blocks) = Keys(b) \cup {next, at}
  BY <1>1, <1>4
<1>7. Rearranged(b, blocks, at, new, next)
  BY <1>2, <1>3, <1>4, <1>5, <1>6 DEF Rearranged
<1>8. QED BY <1>7 DEF blocks, c, rest, next

\* Within the block that is free up to the end.
LEMMA PutsInFree ==
    ASSUME NEW m, NEW end, HostInv(m, end), NEW at \in Nat, NEW new, new.pages \in Nat \ {0},
           NEW low, low \in Keys(m.blocks), end \in Keys(m.blocks), low < at, at + new.pages <= end,
           \A k \in Keys(m.blocks) : k \in Nat /\ (k <= low \/ k = end), m.blocks[low].state = "Free",
           DOMAIN m.blocks[low] = BlockFields
    PROVE  /\ Puts(m, MapBlock(m, at, new), at, new.pages,
                   With(With(m.blocks, low, Shrunk(m.blocks[low], new.pages)), at, new))
           /\ Room(m, at, new.pages) => MapBlock(m, at, new).outcome = "ok"
<1> DEFINE b == m.blocks
           pages == new.pages
           blocks == With(With(b, low, Shrunk(b[low], pages)), at, new)
<1>1. /\ low \in Nat /\ end \in Nat /\ pages \in Nat \ {0} /\ at + pages \in Nat
      /\ low < end /\ low + pages < end /\ at <= end
  OBVIOUS
<1>2. \A k \in Keys(b) : k \in Nat /\ k <= end
  BY <1>1
<1>3. LowerBound(b, at) = end
  <2>1. \A k \in Keys(b) : at <= k => end <= k
    BY <1>1
  <2>2. QED BY <1>1, <1>2, <2>1, LowerBoundIs
<1>4. LowerBound(b, at + pages) = end
  <2>1. \A k \in Keys(b) : at + pages <= k => end <= k
    BY <1>1
  <2>2. QED BY <1>1, <1>2, <2>1, LowerBoundIs
<1>5. EndKey(b) = end /\ Before(b, end) = low
  BY <1>1, <1>2, EndKeyIs, BeforeIs
<1>6. ~IsAllocated(m, b, low)
  BY NotAllocated
<1>7. SplitBlocks(m, at, new, low, end) = blocks
  BY <1>1, <1>6 DEF SplitBlocks
<1>8. CASE m.outcome # "ok"
  <2>1. MapBlock(m, at, new) = m
    BY <1>8 DEF MapBlock
  <2>2. QED BY <1>8, <2>1 DEF Puts, Room
<1>9. CASE m.outcome = "ok" /\ ~CanAllocate(m, at, pages)
  <2>1. MapBlock(m, at, new) = Fail(m, "exception")
    BY <1>9 DEF MapBlock
  <2>2. QED BY <1>9, <2>1, FailPuts DEF HostInv, Room
<1>10. CASE m.outcome = "ok" /\ CanAllocate(m, at, pages)
  <2>1. blocks[low].state = "Free"
    <3> DEFINE c == With(b, low, Shrunk(b[low], pages))
    <3>1. low \in Keys(c) /\ c[low] = Shrunk(b[low], pages)
      BY WithIs
    <3> HIDE DEF c
    <3>2. With(c, at, new)[low] = c[low]
      BY <1>1, <3>1, WithIs
    <3>3. QED BY <3>1, <3>2, ShrunkIs DEF c
  <2>2. ~IsAllocated(m, blocks, low)
    BY <2>1, NotAllocated
  <2> HIDE DEF blocks
  <2>3. MapBlock(m, at, new) = BackBlock(m, blocks, at, pages, low)
    BY <1>1, <1>3, <1>4, <1>5, <1>7, <1>10 DEF MapBlock
  <2>4. at \in Int
    OBVIOUS
  <2>5. Room(m, at, pages) => BackBlock(m, blocks, at, pages, low).outcome = "ok"
    BY <2>2, <2>4, BackBlockGoes
  <2>6. QED BY <1>10, <2>2, <2>3, <2>4, <2>5, BackBlockPuts DEF blocks
<1>11. QED BY <1>8, <1>9, <1>10

\* In front of an allocated block: the pages come from the block before that one.
LEMMA PutsBefore ==
    ASSUME NEW m, NEW end, HostInv(m, end), NEW at \in Nat, NEW new, new.pages \in Nat \ {0}, new.state # "Free",
           NEW low, NEW key, low \in Keys(m.blocks), key \in Keys(m.blocks), end \in Keys(m.blocks),
           low < key, at + new.pages <= key, key < end,
           \A k \in Keys(m.blocks) : k \in Nat /\ k <= end /\ (k <= low \/ key <= k), low < at,
           IsAllocated(m, m.blocks, key)
    PROVE  /\ Puts(m, MapBlock(m, at, new), at, new.pages,
                   With(With(m.blocks, low, Shrunk(m.blocks[low], new.pages)), at, new))
           /\ MapBlock(m, at, new).outcome = "ok" => ~FewerThan(m.blocks[low].pages, new.pages)
           /\ Room(m, at, new.pages) /\ ~FewerThan(m.blocks[low].pages, new.pages)
              => MapBlock(m, at, new).outcome = "ok"
<1> DEFINE b == m.blocks
           pages == new.pages
           blocks == With(With(b, low, Shrunk(b[low], pages)), at, new)
<1>1. /\ low \in Nat /\ end \in Nat /\ key \in Nat /\ pages \in Nat \ {0} /\ at + pages \in Nat
      /\ at <= key /\ at + pages <= end /\ at <= end
  OBVIOUS
<1>2. \A k \in Keys(b) : k \in Nat /\ k <= end
  OBVIOUS
<1>3. LowerBound(b, at) = key
  <2>1. \A k \in Keys(b) : at <= k => key <= k
    BY <1>1
  <2>2. QED BY <1>1, <1>2, <2>1, LowerBoundIs
<1>4. LowerBound(b, at + pages) = key
  <2>1. \A k \in Keys(b) : at + pages <= k => key <= k
    BY <1>1
  <2>2. QED BY <1>1, <1>2, <2>1, LowerBoundIs
<1>5. EndKey(b) = end
  BY <1>1, <1>2, EndKeyIs
<1>6. Before(b, key) = low
  <2>1. \A k \in Keys(b) : k < key => k <= low
    BY <1>1
  <2>2. QED BY <1>1, <1>2, <2>1, BeforeIs
<1>7. CASE m.outcome # "ok"
  <2>1. MapBlock(m, at, new) = m
    BY <1>7 DEF MapBlock
  <2>2. QED BY <1>7, <2>1 DEF Puts, Room
<1>8. CASE m.outcome = "ok" /\ (~CanAllocate(m, at, pages) \/ FewerThan(b[low].pages, pages))
  <2>1. MapBlock(m, at, new) = Fail(m, "exception")
    BY <1>1, <1>3, <1>4, <1>5, <1>6, <1>8 DEF MapBlock
  <2>2. Fail(m, "exception").outcome # "ok"
    BY FailOf DEF HostInv, Outcomes
  <2>3. QED BY <1>8, <2>1, <2>2, FailPuts DEF HostInv, Room
<1>9. CASE m.outcome = "ok" /\ CanAllocate(m, at, pages) /\ ~FewerThan(b[low].pages, pages)
  <2>1. blocks[at] = new
    BY WithIs
  <2>2. ~IsAllocated(m, blocks, at)
    BY <1>9, <2>1, NotAllocated
  <2>3. MapBlock(m, at, new) = BackBlock(m, blocks, at, pages, at)
    BY <1>1, <1>3, <1>4, <1>5, <1>6, <1>9 DEF MapBlock
  <2> HIDE DEF blocks
  <2>4. at \in Int
    OBVIOUS
  <2>5. Room(m, at, pages) => BackBlock(m, blocks, at, pages, at).outcome = "ok"
    BY <2>2, <2>4, BackBlockGoes
  <2>6. QED BY <1>9, <2>2, <2>3, <2>4, <2>5, BackBlockPuts DEF blocks
<1>10. QED BY <1>7, <1>8, <1>9

\* What one more call leaves that changes no block.
LEMMA PutsThen ==
    ASSUME NEW m, NEW mid, NEW left, NEW at, NEW pages, NEW blocks, Puts(m, mid, at, pages, blocks),
           Untouched(mid, left), left.blocks = mid.blocks, left.outcome = "ok" => mid.outcome = "ok"
    PROVE  Puts(m, left, at, pages, blocks)
BY DEF Puts, Untouched, MapsAt

LEMMA MapSegmentPuts ==
    ASSUME NEW m, NEW end, HostInv(m, end), NEW at \in Int, NEW pages \in Nat \ {0}, NEW kind, NEW blocks,
           Puts(m, MapBlock(m, at, Block(pages, kind)), at, pages, blocks)
    PROVE  /\ Puts(m, MapSegment(m, at, pages, kind), at, pages, blocks)
           /\ MapSegment(m, at, pages, kind).outcome = "ok" <=> MapBlock(m, at, Block(pages, kind)).outcome = "ok"
<1> DEFINE mid == MapBlock(m, at, Block(pages, kind))
           left == WriteMemory(mid, at, pages)
<1>1. MapSegment(m, at, pages, kind) = left
  BY MapSegmentOf
<1>2. Proper(mid)
  <2>1. Block(pages, kind).pages = pages
    BY DEF Block
  <2>2. QED BY <2>1, MapBlockOf DEF Maps
<1> HIDE DEF mid
<1>3. Untouched(mid, left) /\ left.blocks = mid.blocks /\ (left.outcome = "ok" => mid.outcome = "ok")
  BY <1>2, WriteMemoryOf
<1>4. Puts(m, mid, at, pages, blocks)
  BY DEF mid
<1>5. mid.outcome = "ok" => left.outcome = "ok"
  <2>1. SUFFICES ASSUME mid.outcome = "ok" PROVE left = mid
    OBVIOUS
  <2>2. Span(at, pages) \subseteq mid.writable
    BY <1>4, <2>1 DEF Puts, MapsAt
  <2>3. QED BY <2>2 DEF WriteMemory
<1> HIDE DEF left
<1>6. QED BY <1>1, <1>3, <1>4, <1>5, PutsThen DEF mid

LEMMA DelimitTablePuts ==
    ASSUME NEW m, NEW mid, Proper(mid), NEW at, NEW pages, NEW blocks, NEW type, Puts(m, mid, at, pages, blocks)
    PROVE  Puts(m, DelimitTable(mid, type, at, pages), at, pages, blocks)
<1> DEFINE left == DelimitTable(mid, type, at, pages)
<1>1. Untouched(mid, left) /\ left.blocks = mid.blocks /\ left.outcome = mid.outcome
  BY DelimitTableOf
<1> HIDE DEF left
<1>2. Puts(m, left, at, pages, blocks)
  BY <1>1, PutsThen
<1>3. QED BY <1>2 DEF left

-----------------------------------------------------------------------------
(* What Map leaves of the blocks below an edge, wherever it puts its block    *)
(* from the edge on.                                                        *)

LEMMA Greatest ==
    ASSUME NEW S, S \subseteq Nat, S # {}, NEW top \in Nat, \A s \in S : s <= top
    PROVE  \E s \in S : \A t \in S : t <= s
<1> DEFINE left == {top - s : s \in S}
<1>1. left \subseteq Nat /\ left # {}
  <2>1. \A s \in S : top - s \in Nat
    OBVIOUS
  <2>2. QED BY <2>1
<1>2. PICK least \in left : \A other \in left : least <= other
  BY <1>1, Smallest
<1>3. PICK s \in S : least = top - s
  BY <1>2
<1>4. ASSUME NEW t \in S PROVE t <= s
  <2>1. top - t \in left /\ s \in Nat /\ t \in Nat
    OBVIOUS
  <2>2. top - s <= top - t
    BY <1>2, <1>3, <2>1
  <2>3. QED BY <2>1, <2>2
<1>5. QED BY <1>4

LEMMA LowerBoundIn ==
    ASSUME NEW b, NEW end, end \in Keys(b), \A k \in Keys(b) : k \in Nat /\ k <= end,
           NEW at \in Nat, at <= end
    PROVE  LowerBound(b, at) \in Keys(b) /\ at <= LowerBound(b, at)
<1> DEFINE S == {k \in Keys(b) : at <= k}
<1>1. S \subseteq Nat /\ end \in S
  OBVIOUS
<1>2. PICK key \in S : \A k \in S : key <= k
  BY <1>1, Smallest
<1>3. LowerBound(b, at) = key
  BY <1>2, LowerBoundIs
<1>4. QED BY <1>2, <1>3

LEMMA BeforeIn ==
    ASSUME NEW b, \A k \in Keys(b) : k \in Nat, NEW at \in Nat, NEW low \in Keys(b), low < at
    PROVE  Before(b, at) \in Keys(b) /\ low <= Before(b, at)
<1> DEFINE S == {k \in Keys(b) : k < at}
<1>1. S \subseteq Nat /\ low \in S /\ \A k \in S : k <= at
  OBVIOUS
<1>2. PICK key \in S : \A k \in S : k <= key
  BY <1>1, Greatest
<1>3. Before(b, at) = key
  BY <1>2, BeforeIs
<1>4. QED BY <1>1, <1>2, <1>3

\* A map of blocks with the end marker; another key may be behind that, if Map had to
\* split a block it should not have.
Blocked(b, end) ==
    /\ end \in Keys(b) /\ \A k \in Keys(b) : k \in Nat /\ DOMAIN b[k] = BlockFields
    /\ \E top \in Keys(b) : \A k \in Keys(b) : k <= top

\* From the block at the edge on, Map finds one to take pages from.
Anchor(b, edge) ==
    edge \in Keys(b) /\ (b[edge].state = "Free" \/ \E low \in Keys(b) : low < edge)

\* The blocks below the edge are the same, but for the pages taken from them.
BlocksStay(b, left, edge) ==
    /\ Keys(b) \subseteq Keys(left)
    /\ \A k \in Keys(left) : k < edge => k \in Keys(b) /\ left[k].perm = b[k].perm

LEMMA WithStays ==
    ASSUME NEW b, NEW end, Blocked(b, end), NEW edge \in Nat, NEW low \in Keys(b), NEW pages,
           NEW x \in Nat, NEW y \in Nat, x = low \/ edge <= x, edge <= y, NEW new, DOMAIN new = BlockFields
    PROVE  LET left == With(With(b, x, Shrunk(b[low], pages)), y, new)
           IN  Blocked(left, end) /\ BlocksStay(b, left, edge)
<1> DEFINE rest == Shrunk(b[low], pages)
           c == With(b, x, rest)
           left == With(c, y, new)
<1>1. DOMAIN rest = BlockFields /\ rest.perm = b[low].perm
  BY DEF Shrunk, Blocked, BlockFields
<1> HIDE DEF rest
<1>2. Keys(c) = Keys(b) \cup {x} /\ c[x] = rest /\ \A k \in Keys(b) : k # x => c[k] = b[k]
  BY WithIs
<1> HIDE DEF c
<1>3. Keys(left) = Keys(c) \cup {y} /\ left[y] = new /\ \A k \in Keys(c) : k # y => left[k] = c[k]
  <2>1. Keys(left) = Keys(c) \cup {y}
    BY WithIs
  <2>2. left[y] = new
    BY WithIs
  <2>3. \A k \in Keys(c) : k # y => left[k] = c[k]
    BY WithIs
  <2>4. QED BY <2>1, <2>2, <2>3
<1> HIDE DEF left
<1>4. Keys(left) = Keys(b) \cup {x, y}
  BY <1>2, <1>3
<1>5. \A k \in Keys(left) : k \in Nat /\ DOMAIN left[k] = BlockFields
  BY <1>1, <1>2, <1>3 DEF Blocked
<1>6. \E top \in Keys(left) : \A k \in Keys(left) : k <= top
  <2>1. PICK top \in Keys(b) : \A k \in Keys(b) : k <= top
    BY DEF Blocked
  <2>2. top + x + y \in Nat /\ \A k \in Keys(left) : k <= top + x + y
    BY <1>4, <2>1 DEF Blocked
  <2>3. Keys(left) \subseteq Nat /\ Keys(left) # {}
    BY <1>4, <1>5
  <2>4. QED BY <2>2, <2>3, Greatest
<1>7. ASSUME NEW k \in Keys(left), k < edge PROVE k \in Keys(b) /\ left[k].perm = b[k].perm
  <2>1. k # y /\ k \in Nat
    BY <1>5, <1>7
  <2>2. CASE k = x
    BY <1>1, <1>2, <1>3, <1>7, <2>1, <2>2
  <2>3. CASE k # x
    BY <1>2, <1>3, <1>4, <2>1, <2>3
  <2>4. QED BY <2>2, <2>3
<1>8. Blocked(left, end)
  BY <1>4, <1>5, <1>6 DEF Blocked
<1>9. BlocksStay(b, left, edge)
  BY <1>4, <1>7 DEF BlocksStay
<1>10. QED BY <1>8, <1>9 DEF left, c, rest

LEMMA MapBlockStays ==
    ASSUME NEW m, NEW end, HostInv(m, end), Blocked(m.blocks, end), NEW edge \in Nat, Anchor(m.blocks, edge),
           NEW at \in Nat, edge <= at, NEW new, new.pages \in Nat \ {0}, DOMAIN new = BlockFields,
           at + new.pages <= end, MapBlock(m, at, new).outcome = "ok"
    PROVE  /\ m.outcome = "ok" /\ Blocked(MapBlock(m, at, new).blocks, end)
           /\ BlocksStay(m.blocks, MapBlock(m, at, new).blocks, edge)
<1> DEFINE b == m.blocks
           left == MapBlock(m, at, new)
           pages == new.pages
           found == LowerBound(b, at)
           first == IF found = EndKey(b) THEN Before(b, found) ELSE found
           last == LowerBound(b, at + pages)
           donor == IF IsAllocated(m, b, first) THEN Before(b, first) ELSE first
           shorter == With(With(b, donor, Shrunk(b[donor], pages)), at, new)
           split == SplitBlocks(m, at, new, first, last)
<1>1. \A k \in Keys(b) : k \in Nat
  BY DEF Blocked
<1>2. PICK top \in Keys(b) : \A k \in Keys(b) : k <= top
  BY DEF Blocked
<1>3. end \in Nat /\ top \in Nat /\ at < top /\ EndKey(b) = top /\ edge \in Keys(b)
  <2>1. end \in Nat /\ end <= top /\ top \in Nat
    BY <1>1, <1>2 DEF Blocked
  <2>2. at < top
    BY <2>1
  <2>3. EndKey(b) = top
    BY <1>1, <1>2, EndKeyIs
  <2>4. QED BY <2>1, <2>2, <2>3 DEF Anchor
<1>4. found \in Keys(b) /\ at <= found /\ found \in Nat
  <2>1. at <= top
    BY <1>3
  <2>2. QED BY <1>1, <1>2, <2>1, LowerBoundIn
<1> HIDE DEF found
<1>5. first \in Keys(b) /\ edge <= first
  <2>1. CASE found = top
    <3>1. first = Before(b, top)
      BY <1>3, <2>1
    <3>2. edge < top
      BY <1>3
    <3>3. QED BY <1>1, <1>3, <3>1, <3>2, BeforeIn
  <2>2. CASE found # top
    BY <1>1, <1>3, <1>4, <2>2
  <2>3. QED BY <2>1, <2>2
<1> HIDE DEF first
<1>6. first \in Nat
  BY <1>1, <1>5
<1>7. donor \in Keys(b) /\ donor \in Nat
  <2>1. ASSUME IsAllocated(m, b, first) PROVE Before(b, first) \in Keys(b)
    <3>1. \E low \in Keys(b) : low < first
      <4>1. b[first].state # "Free"
        BY <2>1 DEF IsAllocated
      <4>2. CASE first = edge
        BY <4>1, <4>2 DEF Anchor
      <4>3. CASE first # edge
        <5>1. edge < first
          BY <1>5, <1>6, <4>3
        <5>2. QED BY <1>3, <5>1
      <4>4. QED BY <4>2, <4>3
    <3>2. QED BY <1>1, <1>6, <3>1, BeforeIn
  <2>2. QED BY <1>1, <1>5, <2>1
<1> HIDE DEF donor, last
<1>8. Blocked(shorter, end) /\ BlocksStay(b, shorter, edge)
  BY <1>7, WithStays
<1>9. Blocked(split, end) /\ BlocksStay(b, split, edge)
  <2> DEFINE Good(c) == Blocked(c, end) /\ BlocksStay(b, c, edge)
             rest == Shrunk(b[first], pages)
  <2>1. at + pages \in Nat /\ edge <= at + pages /\ first + pages \in Nat /\ edge <= first + pages
    BY <1>5, <1>6
  <2>2. Good(With(With(b, first, rest), at, new))
    BY <1>5, <1>6, WithStays
  <2>3. Good(With(With(b, at + pages, rest), first, new))
    BY <1>5, <1>6, <2>1, WithStays
  <2>4. Good(With(With(b, first, rest), first + pages, new))
    BY <1>5, <1>6, <2>1, WithStays
  <2> HIDE DEF rest, Good
  <2>5. \/ split = With(With(b, first, rest), at, new)
        \/ split = With(With(b, at + pages, rest), first, new)
        \/ split = With(With(b, first, rest), first + pages, new)
    BY DEF SplitBlocks, rest
  <2> HIDE DEF split
  <2>6. Good(split)
    BY <2>2, <2>3, <2>4, <2>5
  <2>7. QED BY <2>6 DEF Good
<1>10. /\ m.outcome = "ok" /\ CanAllocate(m, at, pages)
       /\ \/ left = BackBlock(m, shorter, at, pages, at)
          \/ left = BackBlock(m, split, at, pages, first)
  <2>1. Fail(m, "exception").outcome # "ok"
    BY FailOf DEF HostInv, Outcomes
  <2>2. QED BY <2>1 DEF MapBlock, found, first, last, donor
<1> HIDE DEF shorter, split
<1>11. left.blocks = shorter \/ left.blocks = split
  <2>1. at \in Int
    OBVIOUS
  <2>2. QED BY <1>10, <2>1, BackBlockOf
<1>12. QED BY <1>8, <1>9, <1>10, <1>11

-----------------------------------------------------------------------------
(* Sizes.                                                                   *)

LEMMA PagesOf ==
    /\ \A u \in Nat \ {0} : Pages(u) \in Nat \ {0}
    /\ \A u, v \in Nat : u <= v => Pages(u) <= Pages(v)
    /\ \A u \in Nat : Pages(u) \in Nat
BY DEF Pages, PageUnits

\* The segments of the address space, from the code on.
LEMMA SegmentsOf ==
    ASSUME NEW count \in Nat
    PROVE  /\ CodePages(count) \in Nat /\ count <= CodePages(count)
           /\ StackBegin(count) \in Nat /\ CodePages(count) < StackBegin(count)
           /\ TlsIoBegin(count) = StackBegin(count) + StackSegmentPages /\ TlsIoBegin(count) \in Nat
           /\ SpaceEnd(count) = TlsIoBegin(count) + TlsIoPages /\ SpaceEnd(count) \in Nat
           /\ count < StackBegin(count) /\ StackBegin(count) < TlsIoBegin(count)
           /\ TlsIoBegin(count) < SpaceEnd(count)
<1>1. /\ RegionPages \in Nat \ {0} /\ AliasPages \in Nat /\ HeapPages \in Nat \ {0}
      /\ StackSegmentPages \in Nat \ {0} /\ TlsIoPages \in Nat \ {0}
  BY MemoryAssumption
<1> DEFINE x == count + RegionPages - 1
           q == x \div RegionPages
<1>2. x \in Nat
  BY <1>1
<1>3. q \in Nat /\ q * RegionPages <= x /\ x < q * RegionPages + RegionPages
  <2>1. x \in Nat /\ RegionPages \in Nat \ {0}
    BY <1>1, <1>2
  <2> HIDE DEF x
  <2>2. QED BY <2>1
<1> HIDE DEF q
<1>4. q * RegionPages \in Nat
  BY <1>1, <1>3
<1>5. count <= q * RegionPages
  BY <1>1, <1>3, <1>4
<1>6. CodePages(count) = q * RegionPages
  BY DEF CodePages, q
<1>7. StackBegin(count) = q * RegionPages + AliasPages + HeapPages
  BY <1>6 DEF StackBegin
<1>8. /\ TlsIoBegin(count) = StackBegin(count) + StackSegmentPages
      /\ SpaceEnd(count) = TlsIoBegin(count) + TlsIoPages
  BY DEF TlsIoBegin, SpaceEnd
<1>9. /\ StackBegin(count) \in Nat /\ q * RegionPages < StackBegin(count) /\ count < StackBegin(count)
  BY <1>1, <1>4, <1>5, <1>7
<1>10. QED BY <1>1, <1>4, <1>5, <1>6, <1>8, <1>9

LEMMA ModuleOf ==
    \A m \in Modules : /\ m.text \in Nat \ {0} /\ m.ro \in Nat \ {0} /\ m.data \in Nat \ {0}
                       /\ m.bss \in Nat /\ DataSpan(m) \in Nat \ {0}
BY LoaderAssumption DEF DataSpan

LEMMA SpaceOf ==
    ASSUME NEW count \in Nat
    PROVE  HostInv(InitializeForProcess(count), SpaceEnd(count)) /\ Backed(InitializeForProcess(count)) = {}
<1> DEFINE m == InitializeForProcess(count)
<1>1. /\ Proper(m) /\ m.objects = SlabObjects(0, HostPages) /\ m.allocs = {}
      /\ m.mapping = [p \in 0 .. SpaceEnd(count) - 1 |-> NoPage]
  BY DEF InitializeForProcess, Proper, Fields, Outcomes
<1>2. HostPages \in Nat /\ HostPages > 0
  BY MemoryAssumption
<1> HIDE DEF m
<1>3. Backed(m) = {}
  BY <1>1 DEF Backed
<1>4. m.mapping \in [0 .. SpaceEnd(count) - 1 -> -1 .. HostPages - 1]
  BY <1>1, <1>2 DEF NoPage
<1>5. SlabInv(m)
  BY <1>1, <1>2, <1>3 DEF SlabInv
<1>6. QED BY <1>1, <1>3, <1>4, <1>5 DEF HostInv, AllocInv, m

-----------------------------------------------------------------------------
(* The layout. Sections follow one another without a gap or an overlap.     *)

SectionRecords == [offset : Nat, size : Nat \ {0}, kind : {Text, Ro, Data}, module : Nat]

\* What the section takes in the image, and where the next one begins.
Units(s) == IF s.kind = Data THEN DataSpan(modules[s.module]) ELSE s.size
Following(i) == IF i = Len(procimage) THEN offset ELSE procimage[i + 1].offset

SectionInv(i) ==
    /\ procimage[i].module \in 1 .. Len(modules)
    /\ i \in 3 * procimage[i].module - 2 .. 3 * procimage[i].module
    /\ procimage[i].kind = PermissionOf(i - 3 * procimage[i].module + 2)
    /\ procimage[i].kind = Data => procimage[i].size = modules[procimage[i].module].data
    /\ procimage[i].offset + Pages(Units(procimage[i])) = Following(i)
    /\ Following(i) <= offset

LayoutInv ==
    /\ modules \in Seq(Modules) /\ offset \in Nat
    /\ procimage \in Seq(SectionRecords) /\ Len(procimage) = 3 * Len(modules)
    /\ (IF procimage = <<>> THEN offset ELSE procimage[1].offset) = 0
    /\ \A i \in 1 .. Len(procimage) : SectionInv(i)

\* The sizes of .bss that are left are those of the last modules.
BssInv ==
    /\ bsslayout \in Seq(Nat) /\ Len(bsslayout) <= Len(modules)
    /\ \A j \in 1 .. Len(bsslayout) :
          bsslayout[j] = modules[Len(modules) - Len(bsslayout) + j].bss

\* SetProcessMemory is at the section of the type it takes it for, or it has met a
\* module without .bss and takes every section for .data without .bss.
InStep ==
    /\ bintype = index - 3 * Current.module + 2
    /\ Len(bsslayout) = Len(modules) - Current.module + 1
OutOfStep == bintype > 2 /\ Len(bsslayout) > 0 /\ bsslayout[1] = 0

PlaceInv ==
    /\ phase \in {"layout", "map", "start", "run"} /\ debug \in BOOLEAN
    /\ index \in 1 .. Len(procimage) + 1 /\ bintype \in Nat
    /\ phase = "layout" => index = 1 /\ bintype = 0 /\ Len(bsslayout) = Len(modules)
    /\ phase = "map" /\ index <= Len(procimage) => InStep \/ OutOfStep

\* The page the next section begins at.
Reached == IF PastSections THEN offset ELSE Current.offset

\* What a section maps is no more than what it takes in the image.
LEMMA SectionFits ==
    ASSUME LayoutInv, BssInv, PlaceInv, phase = "map", index <= Len(procimage)
    PROVE  /\ index \in 1 .. Len(procimage) /\ Current \in SectionRecords /\ SectionInv(index)
           /\ SectionSize \in Nat \ {0} /\ Pages(SectionSize) \in Nat \ {0}
           /\ Current.offset + Pages(SectionSize) <= Following(index)
           /\ (InStep => SectionSize = Units(Current))
           /\ (BssSize # 0 => InStep /\ bintype = 2)
           /\ (OutOfStep => BssSize = 0) /\ BssSize \in Nat
           /\ (InStep /\ bintype = 2 => BssSize = modules[Current.module].bss)
<1>1. /\ index \in 1 .. Len(procimage) /\ Current \in SectionRecords /\ SectionInv(index)
      /\ (InStep \/ OutOfStep) /\ bintype \in Nat
  BY DEF LayoutInv, PlaceInv, Current
<1> DEFINE m == Current.module
<1>2. /\ m \in 1 .. Len(modules) /\ index \in 3 * m - 2 .. 3 * m /\ modules[m] \in Modules
      /\ Current.kind = PermissionOf(index - 3 * m + 2)
      /\ (Current.kind = Data => Current.size = modules[m].data)
      /\ Current.offset + Pages(Units(Current)) = Following(index)
      /\ Len(modules) \in Nat /\ index \in Nat
  BY <1>1 DEF SectionInv, LayoutInv, Current
<1>3. Current.size \in Nat \ {0} /\ Current.offset \in Nat
  BY <1>1 DEF SectionRecords
<1>4. DataSpan(modules[m]) = modules[m].data + modules[m].bss /\ modules[m].bss \in Nat
      /\ modules[m].data \in Nat
  BY <1>2, ModuleOf DEF DataSpan
<1>5. Units(Current) = IF Current.kind = Data THEN modules[m].data + modules[m].bss ELSE Current.size
  BY <1>4 DEF Units
<1> HIDE DEF m
<1>6. CASE OutOfStep
  <2>1. BssSize = 0
    <3>1. Head(bsslayout) = bsslayout[1]
      BY <1>6 DEF OutOfStep, BssInv
    <3>2. QED BY <1>6, <3>1 DEF BssSize, OutOfStep
  <2>2. SectionSize = Current.size
    BY <1>3, <2>1 DEF SectionSize
  <2>3. Units(Current) \in Nat /\ Current.size <= Units(Current)
    <3>1. CASE Current.kind = Data
      <4>1. Current.size = modules[m].data /\ Units(Current) = modules[m].data + modules[m].bss
        BY <1>2, <1>5, <3>1
      <4>2. QED BY <1>4, <4>1
    <3>2. CASE Current.kind # Data
      <4>1. Units(Current) = Current.size
        BY <1>5, <3>2
      <4>2. QED BY <1>3, <4>1
    <3>3. QED BY <3>1, <3>2
  <2>4. Pages(Current.size) <= Pages(Units(Current)) /\ Pages(Current.size) \in Nat \ {0}
        /\ Pages(Units(Current)) \in Nat
    BY <1>3, <2>3, PagesOf
  <2>5. ~InStep
    BY <1>2, <1>6 DEF InStep, OutOfStep, m
  <2>6. QED BY <1>1, <1>2, <1>3, <2>1, <2>2, <2>4, <2>5
<1>7. CASE InStep
  <2>1. bintype = index - 3 * m + 2 /\ bintype \in 0 .. 2 /\ Len(bsslayout) = Len(modules) - m + 1
    <3>1. bintype = index - 3 * m + 2 /\ Len(bsslayout) = Len(modules) - m + 1
      BY <1>7 DEF InStep, m
    <3>2. m \in Nat /\ index \in Nat /\ 3 * m - 2 <= index /\ index <= 3 * m
      BY <1>2
    <3>3. QED BY <3>1, <3>2
  <2>2. Current.kind = PermissionOf(bintype)
    BY <1>2, <2>1
  <2>3. PermissionOf(bintype) = Data <=> bintype = 2
    BY <2>1 DEF PermissionOf, Text, Ro, Data
  <2>4. Head(bsslayout) = modules[m].bss
    <3>1. Len(bsslayout) > 0 /\ Head(bsslayout) = bsslayout[1]
      BY <1>2, <2>1 DEF BssInv
    <3>2. bsslayout[1] = modules[Len(modules) - Len(bsslayout) + 1].bss
      BY <3>1 DEF BssInv
    <3>3. Len(modules) - Len(bsslayout) + 1 = m
      BY <1>2, <2>1 DEF BssInv, LayoutInv
    <3>4. QED BY <3>1, <3>2, <3>3
  <2>5. BssSize = (IF bintype = 2 THEN modules[m].bss ELSE 0) /\ BssSize \in Nat
    BY <1>4, <2>3, <2>4 DEF BssSize
  <2>6. SectionSize = Units(Current)
    BY <1>2, <1>3, <1>4, <2>2, <2>3, <1>5, <2>5 DEF SectionSize
  <2>7. SectionSize \in Nat \ {0}
    BY <1>3, <2>5 DEF SectionSize
  <2>8. Pages(SectionSize) \in Nat \ {0}
    BY <2>7, PagesOf
  <2>9. ~OutOfStep
    BY <2>1 DEF OutOfStep
  <2>10. bintype = 2 => BssSize = modules[Current.module].bss
    BY <2>5 DEF m
  <2>11. QED BY <1>1, <1>2, <1>3, <1>7, <2>5, <2>6, <2>7, <2>8, <2>9, <2>10
<1>8. QED BY <1>1, <1>6, <1>7

-----------------------------------------------------------------------------
(* Each action keeps the layout and the place in it.                        *)

LEMMA InitLayout == ASSUME Init PROVE LayoutInv /\ BssInv /\ PlaceInv
BY DEF Init, LayoutInv, BssInv, PlaceInv

\* The three sections GetCodeSet appends end where the next module begins.
LEMMA GetCodeSetLayout ==
    ASSUME LayoutInv, BssInv, PlaceInv, NEW m \in Modules, GetCodeSet(m)
    PROVE  LayoutInv' /\ BssInv' /\ PlaceInv'
<1> DEFINE n == Len(procimage)
           k == Len(modules) + 1
           new == Sections(m, offset)
           ro == offset + Pages(m.text)
           data == ro + Pages(m.ro)
<1>1. /\ modules \in Seq(Modules) /\ offset \in Nat /\ procimage \in Seq(SectionRecords)
      /\ n = 3 * Len(modules) /\ n \in Nat /\ k \in Nat /\ \A i \in 1 .. n : SectionInv(i)
  BY DEF LayoutInv
<1>2. /\ modules' = Append(modules, m) /\ procimage' = procimage \o new
      /\ bsslayout' = Append(bsslayout, m.bss)
      /\ offset' = data + Pages(DataSpan(m)) /\ phase = "layout"
      /\ UNCHANGED <<debug, phase, index, bintype>>
  BY <1>1, PagesOf, ModuleOf DEF GetCodeSet
<1>3. /\ m.text \in Nat \ {0} /\ m.ro \in Nat \ {0} /\ m.data \in Nat \ {0} /\ m.bss \in Nat
      /\ DataSpan(m) \in Nat \ {0}
  BY ModuleOf
<1>4. Pages(m.text) \in Nat /\ Pages(m.ro) \in Nat /\ Pages(DataSpan(m)) \in Nat
  BY <1>3, PagesOf
<1>5. ro \in Nat /\ data \in Nat /\ offset' \in Nat
  <2>1. ro \in Nat
    BY <1>1, <1>4
  <2> HIDE DEF ro
  <2>2. data \in Nat
    BY <1>4, <2>1
  <2> HIDE DEF data
  <2>3. offset' \in Nat
    BY <1>2, <1>4, <2>2
  <2>4. QED BY <2>1, <2>2, <2>3
<1>6. /\ new[1] = [offset |-> offset, size |-> m.text, kind |-> Text, module |-> k]
      /\ new[2] = [offset |-> ro, size |-> m.ro, kind |-> Ro, module |-> k]
      /\ new[3] = [offset |-> data, size |-> m.data, kind |-> Data, module |-> k]
      /\ Len(new) = 3 /\ new \in Seq(SectionRecords)
  <2> HIDE DEF ro, data
  <2>1. Sections(m, offset) = <<[offset |-> offset, size |-> m.text, kind |-> Text, module |-> k],
                                [offset |-> ro, size |-> m.ro, kind |-> Ro, module |-> k],
                                [offset |-> data, size |-> m.data, kind |-> Data, module |-> k]>>
    BY DEF Sections, ro, data
  <2>2. /\ [offset |-> offset, size |-> m.text, kind |-> Text, module |-> k] \in SectionRecords
        /\ [offset |-> ro, size |-> m.ro, kind |-> Ro, module |-> k] \in SectionRecords
        /\ [offset |-> data, size |-> m.data, kind |-> Data, module |-> k] \in SectionRecords
    BY <1>1, <1>3, <1>5 DEF SectionRecords
  <2>3. QED BY <2>1, <2>2
<1> HIDE DEF new
<1>7. /\ procimage' \in Seq(SectionRecords) /\ Len(procimage') = n + 3
      /\ \A i \in 1 .. n : procimage'[i] = procimage[i]
      /\ \A i \in n + 1 .. n + 3 : procimage'[i] = new[i - n]
  <2> HIDE DEF n
  <2>1. Len(procimage) = n
    BY DEF n
  <2>2. /\ procimage \o new \in Seq(SectionRecords) /\ Len(procimage \o new) = n + 3
        /\ \A i \in 1 .. n + 3 : (procimage \o new)[i] = IF i <= n THEN procimage[i] ELSE new[i - n]
    <3>1. new \in Seq(SectionRecords) /\ procimage \in Seq(SectionRecords) /\ Len(new) = 3
      BY <1>1, <1>6
    <3>2. /\ procimage \o new \in Seq(SectionRecords)
          /\ Len(procimage \o new) = Len(procimage) + Len(new)
          /\ \A i \in 1 .. Len(procimage) + Len(new) : (procimage \o new)[i] =
                IF i <= Len(procimage) THEN procimage[i] ELSE new[i - Len(procimage)]
      BY <3>1, ConcatProperties, Zenon
    <3>3. QED BY <2>1, <3>1, <3>2
  <2>3. \A i \in n + 1 .. n + 3 : (procimage \o new)[i] = new[i - n]
    BY <1>1, <2>2
  <2>4. \A i \in 1 .. n : (procimage \o new)[i] = procimage[i]
    BY <1>1, <2>2
  <2>5. QED BY <1>2, <2>2, <2>3, <2>4
<1>8. /\ modules' \in Seq(Modules) /\ Len(modules') = k /\ modules'[k] = m
      /\ \A i \in 1 .. Len(modules) : modules'[i] = modules[i]
  BY <1>1, <1>2
<1>9. offset <= ro /\ ro <= data /\ data <= offset'
  BY <1>1, <1>2, <1>4
<1> HIDE DEF ro, data
<1>10. ASSUME NEW i \in 1 .. n PROVE SectionInv(i)'
  <2> DEFINE s == procimage[i]
  <2>1. /\ s.module \in 1 .. Len(modules) /\ i \in 3 * s.module - 2 .. 3 * s.module
        /\ s.kind = PermissionOf(i - 3 * s.module + 2)
        /\ (s.kind = Data => s.size = modules[s.module].data)
        /\ s.offset + Pages(Units(s)) = Following(i) /\ Following(i) <= offset
    BY <1>1 DEF SectionInv
  <2>2. procimage'[i] = s /\ Units(procimage[i])' = Units(s) /\ modules'[s.module] = modules[s.module]
    BY <1>7, <1>8, <2>1 DEF Units
  <2>3. Following(i)' = Following(i) /\ Following(i) \in Nat
    <3>1. CASE i = n
      <4>1. Following(i)' = procimage'[n + 1].offset
        BY <1>1, <1>7, <3>1 DEF Following
      <4>2. n + 1 \in n + 1 .. n + 3 /\ n + 1 - n = 1
        BY <1>1
      <4>3. procimage'[n + 1] = new[1]
        BY <1>7, <4>2
      <4>4. QED BY <1>1, <1>6, <3>1, <4>1, <4>3 DEF Following
    <3>2. CASE i # n
      <4>1. i + 1 \in 1 .. n /\ procimage[i + 1] \in SectionRecords
        BY <1>1, <3>2
      <4>2. procimage[i + 1].offset \in Nat /\ procimage'[i + 1] = procimage[i + 1]
        BY <1>7, <4>1 DEF SectionRecords
      <4>3. QED BY <1>1, <1>7, <3>2, <4>2 DEF Following
    <3>3. QED BY <3>1, <3>2
  <2>4. Following(i) <= offset'
    BY <1>1, <1>5, <1>9, <2>1, <2>3
  <2>5. s.module \in 1 .. Len(modules')
    BY <1>8, <2>1, <1>1
  <2>6. QED BY <2>1, <2>2, <2>3, <2>4, <2>5 DEF SectionInv
<1>11. ASSUME NEW i, i = n + 1 PROVE SectionInv(i)'
  <2>1. procimage'[i] = [offset |-> offset, size |-> m.text, kind |-> Text, module |-> k]
    <3>1. i \in n + 1 .. n + 3 /\ i - n = 1
      BY <1>1, <1>11
    <3>2. procimage'[i] = new[1]
      BY <1>7, <3>1
    <3>3. QED BY <1>6, <3>2
  <2>2. i - 3 * k + 2 = 0 /\ i \in 3 * k - 2 .. 3 * k
    BY <1>1, <1>11
  <2>3. Following(i)' = ro
    <3>1. Following(i)' = procimage'[i + 1].offset
      BY <1>1, <1>7, <1>11 DEF Following
    <3>2. PICK next : next = i + 1
      OBVIOUS
    <3>3. next \in n + 1 .. n + 3 /\ next - n = 2
      BY <1>1, <1>11, <3>2
    <3>4. procimage'[next] = new[2]
      BY <1>7, <3>3
    <3>5. QED BY <1>6, <3>1, <3>2, <3>4
  <2>4. Units(procimage[i])' = m.text
    BY <2>1 DEF Units, Text, Data
  <2>5. k \in 1 .. Len(modules') /\ Text = PermissionOf(0) /\ Text # Data
    BY <1>1, <1>8 DEF PermissionOf, Text, Data
  <2>6. QED BY <1>5, <1>9, <2>1, <2>2, <2>3, <2>4, <2>5 DEF SectionInv, ro
<1>12. ASSUME NEW i, i = n + 2 PROVE SectionInv(i)'
  <2>1. procimage'[i] = [offset |-> ro, size |-> m.ro, kind |-> Ro, module |-> k]
    <3>1. i \in n + 1 .. n + 3 /\ i - n = 2
      BY <1>1, <1>12
    <3>2. procimage'[i] = new[2]
      BY <1>7, <3>1
    <3>3. QED BY <1>6, <3>2
  <2>2. i - 3 * k + 2 = 1 /\ i \in 3 * k - 2 .. 3 * k
    BY <1>1, <1>12
  <2>3. Following(i)' = data
    <3>1. Following(i)' = procimage'[i + 1].offset
      BY <1>1, <1>7, <1>12 DEF Following
    <3>2. PICK next : next = i + 1
      OBVIOUS
    <3>3. next \in n + 1 .. n + 3 /\ next - n = 3
      BY <1>1, <1>12, <3>2
    <3>4. procimage'[next] = new[3]
      BY <1>7, <3>3
    <3>5. QED BY <1>6, <3>1, <3>2, <3>4
  <2>4. Units(procimage[i])' = m.ro
    BY <2>1 DEF Units, Ro, Data
  <2>5. k \in 1 .. Len(modules') /\ Ro = PermissionOf(1) /\ Ro # Data
    BY <1>1, <1>8 DEF PermissionOf, Ro, Data
  <2>6. QED BY <1>5, <1>9, <2>1, <2>2, <2>3, <2>4, <2>5 DEF SectionInv, data
<1>13. ASSUME NEW i, i = n + 3 PROVE SectionInv(i)'
  <2>1. procimage'[i] = [offset |-> data, size |-> m.data, kind |-> Data, module |-> k]
    <3>1. i \in n + 1 .. n + 3 /\ i - n = 3
      BY <1>1, <1>13
    <3>2. procimage'[i] = new[3]
      BY <1>7, <3>1
    <3>3. QED BY <1>6, <3>2
  <2>2. i - 3 * k + 2 = 2 /\ i \in 3 * k - 2 .. 3 * k
    BY <1>1, <1>13
  <2>3. Following(i)' = offset'
    BY <1>1, <1>7, <1>13 DEF Following
  <2>4. Units(procimage[i])' = DataSpan(m)
    BY <1>8, <2>1 DEF Units
  <2>5. k \in 1 .. Len(modules') /\ Data = PermissionOf(2)
    BY <1>1, <1>8 DEF PermissionOf, Data
  <2>6. QED BY <1>2, <1>5, <1>8, <1>9, <2>1, <2>2, <2>3, <2>4, <2>5 DEF SectionInv
<1>14. LayoutInv'
  <2>1. \A i \in 1 .. n + 3 : i \in 1 .. n \/ i = n + 1 \/ i = n + 2 \/ i = n + 3
    BY <1>1
  <2>2. \A i \in 1 .. n + 3 : SectionInv(i)'
    <3> SUFFICES ASSUME NEW i \in 1 .. n + 3 PROVE SectionInv(i)'
      OBVIOUS
    <3>1. QED BY <1>10, <1>11, <1>12, <1>13, <2>1
  <2>3. n + 3 = 3 * k
    BY <1>1
  <2>4. procimage'[1].offset = 0 /\ procimage' # <<>>
    <3>1. CASE procimage = <<>>
      <4>1. offset = 0 /\ n = 0
        BY <3>1 DEF LayoutInv
      <4>2. PICK i : i = 1
        OBVIOUS
      <4>3. i \in n + 1 .. n + 3 /\ i - n = 1
        BY <4>1, <4>2
      <4>4. procimage'[i] = new[1]
        BY <1>7, <4>3
      <4>5. QED BY <1>1, <1>6, <1>7, <4>1, <4>2, <4>4
    <3>2. CASE procimage # <<>>
      <4>1. 1 \in 1 .. n /\ procimage[1].offset = 0
        BY <1>1, <3>2 DEF LayoutInv
      <4>2. QED BY <1>1, <1>7, <4>1
    <3>3. QED BY <3>1, <3>2
  <2>5. QED BY <1>5, <1>7, <1>8, <2>2, <2>3, <2>4 DEF LayoutInv
<1>15. Len(bsslayout) = Len(modules) /\ bsslayout \in Seq(Nat)
       /\ \A j \in 1 .. Len(modules) : bsslayout[j] = modules[j].bss
  <2>1. Len(bsslayout) = Len(modules) /\ Len(modules) \in Nat /\ bsslayout \in Seq(Nat)
    BY <1>1, <1>2 DEF PlaceInv, BssInv
  <2>2. ASSUME NEW j \in 1 .. Len(modules) PROVE bsslayout[j] = modules[j].bss
    <3>1. Len(modules) - Len(bsslayout) + j = j
      BY <2>1
    <3>2. QED BY <2>1, <3>1 DEF BssInv
  <2>3. QED BY <2>1, <2>2
<1>16. BssInv'
  <2>1. /\ bsslayout' \in Seq(Nat) /\ Len(bsslayout') = k
        /\ bsslayout'[k] = m.bss /\ \A j \in 1 .. Len(modules) : bsslayout'[j] = bsslayout[j]
    BY <1>1, <1>2, <1>3, <1>15
  <2>2. \A j \in 1 .. k : bsslayout'[j] = modules'[j].bss
    <3> SUFFICES ASSUME NEW j \in 1 .. k PROVE bsslayout'[j] = modules'[j].bss
      OBVIOUS
    <3>1. CASE j = k
      BY <1>8, <2>1, <3>1
    <3>2. CASE j # k
      <4>1. j \in 1 .. Len(modules)
        BY <1>1, <3>2
      <4>2. QED BY <1>8, <1>15, <2>1, <4>1
    <3>3. QED BY <3>1, <3>2
  <2>3. ASSUME NEW j \in 1 .. Len(bsslayout')
        PROVE  bsslayout'[j] = modules'[Len(modules') - Len(bsslayout') + j].bss
    <3>1. Len(modules') - Len(bsslayout') + j = j /\ j \in 1 .. k
      BY <1>1, <1>8, <2>1
    <3>2. QED BY <2>2, <3>1
  <2>4. Len(bsslayout') <= Len(modules') /\ bsslayout' \in Seq(Nat)
    BY <1>1, <1>8, <2>1
  <2>5. QED BY <2>3, <2>4 DEF BssInv
<1>17. PlaceInv'
  <2>1. Len(bsslayout') = Len(modules')
    BY <1>1, <1>2, <1>8, <1>15
  <2>2. index = 1 /\ bintype = 0 /\ 1 \in 1 .. n + 3 + 1
    BY <1>1, <1>2 DEF PlaceInv
  <2>3. QED BY <1>2, <1>7, <2>1, <2>2 DEF PlaceInv
<1>18. QED BY <1>14, <1>16, <1>17

LEMMA LoadMemoryLayout ==
    ASSUME LayoutInv, BssInv, PlaceInv, LoadMemory
    PROVE  LayoutInv' /\ BssInv' /\ PlaceInv' /\ InStep' /\ Reached' = 0
<1>1. UNCHANGED <<debug, index, bintype, modules, procimage, bsslayout, offset>>
      /\ phase' = "map" /\ phase = "layout" /\ modules # <<>>
  BY DEF LoadMemory, layoutVars
<1>2. LayoutInv' /\ BssInv'
  BY <1>1 DEF LayoutInv, SectionInv, Following, Units, BssInv
<1>3. InStep'
  <2>1. Len(modules) \in Nat /\ Len(procimage) = 3 * Len(modules) /\ index = 1 /\ bintype = 0
        /\ Len(bsslayout) = Len(modules)
    BY <1>1 DEF LayoutInv, PlaceInv
  <2>2. Len(modules) > 0
    BY <1>1, <2>1 DEF LayoutInv
  <2>3. SectionInv(1)
    BY <2>1, <2>2 DEF LayoutInv
  <2>4. procimage[1].module = 1
    BY <2>3 DEF SectionInv
  <2>5. Current' = procimage[1]
    BY <1>1, <2>1 DEF Current
  <2>6. QED BY <1>1, <2>1, <2>4, <2>5 DEF InStep
<1>4. Reached' = 0
  <2>1. index = 1 /\ Len(procimage) >= 1 /\ procimage # <<>> /\ procimage[1].offset = 0
    BY <1>1 DEF LayoutInv, PlaceInv
  <2>2. QED BY <1>1, <2>1 DEF Reached, PastSections, Current
<1>5. QED BY <1>1, <1>2, <1>3, <1>4 DEF PlaceInv

LEMMA SetSectionLayout ==
    ASSUME LayoutInv, BssInv, PlaceInv, SetSection
    PROVE  /\ LayoutInv' /\ BssInv' /\ PlaceInv'
           /\ InStep /\ (BssSize # 0 \/ bintype # 2) /\ index' <= Len(procimage') => InStep'
<1>1. /\ phase = "map" /\ index <= Len(procimage) /\ index' = index + 1
      /\ UNCHANGED <<debug, phase, modules, procimage, offset>>
      /\ \/ BssSize = 0 /\ bintype' = bintype + 1 /\ bsslayout' = bsslayout
         \/ BssSize # 0 /\ bintype' = 0 /\ bsslayout' = Tail(bsslayout)
  BY DEF SetSection, EndOfModule
<1>2. LayoutInv'
  BY <1>1 DEF LayoutInv, SectionInv, Following, Units
<1> DEFINE m == Current.module
           L == Len(bsslayout)
<1>3. /\ index \in 1 .. Len(procimage) /\ SectionInv(index) /\ BssSize \in Nat
      /\ (BssSize # 0 => InStep /\ bintype = 2) /\ (InStep \/ OutOfStep)
      /\ (OutOfStep => BssSize = 0) /\ bintype \in Nat
  BY <1>1, SectionFits DEF PlaceInv
<1>4. /\ m \in 1 .. Len(modules) /\ index \in 3 * m - 2 .. 3 * m
      /\ Len(modules) \in Nat /\ L \in Nat /\ L <= Len(modules) /\ Len(procimage) = 3 * Len(modules)
  BY <1>3 DEF SectionInv, Current, LayoutInv, BssInv
<1> HIDE DEF m, L
<1>5. CASE BssSize # 0
  <2>1. index = 3 * m /\ L = Len(modules) - m + 1 /\ L > 0
    <3>1. InStep /\ bintype = 2
      BY <1>3, <1>5
    <3>2. 2 = index - 3 * m + 2 /\ L = Len(modules) - m + 1
      BY <3>1 DEF InStep, m, L
    <3>3. m \in Int /\ index \in Int /\ m <= Len(modules)
      BY <1>4
    <3>4. QED BY <1>4, <3>2, <3>3
  <2>2. /\ bsslayout' \in Seq(Nat) /\ Len(bsslayout') = L - 1
        /\ \A j \in 1 .. L - 1 : bsslayout'[j] = bsslayout[j + 1]
    <3>1. bsslayout \in Seq(Nat) /\ bsslayout # <<>> /\ Len(bsslayout) = L /\ bsslayout' = Tail(bsslayout)
      BY <1>1, <1>5, <2>1 DEF L, BssInv
    <3>2. QED BY <3>1
  <2>3. BssInv'
    <3>1. ASSUME NEW j \in 1 .. L - 1
          PROVE  bsslayout'[j] = modules[Len(modules) - (L - 1) + j].bss
      <4>1. j + 1 \in 1 .. L /\ Len(modules) - L + (j + 1) = Len(modules) - (L - 1) + j
        BY <1>4
      <4>2. bsslayout[j + 1] = modules[Len(modules) - L + (j + 1)].bss
        BY <4>1 DEF BssInv, L
      <4>3. QED BY <2>2, <4>1, <4>2
    <3>2. L - 1 <= Len(modules)
      BY <1>4
    <3>3. QED BY <1>1, <2>2, <3>1, <3>2 DEF BssInv
  <2>4. ASSUME index' <= Len(procimage') PROVE InStep'
    <3>1. SectionInv(index + 1) /\ Current' = procimage[index + 1]
      BY <1>1, <1>3, <1>4, <2>4 DEF LayoutInv, Current
    <3>2. procimage[index + 1].module \in Nat
          /\ index + 1 \in 3 * procimage[index + 1].module - 2 .. 3 * procimage[index + 1].module
      BY <1>4, <3>1 DEF SectionInv
    <3>3. Current'.module = m + 1
      BY <1>4, <2>1, <3>1, <3>2
    <3>4. QED BY <1>1, <1>4, <1>5, <2>1, <2>2, <3>3 DEF InStep
  <2>5. QED BY <1>1, <1>2, <1>3, <1>4, <1>5, <2>3, <2>4 DEF PlaceInv
<1>6. CASE BssSize = 0
  <2>1. bintype' = bintype + 1 /\ bsslayout' = bsslayout
    BY <1>1, <1>6
  <2>2. BssInv'
    BY <1>1, <2>1 DEF BssInv
  <2>3. ASSUME index' <= Len(procimage'), InStep, bintype # 2 PROVE InStep'
    <3>1. /\ bintype = index - 3 * m + 2 /\ L = Len(modules) - m + 1
          /\ bintype < 2
      <4>1. bintype = index - 3 * m + 2 /\ L = Len(modules) - m + 1
        BY <2>3 DEF InStep, m, L
      <4>2. m \in Int /\ index \in Int /\ index <= 3 * m /\ bintype \in Int
        BY <1>3, <1>4
      <4>3. QED BY <2>3, <4>1, <4>2
    <3>2. SectionInv(index + 1) /\ Current' = procimage[index + 1]
      BY <1>1, <1>3, <1>4, <2>3 DEF LayoutInv, Current
    <3>3. procimage[index + 1].module \in Nat
          /\ index + 1 \in 3 * procimage[index + 1].module - 2 .. 3 * procimage[index + 1].module
      BY <1>4, <3>2 DEF SectionInv
    <3>4. Current'.module = m
      <4> DEFINE k == procimage[index + 1].module
      <4>1. k \in Nat /\ 3 * k - 2 <= index + 1 /\ index + 1 <= 3 * k
        BY <1>4, <3>3
      <4>2. m \in Nat /\ index \in Nat /\ 3 * m - 2 <= index /\ index <= 3 * m - 1
        BY <1>3, <1>4, <3>1
      <4> HIDE DEF k
      <4>3. k = m
        BY <4>1, <4>2
      <4>4. QED BY <3>2, <4>3 DEF k
    <3>5. bintype' = index' - 3 * m + 2
      BY <1>1, <1>3, <1>4, <2>1, <3>1
    <3>6. QED BY <1>1, <2>1, <3>1, <3>4, <3>5 DEF InStep, L
  <2>4. ASSUME index' <= Len(procimage') PROVE InStep' \/ OutOfStep'
    <3>1. CASE OutOfStep
      BY <3>1, <1>3, <2>1 DEF OutOfStep
    <3>2. CASE InStep /\ bintype = 2
      <4>1. Head(bsslayout) = 0
        BY <1>6, <3>2 DEF BssSize, PermissionOf
      <4>2. L > 0 /\ bsslayout[1] = 0
        BY <1>4, <3>2, <4>1 DEF InStep, m, L, BssInv
      <4>3. QED BY <2>1, <3>2, <4>2 DEF OutOfStep, L
    <3>3. CASE InStep /\ bintype # 2
      BY <2>3, <2>4, <3>3
    <3>4. QED BY <1>3, <3>1, <3>2, <3>3
  <2>5. QED BY <1>1, <1>2, <1>3, <1>4, <1>6, <2>1, <2>2, <2>3, <2>4 DEF PlaceInv
<1>7. QED BY <1>5, <1>6

\* All other actions leave the layout alone, and the phase of mapping or not.
LEMMA RestLayout ==
    ASSUME LayoutInv, BssInv, PlaceInv, UNCHANGED layoutVars, UNCHANGED <<debug, index, bintype>>,
           phase' = phase \/ phase' \in {"start", "run"}
    PROVE  LayoutInv' /\ BssInv' /\ PlaceInv'
<1>1. UNCHANGED <<modules, procimage, bsslayout, offset>>
  BY DEF layoutVars
<1>2. LayoutInv' /\ BssInv'
  BY <1>1 DEF LayoutInv, SectionInv, Following, Units, BssInv
<1>3. (InStep => InStep') /\ (OutOfStep => OutOfStep')
  BY <1>1 DEF InStep, OutOfStep, Current
<1>4. QED BY <1>1, <1>2, <1>3 DEF PlaceInv
-----------------------------------------------------------------------------
(* The memory and the threads.                                              *)

\* Sections are mapped from low to high addresses, and the segments of the stack and
\* of thread local storage stay empty meanwhile.
MemInv ==
    /\ phase = "layout" => mem = NoMemory
    /\ Laid => HostInv(mem, SpaceEnd(offset))
    /\ phase = "map" => \A p \in Backed(mem) : p < Reached
    /\ phase = "start" => \A p \in Backed(mem) : p < offset \/ p >= TlsIoBegin(offset)

Managers == [page : Int, freeslots : SUBSET (1 .. TlsSlotCount)]
Slots == [page : Int, slot : 1 .. TlsSlotCount]

\* A page is taken from userslabs only when no other has a slot left.
TlsLists ==
    /\ Len(userslabs) \in 0 .. UserPages /\ userslabs = SlabObjects(UserBase, Len(userslabs))
    /\ freetls \in Seq(Managers) /\ Len(freetls) <= 1
    /\ \A i \in 1 .. Len(freetls) : freetls[i].freeslots # {}
    /\ fulltls \in Seq(Managers) /\ \A i \in 1 .. Len(fulltls) : fulltls[i].freeslots = {}
    /\ tls \in Seq(Slots)
    /\ tls = <<>> => freetls = <<>>

ThreadInv ==
    /\ TlsLists
    /\ phase \in {"layout", "map"} => tls = <<>>
    /\ stack \in {0} \cup StackSizes
    /\ tls # <<>> \/ phase = "run" => stack \in StackSizes

-----------------------------------------------------------------------------
(* The blocks, with .bss in every module but the last. Once Free is at the    *)
(* end of the image, the insertions of Map can be foreseen.                 *)

\* While the image of count pages is mapped, a free block has the rest of the
\* address space.
FreeFrom(count, m, at) ==
    LET b == m.blocks
        end == SpaceEnd(count)
    IN  /\ at \in Keys(b) /\ end \in Keys(b) /\ DOMAIN b[at] = BlockFields
        /\ \A k \in Keys(b) : k \in Nat /\ (k <= at \/ k = end)
        /\ b[at].state = "Free" /\ b[at].pages = end - at

\* A thread local page and its block.
TlsPageInv(count, m, p) ==
    /\ p \in TlsIoBegin(count) .. SpaceEnd(count) - 1
    /\ p \in Backed(m) /\ p \in m.writable
    /\ p \in Keys(m.blocks) /\ m.blocks[p].state = "ThreadLocal" /\ m.blocks[p].pages = 1
TlsBlocks(count, m) == {k \in Keys(m.blocks) : TlsIoBegin(count) <= k /\ k < SpaceEnd(count)}

\* From the first thread local page on, its segment has blocks of single pages, from
\* the highest page of userslabs down, and low is the block before them.
TlsFrom(count, m, low, slabs) ==
    /\ low \in Keys(m.blocks) /\ low < TlsIoBegin(count) /\ DOMAIN m.blocks[low] = BlockFields
    /\ SpaceEnd(count) \in Keys(m.blocks) /\ TlsBlocks(count, m) # {}
    /\ \A k \in Keys(m.blocks) :
           k \in Nat /\ (k <= low \/ k \in TlsBlocks(count, m) \/ k = SpaceEnd(count))
    /\ \A k \in TlsBlocks(count, m) :
           /\ TlsPageInv(count, m, k)
           /\ k >= TlsIoBegin(count) + UserBase + Len(slabs) \/ (slabs = <<>> /\ k = TlsIoBegin(count))

ShapeInv ==
    EachHasBss /\ Live =>
        /\ phase = "map" => FreeFrom(offset, mem, Reached)
        /\ phase = "start" /\ tls = <<>> => \E at \in 0 .. offset : FreeFrom(offset, mem, at)
        /\ phase = "start" /\ tls # <<>> =>
              \E at \in 0 .. offset :
                 /\ TlsFrom(offset, mem, at, userslabs) /\ mem.blocks[at].state = "Free"
                 /\ mem.blocks[at].pages = SpaceEnd(offset) - at - 1
        /\ phase = "run" =>
              /\ TlsFrom(offset, mem, StackBegin(offset), userslabs)
              /\ mem.blocks[StackBegin(offset)].pages \in Nat

\* While every module had .bss, SetProcessMemory has not lost its step.
StepInv == EachHasBss /\ phase = "map" /\ index <= Len(procimage) => InStep

\* What AllocateTls handed out is good, and not free any more.
SlotsInv(count, m, free, slots) ==
    /\ \A i \in DOMAIN slots : TlsPageInv(count, m, slots[i].page)
    /\ \A i \in DOMAIN free : TlsPageInv(count, m, free[i].page)
    /\ \A i \in DOMAIN slots : \A j \in DOMAIN free :
          slots[i].page = free[j].page => slots[i].slot \notin free[j].freeslots
    /\ \A i, j \in DOMAIN slots : slots[i] = slots[j] => i = j
SlotInv == EachHasBss => SlotsInv(offset, mem, freetls, tls)

IInv == LayoutInv /\ BssInv /\ PlaceInv /\ MemInv /\ ThreadInv /\ ShapeInv /\ StepInv /\ SlotInv

-----------------------------------------------------------------------------
(* The blocks of the image.                                                 *)

\* The code's own order of events: a section is mapped where the free block begins.
LEMMA CodeShape ==
    ASSUME NEW count \in Nat, NEW m, HostInv(m, SpaceEnd(count)), NEW at, FreeFrom(count, m, at),
           NEW pages \in Nat \ {0}, at + pages <= count
    PROVE  LET left == MapCodeMemory(m, at, pages)
           IN  /\ left.outcome = "ok" => FreeFrom(count, left, at + pages) /\ at \in Keys(left.blocks)
               /\ PutsBlock(m, left, at, Block(pages, "Code"))
               /\ Room(m, at, pages) => left.outcome = "ok"
<1> DEFINE b == m.blocks
           end == SpaceEnd(count)
           new == Block(pages, "Code")
           rest == Shrunk(b[at], pages)
           c == With(b, at + pages, rest)
           blocks == With(c, at, new)
           mid == MapSegment(m, at, pages, "Code")
           left == DelimitTable(mid, "Code", at, pages)
<1>1. /\ at \in Keys(b) /\ end \in Keys(b) /\ DOMAIN b[at] = BlockFields
      /\ \A k \in Keys(b) : k \in Nat /\ (k <= at \/ k = end)
      /\ b[at].state = "Free" /\ b[at].pages = end - at
  BY DEF FreeFrom
<1>2. new.pages = pages /\ new.state = "Code"
  BY DEF Block
<1>3. at \in Nat /\ end \in Nat /\ at + pages \in Nat /\ at + pages < end /\ count < end
  BY <1>1, SegmentsOf, MemoryAssumption
<1> HIDE DEF new, end
<1>4. /\ Puts(m, MapBlock(m, at, new), at, pages, blocks)
      /\ Room(m, at, pages) => MapBlock(m, at, new).outcome = "ok"
  BY <1>1, <1>2, <1>3, PutsAtFree DEF end
<1>5. Puts(m, mid, at, pages, blocks) /\ (Room(m, at, pages) => mid.outcome = "ok")
  BY <1>3, <1>4, MapSegmentPuts DEF new
<1>6. Proper(mid) /\ MapCodeMemory(m, at, pages) = left
  BY <1>3, MapSegmentOf, MapCodeMemoryOf DEF Maps
<1> HIDE DEF mid
<1>7. Puts(m, left, at, pages, blocks) /\ left.outcome = mid.outcome
  BY <1>5, <1>6, DelimitTablePuts, DelimitTableOf
<1>8. /\ Keys(blocks) = Keys(b) \cup {at + pages} \cup {at}
      /\ blocks[at + pages] = rest
  <2>1. Keys(c) = Keys(b) \cup {at + pages} /\ c[at + pages] = rest
    BY WithIs
  <2> HIDE DEF c, rest
  <2>2. at + pages # at
    BY <1>3
  <2>3. QED BY <2>1, <2>2, WithIs
<1>9. DOMAIN rest = BlockFields /\ rest.state = "Free" /\ rest.pages = end - at - pages
  BY <1>1, ShrunkIs DEF end
<1>12. Rearranged(b, blocks, at, new, at + pages)
  <2>1. at + pages \notin Keys(b)
    <3>1. at < at + pages /\ at + pages # end
      BY <1>3
    <3>2. QED BY <1>1, <1>3, <3>1
  <2>2. \A k \in Keys(b) : k <= at \/ at + pages <= k
    BY <1>1, <1>3
  <2>3. QED BY <1>1, <1>2, <1>3, <2>1, <2>2, RearrangedBehind
<1>13. PutsBlock(m, left, at, new)
  BY <1>2, <1>7, <1>12 DEF PutsBlock
<1> HIDE DEF blocks, rest, left, c
<1>10. ASSUME left.outcome = "ok" PROVE FreeFrom(count, left, at + pages) /\ at \in Keys(left.blocks)
  <2>1. left.blocks = blocks
    BY <1>7, <1>10 DEF Puts
  <2>2. \A k \in Keys(blocks) : k \in Nat /\ (k <= at + pages \/ k = end)
    BY <1>1, <1>3, <1>8
  <2>3. end - at - pages = end - (at + pages)
    BY <1>3
  <2>4. QED BY <1>1, <1>8, <1>9, <2>1, <2>2, <2>3 DEF FreeFrom, end
<1>11. QED BY <1>5, <1>6, <1>7, <1>10, <1>13 DEF new

\* The permission and the .bss of the section change nothing of the free block.
LEMMA PermissionShape ==
    ASSUME NEW count \in Nat, NEW m, Proper(m), NEW next, FreeFrom(count, m, next), NEW at,
           at \in Keys(m.blocks), at < next, NEW pages, NEW perm
    PROVE  LET left == SetMemoryPermission(m, at, pages, perm)
           IN  left.outcome = "ok" => m.outcome = "ok" /\ FreeFrom(count, left, next)
<1> DEFINE left == SetMemoryPermission(m, at, pages, perm)
<1>1. FindBlock(m.blocks, at) = at /\ at # next
  <2>1. next \in Nat /\ at \in Nat
    BY DEF FreeFrom
  <2>2. QED BY <2>1 DEF FindBlock
<1>2. CASE left = m
  BY <1>2
<1>3. CASE m.outcome = "ok" /\ left = Fail(m, "undefined")
  BY <1>3, FailOf DEF Outcomes
<1>4. CASE m.outcome = "ok" /\ left = Reprotect(m, at, pages, perm)
  <2>1. /\ Keys(left.blocks) = Keys(m.blocks) /\ left.blocks[next] = m.blocks[next]
        /\ left.outcome = m.outcome
    <3>1. next \in DOMAIN m.blocks
      BY DEF FreeFrom, Keys
    <3>2. QED BY <1>1, <1>4, <3>1 DEF Reprotect, Proper, Fields, Keys
  <2>2. QED BY <1>4, <2>1 DEF FreeFrom
<1>5. QED BY <1>1, <1>2, <1>3, <1>4 DEF SetMemoryPermission

-----------------------------------------------------------------------------
(* The blocks of the threads.                                               *)

\* What userslabs gives, and what it has left.
LEMMA UserSlab ==
    ASSUME NEW slabs, slabs = SlabObjects(UserBase, Len(slabs)), Len(slabs) \in 0 .. UserPages
    PROVE  LET slab == SlabAllocate(slabs)
           IN  /\ slab.pointer \in Nat /\ slab.pointer < TlsIoPages
               /\ slab.objects = SlabObjects(UserBase, Len(slab.objects))
               /\ Len(slab.objects) \in 0 .. UserPages
               /\ slabs = <<>> => slab.pointer = 0 /\ slab.objects = <<>>
               /\ slabs # <<>> => /\ slab.pointer = UserBase + Len(slabs) - 1
                                  /\ Len(slab.objects) = Len(slabs) - 1
<1> DEFINE n == Len(slabs)
           slab == SlabAllocate(slabs)
<1>1. /\ UserBase \in Nat /\ UserBase > 0 /\ UserPages \in Nat /\ UserBase + UserPages <= TlsIoPages
      /\ TlsIoPages \in Nat /\ TlsIoPages > 0
  BY MemoryAssumption, LoaderAssumption
<1>2. n \in Nat /\ n <= UserPages
  BY <1>1
<1> HIDE DEF n
<1>3. slabs = [i \in 1 .. n |-> UserBase + n - i]
  BY DEF SlabObjects, n
<1>4. slabs \in Seq(Int)
  BY <1>1, <1>2, <1>3
<1>5. CASE slabs = <<>>
  <2>1. slab = [objects |-> slabs, pointer |-> 0]
    BY <1>5 DEF SlabAllocate, Null
  <2>2. QED BY <1>1, <1>2, <1>5, <2>1 DEF n
<1>6. CASE slabs # <<>>
  <2>1. n >= 1
    BY <1>2, <1>4, <1>6 DEF n
  <2>2. Head(slabs) = UserBase + n - 1
    BY <1>2, <1>3, <1>4, <1>6, <2>1
  <2>3. slab = [objects |-> Tail(slabs), pointer |-> UserBase + n - 1]
    BY <1>1, <1>2, <1>6, <2>1, <2>2 DEF SlabAllocate, Null
  <2>4. Tail(slabs) = SlabObjects(UserBase, n - 1) /\ Len(Tail(slabs)) = n - 1
    <3> DEFINE rest == Tail(slabs)
    <3>1. /\ rest \in Seq(Int) /\ Len(rest) = n - 1 /\ DOMAIN rest = 1 .. n - 1
          /\ \A i \in 1 .. n - 1 : rest[i] = slabs[i + 1]
      BY <1>2, <1>4, <1>6, <2>1 DEF n
    <3> HIDE DEF rest
    <3>2. ASSUME NEW i \in 1 .. n - 1 PROVE rest[i] = UserBase + (n - 1) - i
      <4>1. i + 1 \in 1 .. n
        BY <1>2
      <4>2. slabs[i + 1] = UserBase + n - (i + 1)
        BY <1>3, <4>1
      <4>3. UserBase + n - (i + 1) = UserBase + (n - 1) - i
        BY <1>1, <1>2
      <4>4. QED BY <3>1, <4>2, <4>3
    <3>3. rest = [i \in 1 .. n - 1 |-> rest[i]]
      BY <3>1
    <3>4. rest = [i \in 1 .. n - 1 |-> UserBase + (n - 1) - i]
      BY <3>2, <3>3
    <3>5. QED BY <3>1, <3>4 DEF SlabObjects, rest
  <2>5. UserBase + n - 1 \in Nat /\ UserBase + n - 1 < TlsIoPages /\ n - 1 \in 0 .. UserPages
    BY <1>1, <1>2, <2>1
  <2>6. QED BY <1>6, <2>3, <2>4, <2>5 DEF n
<1>7. QED BY <1>5, <1>6

\* What a call of Map keeps of the pages there were, and of the protection.
LEMMA MapsPages ==
    ASSUME NEW m, NEW left, NEW end, NEW at \in Int, NEW pages \in Nat \ {0},
           HostInv(m, end), Maps(m, left, at, pages),
           pages = 1 \/ Backed(m) \cap Span(at, pages) = {}
    PROVE  /\ HostInv(left, end)
           /\ Backed(left) \subseteq Backed(m) \cup Span(at, pages)
           /\ \A p \in Backed(m) : left.mapping[p] = m.mapping[p] /\ p \in Backed(left)
           /\ m.writable \subseteq left.writable
<1>1. Gives(m, left, at, pages)
  BY DEF Gives, Maps
<1>2. m.writable \subseteq left.writable
  BY DEF Maps, Untouched, MapsAt
<1>3. QED BY <1>1, <1>2, GivesKeeps

LEMMA OtherTlsPages ==
    ASSUME NEW count \in Nat, NEW m, HostInv(m, SpaceEnd(count)), NEW left, NEW at \in Nat,
           NEW pages \in Nat \ {0}, NEW low, low < TlsIoBegin(count), low \in Nat, NEW rest, NEW new,
           Maps(m, left, at, pages), Puts(m, left, at, pages, With(With(m.blocks, low, rest), at, new)),
           pages = 1 \/ Backed(m) \cap Span(at, pages) = {},
           NEW p, TlsPageInv(count, m, p)
    PROVE  TlsPageInv(count, left, p)
<1>1. p \in Backed(left) /\ p \in left.writable
  BY MapsPages DEF TlsPageInv
<1>2. CASE left.blocks = m.blocks
  BY <1>1, <1>2 DEF TlsPageInv
<1>3. CASE left.blocks = With(With(m.blocks, low, rest), at, new) /\ CanAllocate(m, at, pages)
  <2>1. p # at
    BY <1>3, NotAgain DEF TlsPageInv, HostInv
  <2>2. p # low /\ p \in Keys(m.blocks)
    BY SegmentsOf DEF TlsPageInv
  <2> DEFINE c == With(m.blocks, low, rest)
  <2>3. p \in Keys(c) /\ c[p] = m.blocks[p]
    BY <2>2, WithIs
  <2> HIDE DEF c
  <2>4. p \in Keys(With(c, at, new)) /\ With(c, at, new)[p] = c[p]
    BY <2>1, <2>3, WithIs
  <2>5. QED BY <1>1, <1>3, <2>3, <2>4 DEF TlsPageInv, c
<1>4. QED BY <1>2, <1>3 DEF Puts

LEMMA NewTlsPage ==
    ASSUME NEW count \in Nat, NEW m, HostInv(m, SpaceEnd(count)), NEW left,
           NEW at \in TlsIoBegin(count) .. SpaceEnd(count) - 1, NEW c,
           Puts(m, left, at, 1, With(c, at, Block(1, "ThreadLocal"))), left.outcome = "ok"
    PROVE  TlsPageInv(count, left, at) /\ at \notin Backed(m)
<1>1. at \in Nat /\ SpaceEnd(count) \in Nat
  BY SegmentsOf
<1>2. left.blocks = With(c, at, Block(1, "ThreadLocal")) /\ MapsAt(m, left, at, 1)
  BY DEF Puts
<1>3. PICK n \in 1 .. HostPages :
          /\ 1 < n /\ left.mapping = MapPages(m.mapping, at, n - 1 - 1, 1)
          /\ left.writable = m.writable \cup Span(at, 1)
  BY <1>2 DEF MapsAt
<1>4. at \in Span(at, 1)
  BY <1>1 DEF Span
<1>5. at \in DOMAIN m.mapping
  BY <1>1 DEF HostInv
<1>6. left.mapping[at] = n - 1 - 1 + (at - at) /\ at \in DOMAIN left.mapping
  BY <1>3, <1>4, <1>5 DEF MapPages
<1>7. n - 1 - 1 + (at - at) # NoPage
  BY <1>1, <1>3, MemoryAssumption DEF NoPage
<1>8. at \in Backed(left)
  BY <1>6, <1>7 DEF Backed
<1>9. at \notin Backed(m)
  BY <1>1, <1>2, NotAgain DEF HostInv, MapsAt
<1>10. at \in Keys(left.blocks) /\ left.blocks[at] = Block(1, "ThreadLocal")
  BY <1>2, WithIs
<1>11. QED BY <1>3, <1>4, <1>8, <1>9, <1>10 DEF TlsPageInv, Block

LEMMA MapTlsMemoryOf ==
    ASSUME NEW count \in Nat, NEW m, HostInv(m, SpaceEnd(count)), NEW pointer \in Nat
    PROVE  /\ TlsIoBegin(count) + pointer \in Nat
           /\ Maps(m, MapTlsMemory(m, count, pointer), TlsIoBegin(count) + pointer, 1)
           /\ \A blocks : Puts(m, MapBlock(m, TlsIoBegin(count) + pointer, Block(1, "ThreadLocal")),
                               TlsIoBegin(count) + pointer, 1, blocks)
                          => /\ Puts(m, MapTlsMemory(m, count, pointer), TlsIoBegin(count) + pointer, 1, blocks)
                             /\ MapBlock(m, TlsIoBegin(count) + pointer, Block(1, "ThreadLocal")).outcome = "ok"
                                => MapTlsMemory(m, count, pointer).outcome = "ok"
<1> DEFINE at == TlsIoBegin(count) + pointer
<1>1. at \in Nat /\ at \in Int /\ 1 \in Nat \ {0}
  BY SegmentsOf
<1> HIDE DEF at
<1>2. Maps(m, MapSegment(m, at, 1, "ThreadLocal"), at, 1)
  BY <1>1, MapSegmentOf
<1>3. \A blocks : Puts(m, MapBlock(m, at, Block(1, "ThreadLocal")), at, 1, blocks)
                  => /\ Puts(m, MapSegment(m, at, 1, "ThreadLocal"), at, 1, blocks)
                     /\ MapBlock(m, at, Block(1, "ThreadLocal")).outcome = "ok"
                        => MapSegment(m, at, 1, "ThreadLocal").outcome = "ok"
  BY <1>1, MapSegmentPuts
<1>4. MapTlsMemory(m, count, pointer) = MapSegment(m, at, 1, "ThreadLocal")
  BY DEF MapTlsMemory, at
<1>5. QED BY <1>1, <1>2, <1>3, <1>4 DEF at

\* The first thread local page is taken off the free block.
LEMMA FirstTlsShape ==
    ASSUME NEW count \in Nat, NEW m, HostInv(m, SpaceEnd(count)),
           NEW low \in 0 .. count, FreeFrom(count, m, low),
           NEW slabs, slabs = SlabObjects(UserBase, Len(slabs)), Len(slabs) \in 0 .. UserPages
    PROVE  LET slab == SlabAllocate(slabs)
               left == MapTlsMemory(m, count, slab.pointer)
           IN  /\ left.outcome = "ok" =>
                  /\ TlsPageInv(count, left, TlsIoBegin(count) + slab.pointer)
                  /\ TlsFrom(count, left, low, slab.objects)
                  /\ left.blocks[low].state = "Free" /\ left.blocks[low].pages = SpaceEnd(count) - low - 1
               /\ PutsBlock(m, left, TlsIoBegin(count) + slab.pointer, Block(1, "ThreadLocal"))
               /\ Room(m, TlsIoBegin(count) + slab.pointer, 1) => left.outcome = "ok"
<1> DEFINE b == m.blocks
           end == SpaceEnd(count)
           tlsio == TlsIoBegin(count)
           slab == SlabAllocate(slabs)
           at == tlsio + slab.pointer
           left == MapTlsMemory(m, count, slab.pointer)
           new == Block(1, "ThreadLocal")
           rest == Shrunk(b[low], 1)
           c == With(b, low, rest)
           blocks == With(c, at, new)
<1>1. /\ low \in Keys(b) /\ end \in Keys(b) /\ DOMAIN b[low] = BlockFields
      /\ \A k \in Keys(b) : k \in Nat /\ (k <= low \/ k = end)
      /\ b[low].state = "Free" /\ b[low].pages = end - low
  BY DEF FreeFrom
<1>2. /\ slab.pointer \in Nat /\ slab.pointer < TlsIoPages
      /\ slabs = <<>> => slab.pointer = 0 /\ slab.objects = <<>>
      /\ slabs # <<>> => slab.pointer = UserBase + Len(slabs) - 1 /\ Len(slab.objects) = Len(slabs) - 1
  BY UserSlab
<1>3. /\ tlsio \in Nat /\ end \in Nat /\ end = tlsio + TlsIoPages /\ TlsIoPages \in Nat
      /\ count < tlsio /\ UserBase \in Nat
  <2>1. count < TlsIoBegin(count)
    <3>1. /\ count < StackBegin(count) /\ StackBegin(count) < TlsIoBegin(count)
          /\ StackBegin(count) \in Nat /\ TlsIoBegin(count) \in Nat
      BY SegmentsOf
    <3>2. QED BY <3>1
  <2>2. QED BY <2>1, SegmentsOf, MemoryAssumption, LoaderAssumption
<1> HIDE DEF slab, tlsio, end
<1>4. at \in tlsio .. end - 1 /\ at \in Nat /\ low < at /\ at + 1 <= end /\ low < tlsio
  BY <1>2, <1>3
<1>5. new.pages = 1 /\ new.state = "ThreadLocal"
  BY DEF Block
<1> HIDE DEF new, at
<1>6. /\ Puts(m, MapBlock(m, at, new), at, 1, blocks)
      /\ Room(m, at, 1) => MapBlock(m, at, new).outcome = "ok"
  BY <1>1, <1>4, <1>5, PutsInFree DEF end
<1>7. Puts(m, left, at, 1, blocks) /\ (Room(m, at, 1) => left.outcome = "ok")
  BY <1>2, <1>6, MapTlsMemoryOf DEF at, tlsio, new
<1>8. /\ Keys(blocks) = Keys(b) \cup {low} \cup {at} /\ blocks[low] = rest /\ blocks[at] = new
  <2>1. Keys(c) = Keys(b) \cup {low} /\ c[low] = rest
    BY WithIs
  <2> HIDE DEF c, rest
  <2>2. low # at /\ low \in Keys(c)
    BY <1>1, <1>4, <2>1
  <2>3. QED BY <2>1, <2>2, WithIs
<1>9. DOMAIN rest = BlockFields /\ rest.state = "Free" /\ rest.pages = end - low - 1
  BY <1>1, ShrunkIs
<1>17. PutsBlock(m, left, at, new)
  <2>1. /\ low \in Nat /\ low # at /\ b[low].pages \in Int
        /\ \A k \in Keys(b) : k <= at \/ at + new.pages <= k
    BY <1>1, <1>3, <1>4, <1>5
  <2> HIDE DEF rest, c
  <2>2. rest = Shrunk(b[low], new.pages)
    BY <1>5 DEF rest
  <2>3. Rearranged(b, blocks, at, new, low)
    BY <1>1, <1>4, <2>1, <2>2, RearrangedWith DEF c
  <2> HIDE DEF blocks, left
  <2>4. QED BY <1>5, <1>7, <2>3 DEF PutsBlock
<1> HIDE DEF rest, c, left
<1> SUFFICES ASSUME left.outcome = "ok"
             PROVE  /\ TlsPageInv(count, left, at) /\ TlsFrom(count, left, low, slab.objects)
                    /\ left.blocks[low].state = "Free" /\ left.blocks[low].pages = end - low - 1
  BY <1>7, <1>17 DEF left, at, slab, tlsio, end, new
<1>10. TlsPageInv(count, left, at)
  BY <1>4, <1>7, NewTlsPage DEF new, tlsio, end
<1>11. left.blocks = blocks
  BY <1>7 DEF Puts
<1> HIDE DEF blocks
<1>12. TlsBlocks(count, left) = {at}
  <2>1. ASSUME NEW k \in Keys(blocks), tlsio <= k, k < end PROVE k = at
    <3>1. low \in Nat /\ low < tlsio
      BY <1>1, <1>4
    <3>2. CASE k \in Keys(b)
      <4>1. k \in Nat /\ (k <= low \/ k = end)
        BY <1>1, <3>2
      <4>2. QED BY <1>3, <2>1, <3>1, <4>1
    <3>3. CASE k = low
      BY <1>3, <2>1, <3>1, <3>3
    <3>4. QED BY <1>8, <3>2, <3>3
  <2>2. at \in Keys(blocks) /\ tlsio <= at /\ at < end
    BY <1>3, <1>4, <1>8
  <2>3. QED BY <1>11, <2>1, <2>2 DEF TlsBlocks, tlsio, end
<1>13. \A k \in Keys(blocks) : k \in Nat /\ (k <= low \/ k \in {at} \/ k = end)
  BY <1>1, <1>3, <1>4, <1>8
<1>14. at >= tlsio + UserBase + Len(slab.objects) \/ (slab.objects = <<>> /\ at = tlsio)
  <2>1. CASE slabs = <<>>
    <3>1. slab.pointer = 0 /\ slab.objects = <<>>
      BY <1>2, <2>1
    <3>2. at = tlsio
      BY <1>3, <3>1 DEF at
    <3>3. QED BY <3>1, <3>2
  <2>2. CASE slabs # <<>>
    <3>1. Len(slabs) \in Nat
      BY LoaderAssumption
    <3> DEFINE n == Len(slabs)
    <3> HIDE DEF n
    <3>2. at = tlsio + (UserBase + n - 1) /\ Len(slab.objects) = n - 1 /\ n \in Nat
      BY <1>2, <2>2, <3>1 DEF at, n
    <3>3. QED BY <1>3, <3>2
  <2>3. QED BY <2>1, <2>2
<1>15. TlsFrom(count, left, low, slab.objects)
  BY <1>1, <1>4, <1>8, <1>9, <1>10, <1>11, <1>12, <1>13, <1>14 DEF TlsFrom, tlsio, end
<1>16. QED BY <1>8, <1>9, <1>10, <1>11, <1>15

\* The block of the stack takes its pages from the one before the TLS pages, which is
\* the free one.
LEMMA StackShape ==
    ASSUME NEW count \in Nat, NEW m, HostInv(m, SpaceEnd(count)),
           NEW low \in 0 .. count, NEW slabs, TlsFrom(count, m, low, slabs),
           NEW pages \in StackSizes, m.blocks[low].pages \in Int,
           \A p \in Backed(m) : p < count \/ p >= TlsIoBegin(count)
    PROVE  LET left == MapStackMemory(m, count, pages)
           IN  /\ Maps(m, left, StackBegin(count), pages)
               /\ Backed(m) \cap Span(StackBegin(count), pages) = {}
               /\ \A p : TlsPageInv(count, m, p) => TlsPageInv(count, left, p)
               /\ left.outcome = "ok" => /\ TlsFrom(count, left, StackBegin(count), slabs)
                                         /\ left.blocks[StackBegin(count)].pages \in Nat
                                         /\ left.blocks[StackBegin(count)].pages = pages
               /\ PutsBlock(m, left, StackBegin(count), Block(pages, "Stack"))
               /\ Room(m, StackBegin(count), pages) /\ pages <= m.blocks[low].pages => left.outcome = "ok"
<1> DEFINE b == m.blocks
           end == SpaceEnd(count)
           at == StackBegin(count)
           tlsio == TlsIoBegin(count)
           new == Block(pages, "Stack")
           rest == Shrunk(b[low], pages)
           c == With(b, low, rest)
           blocks == With(c, at, new)
           mid == MapSegment(m, at, pages, "Stack")
           left == MapStackMemory(m, count, pages)
<1>1. /\ at \in Nat /\ tlsio \in Nat /\ end \in Nat /\ count < at /\ tlsio < end
      /\ tlsio = at + StackSegmentPages /\ pages \in Nat \ {0} /\ at + pages <= tlsio
  BY SegmentsOf, MemoryAssumption, LoaderAssumption
<1>2. /\ low \in Keys(b) /\ low < tlsio /\ DOMAIN b[low] = BlockFields
      /\ end \in Keys(b) /\ TlsBlocks(count, m) # {}
      /\ \A k \in Keys(b) : k \in Nat /\ (k <= low \/ k \in TlsBlocks(count, m) \/ k = end)
      /\ \A k \in TlsBlocks(count, m) :
             /\ TlsPageInv(count, m, k)
             /\ k >= tlsio + UserBase + Len(slabs) \/ (slabs = <<>> /\ k = tlsio)
  BY DEF TlsFrom
<1>3. low < at /\ low \in Nat
  BY <1>1
<1>4. \A k \in TlsBlocks(count, m) : k \in Keys(b) /\ tlsio <= k /\ k < end
  BY DEF TlsBlocks
<1> HIDE DEF at, tlsio, end
<1>5. PICK key \in TlsBlocks(count, m) : \A k \in TlsBlocks(count, m) : key <= k
  <2>1. TlsBlocks(count, m) \subseteq Nat
    BY <1>2, <1>4
  <2>2. QED BY <1>2, <2>1, Smallest
<1>6. /\ key \in Keys(b) /\ key \in Nat /\ tlsio <= key /\ key < end /\ low < key /\ at + pages <= key
      /\ TlsPageInv(count, m, key)
  <2>1. key \in Keys(b) /\ tlsio <= key /\ key < end /\ TlsPageInv(count, m, key) /\ key \in Nat
    BY <1>2, <1>4, <1>5
  <2>2. QED BY <1>1, <1>2, <1>3, <2>1
<1>7. \A k \in Keys(b) : k \in Nat /\ k <= end /\ (k <= low \/ key <= k)
  <2> SUFFICES ASSUME NEW k \in Keys(b) PROVE k \in Nat /\ k <= end /\ (k <= low \/ key <= k)
    OBVIOUS
  <2>1. CASE k <= low
    <3>1. k \in Nat /\ low \in Nat /\ low < tlsio
      BY <1>2, <1>3
    <3>2. k <= end /\ k <= low
      BY <1>1, <2>1, <3>1
    <3>3. QED BY <3>1, <3>2
  <2>2. CASE k \in TlsBlocks(count, m)
    <3>1. k \in Nat /\ k < end /\ key <= k
      BY <1>2, <1>4, <1>5, <2>2
    <3>2. QED BY <1>1, <3>1
  <2>3. CASE k = end
    BY <1>1, <1>6, <2>3
  <2>4. QED BY <1>2, <2>1, <2>2, <2>3
<1>8. IsAllocated(m, b, key)
  BY <1>6, Allocated DEF TlsPageInv, HostInv
<1>9. new.pages = pages /\ new.state = "Stack"
  BY DEF Block
<1> HIDE DEF new
<1>10. /\ Puts(m, MapBlock(m, at, new), at, pages, blocks)
       /\ Room(m, at, pages) /\ ~FewerThan(b[low].pages, pages) => MapBlock(m, at, new).outcome = "ok"
  BY <1>1, <1>2, <1>3, <1>6, <1>7, <1>8, <1>9, PutsBefore DEF end
<1>11. /\ Puts(m, mid, at, pages, blocks) /\ Proper(mid)
       /\ MapBlock(m, at, new).outcome = "ok" => mid.outcome = "ok"
  BY <1>1, <1>10, MapSegmentPuts, MapSegmentOf DEF new, Maps
<1>12. /\ Maps(m, left, at, pages)
       /\ left = DelimitTable(mid, "Stack", at, pages)
  BY <1>1, MapStackMemoryOf DEF at
<1>13. Puts(m, left, at, pages, blocks) /\ left.outcome = mid.outcome
  BY <1>11, <1>12, DelimitTablePuts, DelimitTableOf
<1>19. Room(m, at, pages) /\ pages <= b[low].pages => left.outcome = "ok"
  <2>1. pages <= b[low].pages => ~FewerThan(b[low].pages, pages)
    BY <1>1 DEF FewerThan
  <2>2. QED BY <1>10, <1>11, <1>13, <2>1
<1>14. Backed(m) \cap Span(at, pages) = {}
  <2>1. ASSUME NEW p \in Backed(m), p \in Span(at, pages) PROVE FALSE
    <3>1. p \in Int /\ at <= p /\ p < at + pages
      BY <1>1, <2>1 DEF Span
    <3>2. p < count \/ p >= tlsio
      BY DEF tlsio
    <3>3. QED BY <1>1, <3>1, <3>2
  <2>2. QED BY <2>1
<1>18. PutsBlock(m, left, at, new)
  <2>1. \A k \in Keys(b) : k <= at \/ at + new.pages <= k
    <3> SUFFICES ASSUME NEW k \in Keys(b) PROVE k <= at \/ at + pages <= k
      BY <1>9
    <3>1. k \in Nat /\ (k <= low \/ key <= k)
      BY <1>7
    <3>2. QED BY <1>1, <1>3, <1>6, <3>1
  <2>2. at \in Nat /\ low # at
    BY <1>1, <1>3
  <2> HIDE DEF rest, c
  <2>3. rest = Shrunk(b[low], new.pages)
    BY <1>9 DEF rest
  <2>4. Rearranged(b, blocks, at, new, low)
    BY <1>2, <1>3, <2>1, <2>2, <2>3, RearrangedWith DEF c
  <2> HIDE DEF blocks, left
  <2>5. QED BY <1>9, <1>13, <2>4 DEF PutsBlock
<1> HIDE DEF left, mid
<1>15. \A p : TlsPageInv(count, m, p) => TlsPageInv(count, left, p)
  <2> SUFFICES ASSUME NEW p, TlsPageInv(count, m, p) PROVE TlsPageInv(count, left, p)
    OBVIOUS
  <2>1. low < TlsIoBegin(count)
    BY <1>2 DEF tlsio
  <2>2. Puts(m, left, at, pages, With(With(m.blocks, low, rest), at, new))
    BY <1>13
  <2> HIDE DEF rest, blocks
  <2>3. at \in Nat /\ pages \in Nat \ {0} /\ low \in Nat
    BY <1>1, <1>3
  <2>4. QED BY <1>12, <1>14, <2>1, <2>2, <2>3, OtherTlsPages
<1>16. ASSUME left.outcome = "ok"
       PROVE  /\ TlsFrom(count, left, at, slabs) /\ left.blocks[at].pages \in Nat
              /\ left.blocks[at].pages = pages
  <2>1. left.blocks = blocks
    BY <1>13, <1>16 DEF Puts
  <2>2. Keys(blocks) = Keys(b) \cup {at} /\ blocks[at] = new
    <3>1. Keys(c) = Keys(b) \cup {low}
      BY WithIs
    <3> HIDE DEF c
    <3>2. QED BY <1>2, <3>1, WithIs
  <2> HIDE DEF blocks
  <2>3. TlsBlocks(count, left) = TlsBlocks(count, m)
    <3>1. ~(tlsio <= at)
      BY <1>1, MemoryAssumption
    <3>2. QED BY <2>1, <2>2, <3>1 DEF TlsBlocks, tlsio
  <2>4. DOMAIN new = BlockFields
    BY DEF new, Block, BlockFields
  <2>5. \A k \in Keys(left.blocks) : k \in Nat /\ (k <= at \/ k \in TlsBlocks(count, left) \/ k = end)
    BY <1>1, <1>2, <1>3, <2>1, <2>2, <2>3
  <2>6. at < tlsio
    BY <1>1, MemoryAssumption
  <2>7. TlsFrom(count, left, at, slabs)
    BY <1>2, <1>15, <2>1, <2>2, <2>3, <2>4, <2>5, <2>6 DEF TlsFrom, tlsio, end
  <2>8. QED BY <1>1, <1>9, <2>1, <2>2, <2>7
<1>17. QED BY <1>12, <1>14, <1>15, <1>16, <1>18, <1>19 DEF left, at, new

\* A further TLS page goes in front of those there are, and takes its page from the
\* block before them, the stack's. Once userslabs is empty the page of the null
\* pointer is mapped, and only once.
LEMMA NextTlsShape ==
    ASSUME NEW count \in Nat, NEW m, HostInv(m, SpaceEnd(count)),
           NEW low, NEW slabs, TlsFrom(count, m, low, slabs), m.blocks[low].pages \in Nat,
           slabs = SlabObjects(UserBase, Len(slabs)), Len(slabs) \in 0 .. UserPages
    PROVE  LET slab == SlabAllocate(slabs)
               left == MapTlsMemory(m, count, slab.pointer)
           IN  /\ \A p : TlsPageInv(count, m, p) => TlsPageInv(count, left, p)
               /\ left.outcome = "ok" =>
                  /\ TlsPageInv(count, left, TlsIoBegin(count) + slab.pointer)
                  /\ TlsIoBegin(count) + slab.pointer \notin Backed(m)
                  /\ TlsFrom(count, left, low, slab.objects) /\ left.blocks[low].pages \in Nat
                  /\ left.blocks[low].pages = m.blocks[low].pages - 1
               /\ PutsBlock(m, left, TlsIoBegin(count) + slab.pointer, Block(1, "ThreadLocal"))
               /\ Room(m, TlsIoBegin(count) + slab.pointer, 1) /\ m.blocks[low].pages > 0
                  => left.outcome = "ok"
<1> DEFINE b == m.blocks
           end == SpaceEnd(count)
           tlsio == TlsIoBegin(count)
           slab == SlabAllocate(slabs)
           at == tlsio + slab.pointer
           left == MapTlsMemory(m, count, slab.pointer)
           new == Block(1, "ThreadLocal")
           rest == Shrunk(b[low], 1)
           c == With(b, low, rest)
           blocks == With(c, at, new)
<1>1. /\ tlsio \in Nat /\ end \in Nat /\ end = tlsio + TlsIoPages /\ TlsIoPages \in Nat
      /\ UserBase \in Nat /\ UserBase > 0 /\ UserPages \in Nat /\ tlsio < end
  BY SegmentsOf, MemoryAssumption, LoaderAssumption
<1>2. /\ low \in Keys(b) /\ low < tlsio /\ DOMAIN b[low] = BlockFields
      /\ end \in Keys(b) /\ TlsBlocks(count, m) # {}
      /\ \A k \in Keys(b) : k \in Nat /\ (k <= low \/ k \in TlsBlocks(count, m) \/ k = end)
      /\ \A k \in TlsBlocks(count, m) :
             /\ TlsPageInv(count, m, k)
             /\ k >= tlsio + UserBase + Len(slabs) \/ (slabs = <<>> /\ k = tlsio)
  BY DEF TlsFrom
<1>3. /\ slab.pointer \in Nat /\ slab.pointer < TlsIoPages
      /\ slabs = <<>> => slab.pointer = 0 /\ slab.objects = <<>>
      /\ slabs # <<>> => slab.pointer = UserBase + Len(slabs) - 1 /\ Len(slab.objects) = Len(slabs) - 1
  BY UserSlab
<1>4. \A k \in TlsBlocks(count, m) : k \in Keys(b) /\ tlsio <= k /\ k < end
  BY DEF TlsBlocks
<1> HIDE DEF tlsio, end
<1>5. PICK key \in TlsBlocks(count, m) : \A k \in TlsBlocks(count, m) : key <= k
  <2>1. TlsBlocks(count, m) \subseteq Nat
    BY <1>2, <1>4
  <2>2. QED BY <1>2, <2>1, Smallest
<1>6. /\ key \in Keys(b) /\ key \in Nat /\ tlsio <= key /\ key < end /\ low < key /\ low \in Nat
      /\ TlsPageInv(count, m, key)
  <2>1. key \in Keys(b) /\ tlsio <= key /\ key < end /\ TlsPageInv(count, m, key) /\ key \in Nat /\ low \in Nat
    BY <1>2, <1>4, <1>5
  <2>2. QED BY <1>1, <1>2, <2>1
<1>7. \A k \in Keys(b) : k \in Nat /\ k <= end /\ (k <= low \/ key <= k)
  <2> SUFFICES ASSUME NEW k \in Keys(b) PROVE k \in Nat /\ k <= end /\ (k <= low \/ key <= k)
    OBVIOUS
  <2>1. CASE k <= low
    <3>1. k \in Nat /\ low \in Nat /\ low < tlsio
      BY <1>2, <1>6
    <3>2. k <= end /\ k <= low
      BY <1>1, <2>1, <3>1
    <3>3. QED BY <3>1, <3>2
  <2>2. CASE k \in TlsBlocks(count, m)
    <3>1. k \in Nat /\ k < end /\ key <= k
      BY <1>2, <1>4, <1>5, <2>2
    <3>2. QED BY <1>1, <3>1
  <2>3. CASE k = end
    BY <1>1, <1>6, <2>3
  <2>4. QED BY <1>2, <2>1, <2>2, <2>3
<1>8. /\ Maps(m, left, at, 1)
      /\ Puts(m, MapBlock(m, at, new), at, 1, blocks)
         => /\ Puts(m, left, at, 1, blocks)
            /\ MapBlock(m, at, new).outcome = "ok" => left.outcome = "ok"
  <2> DEFINE pointer == slab.pointer
             local == MapTlsMemory(m, count, pointer)
             page == TlsIoBegin(count) + pointer
  <2>1. pointer \in Nat /\ at = page /\ left = local
    BY <1>3 DEF tlsio
  <2> HIDE DEF slab, at, left, pointer, blocks, new
  <2>2. /\ Maps(m, local, page, 1)
        /\ Puts(m, MapBlock(m, page, Block(1, "ThreadLocal")), page, 1, blocks)
           => /\ Puts(m, local, page, 1, blocks)
              /\ MapBlock(m, page, Block(1, "ThreadLocal")).outcome = "ok" => local.outcome = "ok"
    BY <2>1, MapTlsMemoryOf
  <2> HIDE DEF local, page
  <2>3. QED BY <2>1, <2>2 DEF new
<1> HIDE DEF slab
<1>9. at \in tlsio .. end - 1 /\ at \in Nat /\ low < at /\ at + 1 <= end
  <2> DEFINE place == slab.pointer
  <2>1. place \in Nat /\ place < TlsIoPages
    BY <1>3
  <2> HIDE DEF place
  <2>2. at = tlsio + place
    BY DEF place
  <2>3. low \in Nat /\ low < tlsio
    BY <1>2, <1>6
  <2> HIDE DEF at
  <2>4. at \in Nat /\ tlsio <= at /\ at < end
    BY <1>1, <2>1, <2>2
  <2>5. QED BY <1>1, <2>3, <2>4
<1>10. new.pages = 1 /\ new.state = "ThreadLocal"
  BY DEF Block
<1>11. IsAllocated(m, b, key)
  BY <1>6, Allocated DEF TlsPageInv, HostInv
<1>12. at + 1 <= key \/ (at = key /\ at \in Backed(m))
  <2>1. CASE slabs # <<>>
    <3> DEFINE n == Len(slabs)
    <3>1. n \in Nat
      BY <1>1
    <3> HIDE DEF n
    <3>2. at = tlsio + (UserBase + n - 1) /\ key >= tlsio + UserBase + n
      BY <1>2, <1>3, <1>5, <2>1 DEF n
    <3>3. QED BY <1>1, <1>6, <3>1, <3>2
  <2>2. CASE slabs = <<>>
    <3>1. at = tlsio
      BY <1>1, <1>3, <2>2
    <3>2. CASE key = tlsio
      BY <1>6, <3>1, <3>2 DEF TlsPageInv
    <3>3. CASE key # tlsio
      BY <1>1, <1>6, <3>1, <3>3
    <3>4. QED BY <3>2, <3>3
  <2>3. QED BY <2>1, <2>2
<1> HIDE DEF at, new
<1>13. Puts(m, MapBlock(m, at, new), at, 1, blocks)
       /\ (MapBlock(m, at, new).outcome = "ok" => at + 1 <= key /\ ~FewerThan(b[low].pages, 1))
       /\ (Room(m, at, 1) /\ ~FewerThan(b[low].pages, 1) => MapBlock(m, at, new).outcome = "ok")
  <2>1. CASE at + 1 <= key
    <3>1. at + new.pages <= key /\ new.pages \in Nat \ {0} /\ new.state # "Free"
      BY <1>10, <2>1
    <3>2. /\ Puts(m, MapBlock(m, at, new), at, new.pages,
                   With(With(b, low, Shrunk(b[low], new.pages)), at, new))
          /\ MapBlock(m, at, new).outcome = "ok" => ~FewerThan(b[low].pages, new.pages)
          /\ Room(m, at, new.pages) /\ ~FewerThan(b[low].pages, new.pages)
             => MapBlock(m, at, new).outcome = "ok"
      BY <1>2, <1>6, <1>7, <1>9, <1>11, <3>1, PutsBefore DEF end
    <3>3. QED BY <1>10, <2>1, <3>2
  <2>2. CASE at \in Backed(m)
    <3>1. ~CanAllocate(m, at, 1)
      BY <1>9, <2>2, NotAgain DEF HostInv
    <3>2. \/ MapBlock(m, at, new) = m /\ m.outcome # "ok"
          \/ MapBlock(m, at, new) = Fail(m, "exception")
      BY <1>10, <3>1 DEF MapBlock
    <3>3. Fail(m, "exception").outcome # "ok"
      BY FailOf DEF HostInv, Outcomes
    <3>4. ~Room(m, at, 1)
      BY <3>1 DEF Room
    <3>5. QED BY <3>2, <3>3, <3>4, FailPuts DEF HostInv, Puts
  <2>3. QED BY <1>12, <2>1, <2>2
<1>14. /\ Puts(m, left, at, 1, blocks)
       /\ Room(m, at, 1) /\ b[low].pages > 0 => left.outcome = "ok"
  <2>1. b[low].pages > 0 => ~FewerThan(b[low].pages, 1)
    BY DEF FewerThan
  <2> HIDE DEF blocks, left
  <2>2. QED BY <1>8, <1>13, <2>1 DEF at, new
<1>18. PutsBlock(m, left, at, new)
  <2>1. /\ low # at /\ low \in Nat /\ low \in Keys(b) /\ at \in Nat /\ b[low].pages \in Int
        /\ DOMAIN b[low] = BlockFields
    BY <1>2, <1>6, <1>9
  <2>5. \A k \in Keys(b) : k <= at \/ at + new.pages <= k
    BY <1>2, <1>9, <1>10
  <2> HIDE DEF rest, c
  <2>2. rest = Shrunk(b[low], new.pages)
    BY <1>10 DEF rest
  <2>3. Rearranged(b, blocks, at, new, low)
    BY <2>1, <2>2, <2>5, RearrangedWith DEF c
  <2> HIDE DEF blocks, left
  <2>4. QED BY <1>10, <1>14, <2>3 DEF PutsBlock
<1>15. \A p : TlsPageInv(count, m, p) => TlsPageInv(count, left, p)
  <2> SUFFICES ASSUME NEW p, TlsPageInv(count, m, p) PROVE TlsPageInv(count, left, p)
    OBVIOUS
  <2>1. low < TlsIoBegin(count)
    BY <1>2 DEF tlsio
  <2>2. Puts(m, left, at, 1, With(With(m.blocks, low, rest), at, new))
    BY <1>14
  <2> HIDE DEF rest, blocks, left
  <2>3. at \in Nat /\ 1 \in Nat \ {0} /\ low \in Nat
    BY <1>6, <1>9
  <2>4. QED BY <1>8, <2>1, <2>2, <2>3, OtherTlsPages
<1>16. ASSUME left.outcome = "ok"
       PROVE  /\ TlsPageInv(count, left, at) /\ at \notin Backed(m)
              /\ TlsFrom(count, left, low, slab.objects) /\ left.blocks[low].pages \in Nat
              /\ left.blocks[low].pages = b[low].pages - 1
  <2>1. left.blocks = blocks /\ TlsPageInv(count, left, at) /\ at \notin Backed(m)
    BY <1>9, <1>14, <1>16, NewTlsPage DEF Puts, new, tlsio, end
  <2>2. Keys(blocks) = Keys(b) \cup {at} /\ blocks[low] = rest
    <3>1. Keys(c) = Keys(b) \cup {low} /\ c[low] = rest
      BY WithIs
    <3> HIDE DEF c, rest
    <3>2. low # at /\ low \in Keys(c)
      BY <1>6, <1>9, <3>1
    <3>3. QED BY <1>2, <3>1, <3>2, WithIs
  <2>3. DOMAIN rest = BlockFields /\ rest.pages = b[low].pages - 1
    BY <1>2, ShrunkIs
  <2> HIDE DEF blocks, rest, c
  <2>4. ~FewerThan(b[low].pages, 1)
    <3>1. MapBlock(m, at, new).outcome = "ok"
      BY <1>9, <1>13, <1>16, MapSegmentPuts DEF left, at, new, MapTlsMemory, tlsio
    <3>2. QED BY <1>13, <3>1
  <2>5. rest.pages \in Nat
    BY <2>3, <2>4 DEF FewerThan
  <2>6. TlsBlocks(count, left) = TlsBlocks(count, m) \cup {at}
    <3>1. tlsio <= at /\ at < end
      BY <1>1, <1>9
    <3>2. QED BY <2>1, <2>2, <3>1 DEF TlsBlocks, tlsio, end
  <2>7. \A k \in Keys(left.blocks) : k \in Nat /\ (k <= low \/ k \in TlsBlocks(count, left) \/ k = end)
    BY <1>2, <1>9, <2>1, <2>2, <2>6
  <2>8. at >= tlsio + UserBase + Len(slab.objects) \/ (slab.objects = <<>> /\ at = tlsio)
    <3>1. CASE slabs = <<>>
      <4>1. slab.pointer = 0 /\ slab.objects = <<>>
        BY <1>3, <3>1
      <4>2. at = tlsio
        BY <1>1, <4>1 DEF at
      <4>3. QED BY <4>1, <4>2
    <3>2. CASE slabs # <<>>
      <4> DEFINE n == Len(slabs)
      <4>1. n \in Nat
        BY <1>1
      <4> HIDE DEF n
      <4>2. at = tlsio + (UserBase + n - 1) /\ Len(slab.objects) = n - 1
        BY <1>3, <3>2 DEF at, n
      <4>3. QED BY <1>1, <4>1, <4>2
    <3>3. QED BY <3>1, <3>2
  <2>9. \A k \in TlsBlocks(count, m) :
           k >= tlsio + UserBase + Len(slab.objects) \/ (slab.objects = <<>> /\ k = tlsio)
    <3> SUFFICES ASSUME NEW k \in TlsBlocks(count, m)
                 PROVE  k >= tlsio + UserBase + Len(slab.objects) \/ (slab.objects = <<>> /\ k = tlsio)
      OBVIOUS
    <3>1. k \in Nat
      BY <1>2, <1>4
    <3>2. CASE slabs = <<>>
      BY <1>2, <1>3, <3>2
    <3>3. CASE slabs # <<>>
      <4> DEFINE n == Len(slabs)
      <4>1. n \in Nat
        BY <1>1
      <4> HIDE DEF n
      <4>2. k >= tlsio + UserBase + n /\ Len(slab.objects) = n - 1
        BY <1>2, <1>3, <3>3 DEF n
      <4>3. QED BY <1>1, <3>1, <4>1, <4>2
    <3>4. QED BY <3>2, <3>3
  <2>10. \A k \in TlsBlocks(count, left) :
           /\ TlsPageInv(count, left, k)
           /\ k >= tlsio + UserBase + Len(slab.objects) \/ (slab.objects = <<>> /\ k = tlsio)
    BY <1>2, <1>15, <2>1, <2>6, <2>8, <2>9
  <2>11. TlsFrom(count, left, low, slab.objects)
    BY <1>2, <2>1, <2>2, <2>3, <2>6, <2>7, <2>10 DEF TlsFrom, tlsio, end
  <2>12. QED BY <2>1, <2>2, <2>3, <2>5, <2>11
<1>17. QED BY <1>14, <1>15, <1>16, <1>18 DEF left, at, tlsio, slab, new

-----------------------------------------------------------------------------
(* The actions.                                                             *)

Kept == \A p \in Backed(mem) : mem'.mapping[p] = mem.mapping[p]

LEMMA NothingBacked == Backed(NoMemory) = {}
BY DEF NoMemory, Backed

LEMMA BackedIn ==
    ASSUME NEW count \in Nat, NEW m, HostInv(m, SpaceEnd(count)), NEW p \in Backed(m)
    PROVE  p \in Nat /\ p < SpaceEnd(count) /\ m.mapping[p] \in 0 .. HostPages - 1
<1> DEFINE end == SpaceEnd(count)
<1>1. end \in Nat /\ HostPages \in Nat
  BY SegmentsOf, MemoryAssumption
<1>2. m.mapping \in [0 .. end - 1 -> -1 .. HostPages - 1]
  BY DEF HostInv
<1> HIDE DEF end
<1>3. p \in 0 .. end - 1 /\ m.mapping[p] # -1
  BY <1>2 DEF Backed, NoPage
<1>4. m.mapping[p] \in -1 .. HostPages - 1
  BY <1>2, <1>3
<1>5. QED BY <1>1, <1>3, <1>4 DEF end

LEMMA InitKept == ASSUME Init PROVE IInv
<1>1. LayoutInv /\ BssInv /\ PlaceInv
  BY InitLayout
<1>2. MemInv
  BY DEF Init, MemInv, Laid
<1>3. ThreadInv
  <2>1. UserPages \in Nat /\ userslabs = [i \in 1 .. UserPages |-> UserBase + UserPages - i]
    BY LoaderAssumption DEF Init, SlabObjects
  <2>2. Len(userslabs) = UserPages
    <3>1. UserBase \in Int
      BY LoaderAssumption
    <3>2. userslabs \in Seq(Int)
      BY <2>1, <3>1
    <3>3. QED BY <2>1, <3>2
  <2>3. Len(userslabs) \in 0 .. UserPages /\ userslabs = SlabObjects(UserBase, Len(userslabs))
    BY <2>1, <2>2 DEF SlabObjects
  <2>4. freetls = <<>> /\ fulltls = <<>> /\ tls = <<>> /\ stack = 0 /\ phase = "layout"
    BY DEF Init
  <2>5. <<>> \in Seq(Managers) /\ <<>> \in Seq(Slots) /\ Len(<<>>) = 0
    OBVIOUS
  <2>6. QED BY <2>3, <2>4, <2>5 DEF ThreadInv, TlsLists
<1>4. ShapeInv /\ StepInv /\ SlotInv
  BY DEF Init, ShapeInv, StepInv, SlotInv, SlotsInv
<1>5. QED BY <1>1, <1>2, <1>3, <1>4 DEF IInv

LEMMA GetCodeSetKept == ASSUME IInv, NEW m \in Modules, GetCodeSet(m) PROVE IInv' /\ Kept
<1>1. LayoutInv' /\ BssInv' /\ PlaceInv'
  BY GetCodeSetLayout DEF IInv
<1>2. /\ phase = "layout" /\ UNCHANGED <<phase, mem, stack, userslabs, freetls, fulltls, tls>>
  BY DEF GetCodeSet, processVars
<1>3. MemInv' /\ ThreadInv' /\ tls = <<>> /\ freetls = <<>>
  BY <1>2 DEF IInv, MemInv, ThreadInv, TlsLists, Laid
<1>4. ShapeInv' /\ StepInv' /\ SlotInv' /\ Kept
  BY <1>2, <1>3 DEF ShapeInv, StepInv, SlotInv, SlotsInv, Kept
<1>5. QED BY <1>1, <1>3, <1>4 DEF IInv

LEMMA FreeAtFirst ==
    ASSUME NEW count \in Nat
    PROVE  FreeFrom(count, InitializeForProcess(count), 0)
<1> DEFINE end == SpaceEnd(count)
           m == InitializeForProcess(count)
<1>1. m.blocks = [p \in {0, end} |-> IF p = 0 THEN Block(end, "Free") ELSE Block(0, "Inaccessible")]
  BY DEF InitializeForProcess
<1>2. end \in Nat /\ end - 0 = end
  BY SegmentsOf
<1> HIDE DEF end, m
<1>3. FreeFrom(count, m, 0)
  BY <1>1, <1>2 DEF FreeFrom, Keys, Block, BlockFields, end
<1>4. QED BY <1>3 DEF m

LEMMA LoadMemoryKept == ASSUME IInv, LoadMemory PROVE IInv' /\ Kept
<1>1. LayoutInv' /\ BssInv' /\ PlaceInv' /\ InStep' /\ Reached' = 0
  BY LoadMemoryLayout DEF IInv
<1>2. /\ phase = "layout" /\ phase' = "map" /\ mem' = InitializeForProcess(offset)
      /\ UNCHANGED <<offset, stack, userslabs, freetls, fulltls, tls>> /\ offset \in Nat
  BY DEF LoadMemory, processVars, layoutVars, IInv, LayoutInv
<1>3. HostInv(mem', SpaceEnd(offset)) /\ Backed(mem') = {}
  BY <1>2, SpaceOf
<1>4. MemInv'
  BY <1>2, <1>3 DEF MemInv, Laid
<1>5. ThreadInv' /\ tls = <<>> /\ freetls = <<>>
  BY <1>2 DEF IInv, ThreadInv, TlsLists
<1>6. StepInv' /\ SlotInv'
  BY <1>1, <1>2, <1>5 DEF StepInv, SlotInv, SlotsInv
<1>7. ShapeInv'
  <2>1. FreeFrom(offset, mem', 0)
    BY <1>2, FreeAtFirst
  <2>2. QED BY <1>1, <1>2, <2>1 DEF ShapeInv
<1>8. Kept
  BY <1>2, NothingBacked DEF IInv, MemInv, Kept
<1>9. QED BY <1>1, <1>4, <1>5, <1>6, <1>7, <1>8 DEF IInv

\* MapCodeMemory of the section at hand, in a build with asserts or without.
LEMMA MapSectionOf ==
    ASSUME IInv, phase = "map", index <= Len(procimage), Live
    PROVE  /\ Maps(mem, MapSection, Current.offset, Pages(SectionSize))
           /\ Current.offset \in Nat /\ Pages(SectionSize) \in Nat \ {0} /\ Reached = Current.offset
           /\ Current.offset + Pages(SectionSize) <= Following(index)
           /\ Following(index) \in Nat /\ Following(index) <= offset
           /\ Backed(mem) \cap Span(Current.offset, Pages(SectionSize)) = {}
           /\ EachHasBss /\ MapSection.outcome = "ok" =>
                 /\ FreeFrom(offset, MapSection, Current.offset + Pages(SectionSize))
                 /\ Current.offset \in Keys(MapSection.blocks)
                 /\ Current.offset + Pages(SectionSize) = Following(index)
<1> DEFINE at == Current.offset
           pages == Pages(SectionSize)
<1>1. /\ index \in 1 .. Len(procimage) /\ Current \in SectionRecords /\ SectionInv(index)
      /\ pages \in Nat \ {0} /\ at + pages <= Following(index)
      /\ (InStep => SectionSize = Units(Current))
  BY SectionFits DEF IInv
<1>2. at \in Nat
  BY <1>1 DEF SectionRecords
<1>3. /\ at + Pages(Units(Current)) = Following(index) /\ Following(index) <= offset
      /\ Following(index) \in Nat /\ offset \in Nat
  <2>1. /\ at + Pages(Units(Current)) = Following(index) /\ Following(index) <= offset
    BY <1>1 DEF SectionInv, Current
  <2>2. offset \in Nat
    BY DEF IInv, LayoutInv
  <2>3. Following(index) \in Nat
    <3>1. CASE index = Len(procimage)
      BY <2>2, <3>1 DEF Following
    <3>2. CASE index # Len(procimage)
      <4>1. index + 1 \in 1 .. Len(procimage)
        BY <1>1, <3>2
      <4>2. procimage[index + 1] \in SectionRecords
        BY <4>1 DEF IInv, LayoutInv
      <4>3. QED BY <3>2, <4>2 DEF Following, SectionRecords
    <3>3. QED BY <3>1, <3>2
  <2>4. QED BY <2>1, <2>2, <2>3
<1>4. Reached = at
  BY <1>1 DEF Reached, PastSections
<1>5. HostInv(mem, SpaceEnd(offset)) /\ \A p \in Backed(mem) : p < at /\ p \in Int
  <2>1. HostInv(mem, SpaceEnd(offset)) /\ \A p \in Backed(mem) : p < at
    BY <1>4 DEF IInv, MemInv, Laid
  <2>2. \A p \in Backed(mem) : p \in Int
    BY <1>3, <2>1, BackedIn
  <2>3. QED BY <2>1, <2>2
<1> HIDE DEF at, pages
<1>6. Backed(mem) \cap Span(at, pages) = {}
  BY <1>1, <1>2, <1>5 DEF Span
<1>7. MapSection \in {Fail(mem, "aborted"), MapCodeMemory(mem, at, pages)}
  BY DEF MapSection, at, pages
<1>8. at \in Int
  BY <1>2
<1>9. Maps(mem, MapSection, at, pages)
  <2>1. Maps(mem, MapCodeMemory(mem, at, pages), at, pages)
    BY <1>1, <1>5, <1>8, MapCodeMemoryOf
  <2>2. Maps(mem, Fail(mem, "aborted"), at, pages)
    BY <1>5, FailOf DEF Maps, HostInv, Outcomes
  <2>3. QED BY <1>7, <2>1, <2>2
<1>10. ASSUME EachHasBss, MapSection.outcome = "ok"
       PROVE  /\ FreeFrom(offset, MapSection, at + pages)
              /\ at \in Keys(MapSection.blocks) /\ at + pages = Following(index)
  <2>1. MapSection = MapCodeMemory(mem, at, pages)
    BY <1>5, <1>7, <1>10, FailOf DEF HostInv, Outcomes
  <2>2. InStep
    BY <1>10 DEF IInv, StepInv
  <2>3. at + pages = Following(index)
    BY <1>1, <1>3, <2>2 DEF at, pages
  <2>4. FreeFrom(offset, mem, at)
    BY <1>4, <1>10 DEF IInv, ShapeInv
  <2>5. QED BY <1>1, <1>3, <1>5, <1>10, <2>1, <2>3, <2>4, CodeShape
<1>11. QED BY <1>1, <1>2, <1>3, <1>4, <1>6, <1>9, <1>10 DEF at, pages

LEMMA SetSectionKept == ASSUME IInv, SetSection PROVE IInv' /\ Kept
<1> DEFINE at == Current.offset
           pages == Pages(SectionSize)
           next == Following(index)
           end == SpaceEnd(offset)
<1>1. /\ phase = "map" /\ index <= Len(procimage) /\ Live /\ index' = index + 1
      /\ UNCHANGED <<debug, phase, modules, procimage, offset>>
      /\ UNCHANGED <<stack, userslabs, freetls, fulltls, tls>>
  BY DEF SetSection, processVars
<1>2. /\ LayoutInv' /\ BssInv' /\ PlaceInv'
      /\ InStep /\ (BssSize # 0 \/ bintype # 2) /\ index' <= Len(procimage') => InStep'
  BY SetSectionLayout DEF IInv
<1>3. /\ Maps(mem, MapSection, at, pages) /\ Reached = at
      /\ at \in Nat /\ pages \in Nat \ {0} /\ at + pages <= next /\ next \in Nat /\ next <= offset
      /\ Backed(mem) \cap Span(at, pages) = {}
      /\ EachHasBss /\ MapSection.outcome = "ok" =>
            /\ FreeFrom(offset, MapSection, at + pages)
            /\ at \in Keys(MapSection.blocks) /\ at + pages = next
  BY <1>1, MapSectionOf
<1>4. Reached' = next
  <2>1. index \in Nat /\ Len(procimage) \in Nat
    BY DEF IInv, LayoutInv, PlaceInv
  <2>2. QED BY <1>1, <2>1 DEF Reached, PastSections, Following, Current
<1> DEFINE set == SetMemoryPermission(MapSection, at, pages, PermissionOf(bintype))
<1>5. mem' = set \/ mem' = FillBss(set)
  BY DEF SetSection
<1>6. /\ Proper(set) /\ set.mapping = MapSection.mapping /\ set.objects = MapSection.objects
      /\ set.allocs = MapSection.allocs
  BY <1>3, SetMemoryPermissionOf DEF Maps
<1>7. /\ Proper(mem') /\ mem'.mapping = set.mapping /\ mem'.objects = set.objects
      /\ mem'.allocs = set.allocs /\ mem'.blocks = set.blocks /\ (mem'.outcome = "ok" => set.outcome = "ok")
  <2> HIDE DEF set
  <2>1. ASSUME mem' = FillBss(set)
        PROVE  /\ Proper(mem') /\ Untouched(set, mem') /\ mem'.blocks = set.blocks
               /\ mem'.outcome = "ok" => set.outcome = "ok"
    <3>1. PICK first, last : mem' = FillMemory(set, first, last)
      BY <2>1 DEF FillBss
    <3>2. QED BY <1>6, <3>1, FillMemoryOf
  <2>2. QED BY <1>5, <1>6, <2>1 DEF Untouched
<1>8. Gives(mem, mem', at, pages)
  BY <1>3, <1>6, <1>7 DEF Gives
<1>9. HostInv(mem, end) /\ \A p \in Backed(mem) : p < at
  BY <1>1, <1>3 DEF IInv, MemInv, Laid
<1> HIDE DEF at, pages, next, end, set
<1>10. /\ HostInv(mem', end) /\ Backed(mem') \subseteq Backed(mem) \cup Span(at, pages)
       /\ \A p \in Backed(mem) : mem'.mapping[p] = mem.mapping[p]
  <2>1. at \in Int
    BY <1>3
  <2>2. QED BY <1>3, <1>8, <1>9, <2>1, GivesKeeps
<1>11. MemInv'
  <2>1. \A p \in Backed(mem) \cup Span(at, pages) : p < next
    <3>1. ASSUME NEW p \in Backed(mem) PROVE p < next
      <4>1. p \in Int
        BY <1>3, <1>9, BackedIn DEF IInv, LayoutInv, end
      <4>2. QED BY <1>3, <1>9, <4>1
    <3>2. ASSUME NEW p \in Span(at, pages) PROVE p < next
      BY <1>3, <3>2 DEF Span
    <3>3. QED BY <3>1, <3>2
  <2>2. \A p \in Backed(mem') : p < next
    BY <1>10, <2>1
  <2>3. QED BY <1>1, <1>4, <1>10, <2>2 DEF MemInv, Laid, end
<1>12. ThreadInv' /\ tls = <<>> /\ freetls = <<>>
  BY <1>1 DEF IInv, ThreadInv, TlsLists
<1>13. SlotInv'
  BY <1>1, <1>12 DEF SlotInv, SlotsInv
<1>14. StepInv'
  <2> SUFFICES ASSUME EachHasBss', index' <= Len(procimage') PROVE InStep'
    BY DEF StepInv
  <2>1. EachHasBss /\ InStep
    BY <1>1 DEF EachHasBss, IInv, StepInv
  <2>2. BssSize # 0 \/ bintype # 2
    <3>1. SUFFICES ASSUME BssSize = 0, bintype = 2 PROVE FALSE
      OBVIOUS
    <3>2. /\ BssSize = modules[Current.module].bss /\ SectionInv(index) /\ index \in 1 .. Len(procimage)
      BY <1>1, <2>1, <3>1, SectionFits DEF IInv
    <3>3. /\ Current.module \in 1 .. Len(modules) /\ 2 = index - 3 * Current.module + 2
          /\ Len(procimage) = 3 * Len(modules) /\ Len(modules) \in Nat
      BY <2>1, <3>1, <3>2 DEF SectionInv, Current, InStep, IInv, LayoutInv
    <3>4. Current.module \notin 1 .. Len(modules) - 1
      <4>1. ~(modules[Current.module].bss > 0)
        BY <3>1, <3>2
      <4>2. QED BY <2>1, <4>1 DEF EachHasBss
    <3>5. Current.module = Len(modules)
      BY <3>3, <3>4
    <3>6. index = Len(procimage) /\ index' = index + 1
      BY <1>1, <3>2, <3>3, <3>5
    <3>7. QED BY <1>1, <3>2, <3>6
  <2>3. QED BY <1>2, <2>1, <2>2
<1>15. ShapeInv'
  <2> SUFFICES ASSUME EachHasBss', Live' PROVE FreeFrom(offset, mem', next)
    BY <1>1, <1>4 DEF ShapeInv
  <2>1. EachHasBss
    BY <1>1 DEF EachHasBss
  <2>2. set.outcome = "ok"
    BY <1>7 DEF Live
  <2>3. MapSection.outcome = "ok"
    <3>1. MapSection.outcome # "ok" => set = MapSection
      BY DEF SetMemoryPermission, set
    <3>2. QED BY <2>2, <3>1
  <2>4. FreeFrom(offset, MapSection, next) /\ at \in Keys(MapSection.blocks) /\ at < next
    BY <1>3, <2>1, <2>3
  <2>5. Proper(MapSection) /\ offset \in Nat
    BY <1>3 DEF Maps, IInv, LayoutInv
  <2>6. FreeFrom(offset, set, next)
    BY <2>2, <2>4, <2>5, PermissionShape DEF set
  <2>7. QED BY <1>7, <2>6 DEF FreeFrom
<1>16. Kept
  BY <1>10 DEF Kept
<1>17. QED BY <1>2, <1>11, <1>12, <1>13, <1>14, <1>15, <1>16 DEF IInv

LEMMA ReturnKept == ASSUME IInv, ReturnAtSilentSection PROVE IInv' /\ Kept
<1> DEFINE at == Current.offset
           pages == Pages(SectionSize)
           end == SpaceEnd(offset)
<1>1. /\ phase = "map" /\ index <= Len(procimage) /\ Live /\ phase' = "start" /\ mem' = MapSection
      /\ UNCHANGED <<debug, index, bintype, modules, procimage, bsslayout, offset>>
      /\ UNCHANGED <<stack, userslabs, freetls, fulltls, tls>>
  BY DEF ReturnAtSilentSection, processVars, layoutVars
<1>2. LayoutInv' /\ BssInv' /\ PlaceInv'
  BY <1>1, RestLayout DEF IInv, layoutVars
<1>3. /\ Maps(mem, mem', at, pages) /\ Reached = at
      /\ at \in Nat /\ pages \in Nat \ {0} /\ at + pages <= offset /\ offset \in Nat
      /\ Backed(mem) \cap Span(at, pages) = {}
      /\ EachHasBss /\ mem'.outcome = "ok" => FreeFrom(offset, mem', at + pages)
  <2>1. offset \in Nat
    BY DEF IInv, LayoutInv
  <2>2. QED BY <1>1, <2>1, MapSectionOf
<1>4. HostInv(mem, end) /\ \A p \in Backed(mem) : p < at
  BY <1>1, <1>3 DEF IInv, MemInv, Laid
<1> HIDE DEF at, pages, end
<1>5. /\ HostInv(mem', end) /\ Backed(mem') \subseteq Backed(mem) \cup Span(at, pages)
      /\ \A p \in Backed(mem) : mem'.mapping[p] = mem.mapping[p]
  <2>1. at \in Int
    BY <1>3
  <2>2. QED BY <1>3, <1>4, <2>1, MapsPages
<1>6. MemInv'
  <2>1. \A p \in Backed(mem) \cup Span(at, pages) : p < offset
    <3>1. ASSUME NEW p \in Backed(mem) PROVE p < offset
      <4>1. p \in Int
        BY <1>3, <1>4, BackedIn DEF end
      <4>2. QED BY <1>3, <1>4, <4>1
    <3>2. ASSUME NEW p \in Span(at, pages) PROVE p < offset
      BY <1>3, <3>2 DEF Span
    <3>3. QED BY <3>1, <3>2
  <2>2. \A p \in Backed(mem') : p < offset
    BY <1>5, <2>1
  <2>3. QED BY <1>1, <1>5, <2>2 DEF MemInv, Laid, end
<1>7. ThreadInv' /\ tls = <<>> /\ freetls = <<>>
  BY <1>1 DEF IInv, ThreadInv, TlsLists
<1>8. SlotInv' /\ StepInv'
  BY <1>1, <1>7 DEF SlotInv, SlotsInv, StepInv
<1>9. ShapeInv'
  <2>1. at + pages \in 0 .. offset
    BY <1>3
  <2>2. EachHasBss' = EachHasBss
    BY <1>1 DEF EachHasBss
  <2>3. QED BY <1>1, <1>3, <1>7, <2>1, <2>2 DEF ShapeInv, Live
<1>10. QED BY <1>2, <1>5, <1>6, <1>7, <1>8, <1>9 DEF IInv, Kept

LEMMA EndOfSectionsKept == ASSUME IInv, EndOfSections PROVE IInv' /\ Kept
<1>1. /\ phase = "map" /\ PastSections /\ phase' = "start"
      /\ UNCHANGED <<debug, index, bintype, mem, modules, procimage, bsslayout, offset>>
      /\ UNCHANGED <<stack, userslabs, freetls, fulltls, tls>>
  BY DEF EndOfSections, processVars, layoutVars
<1>2. LayoutInv' /\ BssInv' /\ PlaceInv'
  BY <1>1, RestLayout DEF IInv, layoutVars
<1>3. Reached = offset /\ offset \in Nat
  BY <1>1 DEF Reached, IInv, LayoutInv
<1>4. MemInv'
  BY <1>1, <1>3 DEF IInv, MemInv, Laid
<1>5. ThreadInv' /\ tls = <<>> /\ freetls = <<>>
  BY <1>1 DEF IInv, ThreadInv, TlsLists
<1>6. SlotInv' /\ StepInv'
  BY <1>1, <1>5 DEF SlotInv, SlotsInv, StepInv
<1>7. ShapeInv'
  <2>1. EachHasBss' = EachHasBss /\ Live' = Live /\ offset \in 0 .. offset
    BY <1>1, <1>3 DEF EachHasBss, Live
  <2>2. QED BY <1>1, <1>3, <1>5, <2>1 DEF IInv, ShapeInv
<1>8. QED BY <1>1, <1>2, <1>4, <1>5, <1>6, <1>7 DEF IInv, Kept

-----------------------------------------------------------------------------
(* The actions of the threads.                                              *)

\* A slot is taken off the only page with free ones.
LEMMA TakeFromOf ==
    ASSUME TlsLists, NEW managers, managers \in Seq(Managers), Len(managers) = 1,
           managers[1].freeslots # {}, TakeFrom(managers)
    PROVE  /\ freetls' \in Seq(Managers) /\ Len(freetls') <= 1
           /\ \A i \in 1 .. Len(freetls') : freetls'[i].freeslots # {}
           /\ fulltls' \in Seq(Managers) /\ \A i \in 1 .. Len(fulltls') : fulltls'[i].freeslots = {}
           /\ tls' \in Seq(Slots) /\ tls' # <<>>
           /\ \A count, m : SlotsInv(count, m, managers, tls) => SlotsInv(count, m, freetls', tls')
<1> DEFINE manager == managers[1]
           slot == FirstSlot(manager)
           left == TakeSlot(manager, slot)
           taken == [page |-> left.page, slot |-> slot]
           n == Len(tls)
<1>1. manager \in Managers /\ Head(managers) = manager /\ Tail(managers) = <<>>
  <2>1. manager \in Managers
    <3>1. 1 \in 1 .. Len(managers)
      OBVIOUS
    <3>2. QED BY <3>1, ElementOfSeq
  <2>2. managers # <<>>
    BY EmptySeq
  <2>3. Head(managers) = manager
    BY <2>2
  <2>4. Tail(managers) \in Seq(Managers) /\ Len(Tail(managers)) = 0
    BY <2>2
  <2>5. Tail(managers) = <<>>
    BY <2>4, EmptySeq
  <2>6. QED BY <2>1, <2>3, <2>5
<1>2. manager.page \in Int /\ manager.freeslots \subseteq 1 .. TlsSlotCount
  BY <1>1 DEF Managers
<1> HIDE DEF manager
<1>3. slot \in manager.freeslots
  <2>1. manager.freeslots \subseteq Nat /\ manager.freeslots # {}
    BY <1>2 DEF manager
  <2>2. \E s \in manager.freeslots : \A t \in manager.freeslots : s <= t
    BY <2>1, Smallest
  <2>3. QED BY <2>2 DEF FirstSlot
<1> HIDE DEF slot
<1>4. /\ left \in Managers /\ left.page = manager.page
      /\ left.freeslots = manager.freeslots \ {slot}
  BY <1>1, <1>2 DEF TakeSlot, Managers
<1>5. taken \in Slots /\ taken.page = manager.page /\ taken.slot = slot
  BY <1>2, <1>3, <1>4 DEF Slots
<1>6. /\ tls' = Append(tls, taken)
      /\ (left.freeslots # {} /\ freetls' = <<left>> \o <<>> /\ fulltls' = fulltls)
           \/ (left.freeslots = {} /\ freetls' = <<>> /\ fulltls' = <<left>> \o fulltls)
  BY <1>1 DEF TakeFrom, Allocatable, slot
<1> HIDE DEF left, taken
<1>7. <<left>> \o <<>> = <<left>>
  BY <1>4
<1>8. /\ tls \in Seq(Slots) /\ fulltls \in Seq(Managers)
      /\ \A i \in 1 .. Len(fulltls) : fulltls[i].freeslots = {}
  BY DEF TlsLists
<1>9. /\ tls' \in Seq(Slots) /\ n \in Nat /\ DOMAIN tls' = 1 .. n + 1 /\ DOMAIN tls = 1 .. n
      /\ tls'[n + 1] = taken /\ \A i \in 1 .. n : tls'[i] = tls[i]
  BY <1>5, <1>6, <1>8
<1>10. tls' # <<>>
  <2>1. 1 \in DOMAIN tls'
    BY <1>9
  <2>2. DOMAIN <<>> = {}
    OBVIOUS
  <2>3. QED BY <2>1, <2>2
<1>11. /\ freetls' \in Seq(Managers) /\ Len(freetls') <= 1
       /\ \A i \in DOMAIN freetls' : freetls'[i] = left /\ left.freeslots # {}
       /\ \A i \in 1 .. Len(freetls') : freetls'[i].freeslots # {}
  <2>1. CASE freetls' = <<left>> /\ left.freeslots # {}
    BY <1>4, <2>1
  <2>2. CASE freetls' = <<>>
    BY <2>2
  <2>3. QED BY <1>6, <1>7, <2>1, <2>2
<1>12. fulltls' \in Seq(Managers) /\ \A i \in 1 .. Len(fulltls') : fulltls'[i].freeslots = {}
  <2>1. CASE fulltls' = fulltls
    BY <1>8, <2>1
  <2>2. CASE left.freeslots = {} /\ fulltls' = <<left>> \o fulltls
    <3> DEFINE full == <<left>> \o fulltls
    <3>1. <<left>> \in Seq(Managers) /\ Len(<<left>>) = 1 /\ <<left>>[1] = left
      BY <1>4
    <3>2. full \in Seq(Managers) /\ Len(full) = Len(<<left>>) + Len(fulltls)
      BY <1>8, <3>1
    <3>3. \A i \in 1 .. Len(full) : full[i] = IF i <= Len(<<left>>) THEN <<left>>[i] ELSE fulltls[i - Len(<<left>>)]
      BY <1>8, <3>1
    <3>4. Len(fulltls) \in Nat
      BY <1>8
    <3> HIDE DEF full
    <3>5. ASSUME NEW i \in 1 .. Len(full) PROVE full[i].freeslots = {}
      <4>1. CASE i = 1
        BY <2>2, <3>1, <3>3, <4>1
      <4>2. CASE i # 1
        <5>1. i - 1 \in 1 .. Len(fulltls) /\ ~(i <= 1)
          BY <3>1, <3>2, <3>4, <4>2
        <5>2. full[i] = fulltls[i - 1]
          BY <3>1, <3>3, <5>1
        <5>3. QED BY <1>8, <5>1, <5>2
      <4>3. QED BY <4>1, <4>2
    <3>6. QED BY <2>2, <3>2, <3>5 DEF full
  <2>3. QED BY <1>6, <2>1, <2>2
<1>13. ASSUME NEW count, NEW m, SlotsInv(count, m, managers, tls)
       PROVE  SlotsInv(count, m, freetls', tls')
  <2>1. /\ \A i \in 1 .. n : TlsPageInv(count, m, tls[i].page)
        /\ TlsPageInv(count, m, manager.page)
        /\ \A i \in 1 .. n : tls[i].page = manager.page => tls[i].slot \notin manager.freeslots
        /\ \A i, j \in 1 .. n : tls[i] = tls[j] => i = j
    <3>1. 1 \in DOMAIN managers /\ managers[1] = manager
      BY <1>1
    <3>2. QED BY <1>9, <1>13, <3>1 DEF SlotsInv
  <2>2. \A i \in 1 .. n + 1 : (i \in 1 .. n /\ tls'[i] = tls[i]) \/ (i = n + 1 /\ tls'[i] = taken)
    BY <1>9
  <2>3. \A i \in DOMAIN tls' : TlsPageInv(count, m, tls'[i].page)
    BY <1>5, <1>9, <2>1, <2>2
  <2>4. \A i \in DOMAIN freetls' : TlsPageInv(count, m, freetls'[i].page)
    BY <1>4, <1>11, <2>1
  <2>5. \A i \in DOMAIN tls' : tls'[i].page = left.page => tls'[i].slot \notin left.freeslots
    BY <1>4, <1>5, <1>9, <2>1, <2>2
  <2>6. \A i \in 1 .. n : tls[i] # taken
    BY <1>3, <1>5, <2>1
  <2>7. \A i, j \in DOMAIN tls' : tls'[i] = tls'[j] => i = j
    BY <1>9, <2>1, <2>2, <2>6
  <2>8. QED BY <1>11, <2>3, <2>4, <2>5, <2>7 DEF SlotsInv
<1>14. QED BY <1>9, <1>10, <1>11, <1>12, <1>13

\* AllocateTls with a page that has a free slot, and with the next page of userslabs.
Fresh == [page |-> TlsIoBegin(offset) + SlabAllocate(userslabs).pointer, freeslots |-> 1 .. TlsSlotCount]

LEMMA AllocateTlsCases ==
    ASSUME NEW before, AllocateTls(before)
    PROVE  \/ freetls # <<>> /\ TakeFrom(freetls) /\ mem' = before /\ userslabs' = userslabs
           \/ /\ freetls = <<>>
              /\ mem' = MapTlsMemory(before, offset, SlabAllocate(userslabs).pointer)
              /\ userslabs' = SlabAllocate(userslabs).objects
              /\ \/ mem'.outcome = "ok" /\ TakeFrom(<<Fresh>>)
                 \/ mem'.outcome # "ok" /\ UNCHANGED <<freetls, fulltls, tls>>
<1>1. CASE freetls # <<>>
  BY <1>1 DEF AllocateTls
<1>2. CASE freetls = <<>>
  <2>1. PICK mapped \in {MapTlsMemory(before, offset, SlabAllocate(userslabs).pointer)} :
            /\ userslabs' = SlabAllocate(userslabs).objects /\ mem' = mapped
            /\ IF mapped.outcome = "ok" THEN TakeFrom(<<Fresh>>) ELSE UNCHANGED <<freetls, fulltls, tls>>
    BY <1>2 DEF AllocateTls, Fresh
  <2>2. QED BY <1>2, <2>1
<1>3. QED BY <1>1, <1>2

LEMMA OneFreePage ==
    ASSUME TlsLists, freetls # <<>>
    PROVE  freetls \in Seq(Managers) /\ Len(freetls) = 1 /\ freetls[1].freeslots # {}
<1>1. freetls \in Seq(Managers) /\ Len(freetls) <= 1
  BY DEF TlsLists
<1>2. \A i \in 1 .. Len(freetls) : freetls[i].freeslots # {}
  BY DEF TlsLists
<1>3. Len(freetls) \in Nat \ {0}
  BY <1>1, EmptySeq
<1>4. Len(freetls) = 1
  <2>1. \A n \in Nat \ {0} : n <= 1 => n = 1
    OBVIOUS
  <2>2. QED BY <1>1, <1>3, <2>1
<1>5. 1 \in 1 .. 1
  OBVIOUS
<1>6. QED BY <1>1, <1>2, <1>4, <1>5

LEMMA FreshOf ==
    ASSUME TlsLists, offset \in Nat
    PROVE  /\ SlabAllocate(userslabs).pointer \in Nat /\ SlabAllocate(userslabs).pointer < TlsIoPages
           /\ Fresh.page = TlsIoBegin(offset) + SlabAllocate(userslabs).pointer
           /\ Fresh.page \in TlsIoBegin(offset) .. SpaceEnd(offset) - 1
           /\ Fresh \in Managers /\ Fresh.freeslots # {}
           /\ <<Fresh>> \in Seq(Managers) /\ Len(<<Fresh>>) = 1 /\ <<Fresh>>[1] = Fresh
<1>1. /\ SlabAllocate(userslabs).pointer \in Nat
      /\ SlabAllocate(userslabs).pointer < TlsIoPages
  BY UserSlab DEF TlsLists
<1>2. /\ TlsIoBegin(offset) \in Nat /\ SpaceEnd(offset) = TlsIoBegin(offset) + TlsIoPages
      /\ TlsIoPages \in Nat /\ TlsSlotCount \in Nat /\ TlsSlotCount > 0
  BY SegmentsOf, MemoryAssumption, LoaderAssumption
<1>3. /\ Fresh.page = TlsIoBegin(offset) + SlabAllocate(userslabs).pointer
      /\ Fresh = [page |-> Fresh.page, freeslots |-> 1 .. TlsSlotCount]
  BY DEF Fresh
<1>4. Fresh.page \in TlsIoBegin(offset) .. SpaceEnd(offset) - 1
  BY <1>1, <1>2, <1>3
<1>5. 1 \in Fresh.freeslots /\ Fresh \in Managers
  BY <1>2, <1>3, <1>4 DEF Managers
<1>6. QED BY <1>1, <1>3, <1>4, <1>5

\* What is mapped stays, and the new page is in its segment.
LEMMA AllocateTlsOf ==
    ASSUME TlsLists, offset \in Nat, NEW before, HostInv(before, SpaceEnd(offset)), AllocateTls(before)
    PROVE  /\ TlsLists' /\ (mem'.outcome = "ok" => tls' # <<>>)
           /\ HostInv(mem', SpaceEnd(offset))
           /\ \A p \in Backed(mem') : p \in Backed(before) \/ p >= TlsIoBegin(offset)
           /\ \A p \in Backed(before) : mem'.mapping[p] = before.mapping[p] /\ p \in Backed(mem')
<1> DEFINE slab == SlabAllocate(userslabs)
           at == TlsIoBegin(offset) + slab.pointer
<1>1. CASE freetls # <<>> /\ TakeFrom(freetls) /\ mem' = before /\ userslabs' = userslabs
  <2>1. freetls \in Seq(Managers) /\ Len(freetls) = 1 /\ freetls[1].freeslots # {}
    BY <1>1, OneFreePage
  <2>2. /\ freetls' \in Seq(Managers) /\ Len(freetls') <= 1
        /\ \A i \in 1 .. Len(freetls') : freetls'[i].freeslots # {}
        /\ fulltls' \in Seq(Managers) /\ \A i \in 1 .. Len(fulltls') : fulltls'[i].freeslots = {}
        /\ tls' \in Seq(Slots) /\ tls' # <<>>
    BY <1>1, <2>1, TakeFromOf
  <2>3. TlsLists'
    BY <1>1, <2>2 DEF TlsLists
  <2>4. QED BY <1>1, <2>2, <2>3
<1>2. CASE /\ freetls = <<>> /\ mem' = MapTlsMemory(before, offset, slab.pointer)
           /\ userslabs' = slab.objects
           /\ \/ mem'.outcome = "ok" /\ TakeFrom(<<Fresh>>)
              \/ mem'.outcome # "ok" /\ UNCHANGED <<freetls, fulltls, tls>>
  <2>1. /\ slab.pointer \in Nat /\ at = Fresh.page /\ at >= TlsIoBegin(offset) /\ at \in Int
        /\ <<Fresh>> \in Seq(Managers) /\ Len(<<Fresh>>) = 1 /\ <<Fresh>>[1].freeslots # {}
    BY FreshOf, SegmentsOf
  <2>2. Len(userslabs') \in 0 .. UserPages /\ userslabs' = SlabObjects(UserBase, Len(userslabs'))
    BY <1>2, UserSlab DEF TlsLists
  <2>3. TlsLists' /\ (mem'.outcome = "ok" => tls' # <<>>)
    <3>1. CASE mem'.outcome = "ok" /\ TakeFrom(<<Fresh>>)
      <4>1. /\ freetls' \in Seq(Managers) /\ Len(freetls') <= 1
            /\ \A i \in 1 .. Len(freetls') : freetls'[i].freeslots # {}
            /\ fulltls' \in Seq(Managers) /\ \A i \in 1 .. Len(fulltls') : fulltls'[i].freeslots = {}
            /\ tls' \in Seq(Slots) /\ tls' # <<>>
        BY <2>1, <3>1, TakeFromOf
      <4>2. QED BY <2>2, <4>1 DEF TlsLists
    <3>2. CASE mem'.outcome # "ok" /\ UNCHANGED <<freetls, fulltls, tls>>
      BY <2>2, <3>2 DEF TlsLists
    <3>3. QED BY <1>2, <3>1, <3>2
  <2>4. Maps(before, mem', at, 1)
    BY <1>2, <2>1, MapTlsMemoryOf
  <2>5. Span(at, 1) = {at}
    BY <2>1 DEF Span
  <2> HIDE DEF at
  <2>6. /\ HostInv(mem', SpaceEnd(offset)) /\ Backed(mem') \subseteq Backed(before) \cup Span(at, 1)
        /\ \A p \in Backed(before) : mem'.mapping[p] = before.mapping[p] /\ p \in Backed(mem')
    BY <2>1, <2>4, MapsPages
  <2>7. QED BY <2>1, <2>3, <2>5, <2>6
<1>3. QED BY <1>1, <1>2, AllocateTlsCases

LEMMA SlotsKept ==
    ASSUME NEW count, NEW m, NEW left, NEW free, NEW slots, SlotsInv(count, m, free, slots),
           \A p : TlsPageInv(count, m, p) => TlsPageInv(count, left, p)
    PROVE  SlotsInv(count, left, free, slots)
BY DEF SlotsInv

\* A slot of a page there is, or the first one of a page that was not mapped before.
LEMMA AllocateTlsSlots ==
    ASSUME TlsLists, offset \in Nat, NEW before, HostInv(before, SpaceEnd(offset)), AllocateTls(before),
           SlotsInv(offset, before, freetls, tls), before.outcome = "ok",
           NEW low, TlsFrom(offset, before, low, userslabs), before.blocks[low].pages \in Nat
    PROVE  /\ SlotsInv(offset, mem', freetls', tls')
           /\ mem'.outcome = "ok" => /\ TlsFrom(offset, mem', low, userslabs')
                                     /\ mem'.blocks[low].pages \in Nat
<1> DEFINE slab == SlabAllocate(userslabs)
           at == TlsIoBegin(offset) + slab.pointer
<1>1. CASE freetls # <<>> /\ TakeFrom(freetls) /\ mem' = before /\ userslabs' = userslabs
  <2>1. freetls \in Seq(Managers) /\ Len(freetls) = 1 /\ freetls[1].freeslots # {}
    BY <1>1, OneFreePage
  <2>2. SlotsInv(offset, before, freetls', tls')
    BY <1>1, <2>1, TakeFromOf
  <2>3. QED BY <1>1, <2>2
<1>2. CASE /\ freetls = <<>> /\ mem' = MapTlsMemory(before, offset, slab.pointer)
           /\ userslabs' = slab.objects
           /\ \/ mem'.outcome = "ok" /\ TakeFrom(<<Fresh>>)
              \/ mem'.outcome # "ok" /\ UNCHANGED <<freetls, fulltls, tls>>
  <2>1. /\ at = Fresh.page /\ <<Fresh>> \in Seq(Managers) /\ Len(<<Fresh>>) = 1
        /\ <<Fresh>>[1] = Fresh /\ <<Fresh>>[1].freeslots # {}
    BY FreshOf
  <2>2. /\ \A p : TlsPageInv(offset, before, p) => TlsPageInv(offset, mem', p)
        /\ mem'.outcome = "ok" =>
              /\ TlsPageInv(offset, mem', at) /\ at \notin Backed(before)
              /\ TlsFrom(offset, mem', low, userslabs') /\ mem'.blocks[low].pages \in Nat
    BY <1>2, NextTlsShape DEF TlsLists
  <2> HIDE DEF at, slab
  <2>3. SlotsInv(offset, mem', freetls, tls)
    BY <2>2, SlotsKept
  <2>4. ASSUME mem'.outcome = "ok", TakeFrom(<<Fresh>>) PROVE SlotsInv(offset, mem', freetls', tls')
    <3>1. TlsPageInv(offset, mem', Fresh.page)
      BY <2>1, <2>2, <2>4
    <3>2. \A i \in DOMAIN tls : tls[i].page # Fresh.page
      BY <2>1, <2>2, <2>4 DEF SlotsInv, TlsPageInv
    <3>3. DOMAIN <<Fresh>> = {1}
      OBVIOUS
    <3>4. SlotsInv(offset, mem', <<Fresh>>, tls)
      BY <2>1, <2>3, <3>1, <3>2, <3>3 DEF SlotsInv
    <3>5. QED BY <2>1, <2>4, <3>4, TakeFromOf
  <2>5. QED BY <1>2, <2>2, <2>3, <2>4
<1>3. QED BY <1>1, <1>2, AllocateTlsCases

LEMMA AllocateExceptionTlsKept ==
    ASSUME IInv, NEW size \in StackSizes, AllocateExceptionTls(size) PROVE IInv' /\ Kept
<1>1. /\ phase = "start" /\ Live /\ tls = <<>> /\ stack' = size /\ AllocateTls(mem)
      /\ UNCHANGED <<debug, phase, index, bintype, modules, procimage, bsslayout, offset>>
  BY DEF AllocateExceptionTls, layoutVars
<1>2. LayoutInv' /\ BssInv' /\ PlaceInv'
  BY <1>1, RestLayout DEF IInv, layoutVars
<1>3. /\ TlsLists /\ offset \in Nat /\ HostInv(mem, SpaceEnd(offset)) /\ freetls = <<>>
      /\ \A p \in Backed(mem) : p < offset \/ p >= TlsIoBegin(offset)
  BY <1>1 DEF IInv, ThreadInv, TlsLists, LayoutInv, MemInv, Laid
<1>4. /\ TlsLists' /\ (mem'.outcome = "ok" => tls' # <<>>) /\ HostInv(mem', SpaceEnd(offset))
      /\ \A p \in Backed(mem') : p \in Backed(mem) \/ p >= TlsIoBegin(offset)
      /\ \A p \in Backed(mem) : mem'.mapping[p] = mem.mapping[p] /\ p \in Backed(mem')
  BY <1>1, <1>3, AllocateTlsOf
<1>5. MemInv' /\ ThreadInv' /\ Kept
  <2>1. MemInv'
    BY <1>1, <1>3, <1>4 DEF MemInv, Laid
  <2>2. ThreadInv'
    BY <1>1, <1>4 DEF ThreadInv
  <2>3. QED BY <1>4, <2>1, <2>2 DEF Kept
<1>6. StepInv'
  BY <1>1 DEF StepInv
<1>7. EachHasBss' = EachHasBss
  BY <1>1 DEF EachHasBss
<1>8. /\ mem' = MapTlsMemory(mem, offset, SlabAllocate(userslabs).pointer)
      /\ userslabs' = SlabAllocate(userslabs).objects
      /\ \/ mem'.outcome = "ok" /\ TakeFrom(<<Fresh>>)
         \/ mem'.outcome # "ok" /\ UNCHANGED <<freetls, fulltls, tls>>
  BY <1>1, <1>3, AllocateTlsCases
<1>9. ASSUME EachHasBss, mem'.outcome = "ok"
      PROVE  \E at \in 0 .. offset :
                /\ TlsPageInv(offset, mem', Fresh.page) /\ TlsFrom(offset, mem', at, userslabs')
                /\ mem'.blocks[at].state = "Free" /\ mem'.blocks[at].pages = SpaceEnd(offset) - at - 1
  <2>1. PICK at \in 0 .. offset : FreeFrom(offset, mem, at)
    BY <1>1, <1>9 DEF IInv, ShapeInv
  <2>2. /\ TlsPageInv(offset, mem', TlsIoBegin(offset) + SlabAllocate(userslabs).pointer)
        /\ TlsFrom(offset, mem', at, userslabs')
        /\ mem'.blocks[at].state = "Free" /\ mem'.blocks[at].pages = SpaceEnd(offset) - at - 1
    BY <1>3, <1>8, <1>9, <2>1, FirstTlsShape DEF TlsLists
  <2>3. Fresh.page = TlsIoBegin(offset) + SlabAllocate(userslabs).pointer
    BY <1>3, FreshOf
  <2>4. QED BY <2>2, <2>3
<1>10. ShapeInv'
  BY <1>1, <1>4, <1>7, <1>9 DEF ShapeInv, Live
<1>11. SlotInv'
  <2> SUFFICES ASSUME EachHasBss PROVE SlotsInv(offset, mem', freetls', tls')
    BY <1>1, <1>7 DEF SlotInv
  <2>1. CASE mem'.outcome = "ok" /\ TakeFrom(<<Fresh>>)
    <3>1. /\ <<Fresh>> \in Seq(Managers) /\ Len(<<Fresh>>) = 1 /\ <<Fresh>>[1] = Fresh
          /\ Fresh.freeslots # {}
      BY <1>3, FreshOf
    <3>2. TlsPageInv(offset, mem', Fresh.page) /\ DOMAIN <<Fresh>> = {1}
      BY <1>9, <2>1
    <3>3. DOMAIN tls = {}
      BY <1>1
    <3>4. SlotsInv(offset, mem', <<Fresh>>, tls)
      BY <3>1, <3>2, <3>3 DEF SlotsInv
    <3>5. QED BY <1>3, <2>1, <3>1, <3>4, TakeFromOf
  <2>2. CASE freetls' = freetls /\ tls' = tls
    <3>1. DOMAIN tls' = {} /\ DOMAIN freetls' = {}
      BY <1>1, <1>3, <2>2
    <3>2. QED BY <3>1 DEF SlotsInv
  <2>3. QED BY <1>8, <2>1, <2>2
<1>12. QED BY <1>2, <1>5, <1>6, <1>10, <1>11 DEF IInv

LEMMA InitializeThreadKept == ASSUME IInv, InitializeThread PROVE IInv' /\ Kept
<1> DEFINE mapped == MapStackMemory(mem, offset, stack)
           at == StackBegin(offset)
<1>1. /\ phase = "start" /\ Live /\ tls # <<>> /\ phase' = "run"
      /\ UNCHANGED <<debug, index, bintype, stack, modules, procimage, bsslayout, offset>>
      /\ \/ mapped.outcome = "ok" /\ AllocateTls(mapped)
         \/ mapped.outcome # "ok" /\ mem' = mapped /\ UNCHANGED <<userslabs, freetls, fulltls, tls>>
  BY DEF InitializeThread, layoutVars
<1>2. LayoutInv' /\ BssInv' /\ PlaceInv'
  BY <1>1, RestLayout DEF IInv, layoutVars
<1>3. /\ TlsLists /\ offset \in Nat /\ HostInv(mem, SpaceEnd(offset)) /\ stack \in StackSizes
      /\ \A p \in Backed(mem) : p < offset \/ p >= TlsIoBegin(offset)
  BY <1>1 DEF IInv, ThreadInv, LayoutInv, MemInv, Laid
<1>4. stack \in Nat \ {0} /\ stack <= StackSegmentPages /\ StackSegmentPages \in Nat
  BY <1>3, LoaderAssumption, MemoryAssumption
<1>5. /\ at \in Nat /\ offset < at /\ TlsIoBegin(offset) = at + StackSegmentPages
  BY <1>3, SegmentsOf
<1>6. Maps(mem, mapped, at, stack)
  BY <1>3, <1>4, <1>5, MapStackMemoryOf
<1>7. Backed(mem) \cap Span(at, stack) = {}
  <2>1. ASSUME NEW p \in Backed(mem), p \in Span(at, stack) PROVE FALSE
    <3>1. p \in Int /\ at <= p /\ p < at + stack
      BY <1>4, <1>5, <2>1 DEF Span
    <3>2. p < offset \/ p >= TlsIoBegin(offset)
      BY <1>3
    <3> HIDE DEF at
    <3>3. QED BY <1>3, <1>4, <1>5, <3>1, <3>2
  <2>2. QED BY <2>1
<1> HIDE DEF mapped, at
<1>8. /\ HostInv(mapped, SpaceEnd(offset))
      /\ \A p \in Backed(mem) : mapped.mapping[p] = mem.mapping[p] /\ p \in Backed(mapped)
  <2>1. at \in Int
    BY <1>5
  <2>2. QED BY <1>3, <1>4, <1>6, <1>7, <2>1, MapsPages
<1>9. /\ HostInv(mem', SpaceEnd(offset)) /\ TlsLists'
      /\ \A p \in Backed(mem) : mem'.mapping[p] = mem.mapping[p]
  <2>1. CASE AllocateTls(mapped)
    <3>1. /\ TlsLists' /\ HostInv(mem', SpaceEnd(offset))
          /\ \A p \in Backed(mapped) : mem'.mapping[p] = mapped.mapping[p]
      BY <1>3, <1>8, <2>1, AllocateTlsOf
    <3>2. QED BY <1>8, <3>1
  <2>2. CASE mem' = mapped /\ UNCHANGED <<userslabs, freetls, fulltls, tls>>
    BY <1>3, <1>8, <2>2 DEF TlsLists
  <2>3. QED BY <1>1, <2>1, <2>2
<1>10. MemInv' /\ Kept /\ StepInv'
  BY <1>1, <1>9 DEF MemInv, Laid, Kept, StepInv
<1>11. ThreadInv'
  BY <1>1, <1>3, <1>9 DEF ThreadInv
<1>12. EachHasBss' = EachHasBss
  BY <1>1 DEF EachHasBss
<1>13. ASSUME EachHasBss
       PROVE  /\ SlotsInv(offset, mem', freetls', tls')
              /\ mem'.outcome = "ok" => /\ TlsFrom(offset, mem', at, userslabs')
                                        /\ mem'.blocks[at].pages \in Nat
  <2>1. PICK low \in 0 .. offset :
            TlsFrom(offset, mem, low, userslabs) /\ mem.blocks[low].pages = SpaceEnd(offset) - low - 1
    BY <1>1, <1>13 DEF IInv, ShapeInv
  <2>8. mem.blocks[low].pages \in Int
    <3>1. SpaceEnd(offset) \in Nat /\ low \in Nat
      BY <1>3, SegmentsOf
    <3>2. QED BY <2>1, <3>1
  <2>2. /\ \A p : TlsPageInv(offset, mem, p) => TlsPageInv(offset, mapped, p)
        /\ mapped.outcome = "ok" => /\ TlsFrom(offset, mapped, at, userslabs)
                                    /\ mapped.blocks[at].pages \in Nat
    BY <1>3, <2>1, <2>8, StackShape DEF mapped, at
  <2>3. SlotsInv(offset, mem, freetls, tls)
    BY <1>13 DEF IInv, SlotInv
  <2>4. SlotsInv(offset, mapped, freetls, tls)
    BY <2>2, <2>3, SlotsKept
  <2>5. CASE mapped.outcome = "ok" /\ AllocateTls(mapped)
    BY <1>3, <1>8, <2>2, <2>4, <2>5, AllocateTlsSlots
  <2>6. CASE mapped.outcome # "ok" /\ mem' = mapped /\ UNCHANGED <<userslabs, freetls, fulltls, tls>>
    BY <2>4, <2>6
  <2>7. QED BY <1>1, <2>5, <2>6
<1>14. ShapeInv' /\ SlotInv'
  BY <1>1, <1>12, <1>13 DEF ShapeInv, SlotInv, Live, at
<1>15. QED BY <1>2, <1>10, <1>11, <1>14 DEF IInv

LEMMA AllocateThreadTlsKept == ASSUME IInv, AllocateThreadTls PROVE IInv' /\ Kept
<1>1. /\ phase = "run" /\ Live /\ AllocateTls(mem)
      /\ UNCHANGED <<debug, phase, index, bintype, stack, modules, procimage, bsslayout, offset>>
  BY DEF AllocateThreadTls, layoutVars
<1>2. LayoutInv' /\ BssInv' /\ PlaceInv'
  BY <1>1, RestLayout DEF IInv, layoutVars
<1>3. TlsLists /\ offset \in Nat /\ HostInv(mem, SpaceEnd(offset))
  BY <1>1 DEF IInv, ThreadInv, LayoutInv, MemInv, Laid
<1>4. /\ TlsLists' /\ HostInv(mem', SpaceEnd(offset)) /\ (mem'.outcome = "ok" => tls' # <<>>)
      /\ \A p \in Backed(mem) : mem'.mapping[p] = mem.mapping[p]
  BY <1>1, <1>3, AllocateTlsOf
<1>5. MemInv' /\ Kept /\ StepInv'
  BY <1>1, <1>4 DEF MemInv, Laid, Kept, StepInv
<1>6. ThreadInv'
  <2>1. stack \in StackSizes
    BY <1>1 DEF IInv, ThreadInv
  <2>2. QED BY <1>1, <1>4, <2>1 DEF IInv, ThreadInv
<1>7. EachHasBss' = EachHasBss
  BY <1>1 DEF EachHasBss
<1>8. ASSUME EachHasBss
      PROVE  /\ SlotsInv(offset, mem', freetls', tls')
             /\ mem'.outcome = "ok" => /\ TlsFrom(offset, mem', StackBegin(offset), userslabs')
                                       /\ mem'.blocks[StackBegin(offset)].pages \in Nat
  <2>1. /\ TlsFrom(offset, mem, StackBegin(offset), userslabs)
        /\ mem.blocks[StackBegin(offset)].pages \in Nat /\ mem.outcome = "ok"
    BY <1>1, <1>8 DEF IInv, ShapeInv, Live
  <2>2. SlotsInv(offset, mem, freetls, tls)
    BY <1>8 DEF IInv, SlotInv
  <2>3. QED BY <1>1, <1>3, <2>1, <2>2, AllocateTlsSlots
<1>9. ShapeInv' /\ SlotInv'
  BY <1>1, <1>7, <1>8 DEF ShapeInv, SlotInv, Live
<1>10. QED BY <1>2, <1>5, <1>6, <1>9 DEF IInv

-----------------------------------------------------------------------------
(* The invariant, and what follows from it.                                 *)

LEMMA StepKept == ASSUME IInv, Next PROVE IInv' /\ Kept
<1>1. CASE \E m \in Modules : GetCodeSet(m)
  BY <1>1, GetCodeSetKept
<1>2. CASE LoadMemory
  BY <1>2, LoadMemoryKept
<1>3. CASE SetSection
  BY <1>3, SetSectionKept
<1>4. CASE ReturnAtSilentSection
  BY <1>4, ReturnKept
<1>5. CASE EndOfSections
  BY <1>5, EndOfSectionsKept
<1>6. CASE \E size \in StackSizes : AllocateExceptionTls(size)
  BY <1>6, AllocateExceptionTlsKept
<1>7. CASE InitializeThread
  BY <1>7, InitializeThreadKept
<1>8. CASE AllocateThreadTls
  BY <1>8, AllocateThreadTlsKept
<1>9. QED BY <1>1, <1>2, <1>3, <1>4, <1>5, <1>6, <1>7, <1>8 DEF Next, Load, StartProcess

LEMMA StutterKept == ASSUME IInv, UNCHANGED vars PROVE IInv' /\ Kept
<1>1. UNCHANGED layoutVars /\ UNCHANGED <<debug, phase, index, bintype, mem>> /\ UNCHANGED processVars
  BY DEF vars, layoutVars, processVars
<1>2. LayoutInv' /\ BssInv' /\ PlaceInv'
  BY <1>1, RestLayout DEF IInv
<1>3. UNCHANGED <<modules, procimage, bsslayout, offset, stack, userslabs, freetls, fulltls, tls>>
  BY <1>1 DEF layoutVars, processVars
<1>4. MemInv' /\ ThreadInv' /\ Kept
  BY <1>1, <1>3 DEF IInv, MemInv, ThreadInv, TlsLists, Laid, Reached, PastSections, Current, Kept
<1>5. ShapeInv' /\ StepInv' /\ SlotInv'
  BY <1>1, <1>3 DEF IInv, ShapeInv, StepInv, SlotInv, EachHasBss, Live, Reached, PastSections,
                    Current, InStep
<1>6. QED BY <1>2, <1>4, <1>5 DEF IInv

\* The inductive invariant holds in every state that the loader and the threads of
\* its process reach.
THEOREM Invariance == Spec => []IInv
<1>1. Init => IInv
  BY InitKept
<1>2. IInv /\ [Next]_vars => IInv'
  BY StepKept, StutterKept
<1>3. QED BY <1>1, <1>2, PTL DEF Spec

\* Every variable keeps its type: the list of free TLS pages has only pages with free
\* slots, that of full ones none with any, and the guest's pages are those of the segments.
THEOREM TypeCorrect == Spec => []TypeOK
<1>1. IInv => TypeOK
  <2> SUFFICES ASSUME IInv PROVE TypeOK
    OBVIOUS
  <2>1. /\ debug \in BOOLEAN /\ phase \in {"layout", "map", "start", "run"}
        /\ modules \in Seq(Modules) /\ Len(procimage) = 3 * Len(modules)
        /\ offset \in Nat /\ index \in 1 .. Len(procimage) + 1 /\ bintype \in Nat
        /\ Len(bsslayout) <= Len(modules)
    BY DEF IInv, LayoutInv, PlaceInv, BssInv
  <2>2. mem.outcome \in {"ok", "exception", "undefined", "aborted"}
    <3>1. CASE phase = "layout"
      BY <3>1 DEF IInv, MemInv, NoMemory
    <3>2. CASE phase # "layout"
      BY <3>2 DEF IInv, MemInv, Laid, HostInv, Proper, Outcomes
    <3>3. QED BY <3>1, <3>2
  <2>3. Laid => mem.mapping \in [0 .. SpaceEnd(offset) - 1 -> -1 .. HostPages - 1]
    BY DEF IInv, MemInv, HostInv
  <2>4. \A m \in ToSet(freetls) : m.freeslots \subseteq 1 .. TlsSlotCount /\ m.freeslots # {}
    <3>1. ASSUME NEW m \in ToSet(freetls)
          PROVE  m.freeslots \subseteq 1 .. TlsSlotCount /\ m.freeslots # {}
      <4>1. freetls \in Seq(Managers) /\ \A i \in 1 .. Len(freetls) : freetls[i].freeslots # {}
        BY DEF IInv, ThreadInv, TlsLists
      <4>2. PICK i \in 1 .. Len(freetls) : m = freetls[i]
        BY <4>1 DEF ToSet
      <4>3. m \in Managers
        BY <4>1, <4>2
      <4>4. QED BY <4>1, <4>2, <4>3 DEF Managers
    <3>2. QED BY <3>1
  <2>5. \A m \in ToSet(fulltls) : m.freeslots = {}
    <3>1. fulltls \in Seq(Managers) /\ \A i \in 1 .. Len(fulltls) : fulltls[i].freeslots = {}
      BY DEF IInv, ThreadInv, TlsLists
    <3>2. QED BY <3>1 DEF ToSet
  <2>6. QED BY <2>1, <2>2, <2>3, <2>4, <2>5 DEF TypeOK
<1>2. QED BY <1>1, Invariance, PTL

\* No page of DRAM backs two guest pages, and none that backs one can be reserved again
\* but the base that Reserve last returned, which it leaves first in the free list.
THEOREM HostPagesExclusive == Spec => []HostExclusive
<1>1. IInv => HostExclusive
  <2> SUFFICES ASSUME IInv PROVE HostExclusive
    OBVIOUS
  <2>1. Mapped = Backed(mem)
    BY DEF Mapped, Guest, Backed
  <2>2. CASE ~Laid
    <3>1. Backed(mem) = {}
      BY <2>2, NothingBacked DEF IInv, MemInv, Laid
    <3>2. QED BY <2>1, <2>2, <3>1 DEF HostExclusive
  <2>3. CASE Laid
    <3>1. HostInv(mem, SpaceEnd(offset)) /\ offset \in Nat
      BY <2>3 DEF IInv, MemInv, LayoutInv
    <3>2. \A p, q \in Mapped : mem.mapping[p] = mem.mapping[q] => p = q
      BY <2>1, <3>1 DEF HostInv
    <3>3. PICK n \in 1 .. HostPages :
              /\ mem.objects = SlabObjects(0, n)
              /\ \A p \in Backed(mem) : mem.mapping[p] >= n - 1
      BY <3>1 DEF HostInv, SlabInv
    <3>4. n \in Nat /\ n >= 1
      BY MemoryAssumption
    <3>5. /\ mem.objects \in Seq(Nat) /\ Len(mem.objects) = n
          /\ \A i \in 1 .. n : mem.objects[i] = n - i
      BY <3>3, <3>4, SlabList
    <3>6. Head(mem.objects) = n - 1
      BY <3>4, <3>5
    <3>7. ASSUME NEW p \in Mapped, mem.mapping[p] \in ToSet(mem.objects)
          PROVE  mem.mapping[p] = Head(mem.objects)
      <4>1. PICK i \in 1 .. n : mem.mapping[p] = n - i
        BY <3>5, <3>7 DEF ToSet
      <4>2. mem.mapping[p] >= n - 1
        BY <2>1, <3>3
      <4>3. i = 1
        BY <3>4, <4>1, <4>2
      <4>4. QED BY <3>6, <4>1, <4>3
    <3>8. QED BY <3>2, <3>7 DEF HostExclusive
  <2>4. QED BY <2>2, <2>3
<1>2. QED BY <1>1, Invariance, PTL

\* A guest page that a mapping gave to the guest is never mapped again.
THEOREM MappedForGood == Spec => NeverRemapped
<1>1. IInv /\ [Next]_vars => [Laid => \A p \in Mapped : mem.mapping'[p] = mem.mapping[p]]_vars
  <2> SUFFICES ASSUME IInv, Next PROVE \A p \in Mapped : mem.mapping'[p] = mem.mapping[p]
    OBVIOUS
  <2>1. Kept
    BY StepKept
  <2>2. QED BY <2>1 DEF Kept, Mapped, Guest, Backed
<1>2. QED BY <1>1, Invariance, PTL DEF Spec, NeverRemapped

\* Two threads never share a TLS slot, and each slot is on a thread local page that is
\* mapped and can be written, if every module but the last has .bss.
THEOREM SlotsExclusive == Spec => []TlsExclusive
<1>1. IInv => TlsExclusive
  <2> SUFFICES ASSUME IInv, EachHasBss
               PROVE  /\ \A i, j \in DOMAIN tls : tls[i] = tls[j] => i = j
                      /\ \A i \in DOMAIN tls : tls[i].page \in Mapped /\ tls[i].page \in mem.writable
                                               /\ BlockOf(tls[i].page).state = "ThreadLocal"
    BY DEF TlsExclusive
  <2>1. /\ \A i \in DOMAIN tls : TlsPageInv(offset, mem, tls[i].page)
        /\ \A i, j \in DOMAIN tls : tls[i] = tls[j] => i = j
    BY DEF IInv, SlotInv, SlotsInv
  <2>2. \A p : TlsPageInv(offset, mem, p) =>
            p \in Mapped /\ p \in mem.writable /\ BlockOf(p).state = "ThreadLocal"
    BY DEF TlsPageInv, Mapped, Guest, Backed, BlockOf, FindBlock
  <2>3. QED BY <2>1, <2>2
<1>2. QED BY <1>1, Invariance, PTL

-----------------------------------------------------------------------------
(* The names of the segments: what QueryMemory and the JIT find of a page.   *)

Segment(count, p) ==
    IF p < CodePages(count) THEN "Code" ELSE IF p < TlsIoBegin(count) THEN "Stack" ELSE "ThreadLocal"
Segments == {"Code", "Stack", "ThreadLocal"}

\* Of a page with DRAM, the last block that begins at or below it has the state of
\* its segment; a thread local page has a block of its own.
NamedBy(count, m, p, k) ==
    /\ k \in Keys(m.blocks) /\ k <= p /\ \A j \in Keys(m.blocks) : j <= p => j <= k
    /\ m.blocks[k].state = Segment(count, p)
    /\ p >= TlsIoBegin(count) => k = p
Named(count, m) ==
    /\ \A k \in Keys(m.blocks) : k \in Nat
    /\ \A p \in Backed(m) : \E k : NamedBy(count, m, p, k)

\* A block of a segment counts pages with DRAM only.
Filled(m) ==
    \A k \in Keys(m.blocks) :
        m.blocks[k].state \in Segments => Span(k, m.blocks[k].pages) \subseteq Backed(m)

NameInv == EachHasBss /\ Laid => Named(offset, mem) /\ (Live => Filled(mem))

LEMMA MappedPages ==
    ASSUME NEW m, NEW left, NEW count \in Nat, HostInv(m, SpaceEnd(count)), NEW at \in Nat,
           NEW pages \in Nat \ {0}, at + pages <= SpaceEnd(count), MapsAt(m, left, at, pages)
    PROVE  Span(at, pages) \subseteq Backed(left)
<1> DEFINE end == SpaceEnd(count)
<1>1. end \in Nat /\ DOMAIN m.mapping = 0 .. end - 1
  BY SegmentsOf DEF HostInv
<1>2. PICK n \in 1 .. HostPages :
          pages < n /\ left.mapping = MapPages(m.mapping, at, n - 1 - pages, pages)
  BY DEF MapsAt
<1>3. n \in Nat
  BY MemoryAssumption
<1>4. at + pages <= end
  OBVIOUS
<1> HIDE DEF end
<1>5. ASSUME NEW p \in Span(at, pages) PROVE p \in Backed(left)
  <2>1. p \in Int /\ at <= p /\ p < at + pages
    BY <1>5 DEF Span
  <2>2. p \in DOMAIN m.mapping
    BY <1>1, <1>4, <2>1
  <2>3. p \in DOMAIN left.mapping /\ left.mapping[p] = n - 1 - pages + (p - at)
    BY <1>2, <1>5, <2>2 DEF MapPages
  <2>4. n - 1 - pages + (p - at) # NoPage
    BY <1>2, <1>3, <2>1 DEF NoPage
  <2>5. QED BY <2>3, <2>4 DEF Backed
<1>6. QED BY <1>5

\* A block that Map puts into a segment names its pages, and no other page.
LEMMA NamedPuts ==
    ASSUME NEW count \in Nat, NEW m, HostInv(m, SpaceEnd(count)), Named(count, m), NEW left,
           NEW at \in Nat, NEW new, new.pages \in Nat \ {0}, PutsBlock(m, left, at, new),
           Backed(left) \subseteq Backed(m) \cup Span(at, new.pages),
           \A p \in Span(at, new.pages) :
               Segment(count, p) = new.state /\ (p >= TlsIoBegin(count) => p = at),
           \A p \in Backed(m) : \/ p < at
                                \/ p >= at + new.pages /\ p >= TlsIoBegin(count)
                                \/ ~CanAllocate(m, at, new.pages)
    PROVE  Named(count, left)
<1> DEFINE b == m.blocks
           pages == new.pages
<1>1. PICK blocks, donor : Rearranged(b, blocks, at, new, donor) /\ Puts(m, left, at, pages, blocks)
  BY DEF PutsBlock
<1>2. CASE left.blocks = b /\ left.mapping = m.mapping
  <2>1. Backed(left) = Backed(m)
    BY <1>2 DEF Backed
  <2>2. QED BY <1>2, <2>1 DEF Named, NamedBy
<1>3. CASE left.blocks = blocks /\ CanAllocate(m, at, pages)
  <2>1. /\ Keys(blocks) = Keys(b) \cup {donor, at} /\ donor \in Nat /\ donor # at /\ blocks[at] = new
        /\ \A k \in Keys(b) \ {donor, at} : blocks[k] = b[k]
        /\ \A k \in Keys(b) : k <= at \/ at + pages <= k
        /\ donor \in Keys(b) => blocks[donor].state = b[donor].state
        /\ donor \notin Keys(b) => donor = at + pages
    BY <1>1 DEF Rearranged
  <2>2. /\ \A k \in Keys(b) : k \in Nat
        /\ \A p \in Backed(m) : \E k : NamedBy(count, m, p, k)
    BY DEF Named
  <2>3. \A k \in Keys(b) : k # at => blocks[k].state = b[k].state
    BY <2>1
  <2>4. ASSUME NEW p \in Backed(m) PROVE \E k : NamedBy(count, left, p, k)
    <3>1. PICK k : NamedBy(count, m, p, k)
      BY <2>2
    <3>2. /\ k \in Keys(b) /\ k <= p /\ (\A j \in Keys(b) : j <= p => j <= k)
          /\ b[k].state = Segment(count, p)
          /\ (p >= TlsIoBegin(count) => k = p)
      BY <3>1 DEF NamedBy
    <3>3. p \in Nat /\ k \in Nat /\ pages \in Nat \ {0}
      BY <2>2, <3>2, BackedIn
    <3>4. CASE p < at
      <4>1. k # at
        BY <3>2, <3>3, <3>4
      <4>2. ASSUME NEW j \in Keys(blocks), j <= p PROVE j <= k
        <5>1. j # at
          BY <3>3, <3>4, <4>2
        <5>2. CASE j \in Keys(b)
          BY <3>2, <4>2, <5>2
        <5>3. CASE j \notin Keys(b)
          <6>1. j = at + pages
            BY <2>1, <4>2, <5>1, <5>3
          <6>2. QED BY <3>3, <3>4, <4>2, <6>1
        <5>4. QED BY <5>2, <5>3
      <4>3. k \in Keys(blocks) /\ blocks[k].state = Segment(count, p)
        BY <2>1, <2>3, <3>2, <4>1
      <4>4. NamedBy(count, left, p, k)
        BY <1>3, <3>2, <4>2, <4>3 DEF NamedBy
      <4>5. QED BY <4>4
    <3>5. CASE p >= at + pages /\ p >= TlsIoBegin(count)
      <4>1. k = p /\ k # at
        BY <3>2, <3>3, <3>5
      <4>2. k \in Keys(blocks) /\ blocks[k].state = Segment(count, p)
        BY <2>1, <2>3, <3>2, <4>1
      <4>3. NamedBy(count, left, p, k)
        BY <1>3, <3>2, <4>1, <4>2 DEF NamedBy
      <4>4. QED BY <4>3
    <3>6. QED BY <1>3, <3>4, <3>5
  <2>5. ASSUME NEW p \in Span(at, pages) PROVE NamedBy(count, left, p, at)
    <3>1. p \in Int /\ at <= p /\ p < at + pages /\ pages \in Nat
      BY <2>5 DEF Span
    <3>2. ASSUME NEW j \in Keys(blocks), j <= p PROVE j <= at
      <4>1. CASE j \in Keys(b)
        <5>1. j \in Nat /\ (j <= at \/ at + pages <= j)
          BY <2>1, <2>2, <4>1
        <5>2. QED BY <3>1, <3>2, <5>1
      <4>2. CASE j \notin Keys(b)
        <5>1. j = at \/ j = at + pages
          BY <2>1, <3>2, <4>2
        <5>2. QED BY <3>1, <3>2, <5>1
      <4>3. QED BY <4>1, <4>2
    <3>3. at \in Keys(blocks) /\ blocks[at].state = Segment(count, p)
      BY <2>1, <2>5
    <3>4. p >= TlsIoBegin(count) => p = at
      BY <2>5
    <3>5. QED BY <1>3, <3>1, <3>2, <3>3, <3>4 DEF NamedBy
  <2>6. \A k \in Keys(blocks) : k \in Nat
    BY <2>1, <2>2
  <2>7. \A p \in Backed(left) : \E k : NamedBy(count, left, p, k)
    BY <2>4, <2>5
  <2>8. QED BY <1>3, <2>6, <2>7 DEF Named
<1>4. QED BY <1>1, <1>2, <1>3 DEF Puts

\* What it counts has DRAM, and what the others count had it.
LEMMA FilledPuts ==
    ASSUME NEW count \in Nat, NEW m, HostInv(m, SpaceEnd(count)), Filled(m), Named(count, m), NEW left,
           NEW at \in Nat, NEW new, new.pages \in Nat \ {0}, at + new.pages <= SpaceEnd(count),
           PutsBlock(m, left, at, new), left.outcome = "ok", Backed(m) \subseteq Backed(left)
    PROVE  Filled(left)
<1> DEFINE b == m.blocks
           pages == new.pages
<1>1. PICK blocks, donor : Rearranged(b, blocks, at, new, donor) /\ Puts(m, left, at, pages, blocks)
  BY DEF PutsBlock
<1>2. left.blocks = blocks /\ MapsAt(m, left, at, pages)
  BY <1>1 DEF Puts
<1>3. Span(at, pages) \subseteq Backed(left)
  BY <1>2, MappedPages
<1>4. /\ Keys(blocks) = Keys(b) \cup {donor, at} /\ blocks[at] = new
      /\ \A k \in Keys(b) \ {donor, at} : blocks[k] = b[k]
  BY <1>1 DEF Rearranged
<1>5. \/ /\ donor \in Keys(b) /\ blocks[donor].state = b[donor].state
         /\ b[donor].pages \in Int /\ blocks[donor].pages = b[donor].pages - pages
      \/ blocks[donor].state = "Free"
  BY <1>1 DEF Rearranged
<1>6. donor \in Nat
  BY <1>1 DEF Rearranged
<1>7. \A k \in Keys(b) : b[k].state \in Segments => Span(k, b[k].pages) \subseteq Backed(left)
  BY DEF Filled
<1>8. ASSUME NEW k \in Keys(blocks), blocks[k].state \in Segments
      PROVE  Span(k, blocks[k].pages) \subseteq Backed(left)
  <2>1. CASE k = at
    BY <1>3, <1>4, <2>1
  <2>2. CASE k = donor /\ k # at
    <3>1. /\ donor \in Keys(b) /\ b[donor].state \in Segments
          /\ b[donor].pages \in Int /\ blocks[donor].pages = b[donor].pages - pages
      BY <1>5, <1>8, <2>2 DEF Segments
    <3> DEFINE n == b[donor].pages
    <3>2. Span(donor, n) \subseteq Backed(left) /\ n \in Int /\ blocks[donor].pages = n - pages
      BY <1>7, <3>1
    <3> HIDE DEF n
    <3>3. Span(donor, n - pages) \subseteq Span(donor, n)
      BY <1>6, <3>2 DEF Span
    <3>4. QED BY <2>2, <3>2, <3>3
  <2>3. CASE k # donor /\ k # at
    BY <1>4, <1>7, <1>8, <2>3
  <2>4. QED BY <2>1, <2>2, <2>3
<1>9. QED BY <1>2, <1>8 DEF Filled

\* Changes of protection leave the names.
LEMMA SameNames ==
    ASSUME NEW count, NEW m, NEW left, left.mapping = m.mapping, Keys(left.blocks) = Keys(m.blocks),
           \A k \in Keys(m.blocks) : /\ left.blocks[k].state = m.blocks[k].state
                                     /\ left.blocks[k].pages = m.blocks[k].pages
    PROVE  (Named(count, m) => Named(count, left)) /\ (Filled(m) => Filled(left))
<1>1. Backed(left) = Backed(m)
  BY DEF Backed
<1>2. QED BY <1>1 DEF Named, NamedBy, Filled

LEMMA PermissionNames ==
    ASSUME NEW m, Proper(m), NEW at, NEW pages, NEW perm
    PROVE  LET left == SetMemoryPermission(m, at, pages, perm)
           IN  /\ Keys(left.blocks) = Keys(m.blocks)
               /\ \A k \in Keys(m.blocks) : /\ left.blocks[k].state = m.blocks[k].state
                                            /\ left.blocks[k].pages = m.blocks[k].pages
<1> DEFINE left == SetMemoryPermission(m, at, pages, perm)
<1>1. CASE left = m
  BY <1>1
<1>2. CASE left = Fail(m, "undefined")
  BY <1>2, FailOf DEF Outcomes
<1>3. CASE left = Reprotect(m, at, pages, perm)
  <2> DEFINE key == FindBlock(m.blocks, at)
  <2> HIDE DEF key
  <2>1. left.blocks = [m.blocks EXCEPT ![key].perm = perm]
    BY <1>3 DEF Reprotect, Proper, Fields, key
  <2> DEFINE c == left.blocks
  <2> HIDE DEF c
  <2>2. Keys(c) = Keys(m.blocks)
    BY <2>1 DEF Keys, c
  <2>3. \A k \in Keys(m.blocks) : c[k].state = m.blocks[k].state /\ c[k].pages = m.blocks[k].pages
    BY <2>1 DEF Keys, c
  <2>4. QED BY <2>2, <2>3 DEF c
<1>4. QED BY <1>1, <1>2, <1>3 DEF SetMemoryPermission

Names(count, m) == Named(count, m) /\ (m.outcome = "ok" => Filled(m))

\* A call of Map for a segment, whose pages lie behind those mapped before or, in the
\* segment of thread local pages, next to them.
LEMMA NamesPuts ==
    ASSUME NEW count \in Nat, NEW m, HostInv(m, SpaceEnd(count)), Named(count, m), Filled(m), NEW left,
           NEW at \in Nat, NEW pages \in Nat \ {0}, at + pages <= SpaceEnd(count), NEW kind,
           PutsBlock(m, left, at, Block(pages, kind)), Maps(m, left, at, pages),
           pages = 1 \/ Backed(m) \cap Span(at, pages) = {},
           \A p \in Span(at, pages) : Segment(count, p) = kind /\ (p >= TlsIoBegin(count) => p = at),
           \A p \in Backed(m) : \/ p < at
                                \/ p >= at + pages /\ p >= TlsIoBegin(count)
                                \/ ~CanAllocate(m, at, pages)
    PROVE  Names(count, left)
<1> DEFINE new == Block(pages, kind)
<1>1. new.pages = pages /\ new.state = kind
  BY DEF Block
<1> HIDE DEF new
<1>2. PutsBlock(m, left, at, new)
  BY DEF new
<1>3. Backed(left) \subseteq Backed(m) \cup Span(at, pages) /\ Backed(m) \subseteq Backed(left)
  <2>1. at \in Int
    OBVIOUS
  <2>2. QED BY <2>1, MapsPages
<1>4. Named(count, left)
  BY <1>1, <1>2, <1>3, NamedPuts
<1>5. ASSUME left.outcome = "ok" PROVE Filled(left)
  BY <1>1, <1>2, <1>3, <1>5, FilledPuts
<1>6. QED BY <1>4, <1>5 DEF Names

\* The same in the three segments.
LEMMA CodeNames ==
    ASSUME NEW count \in Nat, NEW m, HostInv(m, SpaceEnd(count)), Named(count, m), Filled(m), NEW left,
           NEW at \in Nat, NEW pages \in Nat \ {0}, at + pages <= count,
           PutsBlock(m, left, at, Block(pages, "Code")), Maps(m, left, at, pages),
           \A p \in Backed(m) : p < at
    PROVE  Names(count, left)
<1>1. CodePages(count) \in Nat /\ count <= CodePages(count) /\ SpaceEnd(count) \in Nat
      /\ TlsIoBegin(count) \in Nat /\ CodePages(count) < TlsIoBegin(count) /\ TlsIoBegin(count) < SpaceEnd(count)
  BY SegmentsOf
<1>2. at + pages <= SpaceEnd(count)
  BY <1>1
<1>3. ASSUME NEW p \in Span(at, pages)
      PROVE  Segment(count, p) = "Code" /\ (p >= TlsIoBegin(count) => p = at)
  <2>1. p \in Int /\ p < at + pages
    BY <1>3 DEF Span
  <2>2. p < CodePages(count) /\ p < TlsIoBegin(count)
    BY <1>1, <2>1
  <2>3. QED BY <1>1, <2>1, <2>2 DEF Segment
<1>4. Backed(m) \cap Span(at, pages) = {}
  <2>1. \A p \in Backed(m) : p < at /\ p \in Int
    BY BackedIn
  <2>2. QED BY <2>1 DEF Span
<1>5. QED BY <1>2, <1>3, <1>4, NamesPuts

LEMMA StackNames ==
    ASSUME NEW count \in Nat, NEW m, HostInv(m, SpaceEnd(count)), Named(count, m), Filled(m), NEW left,
           NEW pages \in StackSizes, PutsBlock(m, left, StackBegin(count), Block(pages, "Stack")),
           Maps(m, left, StackBegin(count), pages), Backed(m) \cap Span(StackBegin(count), pages) = {},
           \A p \in Backed(m) : p < count \/ p >= TlsIoBegin(count)
    PROVE  Names(count, left)
<1> DEFINE at == StackBegin(count)
<1>1. /\ CodePages(count) \in Nat /\ at \in Nat /\ CodePages(count) < at /\ count < at
      /\ TlsIoBegin(count) = at + StackSegmentPages /\ TlsIoBegin(count) < SpaceEnd(count)
      /\ SpaceEnd(count) \in Nat /\ StackSegmentPages \in Nat
  BY SegmentsOf, MemoryAssumption
<1>2. pages \in Nat \ {0} /\ pages <= StackSegmentPages
  BY LoaderAssumption, MemoryAssumption
<1> HIDE DEF at
<1>3. at + pages <= SpaceEnd(count) /\ at + pages <= TlsIoBegin(count)
  BY <1>1, <1>2
<1>4. ASSUME NEW p \in Span(at, pages)
      PROVE  Segment(count, p) = "Stack" /\ (p >= TlsIoBegin(count) => p = at)
  <2>1. p \in Int /\ at <= p /\ p < at + pages
    BY <1>1, <1>2, <1>4 DEF Span
  <2>2. ~(p < CodePages(count)) /\ p < TlsIoBegin(count)
    BY <1>1, <1>2, <2>1
  <2>3. QED BY <1>1, <2>1, <2>2 DEF Segment
<1>5. ASSUME NEW p \in Backed(m)
      PROVE  p < at \/ (p >= at + pages /\ p >= TlsIoBegin(count))
  <2>1. p \in Nat /\ (p < count \/ p >= TlsIoBegin(count))
    BY BackedIn
  <2>2. QED BY <1>1, <1>2, <2>1
<1>6. PutsBlock(m, left, at, Block(pages, "Stack")) /\ Maps(m, left, at, pages)
      /\ Backed(m) \cap Span(at, pages) = {}
  BY DEF at
<1>7. QED BY <1>1, <1>2, <1>3, <1>4, <1>5, <1>6, NamesPuts

LEMMA TlsNames ==
    ASSUME NEW count \in Nat, NEW m, HostInv(m, SpaceEnd(count)), Named(count, m), Filled(m), NEW left,
           NEW at \in TlsIoBegin(count) .. SpaceEnd(count) - 1,
           PutsBlock(m, left, at, Block(1, "ThreadLocal")), Maps(m, left, at, 1)
    PROVE  Names(count, left)
<1>1. /\ CodePages(count) \in Nat /\ CodePages(count) < TlsIoBegin(count) /\ TlsIoBegin(count) \in Nat
      /\ SpaceEnd(count) \in Nat
  BY SegmentsOf
<1>2. at \in Nat /\ at + 1 <= SpaceEnd(count) /\ 1 \in Nat \ {0} /\ Span(at, 1) = {at}
  BY <1>1 DEF Span
<1>3. Segment(count, at) = "ThreadLocal"
  BY <1>1 DEF Segment
<1>4. ASSUME NEW p \in Backed(m)
      PROVE  p < at \/ (p >= at + 1 /\ p >= TlsIoBegin(count)) \/ ~CanAllocate(m, at, 1)
  <2>1. p \in Nat
    BY BackedIn
  <2>2. CASE p = at
    <3>1. at \in Int /\ AllocInv(m)
      BY <1>2 DEF HostInv
    <3>2. QED BY <1>2, <2>2, <3>1, NotAgain
  <2>3. CASE p # at
    BY <1>1, <1>2, <2>1, <2>3
  <2>4. QED BY <2>2, <2>3
<1>5. QED BY <1>2, <1>3, <1>4, NamesPuts

\* The section at hand, with its permission and its .bss.
LEMMA MapSectionNames ==
    ASSUME IInv, NameInv, EachHasBss, phase = "map", index <= Len(procimage), Live
    PROVE  Names(offset, MapSection)
<1> DEFINE at == Current.offset
           pages == Pages(SectionSize)
<1>1. /\ Maps(mem, MapSection, at, pages) /\ Reached = at
      /\ at \in Nat /\ pages \in Nat \ {0} /\ at + pages <= Following(index)
      /\ Following(index) \in Nat /\ Following(index) <= offset
  BY MapSectionOf
<1>2. /\ offset \in Nat /\ HostInv(mem, SpaceEnd(offset)) /\ \A p \in Backed(mem) : p < at
      /\ FreeFrom(offset, mem, at) /\ Named(offset, mem) /\ Filled(mem)
  BY <1>1 DEF IInv, LayoutInv, MemInv, ShapeInv, NameInv, Laid
<1>3. MapSection \in {Fail(mem, "aborted"), MapCodeMemory(mem, at, pages)}
  BY DEF MapSection
<1> HIDE DEF at, pages
<1>4. at + pages <= offset
  BY <1>1, <1>2
<1>5. CASE MapSection = Fail(mem, "aborted")
  <2>1. /\ MapSection.mapping = mem.mapping /\ MapSection.blocks = mem.blocks
        /\ MapSection.outcome # "ok"
    BY <1>2, <1>5, FailOf DEF HostInv, Outcomes, Untouched
  <2>2. Named(offset, MapSection)
    BY <1>2, <2>1, SameNames
  <2>3. QED BY <2>1, <2>2 DEF Names
<1>6. CASE MapSection = MapCodeMemory(mem, at, pages)
  <2>1. PutsBlock(mem, MapSection, at, Block(pages, "Code"))
    BY <1>1, <1>2, <1>4, <1>6, CodeShape
  <2>2. QED BY <1>1, <1>2, <1>4, <2>1, CodeNames
<1>7. QED BY <1>3, <1>5, <1>6

LEMMA SetSectionNames == ASSUME IInv, NameInv, SetSection, EachHasBss PROVE Names(offset, mem')
<1> DEFINE at == Current.offset
           pages == Pages(SectionSize)
           mapped == MapSection
           set == SetMemoryPermission(mapped, at, pages, PermissionOf(bintype))
<1>1. phase = "map" /\ index <= Len(procimage) /\ Live
  BY DEF SetSection
<1>2. Names(offset, mapped)
  BY <1>1, MapSectionNames
<1>3. Proper(mapped)
  BY <1>1, MapSectionOf DEF Maps
<1>4. mem' = set \/ mem' = FillBss(set)
  BY DEF SetSection
<1> HIDE DEF mapped, at, pages
<1>5. /\ Proper(set) /\ set.mapping = mapped.mapping
      /\ Keys(set.blocks) = Keys(mapped.blocks)
      /\ \A k \in Keys(mapped.blocks) : /\ set.blocks[k].state = mapped.blocks[k].state
                                        /\ set.blocks[k].pages = mapped.blocks[k].pages
  BY <1>3, SetMemoryPermissionOf, PermissionNames
<1>6. set.outcome = "ok" => mapped.outcome = "ok"
  BY DEF SetMemoryPermission
<1> HIDE DEF set
<1>7. Names(offset, set)
  BY <1>2, <1>5, <1>6, SameNames DEF Names
<1>8. ASSUME mem' = FillBss(set) PROVE Names(offset, mem')
  <2>1. PICK first, last : mem' = FillMemory(set, first, last)
    BY <1>8 DEF FillBss
  <2>2. /\ mem'.blocks = set.blocks /\ mem'.mapping = set.mapping
        /\ (mem'.outcome = "ok" => set.outcome = "ok")
    BY <1>5, <2>1, FillMemoryOf DEF Untouched
  <2>3. QED BY <1>7, <2>2, SameNames DEF Names
<1>9. QED BY <1>4, <1>7, <1>8

LEMMA AllocateTlsNames ==
    ASSUME TlsLists, offset \in Nat, NEW before, HostInv(before, SpaceEnd(offset)), AllocateTls(before),
           Named(offset, before), Filled(before),
           PutsBlock(before, MapTlsMemory(before, offset, SlabAllocate(userslabs).pointer),
                     TlsIoBegin(offset) + SlabAllocate(userslabs).pointer, Block(1, "ThreadLocal"))
    PROVE  Names(offset, mem')
<1> DEFINE pointer == SlabAllocate(userslabs).pointer
           at == TlsIoBegin(offset) + pointer
<1>1. CASE mem' = before
  BY <1>1 DEF Names
<1>2. CASE mem' = MapTlsMemory(before, offset, pointer)
  <2>1. pointer \in Nat /\ at \in TlsIoBegin(offset) .. SpaceEnd(offset) - 1
    BY FreshOf
  <2>2. Maps(before, mem', at, 1)
    BY <1>2, <2>1, MapTlsMemoryOf
  <2>3. PutsBlock(before, mem', at, Block(1, "ThreadLocal"))
    BY <1>2
  <2> HIDE DEF at
  <2>4. QED BY <2>1, <2>2, <2>3, TlsNames
<1>3. QED BY <1>1, <1>2, AllocateTlsCases

LEMMA ExceptionTlsNames ==
    ASSUME IInv, NameInv, NEW size \in StackSizes, AllocateExceptionTls(size), EachHasBss
    PROVE  Names(offset, mem')
<1>1. phase = "start" /\ Live /\ tls = <<>> /\ AllocateTls(mem)
  BY DEF AllocateExceptionTls
<1>2. /\ TlsLists /\ offset \in Nat /\ HostInv(mem, SpaceEnd(offset))
      /\ Named(offset, mem) /\ Filled(mem)
  BY <1>1 DEF IInv, ThreadInv, LayoutInv, MemInv, Laid, NameInv
<1>3. PICK low \in 0 .. offset : FreeFrom(offset, mem, low)
  BY <1>1 DEF IInv, ShapeInv
<1>4. PutsBlock(mem, MapTlsMemory(mem, offset, SlabAllocate(userslabs).pointer),
                TlsIoBegin(offset) + SlabAllocate(userslabs).pointer, Block(1, "ThreadLocal"))
  BY <1>2, <1>3, FirstTlsShape DEF TlsLists
<1>5. QED BY <1>1, <1>2, <1>4, AllocateTlsNames

LEMMA InitializeThreadNames ==
    ASSUME IInv, NameInv, InitializeThread, EachHasBss PROVE Names(offset, mem')
<1> DEFINE at == StackBegin(offset)
           mapped == MapStackMemory(mem, offset, stack)
<1>1. /\ phase = "start" /\ Live /\ tls # <<>>
      /\ (mapped.outcome = "ok" /\ AllocateTls(mapped)) \/ mem' = mapped
  BY DEF InitializeThread
<1>2. /\ TlsLists /\ offset \in Nat /\ HostInv(mem, SpaceEnd(offset)) /\ stack \in StackSizes
      /\ Named(offset, mem) /\ Filled(mem)
      /\ \A p \in Backed(mem) : p < offset \/ p >= TlsIoBegin(offset)
  BY <1>1 DEF IInv, ThreadInv, LayoutInv, MemInv, Laid, NameInv
<1>3. PICK low \in 0 .. offset :
          TlsFrom(offset, mem, low, userslabs) /\ mem.blocks[low].pages = SpaceEnd(offset) - low - 1
  BY <1>1 DEF IInv, ShapeInv
<1>4. mem.blocks[low].pages \in Int
  <2>1. SpaceEnd(offset) \in Nat /\ low \in Nat
    BY <1>2, SegmentsOf
  <2>2. QED BY <1>3, <2>1
<1>5. /\ Maps(mem, mapped, at, stack) /\ Backed(mem) \cap Span(at, stack) = {}
      /\ PutsBlock(mem, mapped, at, Block(stack, "Stack"))
      /\ mapped.outcome = "ok" => TlsFrom(offset, mapped, at, userslabs) /\ mapped.blocks[at].pages \in Nat
  BY <1>2, <1>3, <1>4, StackShape
<1>6. Names(offset, mapped)
  BY <1>2, <1>5, StackNames
<1> HIDE DEF mapped
<1>7. ASSUME mapped.outcome = "ok", AllocateTls(mapped) PROVE Names(offset, mem')
  <2>1. at \in Int /\ stack \in Nat \ {0}
    BY <1>2, SegmentsOf, LoaderAssumption
  <2>2. HostInv(mapped, SpaceEnd(offset))
    BY <1>2, <1>5, <2>1, MapsPages
  <2>3. Named(offset, mapped) /\ Filled(mapped)
    BY <1>6, <1>7 DEF Names
  <2>4. PutsBlock(mapped, MapTlsMemory(mapped, offset, SlabAllocate(userslabs).pointer),
                  TlsIoBegin(offset) + SlabAllocate(userslabs).pointer, Block(1, "ThreadLocal"))
    BY <1>2, <1>5, <1>7, <2>2, NextTlsShape DEF TlsLists
  <2>5. QED BY <1>2, <1>7, <2>2, <2>3, <2>4, AllocateTlsNames
<1>8. QED BY <1>1, <1>6, <1>7

LEMMA ThreadTlsNames ==
    ASSUME IInv, NameInv, AllocateThreadTls, EachHasBss PROVE Names(offset, mem')
<1>1. phase = "run" /\ Live /\ AllocateTls(mem)
  BY DEF AllocateThreadTls
<1>2. /\ TlsLists /\ offset \in Nat /\ HostInv(mem, SpaceEnd(offset))
      /\ Named(offset, mem) /\ Filled(mem)
  BY <1>1 DEF IInv, ThreadInv, LayoutInv, MemInv, Laid, NameInv
<1>3. TlsFrom(offset, mem, StackBegin(offset), userslabs) /\ mem.blocks[StackBegin(offset)].pages \in Nat
  BY <1>1 DEF IInv, ShapeInv
<1>4. PutsBlock(mem, MapTlsMemory(mem, offset, SlabAllocate(userslabs).pointer),
                TlsIoBegin(offset) + SlabAllocate(userslabs).pointer, Block(1, "ThreadLocal"))
  BY <1>2, <1>3, NextTlsShape DEF TlsLists
<1>5. QED BY <1>1, <1>2, <1>4, AllocateTlsNames

\* The memory that is laid out, still empty.
LEMMA LoadMemoryNames ==
    ASSUME IInv, LoadMemory PROVE Names(offset, mem')
<1> DEFINE end == SpaceEnd(offset)
<1>1. mem' = InitializeForProcess(offset) /\ offset \in Nat
  BY DEF LoadMemory, IInv, LayoutInv
<1>2. Backed(mem') = {}
  BY <1>1, SpaceOf
<1>3. mem'.blocks = [p \in {0, end} |-> IF p = 0 THEN Block(end, "Free") ELSE Block(0, "Inaccessible")]
  BY <1>1 DEF InitializeForProcess
<1>4. end \in Nat
  BY <1>1, SegmentsOf
<1> HIDE DEF end
<1>5. Keys(mem'.blocks) = {0, end} /\ \A k \in {0, end} : mem'.blocks[k].state \in {"Free", "Inaccessible"}
  BY <1>3 DEF Keys, Block
<1>6. \A k \in Keys(mem'.blocks) : k \in Nat /\ mem'.blocks[k].state \notin Segments
  BY <1>4, <1>5 DEF Segments
<1>7. QED BY <1>2, <1>6 DEF Names, Named, Filled

LEMMA NamesKept == ASSUME IInv, NameInv, Next PROVE NameInv'
<1>1. ASSUME mem' = mem, offset' = offset, modules' = modules, Laid' = Laid PROVE NameInv'
  BY <1>1 DEF NameInv, EachHasBss, Live, Named, NamedBy, Filled, Backed
<1>2. ASSUME offset' = offset, modules' = modules, EachHasBss => Names(offset, mem') PROVE NameInv'
  <2>1. EachHasBss' = EachHasBss
    BY <1>2 DEF EachHasBss
  <2>2. QED BY <1>2, <2>1 DEF NameInv, Names, Live
<1>3. CASE \E m \in Modules : GetCodeSet(m)
  <2>1. phase' = "layout"
    BY <1>3 DEF GetCodeSet
  <2>2. QED BY <2>1 DEF NameInv, Laid
<1>4. CASE LoadMemory
  BY <1>2, <1>4, LoadMemoryNames DEF LoadMemory, layoutVars
<1>5. CASE SetSection
  BY <1>2, <1>5, SetSectionNames DEF SetSection
<1>6. CASE ReturnAtSilentSection
  <2>1. mem' = MapSection /\ phase = "map" /\ index <= Len(procimage) /\ Live
    BY <1>6 DEF ReturnAtSilentSection
  <2>2. QED BY <1>2, <1>6, <2>1, MapSectionNames DEF ReturnAtSilentSection, layoutVars
<1>7. CASE EndOfSections
  BY <1>1, <1>7 DEF EndOfSections, layoutVars, Laid
<1>8. CASE \E size \in StackSizes : AllocateExceptionTls(size)
  BY <1>2, <1>8, ExceptionTlsNames DEF AllocateExceptionTls, layoutVars
<1>9. CASE InitializeThread
  BY <1>2, <1>9, InitializeThreadNames DEF InitializeThread, layoutVars
<1>10. CASE AllocateThreadTls
  BY <1>2, <1>10, ThreadTlsNames DEF AllocateThreadTls, layoutVars
<1>11. QED BY <1>3, <1>4, <1>5, <1>6, <1>7, <1>8, <1>9, <1>10 DEF Next, Load, StartProcess

\* The pages with DRAM have the names of their segments for as long as there are any.
LEMMA NamesHold == Spec => []NameInv
<1>1. Init => NameInv
  BY DEF Init, NameInv, Laid
<1>2. IInv /\ NameInv /\ [Next]_vars => NameInv'
  <2> SUFFICES ASSUME IInv, NameInv, [Next]_vars PROVE NameInv'
    OBVIOUS
  <2>1. CASE Next
    BY <2>1, NamesKept
  <2>2. CASE UNCHANGED vars
    BY <2>2 DEF vars, NameInv, EachHasBss, Laid, Live, Named, NamedBy, Filled, Backed
  <2>3. QED BY <2>1, <2>2
<1>3. QED BY <1>1, <1>2, Invariance, PTL DEF Spec

\* What a mapping was made for is what QueryMemory and ForEach find there: each page
\* with DRAM belongs to a block of its segment's state, and no such block counts a page
\* that nothing backs, if every module but the last has .bss.
THEOREM SegmentsNamed == Spec => []BlocksMatchSegments
<1>1. IInv /\ NameInv => BlocksMatchSegments
  <2> SUFFICES ASSUME IInv, NameInv, EachHasBss
               PROVE  /\ \A p \in Mapped : BlockOf(p).state = Segment(offset, p)
                      /\ Laid /\ Live => \A k \in DOMAIN mem.blocks :
                             mem.blocks[k].state \in Segments
                             => Span(k, mem.blocks[k].pages) \subseteq Mapped
    BY DEF BlocksMatchSegments, Segment, Segments
  <2>1. Mapped = Backed(mem)
    BY DEF Mapped, Guest, Backed
  <2>2. CASE ~Laid
    <3>1. Backed(mem) = {}
      BY <2>2, NothingBacked DEF IInv, MemInv, Laid
    <3>2. QED BY <2>1, <2>2, <3>1
  <2>3. CASE Laid
    <3>1. Named(offset, mem) /\ (Live => Filled(mem))
      BY <2>3 DEF NameInv
    <3>2. HostInv(mem, SpaceEnd(offset)) /\ offset \in Nat
      BY <2>3 DEF IInv, MemInv, LayoutInv
    <3>3. ASSUME NEW p \in Mapped PROVE BlockOf(p).state = Segment(offset, p)
      <4>1. PICK k : NamedBy(offset, mem, p, k)
        BY <2>1, <3>1 DEF Named
      <4>2. /\ k \in Keys(mem.blocks) /\ k <= p /\ \A j \in Keys(mem.blocks) : j <= p => j <= k
            /\ mem.blocks[k].state = Segment(offset, p)
        BY <4>1 DEF NamedBy
      <4>3. /\ p \in Nat /\ \A j \in Keys(mem.blocks) : j \in Nat
        BY <2>1, <3>1, <3>2, BackedIn DEF Named
      <4>4. CASE p \in Keys(mem.blocks)
        <5>1. p <= k
          <6>1. p <= p
            BY <4>3
          <6>2. QED BY <4>2, <4>4, <6>1
        <5>2. k = p
          <6>1. k \in Nat /\ k <= p
            BY <4>2, <4>3
          <6>2. QED BY <4>3, <5>1, <6>1
        <5>3. QED BY <4>2, <4>4, <5>2 DEF BlockOf, FindBlock
      <4>5. CASE p \notin Keys(mem.blocks)
        <5>1. k < p /\ \A j \in Keys(mem.blocks) : j < p => j <= k
          BY <4>2, <4>3, <4>5
        <5>2. Before(mem.blocks, p) = k
          BY <4>2, <4>3, <5>1, BeforeIs
        <5>3. QED BY <4>2, <4>5, <5>2 DEF BlockOf, FindBlock
      <4>6. QED BY <4>4, <4>5
    <3>4. QED BY <2>1, <3>1, <3>3 DEF Filled, Keys
  <2>4. QED BY <2>2, <2>3
<1>2. QED BY <1>1, Invariance, NamesHold, PTL DEF Spec

-----------------------------------------------------------------------------
(* The page table, whatever the .bss of the modules.                        *)

\* It has entries of the image of count pages, one of the stack once the process
\* runs, and of thread local pages.
TableRecords == [type : {"Allocated", "Code", "Stack"}, first : Int, end : Int]
Placed(count, running, t) ==
    \/ t.end <= count
    \/ running /\ t.type = "Stack" /\ t.end <= TlsIoBegin(count)
    \/ t.type = "Allocated" /\ t.first >= TlsIoBegin(count)
StackEntry(m, p) ==
    \E i \in 1 .. Len(m.tables) :
        m.tables[i].type = "Stack" /\ m.tables[i].first <= p /\ p < m.tables[i].end
Tables(count, running, m) ==
    /\ m.tables \in Seq(TableRecords)
    /\ \A i \in 1 .. Len(m.tables) : Placed(count, running, m.tables[i])
    /\ \A p \in Backed(m) : count <= p /\ p < TlsIoBegin(count) => running /\ StackEntry(m, p)
TableInv == Laid => Tables(offset, phase = "run", mem)

\* An entry that is added leaves the others, and one that is retyped its place.
LEMMA AppendedEntry ==
    ASSUME NEW s, s \in Seq(TableRecords), NEW at \in Int, NEW pages \in Nat
    PROVE  LET left == Append(s, Entry(at, pages))
           IN  /\ left \in Seq(TableRecords) /\ Len(s) \in Nat /\ Len(left) = Len(s) + 1
               /\ \A i \in 1 .. Len(s) : left[i] = s[i]
               /\ left[Len(s) + 1] = Entry(at, pages)
<1>1. Entry(at, pages) \in TableRecords
  BY DEF Entry, TableRecords
<1>2. QED BY <1>1, AppendProperties

Typed(type, at, pages) == [type |-> type, first |-> at, end |-> at + pages]

LEMMA RetypedEntries ==
    ASSUME NEW s, s \in Seq(TableRecords), NEW left, NEW type \in {"Code", "Stack"}, NEW at, NEW pages,
           Retyped(s, left, type, at, pages)
    PROVE  /\ left \in Seq(TableRecords) /\ Len(left) = Len(s)
           /\ \A i \in 1 .. Len(s) :
                 left[i] = IF MatchesTable(s[i], at, pages) THEN Typed(type, at, pages) ELSE s[i]
<1>1. DOMAIN s = 1 .. Len(s) /\ Len(s) \in Nat
  OBVIOUS
<1>2. \A i \in 1 .. Len(s) :
          left[i] = IF MatchesTable(s[i], at, pages) THEN [s[i] EXCEPT !.type = type] ELSE s[i]
  BY <1>1 DEF Retyped
<1>3. ASSUME NEW i \in 1 .. Len(s)
      PROVE  /\ left[i] \in TableRecords
             /\ left[i] = IF MatchesTable(s[i], at, pages) THEN Typed(type, at, pages) ELSE s[i]
  <2>1. s[i] \in TableRecords
    OBVIOUS
  <2>2. CASE MatchesTable(s[i], at, pages)
    <3>1. left[i] = [s[i] EXCEPT !.type = type]
      BY <1>2, <2>2
    <3>2. left[i] \in TableRecords
      BY <2>1, <3>1 DEF TableRecords
    <3>3. left[i] = Typed(type, at, pages)
      BY <2>1, <2>2, <3>1 DEF TableRecords, MatchesTable, Typed
    <3>4. QED BY <2>2, <3>2, <3>3
  <2>3. CASE ~MatchesTable(s[i], at, pages)
    BY <1>2, <2>1, <2>3
  <2>4. QED BY <2>2, <2>3
<1>4. left = [i \in 1 .. Len(s) |-> left[i]]
  BY <1>1 DEF Retyped
<1>5. left \in Seq(TableRecords) /\ Len(left) = Len(s)
  BY <1>1, <1>3, <1>4
<1>6. QED BY <1>3, <1>5

\* The same entries, and no page more.
LEMMA SameTables ==
    ASSUME NEW count, NEW running, NEW m, Tables(count, running, m), NEW left,
           left.tables = m.tables, left.mapping = m.mapping
    PROVE  Tables(count, running, left)
<1>1. Backed(left) = Backed(m)
  BY DEF Backed
<1>2. QED BY <1>1 DEF Tables, StackEntry

\* A stack that runs was not running before.
LEMMA RunningTables ==
    ASSUME NEW count, NEW m, Tables(count, FALSE, m)
    PROVE  Tables(count, TRUE, m)
BY DEF Tables, Placed

LEMMA TlsTables ==
    ASSUME NEW count \in Nat, NEW running \in BOOLEAN, NEW m, HostInv(m, SpaceEnd(count)), Tables(count, running, m),
           NEW pointer \in Nat
    PROVE  Tables(count, running, MapTlsMemory(m, count, pointer))
<1> DEFINE at == TlsIoBegin(count) + pointer
           left == MapTlsMemory(m, count, pointer)
<1>1. at \in Nat /\ TlsIoBegin(count) \in Nat /\ at >= TlsIoBegin(count) /\ 1 \in Nat \ {0} /\ at \in Int
  BY SegmentsOf
<1>2. left = MapSegment(m, at, 1, "ThreadLocal")
  BY DEF MapTlsMemory
<1> HIDE DEF at, left
<1>3. Maps(m, left, at, 1) /\ Enters(m, left, at, 1)
  BY <1>1, <1>2, MapSegmentOf
<1>4. CASE left.mapping = m.mapping /\ left.tables = m.tables
  BY <1>4, SameTables DEF left
<1>5. CASE left.tables = Append(m.tables, Entry(at, 1))
  <2> DEFINE s == m.tables
             n == Len(s)
  <2>1. /\ s \in Seq(TableRecords) /\ \A i \in 1 .. n : Placed(count, running, s[i])
        /\ \A p \in Backed(m) : count <= p /\ p < TlsIoBegin(count) => running /\ StackEntry(m, p)
    BY DEF Tables
  <2>2. /\ left.tables \in Seq(TableRecords) /\ n \in Nat /\ Len(left.tables) = n + 1
        /\ \A i \in 1 .. n : left.tables[i] = s[i]
        /\ left.tables[n + 1] = Entry(at, 1)
    <3>1. 1 \in Nat
      OBVIOUS
    <3>2. QED BY <1>1, <1>5, <2>1, <3>1, AppendedEntry
  <2>3. Placed(count, running, Entry(at, 1))
    BY <1>1 DEF Placed, Entry
  <2>4. Backed(left) \subseteq Backed(m) \cup {at}
    <3>1. Backed(left) \subseteq Backed(m) \cup Span(at, 1)
      BY <1>1, <1>3, MapsKeeps
    <3>2. Span(at, 1) = {at}
      BY <1>1 DEF Span
    <3>3. QED BY <3>1, <3>2
  <2> HIDE DEF n
  <2>5. \A i \in 1 .. n + 1 : Placed(count, running, left.tables[i])
    <3>1. ASSUME NEW i \in 1 .. n + 1 PROVE Placed(count, running, left.tables[i])
      <4>1. CASE i = n + 1
        BY <2>2, <2>3, <4>1
      <4>2. CASE i # n + 1
        <5>1. i \in 1 .. n
          BY <2>2, <4>2
        <5>2. QED BY <2>1, <2>2, <5>1 DEF n
      <4>3. QED BY <4>1, <4>2
    <3>2. QED BY <3>1
  <2>6. ASSUME NEW p \in Backed(left), count <= p, p < TlsIoBegin(count)
        PROVE  running /\ StackEntry(left, p)
    <3>1. p \in Backed(m)
      <4>1. p # at
        BY <1>1, <2>6
      <4>2. QED BY <2>4, <4>1
    <3>2. running /\ StackEntry(m, p)
      BY <2>1, <2>6, <3>1
    <3>3. PICK i \in 1 .. n : s[i].type = "Stack" /\ s[i].first <= p /\ p < s[i].end
      BY <3>2 DEF StackEntry, n
    <3>4. i \in 1 .. Len(left.tables) /\ left.tables[i] = s[i]
      BY <2>2, <3>3 DEF n
    <3>5. StackEntry(left, p)
      BY <3>3, <3>4 DEF StackEntry
    <3>6. QED BY <3>2, <3>5
  <2>7. \A i \in 1 .. Len(left.tables) : Placed(count, running, left.tables[i])
    BY <2>2, <2>5
  <2>8. \A p \in Backed(left) : count <= p /\ p < TlsIoBegin(count) => running /\ StackEntry(left, p)
    BY <2>6
  <2>9. QED BY <2>2, <2>7, <2>8 DEF Tables, left
<1>6. QED BY <1>3, <1>4, <1>5 DEF Enters

\* MapCodeMemory and MapStackMemory: an entry for the pages has the type, and if they
\* were mapped there is one.
LEMMA SegmentEntry ==
    ASSUME NEW m, NEW end, HostInv(m, end), m.tables \in Seq(TableRecords), NEW at \in Nat,
           NEW pages \in Nat \ {0}, NEW kind, NEW type \in {"Code", "Stack"}
    PROVE  LET left == DelimitTable(MapSegment(m, at, pages, kind), type, at, pages)
           IN  /\ left.tables \in Seq(TableRecords)
               /\ \A i \in 1 .. Len(left.tables) :
                     \/ left.tables[i] = Typed(type, at, pages)
                     \/ i \in 1 .. Len(m.tables) /\ left.tables[i] = m.tables[i]
               /\ \/ left.mapping = m.mapping
                  \/ \E i \in 1 .. Len(left.tables) : left.tables[i] = Typed(type, at, pages)
<1> DEFINE mid == MapSegment(m, at, pages, kind)
           left == DelimitTable(mid, type, at, pages)
           s == mid.tables
           n == Len(m.tables)
<1>1. at \in Int /\ at + pages \in Int /\ n \in Nat
  OBVIOUS
<1>2. Proper(mid) /\ Enters(m, mid, at, pages)
  BY <1>1, MapSegmentOf DEF Maps
<1> HIDE DEF mid
<1>3. /\ left.mapping = mid.mapping
      /\ mid.outcome # "ok" => left = mid
      /\ mid.outcome = "ok" => Retyped(s, left.tables, type, at, pages)
  BY <1>2, DelimitTableOf, DelimitTableEntries DEF Untouched
<1> HIDE DEF left
<1> DEFINE Good == /\ left.tables \in Seq(TableRecords)
                   /\ \A i \in 1 .. Len(left.tables) :
                         \/ left.tables[i] = Typed(type, at, pages)
                         \/ i \in 1 .. n /\ left.tables[i] = m.tables[i]
                   /\ \/ left.mapping = m.mapping
                      \/ \E i \in 1 .. Len(left.tables) : left.tables[i] = Typed(type, at, pages)
<1>4. CASE left.mapping = m.mapping /\ left.tables = m.tables
  <2>1. Good
    BY <1>4
  <2>2. QED BY <2>1 DEF left, mid
<1>5. CASE mid.outcome = "ok" /\ left.mapping = m.mapping /\ s = m.tables
  <2>1. /\ left.tables \in Seq(TableRecords) /\ Len(left.tables) = Len(s)
        /\ \A i \in 1 .. Len(s) :
              left.tables[i] = IF MatchesTable(s[i], at, pages) THEN Typed(type, at, pages) ELSE s[i]
    BY <1>3, <1>5, RetypedEntries
  <2>2. Good
    BY <1>5, <2>1
  <2>3. QED BY <2>2 DEF left, mid
<1>6. CASE mid.outcome = "ok" /\ s = Append(m.tables, Entry(at, pages))
  <2>1. /\ s \in Seq(TableRecords) /\ Len(s) = n + 1
        /\ \A i \in 1 .. n : s[i] = m.tables[i]
        /\ s[n + 1] = Entry(at, pages)
    <3>1. pages \in Nat
      OBVIOUS
    <3>2. QED BY <1>1, <1>6, <3>1, AppendedEntry
  <2> HIDE DEF s, n
  <2>2. /\ left.tables \in Seq(TableRecords) /\ Len(left.tables) = n + 1
        /\ \A i \in 1 .. n + 1 :
              left.tables[i] = IF MatchesTable(s[i], at, pages) THEN Typed(type, at, pages) ELSE s[i]
    <3>1. Retyped(s, left.tables, type, at, pages) /\ s \in Seq(TableRecords)
      BY <1>3, <1>6, <2>1 DEF s
    <3>2. /\ left.tables \in Seq(TableRecords) /\ Len(left.tables) = Len(s)
          /\ \A i \in 1 .. Len(s) :
                left.tables[i] = IF MatchesTable(s[i], at, pages) THEN Typed(type, at, pages) ELSE s[i]
      BY <3>1, RetypedEntries
    <3>3. QED BY <2>1, <3>2
  <2>3. MatchesTable(Entry(at, pages), at, pages)
    BY DEF MatchesTable, Entry
  <2>4. n + 1 \in 1 .. n + 1 /\ left.tables[n + 1] = Typed(type, at, pages)
    BY <1>1, <2>1, <2>2, <2>3
  <2>5. ASSUME NEW i \in 1 .. n + 1
        PROVE  left.tables[i] = Typed(type, at, pages) \/ (i \in 1 .. n /\ left.tables[i] = m.tables[i])
    <3>1. CASE i = n + 1
      BY <2>4, <3>1
    <3>2. CASE i # n + 1
      <4>1. i \in 1 .. n
        BY <1>1, <3>2
      <4>2. QED BY <2>1, <2>2, <4>1
    <3>3. QED BY <3>1, <3>2
  <2>6. Good
    BY <2>2, <2>4, <2>5
  <2>7. QED BY <2>6 DEF left, mid, n
<1>7. QED BY <1>2, <1>3, <1>4, <1>5, <1>6 DEF Enters

LEMMA CodeTables ==
    ASSUME NEW count \in Nat, NEW m, HostInv(m, SpaceEnd(count)), Tables(count, FALSE, m),
           NEW at \in Nat, NEW pages \in Nat \ {0}, at + pages <= count
    PROVE  Tables(count, FALSE, MapCodeMemory(m, at, pages))
<1> DEFINE left == MapCodeMemory(m, at, pages)
<1>1. at \in Int
  OBVIOUS
<1>2. Maps(m, left, at, pages) /\ left = DelimitTable(MapSegment(m, at, pages, "Code"), "Code", at, pages)
  BY <1>1, MapCodeMemoryOf
<1> HIDE DEF left
<1>3. /\ m.tables \in Seq(TableRecords)
      /\ \A i \in 1 .. Len(m.tables) : Placed(count, FALSE, m.tables[i])
      /\ \A p \in Backed(m) : ~(count <= p /\ p < TlsIoBegin(count))
  BY DEF Tables
<1>4. /\ left.tables \in Seq(TableRecords)
      /\ \A i \in 1 .. Len(left.tables) :
            \/ left.tables[i] = Typed("Code", at, pages)
            \/ i \in 1 .. Len(m.tables) /\ left.tables[i] = m.tables[i]
  BY <1>2, <1>3, SegmentEntry
<1>5. Placed(count, FALSE, Typed("Code", at, pages))
  BY DEF Placed, Typed
<1>6. \A i \in 1 .. Len(left.tables) : Placed(count, FALSE, left.tables[i])
  BY <1>3, <1>4, <1>5
<1>7. \A p \in Backed(left) : ~(count <= p /\ p < TlsIoBegin(count))
  <2>1. Backed(left) \subseteq Backed(m) \cup Span(at, pages)
    BY <1>1, <1>2, MapsKeeps
  <2>2. \A p \in Span(at, pages) : p < count /\ p \in Int
    BY DEF Span
  <2>3. QED BY <1>3, <2>1, <2>2
<1>8. QED BY <1>4, <1>6, <1>7 DEF Tables, left

LEMMA StackTables ==
    ASSUME NEW count \in Nat, NEW m, HostInv(m, SpaceEnd(count)), Tables(count, FALSE, m),
           NEW pages \in StackSizes
    PROVE  Tables(count, TRUE, MapStackMemory(m, count, pages))
<1> DEFINE at == StackBegin(count)
           left == MapStackMemory(m, count, pages)
<1>1. /\ at \in Nat /\ count < at /\ TlsIoBegin(count) = at + StackSegmentPages
      /\ StackSegmentPages \in Nat /\ TlsIoBegin(count) \in Nat
  BY SegmentsOf, MemoryAssumption
<1>2. pages \in Nat \ {0} /\ pages <= StackSegmentPages
  BY LoaderAssumption, MemoryAssumption
<1>3. at \in Int
  BY <1>1
<1>4. Maps(m, left, at, pages) /\ left = DelimitTable(MapSegment(m, at, pages, "Stack"), "Stack", at, pages)
  BY <1>2, <1>3, MapStackMemoryOf
<1> HIDE DEF left, at
<1>5. /\ m.tables \in Seq(TableRecords)
      /\ \A i \in 1 .. Len(m.tables) : Placed(count, FALSE, m.tables[i])
      /\ \A p \in Backed(m) : ~(count <= p /\ p < TlsIoBegin(count))
  BY DEF Tables
<1>6. /\ left.tables \in Seq(TableRecords)
      /\ \A i \in 1 .. Len(left.tables) :
            \/ left.tables[i] = Typed("Stack", at, pages)
            \/ i \in 1 .. Len(m.tables) /\ left.tables[i] = m.tables[i]
      /\ \/ left.mapping = m.mapping
         \/ \E i \in 1 .. Len(left.tables) : left.tables[i] = Typed("Stack", at, pages)
  BY <1>1, <1>2, <1>4, <1>5, SegmentEntry
<1>7. Placed(count, TRUE, Typed("Stack", at, pages))
  BY <1>1, <1>2 DEF Placed, Typed
<1>8. \A i \in 1 .. Len(left.tables) : Placed(count, TRUE, left.tables[i])
  BY <1>5, <1>6, <1>7 DEF Placed
<1>9. ASSUME NEW p \in Backed(left), count <= p, p < TlsIoBegin(count)
      PROVE  StackEntry(left, p)
  <2>1. p \notin Backed(m)
    BY <1>5, <1>9
  <2>2. left.mapping # m.mapping
    BY <2>1 DEF Backed
  <2>3. p \in Span(at, pages)
    <3>1. Backed(left) \subseteq Backed(m) \cup Span(at, pages)
      BY <1>2, <1>3, <1>4, MapsKeeps
    <3>2. QED BY <2>1, <3>1
  <2>4. at <= p /\ p < at + pages
    BY <1>1, <1>2, <2>3 DEF Span
  <2>5. PICK i \in 1 .. Len(left.tables) : left.tables[i] = Typed("Stack", at, pages)
    BY <1>6, <2>2
  <2>6. QED BY <2>4, <2>5 DEF StackEntry, Typed
<1>10. \A p \in Backed(left) : count <= p /\ p < TlsIoBegin(count) => TRUE /\ StackEntry(left, p)
  BY <1>9
<1>11. QED BY <1>6, <1>8, <1>10 DEF Tables, left

\* The type the page table gives, when all the entries of the page agree on it.
LEMMA TableTypeOf ==
    ASSUME NEW m, m.tables \in Seq(TableRecords), NEW p, NEW type,
           \A i \in 1 .. Len(m.tables) :
               m.tables[i].first <= p /\ p < m.tables[i].end => m.tables[i].type = type,
           \/ type = "Allocated"
           \/ \E i \in 1 .. Len(m.tables) : m.tables[i].first <= p /\ p < m.tables[i].end
    PROVE  TableType(m, p) = type
<1> DEFINE n == Len(m.tables)
           covers == {i \in DOMAIN m.tables : m.tables[i].first <= p /\ p < m.tables[i].end}
<1>1. n \in Nat /\ DOMAIN m.tables = 1 .. n
  OBVIOUS
<1>2. covers \subseteq 1 .. n /\ \A i \in covers : m.tables[i].type = type
  BY <1>1
<1>3. TableType(m, p) = IF covers = {} THEN "Allocated"
                        ELSE m.tables[CHOOSE i \in covers : \A j \in covers : j <= i].type
  BY DEF TableType
<1>4. covers = {} => type = "Allocated"
  BY <1>1
<1> HIDE DEF covers, n
<1>5. covers # {} => \E i \in covers : \A j \in covers : j <= i
  <2>1. covers \subseteq Nat /\ \A i \in covers : i <= n
    BY <1>1, <1>2
  <2>2. QED BY <1>1, <2>1, Greatest
<1>6. covers # {} => (CHOOSE i \in covers : \A j \in covers : j <= i) \in covers
  BY <1>5
<1>7. QED BY <1>2, <1>3, <1>4, <1>6

LEMMA TablesKept == ASSUME IInv, TableInv, Next PROVE TableInv'
<1>1. ASSUME phase # "layout", mem' = mem, offset' = offset, phase' = phase PROVE TableInv'
  BY <1>1 DEF TableInv, Laid, Tables, Placed, StackEntry, Backed
<1>2. CASE \E m \in Modules : GetCodeSet(m)
  <2>1. phase' = "layout"
    BY <1>2 DEF GetCodeSet
  <2>2. QED BY <2>1 DEF TableInv, Laid
<1>3. CASE LoadMemory
  <2>1. mem' = InitializeForProcess(offset) /\ offset \in Nat /\ phase' = "map" /\ offset' = offset
    BY <1>3 DEF LoadMemory, layoutVars, IInv, LayoutInv
  <2>2. Backed(mem') = {} /\ mem'.tables = <<>>
    BY <2>1, SpaceOf DEF InitializeForProcess
  <2>3. mem'.tables \in Seq(TableRecords) /\ 1 .. Len(mem'.tables) = {}
    BY <2>2
  <2>4. Tables(offset, FALSE, mem')
    BY <2>2, <2>3 DEF Tables
  <2>5. QED BY <2>1, <2>4 DEF TableInv
<1>4. ASSUME phase = "map", index <= Len(procimage), Live PROVE Tables(offset, FALSE, MapSection)
  <2> DEFINE at == Current.offset
             pages == Pages(SectionSize)
  <2>1. /\ at \in Nat /\ pages \in Nat \ {0} /\ at + pages <= Following(index)
        /\ Following(index) \in Nat /\ Following(index) <= offset
    BY <1>4, MapSectionOf
  <2>2. offset \in Nat /\ HostInv(mem, SpaceEnd(offset)) /\ Tables(offset, FALSE, mem)
    BY <1>4 DEF IInv, LayoutInv, MemInv, TableInv, Laid
  <2>3. MapSection \in {Fail(mem, "aborted"), MapCodeMemory(mem, at, pages)}
    BY DEF MapSection
  <2> HIDE DEF at, pages
  <2>4. at + pages <= offset
    BY <2>1, <2>2
  <2>5. CASE MapSection = Fail(mem, "aborted")
    <3>1. MapSection.tables = mem.tables /\ MapSection.mapping = mem.mapping
      BY <2>2, <2>5, FailOf DEF HostInv, Outcomes, Untouched
    <3>2. QED BY <2>2, <3>1, SameTables
  <2>6. CASE MapSection = MapCodeMemory(mem, at, pages)
    BY <2>1, <2>2, <2>4, <2>6, CodeTables
  <2>7. QED BY <2>3, <2>5, <2>6
<1>5. CASE SetSection
  <2> DEFINE mapped == MapSection
             set == SetMemoryPermission(mapped, Current.offset, Pages(SectionSize), PermissionOf(bintype))
  <2>1. phase = "map" /\ index <= Len(procimage) /\ Live /\ phase' = phase /\ offset' = offset
    BY <1>5 DEF SetSection
  <2>2. Tables(offset, FALSE, mapped) /\ Proper(mapped)
    BY <1>4, <2>1, MapSectionOf DEF Maps
  <2>3. mem' = set \/ mem' = FillBss(set)
    BY <1>5 DEF SetSection
  <2> HIDE DEF mapped
  <2>4. Proper(set) /\ set.mapping = mapped.mapping /\ set.tables = mapped.tables
    BY <2>2, SetMemoryPermissionOf
  <2> HIDE DEF set
  <2>5. mem'.mapping = set.mapping /\ mem'.tables = set.tables
    <3>1. ASSUME mem' = FillBss(set) PROVE mem'.mapping = set.mapping /\ mem'.tables = set.tables
      <4>1. PICK first, last : mem' = FillMemory(set, first, last)
        BY <3>1 DEF FillBss
      <4>2. QED BY <2>4, <4>1, FillMemoryOf DEF Untouched
    <3>2. QED BY <2>3, <3>1
  <2>6. Tables(offset, FALSE, mem')
    BY <2>2, <2>4, <2>5, SameTables
  <2>7. QED BY <2>1, <2>6 DEF TableInv
<1>6. CASE ReturnAtSilentSection
  <2>1. /\ phase = "map" /\ index <= Len(procimage) /\ Live /\ mem' = MapSection
        /\ phase' = "start" /\ offset' = offset
    BY <1>6 DEF ReturnAtSilentSection, layoutVars
  <2>2. Tables(offset, FALSE, mem')
    BY <1>4, <2>1
  <2>3. QED BY <2>1, <2>2 DEF TableInv
<1>7. CASE EndOfSections
  <2>1. phase = "map" /\ phase' = "start" /\ mem' = mem /\ offset' = offset
    BY <1>7 DEF EndOfSections, layoutVars
  <2>2. Tables(offset, FALSE, mem')
    BY <2>1 DEF TableInv, Laid
  <2>3. QED BY <2>1, <2>2 DEF TableInv
<1>8. ASSUME NEW running \in BOOLEAN, NEW before, HostInv(before, SpaceEnd(offset)),
             Tables(offset, running, before), AllocateTls(before)
      PROVE  Tables(offset, running, mem')
  <2>1. TlsLists /\ offset \in Nat
    BY DEF IInv, ThreadInv, LayoutInv
  <2>2. SlabAllocate(userslabs).pointer \in Nat
    BY <2>1, FreshOf
  <2>3. mem' = before \/ mem' = MapTlsMemory(before, offset, SlabAllocate(userslabs).pointer)
    BY <1>8, AllocateTlsCases
  <2>4. QED BY <1>8, <2>1, <2>2, <2>3, TlsTables
<1>9. Laid => HostInv(mem, SpaceEnd(offset)) /\ Tables(offset, phase = "run", mem)
  BY DEF IInv, MemInv, TableInv
<1>10. CASE \E size \in StackSizes : AllocateExceptionTls(size)
  <2>1. phase = "start" /\ phase' = phase /\ offset' = offset /\ AllocateTls(mem)
    BY <1>10 DEF AllocateExceptionTls, layoutVars
  <2>2. Tables(offset, FALSE, mem')
    BY <1>8, <1>9, <2>1 DEF Laid
  <2>3. QED BY <2>1, <2>2 DEF TableInv
<1>11. CASE InitializeThread
  <2> DEFINE mapped == MapStackMemory(mem, offset, stack)
  <2>1. /\ phase = "start" /\ phase' = "run" /\ offset' = offset /\ tls # <<>>
        /\ AllocateTls(mapped) \/ mem' = mapped
    BY <1>11 DEF InitializeThread, layoutVars
  <2>2. offset \in Nat /\ stack \in StackSizes
    BY <2>1 DEF IInv, LayoutInv, ThreadInv
  <2>3. Tables(offset, TRUE, mapped)
    BY <1>9, <2>1, <2>2, StackTables DEF Laid
  <2>4. HostInv(mapped, SpaceEnd(offset))
    <3>1. stack \in Nat \ {0} /\ StackBegin(offset) \in Int
      BY <2>2, SegmentsOf, LoaderAssumption
    <3>2. Maps(mem, mapped, StackBegin(offset), stack)
      BY <1>9, <2>1, <3>1, MapStackMemoryOf DEF Laid
    <3> HIDE DEF mapped
    <3>3. QED BY <1>9, <2>1, <3>1, <3>2, MapsKeeps DEF Laid
  <2>5. Tables(offset, TRUE, mem')
    BY <1>8, <2>1, <2>3, <2>4
  <2>6. QED BY <2>1, <2>5 DEF TableInv
<1>12. CASE AllocateThreadTls
  <2>1. phase = "run" /\ phase' = phase /\ offset' = offset /\ AllocateTls(mem)
    BY <1>12 DEF AllocateThreadTls, layoutVars
  <2>2. Tables(offset, TRUE, mem')
    BY <1>8, <1>9, <2>1 DEF Laid
  <2>3. QED BY <2>1, <2>2 DEF TableInv
<1>13. QED BY <1>2, <1>3, <1>5, <1>6, <1>7, <1>10, <1>11, <1>12 DEF Next, Load, StartProcess

\* To the JIT, stack pages are of the stack and thread local pages of neither kind,
\* whatever the modules have.
THEOREM TablesNamed == Spec => []TablesMatchSegments
<1>1. Init => TableInv
  BY DEF Init, TableInv, Laid
<1>2. IInv /\ TableInv /\ [Next]_vars => TableInv'
  <2> SUFFICES ASSUME IInv, TableInv, [Next]_vars PROVE TableInv'
    OBVIOUS
  <2>1. CASE Next
    BY <2>1, TablesKept
  <2>2. CASE UNCHANGED vars
    BY <2>2 DEF vars, TableInv, Laid, Tables, Placed, StackEntry, Backed
  <2>3. QED BY <2>1, <2>2
<1>3. IInv /\ TableInv => TablesMatchSegments
  <2> SUFFICES ASSUME IInv, TableInv, NEW p \in Mapped, p >= CodePages(offset)
               PROVE  TableType(mem, p)
                        = IF p < TlsIoBegin(offset) /\ phase = "run" THEN "Stack" ELSE "Allocated"
    BY DEF TablesMatchSegments
  <2>1. p \in Backed(mem)
    BY DEF Mapped, Guest, Backed
  <2>2. Laid
    BY <2>1, NothingBacked DEF IInv, MemInv, Laid
  <2>3. /\ HostInv(mem, SpaceEnd(offset)) /\ offset \in Nat
        /\ mem.tables \in Seq(TableRecords)
        /\ \A i \in 1 .. Len(mem.tables) : Placed(offset, phase = "run", mem.tables[i])
        /\ offset <= p /\ p < TlsIoBegin(offset) => phase = "run" /\ StackEntry(mem, p)
    BY <2>1, <2>2 DEF IInv, MemInv, LayoutInv, TableInv, Tables
  <2>4. /\ p \in Nat /\ offset <= CodePages(offset) /\ CodePages(offset) \in Nat /\ TlsIoBegin(offset) \in Nat
    BY <2>1, <2>3, BackedIn, SegmentsOf
  <2>5. offset <= p
    BY <2>3, <2>4
  <2>6. ASSUME NEW i \in 1 .. Len(mem.tables), mem.tables[i].first <= p, p < mem.tables[i].end
        PROVE  mem.tables[i].type = IF p < TlsIoBegin(offset) THEN "Stack" ELSE "Allocated"
    <3>1. Placed(offset, phase = "run", mem.tables[i])
      BY <2>3
    <3>2. mem.tables[i].first \in Int /\ mem.tables[i].end \in Int
      <4>1. mem.tables[i] \in TableRecords
        BY <2>3
      <4>2. QED BY <4>1 DEF TableRecords
    <3>3. ~(mem.tables[i].end <= offset)
      BY <2>3, <2>4, <2>5, <2>6, <3>2
    <3>4. \/ mem.tables[i].type = "Stack" /\ mem.tables[i].end <= TlsIoBegin(offset)
          \/ mem.tables[i].type = "Allocated" /\ mem.tables[i].first >= TlsIoBegin(offset)
      BY <3>1, <3>3 DEF Placed
    <3>5. QED BY <2>4, <2>6, <3>2, <3>4
  <2>7. CASE p < TlsIoBegin(offset)
    <3>1. phase = "run" /\ StackEntry(mem, p)
      BY <2>3, <2>5, <2>7
    <3>2. \E i \in 1 .. Len(mem.tables) : mem.tables[i].first <= p /\ p < mem.tables[i].end
      BY <3>1 DEF StackEntry
    <3>3. \A i \in 1 .. Len(mem.tables) :
              mem.tables[i].first <= p /\ p < mem.tables[i].end => mem.tables[i].type = "Stack"
      BY <2>6, <2>7
    <3>4. TableType(mem, p) = "Stack"
      BY <2>3, <3>2, <3>3, TableTypeOf
    <3>5. QED BY <2>7, <3>1, <3>4
  <2>8. CASE ~(p < TlsIoBegin(offset))
    <3>1. \A i \in 1 .. Len(mem.tables) :
              mem.tables[i].first <= p /\ p < mem.tables[i].end => mem.tables[i].type = "Allocated"
      BY <2>6, <2>8
    <3>2. TableType(mem, p) = "Allocated"
      BY <2>3, <3>1, TableTypeOf
    <3>3. QED BY <2>8, <3>2
  <2>9. QED BY <2>7, <2>8
<1>4. QED BY <1>1, <1>2, <1>3, Invariance, PTL DEF Spec

-----------------------------------------------------------------------------
(* The sections that are mapped. Later calls work behind them.              *)

\* Entries of addresses below the edge stay, and others are behind it.
EntriesStay(m, left, edge) ==
    /\ \A i \in 1 .. Len(left.tables) :
          left.tables[i].first >= edge \/ (i \in 1 .. Len(m.tables) /\ left.tables[i] = m.tables[i])
    /\ \A i \in 1 .. Len(m.tables) :
          m.tables[i].first < edge => i \in 1 .. Len(left.tables) /\ left.tables[i] = m.tables[i]
Stays(m, left, edge) ==
    /\ BlocksStay(m.blocks, left.blocks, edge) /\ EntriesStay(m, left, edge)
    /\ \A p \in Int : p < edge => (p \in left.writable <=> p \in m.writable)

\* A memory as the calls of the loader leave it.
WellFormed(m, end) == Proper(m) /\ Blocked(m.blocks, end) /\ m.tables \in Seq(TableRecords)

LEMMA StaysThen ==
    ASSUME NEW m, NEW mid, NEW left, NEW edge, Stays(m, mid, edge), Stays(mid, left, edge)
    PROVE  Stays(m, left, edge)
<1>1. BlocksStay(m.blocks, left.blocks, edge)
  BY DEF Stays, BlocksStay
<1>2. EntriesStay(m, left, edge)
  BY DEF Stays, EntriesStay
<1>3. QED BY <1>1, <1>2 DEF Stays

LEMMA StaysSame ==
    ASSUME NEW m, NEW left, NEW edge, left.blocks = m.blocks, left.tables = m.tables, left.writable = m.writable
    PROVE  Stays(m, left, edge)
BY DEF Stays, BlocksStay, EntriesStay

LEMMA MapSegmentStays ==
    ASSUME NEW m, NEW end, HostInv(m, end), WellFormed(m, end), NEW edge \in Nat, Anchor(m.blocks, edge),
           NEW at \in Nat, edge <= at, NEW pages \in Nat \ {0}, at + pages <= end, NEW kind,
           MapSegment(m, at, pages, kind).outcome = "ok"
    PROVE  /\ m.outcome = "ok" /\ WellFormed(MapSegment(m, at, pages, kind), end)
           /\ Stays(m, MapSegment(m, at, pages, kind), edge)
<1> DEFINE mid == MapBlock(m, at, Block(pages, kind))
           left == MapSegment(m, at, pages, kind)
<1>1. at \in Int
  OBVIOUS
<1>2. /\ Maps(m, left, at, pages) /\ Enters(m, left, at, pages)
      /\ left = WriteMemory(mid, at, pages)
  BY <1>1, MapSegmentOf
<1>3. Block(pages, kind).pages = pages /\ DOMAIN Block(pages, kind) = BlockFields
  BY DEF Block, BlockFields
<1>4. Proper(mid)
  BY <1>1, <1>3, MapBlockOf DEF Maps
<1>5. left.blocks = mid.blocks /\ mid.outcome = "ok"
  BY <1>2, <1>4, WriteMemoryOf
<1> DEFINE new == Block(pages, kind)
<1>6. m.outcome = "ok" /\ Blocked(mid.blocks, end) /\ BlocksStay(m.blocks, mid.blocks, edge)
  <2>1. new.pages \in Nat \ {0} /\ DOMAIN new = BlockFields /\ at + new.pages <= end
    BY <1>3
  <2>2. mid = MapBlock(m, at, new) /\ Blocked(m.blocks, end)
    BY DEF WellFormed
  <2> HIDE DEF mid, new
  <2>3. QED BY <1>5, <2>1, <2>2, MapBlockStays
<1> HIDE DEF mid, left
<1>7. Span(at, pages) \subseteq {p \in Int : edge <= p}
  BY DEF Span
<1>8. \A p \in Int : p < edge => (p \in left.writable <=> p \in m.writable)
  <2>1. left.writable = m.writable \/ left.writable = m.writable \cup Span(at, pages)
    BY <1>2 DEF Maps, Untouched, MapsAt
  <2>2. QED BY <1>7, <2>1
<1>9. left.tables \in Seq(TableRecords) /\ EntriesStay(m, left, edge)
  <2>1. CASE left.tables = m.tables
    BY <2>1 DEF WellFormed, EntriesStay
  <2>2. CASE left.tables = Append(m.tables, Entry(at, pages))
    <3> DEFINE s == m.tables
               n == Len(s)
    <3>1. /\ left.tables \in Seq(TableRecords) /\ n \in Nat /\ Len(left.tables) = n + 1
          /\ \A i \in 1 .. n : left.tables[i] = s[i]
          /\ left.tables[n + 1] = Entry(at, pages)
      <4>1. s \in Seq(TableRecords) /\ pages \in Nat
        BY DEF WellFormed
      <4> HIDE DEF s
      <4>2. left.tables = Append(s, Entry(at, pages))
        BY <2>2 DEF s
      <4>3. QED BY <1>1, <4>1, <4>2, AppendedEntry
    <3> HIDE DEF n
    <3>2. \A i \in 1 .. n + 1 : i \in 1 .. n \/ i = n + 1
      BY <3>1
    <3>3. 1 .. n \subseteq 1 .. n + 1
      BY <3>1
    <3>4. Entry(at, pages).first = at
      BY DEF Entry
    <3>5. EntriesStay(m, left, edge)
      BY <3>1, <3>2, <3>3, <3>4 DEF EntriesStay, n
    <3>6. QED BY <3>1, <3>5
  <2>3. QED BY <1>2, <2>1, <2>2 DEF Enters
<1>10. WellFormed(left, end)
  BY <1>2, <1>5, <1>6, <1>9 DEF WellFormed, Maps
<1>11. Stays(m, left, edge)
  BY <1>5, <1>6, <1>8, <1>9 DEF Stays
<1>12. QED BY <1>6, <1>10, <1>11 DEF left

LEMMA DelimitTableStays ==
    ASSUME NEW m, NEW end, WellFormed(m, end), NEW edge \in Nat, NEW at \in Nat, edge <= at, NEW pages,
           NEW type \in {"Code", "Stack"}
    PROVE  /\ WellFormed(DelimitTable(m, type, at, pages), end)
           /\ Stays(m, DelimitTable(m, type, at, pages), edge)
<1> DEFINE left == DelimitTable(m, type, at, pages)
           s == m.tables
<1>1. Proper(m) /\ s \in Seq(TableRecords)
  BY DEF WellFormed
<1>2. Proper(left) /\ left.blocks = m.blocks /\ left.writable = m.writable
  BY <1>1, DelimitTableOf DEF Untouched
<1>3. left = m \/ Retyped(s, left.tables, type, at, pages)
  BY <1>1, DelimitTableEntries
<1> HIDE DEF left, s
<1>4. CASE left = m
  <2>1. WellFormed(left, end) /\ Stays(m, left, edge)
    BY <1>4, StaysSame
  <2>2. QED BY <2>1 DEF left
<1>5. CASE Retyped(s, left.tables, type, at, pages)
  <2>1. /\ left.tables \in Seq(TableRecords) /\ Len(left.tables) = Len(s)
        /\ \A i \in 1 .. Len(s) :
              left.tables[i] = IF MatchesTable(s[i], at, pages) THEN Typed(type, at, pages) ELSE s[i]
    BY <1>1, <1>5, RetypedEntries
  <2>2. Typed(type, at, pages).first = at
    BY DEF Typed
  <2>3. \A i \in 1 .. Len(s) : MatchesTable(s[i], at, pages) => s[i].first = at
    BY DEF MatchesTable
  <2>4. \A i \in 1 .. Len(s) : s[i].first < edge => ~MatchesTable(s[i], at, pages)
    BY <2>3
  <2>5. EntriesStay(m, left, edge)
    BY <2>1, <2>2, <2>4 DEF EntriesStay, s
  <2>6. WellFormed(left, end)
    BY <1>2, <2>1 DEF WellFormed
  <2>7. Stays(m, left, edge)
    BY <1>2, <2>5 DEF Stays, BlocksStay
  <2>8. QED BY <2>6, <2>7 DEF left
<1>6. QED BY <1>3, <1>4, <1>5

LEMMA PermissionStays ==
    ASSUME NEW m, NEW end, WellFormed(m, end), NEW edge \in Nat, edge \in Keys(m.blocks),
           NEW at \in Nat, edge <= at, NEW pages \in Nat, NEW perm,
           SetMemoryPermission(m, at, pages, perm).outcome = "ok"
    PROVE  /\ m.outcome = "ok" /\ WellFormed(SetMemoryPermission(m, at, pages, perm), end)
           /\ Stays(m, SetMemoryPermission(m, at, pages, perm), edge)
<1> DEFINE left == SetMemoryPermission(m, at, pages, perm)
           key == FindBlock(m.blocks, at)
<1>1. Proper(m) /\ Proper(left) /\ left.tables = m.tables
  BY SetMemoryPermissionOf DEF WellFormed
<1>2. m.outcome = "ok" /\ (left = m \/ left = Reprotect(m, at, pages, perm))
  BY <1>1, FailOf DEF SetMemoryPermission, Outcomes
<1>3. \A k \in Keys(m.blocks) : k \in Nat /\ DOMAIN m.blocks[k] = BlockFields
  BY DEF WellFormed, Blocked
<1>4. key \in Keys(m.blocks) /\ edge <= key
  <2>1. CASE at \in Keys(m.blocks)
    BY <2>1 DEF FindBlock
  <2>2. CASE at \notin Keys(m.blocks)
    <3>1. edge < at
      BY <2>2
    <3>2. QED BY <1>3, <2>2, <3>1, BeforeIn DEF FindBlock
  <2>3. QED BY <2>1, <2>2
<1>5. CASE left = m
  BY <1>2, <1>5, StaysSame
<1>6. CASE left = Reprotect(m, at, pages, perm)
  <2>1. /\ left.blocks = [m.blocks EXCEPT ![key].perm = perm]
        /\ left.writable = IF perm = Data THEN m.writable \cup Span(at, pages) ELSE m.writable \ Span(at, pages)
    BY <1>1, <1>6 DEF Reprotect, Proper, Fields
  <2> HIDE DEF key
  <2> DEFINE c == left.blocks
  <2>2. Keys(c) = Keys(m.blocks) /\ \A k \in Keys(m.blocks) : k # key => c[k] = m.blocks[k]
    BY <2>1 DEF Keys
  <2>3. DOMAIN c[key] = BlockFields
    BY <1>3, <1>4, <2>1 DEF Keys
  <2> HIDE DEF c
  <2>4. Blocked(c, end)
    BY <1>3, <2>2, <2>3 DEF Blocked, WellFormed
  <2>5. BlocksStay(m.blocks, c, edge)
    <3>1. \A k \in Keys(c) : k < edge => k # key
      BY <1>3, <1>4, <2>2
    <3>2. QED BY <2>2, <3>1 DEF BlocksStay
  <2>6. \A p \in Int : p < edge => (p \in left.writable <=> p \in m.writable)
    <3>1. \A p \in Span(at, pages) : edge <= p
      BY DEF Span
    <3>2. QED BY <2>1, <3>1
  <2>7. WellFormed(left, end) /\ Stays(m, left, edge)
    BY <1>1, <2>4, <2>5, <2>6 DEF WellFormed, Stays, EntriesStay, c
  <2>8. QED BY <1>2, <2>7
<1>7. QED BY <1>2, <1>5, <1>6

LEMMA FillMemoryStays ==
    ASSUME NEW m, NEW end, WellFormed(m, end), NEW edge, NEW first, NEW last
    PROVE  /\ WellFormed(FillMemory(m, first, last), end) /\ Stays(m, FillMemory(m, first, last), edge)
           /\ FillMemory(m, first, last).outcome = "ok" => m.outcome = "ok"
<1> DEFINE left == FillMemory(m, first, last)
<1>1. /\ Proper(left) /\ Untouched(m, left) /\ left.blocks = m.blocks /\ left.tables = m.tables
      /\ left.outcome = "ok" => m.outcome = "ok"
  BY FillMemoryOf DEF WellFormed
<1> HIDE DEF left
<1>2. Stays(m, left, edge)
  BY <1>1, StaysSame DEF Untouched
<1>3. WellFormed(left, end)
  BY <1>1 DEF WellFormed
<1>4. QED BY <1>1, <1>2, <1>3 DEF left

LEMMA MapSectionStays ==
    ASSUME IInv, phase = "map", index <= Len(procimage), Live, WellFormed(mem, SpaceEnd(offset)),
           NEW edge \in Nat, Anchor(mem.blocks, edge), edge <= Current.offset, MapSection.outcome = "ok"
    PROVE  /\ WellFormed(MapSection, SpaceEnd(offset)) /\ Stays(mem, MapSection, edge)
           /\ MapSection = MapCodeMemory(mem, Current.offset, Pages(SectionSize))
<1> DEFINE at == Current.offset
           pages == Pages(SectionSize)
           end == SpaceEnd(offset)
           mid == MapSegment(mem, at, pages, "Code")
<1>1. /\ at \in Nat /\ pages \in Nat \ {0} /\ at + pages <= Following(index)
      /\ Following(index) \in Nat /\ Following(index) <= offset
  BY MapSectionOf
<1>2. offset \in Nat /\ HostInv(mem, end) /\ end \in Nat /\ offset <= end
  <2>1. offset \in Nat /\ HostInv(mem, end)
    BY DEF IInv, LayoutInv, MemInv, Laid
  <2>2. /\ StackBegin(offset) \in Nat /\ offset < StackBegin(offset)
        /\ StackBegin(offset) < TlsIoBegin(offset) /\ TlsIoBegin(offset) < end
        /\ TlsIoBegin(offset) \in Nat /\ end \in Nat
    BY <2>1, SegmentsOf
  <2> HIDE DEF end
  <2>3. QED BY <2>1, <2>2
<1>3. MapSection = MapCodeMemory(mem, at, pages)
  <2>1. Fail(mem, "aborted").outcome # "ok"
    BY <1>2, FailOf DEF HostInv, Outcomes
  <2>2. QED BY <2>1 DEF MapSection
<1> HIDE DEF at, pages
<1>4. MapSection = DelimitTable(mid, "Code", at, pages) /\ at + pages <= end /\ at \in Int
  BY <1>1, <1>2, <1>3, MapCodeMemoryOf
<1> HIDE DEF end
<1>5. Proper(mid)
  BY <1>1, <1>2, <1>4, MapSegmentOf DEF Maps
<1>6. mid.outcome = "ok"
  BY <1>4, <1>5, DelimitTableOf
<1>7. WellFormed(mid, end) /\ Stays(mem, mid, edge)
  BY <1>1, <1>2, <1>4, <1>6, MapSegmentStays DEF end, at
<1> HIDE DEF mid
<1>8. WellFormed(MapSection, end) /\ Stays(mid, MapSection, edge)
  BY <1>1, <1>4, <1>7, DelimitTableStays DEF at
<1>9. Stays(mem, MapSection, edge)
  BY <1>7, <1>8, StaysThen
<1>10. QED BY <1>3, <1>8, <1>9 DEF at, pages, end

LEMMA SetSectionStays ==
    ASSUME IInv, SetSection, Live', WellFormed(mem, SpaceEnd(offset)),
           NEW edge \in Nat, Anchor(mem.blocks, edge), edge <= Current.offset
    PROVE  WellFormed(mem', SpaceEnd(offset)) /\ Stays(mem, mem', edge)
<1> DEFINE at == Current.offset
           pages == Pages(SectionSize)
           end == SpaceEnd(offset)
           perm == PermissionOf(bintype)
           mapped == MapSection
           set == SetMemoryPermission(mapped, at, pages, perm)
<1>1. phase = "map" /\ index <= Len(procimage) /\ Live /\ (mem' = set \/ mem' = FillBss(set))
  BY DEF SetSection
<1>2. at \in Nat /\ pages \in Nat \ {0} /\ Proper(mapped)
  BY <1>1, MapSectionOf DEF Maps
<1> HIDE DEF perm, pages, end
<1>3. Proper(set)
  BY <1>2, SetMemoryPermissionOf
<1> HIDE DEF mapped
<1>4. set.outcome = "ok" => mapped.outcome = "ok"
  BY DEF SetMemoryPermission
<1>5. set.outcome = "ok"
  <2> HIDE DEF set
  <2>1. CASE mem' = set
    BY <2>1 DEF Live
  <2>2. CASE mem' = FillBss(set)
    <3>1. PICK first, last : mem' = FillMemory(set, first, last)
      BY <2>2 DEF FillBss
    <3>2. QED BY <1>3, <3>1, FillMemoryOf DEF Live
  <2>3. QED BY <1>1, <2>1, <2>2
<1>6. WellFormed(mapped, end) /\ Stays(mem, mapped, edge)
  BY <1>1, <1>4, <1>5, MapSectionStays DEF mapped, end
<1>7. edge \in Keys(mapped.blocks)
  BY <1>6 DEF Stays, BlocksStay, Anchor
<1>8. WellFormed(set, end) /\ Stays(mapped, set, edge)
  <2>1. pages \in Nat /\ edge <= at
    BY <1>2
  <2> HIDE DEF at
  <2>2. QED BY <1>2, <1>5, <1>6, <1>7, <2>1, PermissionStays
<1>9. Stays(mem, set, edge)
  BY <1>6, <1>8, StaysThen
<1> HIDE DEF set
<1>10. CASE mem' = set
  BY <1>8, <1>9, <1>10 DEF end
<1>11. CASE mem' = FillBss(set)
  <2>1. PICK first, last : mem' = FillMemory(set, first, last)
    BY <1>11 DEF FillBss
  <2>2. WellFormed(mem', end) /\ Stays(set, mem', edge)
    BY <1>8, <2>1, FillMemoryStays
  <2>3. QED BY <1>9, <2>2, StaysThen DEF end
<1>12. QED BY <1>1, <1>10, <1>11

LEMMA StackMemoryStays ==
    ASSUME NEW count \in Nat, NEW m, HostInv(m, SpaceEnd(count)), WellFormed(m, SpaceEnd(count)),
           NEW edge \in Nat, Anchor(m.blocks, edge), edge <= count, NEW pages \in StackSizes,
           MapStackMemory(m, count, pages).outcome = "ok"
    PROVE  /\ WellFormed(MapStackMemory(m, count, pages), SpaceEnd(count))
           /\ Stays(m, MapStackMemory(m, count, pages), edge)
<1> DEFINE at == StackBegin(count)
           end == SpaceEnd(count)
           mid == MapSegment(m, at, pages, "Stack")
           left == MapStackMemory(m, count, pages)
<1>1. at \in Nat /\ edge <= at /\ pages \in Nat \ {0} /\ at + pages <= end
  <2>1. /\ at \in Nat /\ count < at /\ TlsIoBegin(count) = at + StackSegmentPages
        /\ StackSegmentPages \in Nat /\ TlsIoBegin(count) < end /\ end \in Nat
    BY SegmentsOf, MemoryAssumption
  <2>2. pages \in Nat \ {0} /\ pages <= StackSegmentPages
    BY LoaderAssumption, MemoryAssumption
  <2> HIDE DEF at, end
  <2>3. QED BY <2>1, <2>2
<1>2. left = DelimitTable(mid, "Stack", at, pages) /\ at \in Int
  BY <1>1, MapStackMemoryOf
<1> HIDE DEF at, end, left
<1>3. Proper(mid)
  BY <1>1, <1>2, MapSegmentOf DEF Maps, end
<1>4. mid.outcome = "ok"
  BY <1>2, <1>3, DelimitTableOf DEF left
<1>5. WellFormed(mid, end) /\ Stays(m, mid, edge)
  BY <1>1, <1>4, MapSegmentStays DEF end
<1> HIDE DEF mid
<1>6. WellFormed(left, end) /\ Stays(mid, left, edge)
  BY <1>1, <1>2, <1>5, DelimitTableStays
<1>7. QED BY <1>5, <1>6, StaysThen DEF left, end

LEMMA TlsMemoryStays ==
    ASSUME TlsLists, offset \in Nat, NEW before, HostInv(before, SpaceEnd(offset)), AllocateTls(before),
           WellFormed(before, SpaceEnd(offset)), NEW edge \in Nat, Anchor(before.blocks, edge), edge <= offset, Live'
    PROVE  WellFormed(mem', SpaceEnd(offset)) /\ Stays(before, mem', edge)
<1> DEFINE pointer == SlabAllocate(userslabs).pointer
           at == TlsIoBegin(offset) + pointer
           end == SpaceEnd(offset)
<1>1. CASE mem' = before
  BY <1>1, StaysSame
<1>2. CASE mem' = MapTlsMemory(before, offset, pointer)
  <2>1. at \in TlsIoBegin(offset) .. end - 1
    BY FreshOf
  <2>2. at \in Nat /\ edge <= at /\ at + 1 <= end /\ 1 \in Nat \ {0}
    <3>1. TlsIoBegin(offset) \in Nat /\ offset < TlsIoBegin(offset) /\ end \in Nat
      <4>1. /\ StackBegin(offset) \in Nat /\ offset < StackBegin(offset)
            /\ StackBegin(offset) < TlsIoBegin(offset) /\ TlsIoBegin(offset) \in Nat /\ end \in Nat
        BY SegmentsOf
      <4> HIDE DEF end
      <4>2. QED BY <4>1
    <3> HIDE DEF at, end
    <3>2. QED BY <2>1, <3>1
  <2>3. mem' = MapSegment(before, at, 1, "ThreadLocal") /\ mem'.outcome = "ok"
    BY <1>2 DEF MapTlsMemory, Live
  <2> HIDE DEF at, end
  <2>4. WellFormed(mem', end) /\ Stays(before, mem', edge)
    BY <2>2, <2>3, MapSegmentStays DEF end
  <2>5. QED BY <2>4 DEF end
<1>3. QED BY <1>1, <1>2, AllocateTlsCases

\* A block of the image, its pages, their protection and their type to the JIT.
Covers(t, p) == t.first <= p /\ p < t.end
CodeAt(m, p) ==
    /\ \E i \in 1 .. Len(m.tables) : Covers(m.tables[i], p)
    /\ \A i \in 1 .. Len(m.tables) : Covers(m.tables[i], p) => m.tables[i].type = "Code"
Shielded(m, p, perm) == p \in Backed(m) /\ (p \in m.writable <=> perm = Data) /\ CodeAt(m, p)
Holds(m, first, next, perm) ==
    /\ first \in Keys(m.blocks) /\ next \in Keys(m.blocks) /\ first < next
    /\ m.blocks[first].perm = perm
    /\ \A k \in Keys(m.blocks) : k <= first \/ next <= k
    /\ \A p \in first .. next - 1 : Shielded(m, p, perm)

LEMMA CodeStays ==
    ASSUME NEW m, NEW left, m.tables \in Seq(TableRecords), left.tables \in Seq(TableRecords),
           NEW next \in Nat, EntriesStay(m, left, next), NEW p \in Int, p < next, CodeAt(m, p)
    PROVE  CodeAt(left, p)
<1>1. PICK i \in 1 .. Len(m.tables) : Covers(m.tables[i], p)
  BY DEF CodeAt
<1>2. m.tables[i].first \in Int /\ m.tables[i].first < next
  <2>1. m.tables[i] \in TableRecords
    OBVIOUS
  <2>2. QED BY <1>1, <2>1 DEF TableRecords, Covers
<1>3. i \in 1 .. Len(left.tables) /\ Covers(left.tables[i], p)
  BY <1>1, <1>2 DEF EntriesStay
<1>4. ASSUME NEW j \in 1 .. Len(left.tables), Covers(left.tables[j], p)
      PROVE  left.tables[j].type = "Code"
  <2>1. ~(left.tables[j].first >= next)
    <3>1. left.tables[j] \in TableRecords
      OBVIOUS
    <3>2. QED BY <1>4, <3>1 DEF TableRecords, Covers
  <2>2. j \in 1 .. Len(m.tables) /\ left.tables[j] = m.tables[j]
    BY <2>1 DEF EntriesStay
  <2>3. QED BY <1>4, <2>2 DEF CodeAt
<1>5. QED BY <1>3, <1>4 DEF CodeAt

LEMMA HoldsStays ==
    ASSUME NEW m, NEW left, NEW end, WellFormed(m, end), WellFormed(left, end), Backed(m) \subseteq Backed(left),
           NEW first \in Nat, NEW next \in Nat, NEW perm, Holds(m, first, next, perm), Stays(m, left, next)
    PROVE  Holds(left, first, next, perm)
<1>1. /\ first \in Keys(left.blocks) /\ next \in Keys(left.blocks) /\ first < next
      /\ left.blocks[first].perm = perm
  BY DEF Holds, Stays, BlocksStay
<1>2. ASSUME NEW k \in Keys(left.blocks) PROVE k <= first \/ next <= k
  <2>1. k \in Nat
    BY DEF WellFormed, Blocked
  <2>2. k < next => k \in Keys(m.blocks)
    BY DEF Stays, BlocksStay
  <2>3. k < next => k <= first
    <3>1. ASSUME k < next PROVE k <= first
      <4>1. k <= first \/ next <= k
        BY <2>2, <3>1 DEF Holds
      <4>2. QED BY <2>1, <3>1, <4>1
    <3>2. QED BY <3>1
  <2>4. QED BY <2>1, <2>3
<1>3. ASSUME NEW p \in first .. next - 1 PROVE Shielded(left, p, perm)
  <2>1. Shielded(m, p, perm) /\ p \in Int /\ p < next
    BY DEF Holds
  <2>2. CodeAt(left, p)
    BY <2>1, CodeStays DEF Shielded, Stays, WellFormed
  <2>3. p \in left.writable <=> p \in m.writable
    BY <2>1 DEF Stays
  <2>4. QED BY <2>1, <2>2, <2>3 DEF Shielded
<1>4. QED BY <1>1, <1>2, <1>3 DEF Holds

\* Entries of sections that are mapped end before the place that is reached.
EntriesEnd(m, at) == \A i \in 1 .. Len(m.tables) : m.tables[i].end <= at

\* MapCodeMemory puts a block where the free one begins; the rest of it is behind.
LEMMA FreshCode ==
    ASSUME NEW count \in Nat, NEW m, HostInv(m, SpaceEnd(count)), m.tables \in Seq(TableRecords),
           NEW at \in Nat, FreeFrom(count, m, at), EntriesEnd(m, at), NEW pages \in Nat \ {0}, at + pages <= count,
           MapCodeMemory(m, at, pages).outcome = "ok"
    PROVE  LET left == MapCodeMemory(m, at, pages)
           IN  /\ FreeFrom(count, left, at + pages)
               /\ at \in Keys(left.blocks) /\ left.blocks[at] = Block(pages, "Code")
               /\ \A k \in Keys(left.blocks) : k <= at \/ at + pages <= k
               /\ EntriesEnd(left, at + pages)
               /\ \A p \in Span(at, pages) : p \in Backed(left) /\ p \in left.writable /\ CodeAt(left, p)
<1> DEFINE left == MapCodeMemory(m, at, pages)
           new == Block(pages, "Code")
<1>1. FreeFrom(count, left, at + pages) /\ at \in Keys(left.blocks) /\ PutsBlock(m, left, at, new)
  BY CodeShape
<1>2. new.pages = pages
  BY DEF Block
<1>3. at \in Int /\ left = DelimitTable(MapSegment(m, at, pages, "Code"), "Code", at, pages)
  BY MapCodeMemoryOf
<1>4. /\ left.tables \in Seq(TableRecords)
      /\ \A i \in 1 .. Len(left.tables) :
            \/ left.tables[i] = Typed("Code", at, pages)
            \/ i \in 1 .. Len(m.tables) /\ left.tables[i] = m.tables[i]
      /\ \/ left.mapping = m.mapping
         \/ \E i \in 1 .. Len(left.tables) : left.tables[i] = Typed("Code", at, pages)
  <2> HIDE DEF left, new
  <2>1. "Code" \in {"Code", "Stack"}
    OBVIOUS
  <2>2. QED BY <1>3, <2>1, SegmentEntry
<1> HIDE DEF left, new
<1>5. PICK blocks, donor : Rearranged(m.blocks, blocks, at, new, donor) /\ Puts(m, left, at, pages, blocks)
  BY <1>1, <1>2 DEF PutsBlock
<1>6. left.blocks = blocks /\ MapsAt(m, left, at, pages)
  BY <1>5 DEF Puts, left
<1>7. left.blocks[at] = new
  BY <1>5, <1>6 DEF Rearranged
<1>8. \A k \in Keys(left.blocks) : k <= at \/ at + pages <= k
  <2>1. /\ \A k \in Keys(left.blocks) : k \in Nat /\ (k <= at + pages \/ k = SpaceEnd(count))
        /\ SpaceEnd(count) \in Keys(left.blocks)
    BY <1>1 DEF FreeFrom
  <2>2. \A k \in Keys(m.blocks) : k <= at \/ at + pages <= k
    BY <1>2, <1>5 DEF Rearranged
  <2>3. Keys(left.blocks) = Keys(m.blocks) \cup {donor, at}
    BY <1>5, <1>6 DEF Rearranged
  <2>4. donor \in Keys(m.blocks) \/ donor = at + pages
    BY <1>2, <1>5 DEF Rearranged
  <2>5. QED BY <2>1, <2>2, <2>3, <2>4
<1>9. at + pages <= SpaceEnd(count) /\ at + pages \in Nat
  <2>1. /\ StackBegin(count) \in Nat /\ count < StackBegin(count)
        /\ StackBegin(count) < TlsIoBegin(count) /\ TlsIoBegin(count) < SpaceEnd(count)
        /\ TlsIoBegin(count) \in Nat /\ SpaceEnd(count) \in Nat
    BY SegmentsOf
  <2>2. QED BY <2>1
<1>10. Span(at, pages) \subseteq Backed(left) /\ Span(at, pages) \subseteq left.writable
  <2>1. Span(at, pages) \subseteq Backed(left)
    BY <1>6, <1>9, MappedPages
  <2>2. QED BY <1>6, <2>1 DEF MapsAt
<1>11. left.mapping # m.mapping
  <2>1. at \in Span(at, pages)
    BY DEF Span
  <2>2. at \in Backed(left) /\ at \notin Backed(m)
    BY <1>3, <1>6, <1>10, <2>1, NotAgain DEF HostInv, MapsAt
  <2>3. QED BY <2>2 DEF Backed
<1>12. Typed("Code", at, pages).end = at + pages /\ Typed("Code", at, pages).first = at
       /\ Typed("Code", at, pages).type = "Code"
  BY DEF Typed
<1>13. \A i \in 1 .. Len(m.tables) : m.tables[i].end \in Int /\ m.tables[i].end <= at
  <2>1. ASSUME NEW i \in 1 .. Len(m.tables) PROVE m.tables[i].end \in Int
    <3>1. m.tables[i] \in TableRecords
      OBVIOUS
    <3>2. QED BY <3>1 DEF TableRecords
  <2>2. QED BY <2>1 DEF EntriesEnd
<1>14. EntriesEnd(left, at + pages)
  <2>1. ASSUME NEW i \in 1 .. Len(left.tables) PROVE left.tables[i].end <= at + pages
    <3>1. CASE left.tables[i] = Typed("Code", at, pages)
      BY <1>9, <1>12, <3>1
    <3>2. CASE i \in 1 .. Len(m.tables) /\ left.tables[i] = m.tables[i]
      BY <1>9, <1>13, <3>2
    <3>3. QED BY <1>4, <3>1, <3>2
  <2>2. QED BY <2>1 DEF EntriesEnd
<1>15. ASSUME NEW p \in Span(at, pages) PROVE CodeAt(left, p)
  <2>1. p \in Int /\ at <= p /\ p < at + pages
    BY DEF Span
  <2>2. PICK i \in 1 .. Len(left.tables) : left.tables[i] = Typed("Code", at, pages)
    BY <1>4, <1>11
  <2>3. Covers(left.tables[i], p)
    BY <1>12, <2>1, <2>2 DEF Covers
  <2>4. ASSUME NEW j \in 1 .. Len(left.tables), Covers(left.tables[j], p) PROVE left.tables[j].type = "Code"
    <3>1. CASE left.tables[j] = Typed("Code", at, pages)
      BY <1>12, <3>1
    <3>2. CASE j \in 1 .. Len(m.tables) /\ left.tables[j] = m.tables[j]
      <4>1. m.tables[j].end \in Int /\ m.tables[j].end <= at /\ p < m.tables[j].end
        BY <1>13, <2>4, <3>2 DEF Covers
      <4>2. QED BY <2>1, <4>1
    <3>3. QED BY <1>4, <3>1, <3>2
  <2>5. QED BY <2>3, <2>4 DEF CodeAt
<1>16. QED BY <1>1, <1>7, <1>8, <1>10, <1>14, <1>15 DEF left, new

\* With its permission the block is the section.
LEMMA FreshHolds ==
    ASSUME NEW count \in Nat, NEW m, Proper(m), NEW at \in Nat, NEW pages \in Nat \ {0}, NEW next, next = at + pages,
           FreeFrom(count, m, next), at \in Keys(m.blocks), m.blocks[at] = Block(pages, "Code"),
           \A k \in Keys(m.blocks) : k <= at \/ next <= k,
           \A p \in Span(at, pages) : p \in Backed(m) /\ p \in m.writable /\ CodeAt(m, p),
           NEW perm \in {Text, Ro, Data}, SetMemoryPermission(m, at, pages, perm).outcome = "ok"
    PROVE  /\ Holds(SetMemoryPermission(m, at, pages, perm), at, next, perm)
           /\ FreeFrom(count, SetMemoryPermission(m, at, pages, perm), next)
<1> DEFINE left == SetMemoryPermission(m, at, pages, perm)
<1>1. next \in Nat /\ at < next /\ at \in Int
  OBVIOUS
<1>2. FreeFrom(count, left, next) /\ m.outcome = "ok"
  BY <1>1, PermissionShape
<1>3. FindBlock(m.blocks, at) = at
  BY DEF FindBlock
<1>4. /\ Block(pages, "Code").pages = pages /\ Block(pages, "Code").state = "Code"
      /\ Block(pages, "Code").perm # perm /\ DOMAIN Block(pages, "Code") = BlockFields
  BY DEF Block, BlockFields, NoPermission, Text, Ro, Data
<1>5. left = Reprotect(m, at, pages, perm)
  <2>1. ~FewerThan(m.blocks[at].pages, pages)
    BY <1>4 DEF FewerThan
  <2>2. m.blocks[at].state = "Code" /\ m.blocks[at].perm # perm
    BY <1>4
  <2>3. QED BY <1>2, <1>3, <2>1, <2>2 DEF SetMemoryPermission
<1>6. /\ left.blocks = [m.blocks EXCEPT ![at].perm = perm]
      /\ left.writable = IF perm = Data THEN m.writable \cup Span(at, pages) ELSE m.writable \ Span(at, pages)
      /\ left.mapping = m.mapping /\ left.tables = m.tables
  BY <1>3, <1>5 DEF Reprotect, Proper, Fields
<1> HIDE DEF left
<1>7. Keys(left.blocks) = Keys(m.blocks) /\ left.blocks[at].perm = perm
  BY <1>4, <1>6 DEF Keys, BlockFields
<1>8. next \in Keys(m.blocks)
  BY DEF FreeFrom
<1>9. ASSUME NEW p \in at .. next - 1 PROVE Shielded(left, p, perm)
  <2>1. p \in Span(at, pages)
    BY <1>1 DEF Span
  <2>2. p \in Backed(left) /\ CodeAt(left, p)
    BY <1>6, <2>1 DEF Backed, CodeAt
  <2>3. p \in left.writable <=> perm = Data
    BY <1>6, <2>1
  <2>4. QED BY <2>2, <2>3 DEF Shielded
<1>10. Holds(left, at, next, perm)
  BY <1>1, <1>7, <1>8, <1>9 DEF Holds
<1>11. QED BY <1>2, <1>10 DEF left

-----------------------------------------------------------------------------
(* The sections that are mapped keep their place.                            *)

SectionsHold(m, n) ==
    \A i \in 1 .. n :
        InOrder(procimage[i]) => Holds(m, procimage[i].offset, Following(i), procimage[i].kind)

\* As long as every module so far had .bss, SetProcessMemory is in step and the free
\* block begins at the section it is at.
ReadyInv ==
    phase = "map" /\ index <= Len(procimage) /\ InOrder(Current)
    => InStep /\ FreeFrom(offset, mem, Current.offset)

BehindInv == phase = "map" => \A i \in 1 .. index - 1 : Following(i) <= Reached

PlacedInv ==
    /\ Laid => modules # <<>>
    /\ phase \in {"start", "run"} => index > 1
    /\ BehindInv
    /\ Laid /\ Live =>
          /\ WellFormed(mem, SpaceEnd(offset)) /\ SectionsHold(mem, index - 1)
          /\ phase = "map" => EntriesEnd(mem, Reached)
          /\ ReadyInv

LEMMA SectionOf ==
    ASSUME LayoutInv, NEW i \in 1 .. Len(procimage)
    PROVE  /\ procimage[i] \in SectionRecords /\ SectionInv(i) /\ procimage[i].offset \in Nat
           /\ procimage[i].module \in 1 .. Len(modules)
           /\ 3 * procimage[i].module - 2 <= i /\ i <= 3 * procimage[i].module
           /\ Following(i) \in Nat /\ Following(i) <= offset /\ offset \in Nat
           /\ procimage[i].offset + Pages(Units(procimage[i])) = Following(i)
<1>1. procimage \in Seq(SectionRecords) /\ SectionInv(i) /\ offset \in Nat /\ modules \in Seq(Modules)
  BY DEF LayoutInv
<1>2. procimage[i] \in SectionRecords
  BY <1>1
<1>3. Following(i) \in Nat
  <2>1. CASE i = Len(procimage)
    BY <1>1, <2>1 DEF Following
  <2>2. CASE i # Len(procimage)
    <3>1. i + 1 \in 1 .. Len(procimage)
      BY <1>1, <2>2
    <3>2. procimage[i + 1] \in SectionRecords
      BY <1>1, <3>1
    <3>3. QED BY <2>2, <3>2 DEF Following, SectionRecords
  <2>3. QED BY <2>1, <2>2
<1>4. /\ procimage[i].module \in 1 .. Len(modules)
      /\ 3 * procimage[i].module - 2 <= i /\ i <= 3 * procimage[i].module
      /\ Following(i) <= offset /\ procimage[i].offset + Pages(Units(procimage[i])) = Following(i)
  <2>1. procimage[i].module \in 1 .. Len(modules)
        /\ i \in 3 * procimage[i].module - 2 .. 3 * procimage[i].module
    BY <1>1 DEF SectionInv
  <2>2. QED BY <1>1, <2>1 DEF SectionInv
<1>5. procimage[i].offset \in Nat
  BY <1>2 DEF SectionRecords
<1>6. QED BY <1>1, <1>2, <1>3, <1>4, <1>5

LEMMA UnitsOf ==
    ASSUME LayoutInv, NEW i \in 1 .. Len(procimage)
    PROVE  Pages(Units(procimage[i])) \in Nat
<1>1. procimage[i] \in SectionRecords /\ procimage[i].module \in 1 .. Len(modules)
  BY SectionOf
<1>2. modules[procimage[i].module] \in Modules
  BY <1>1 DEF LayoutInv
<1>3. Units(procimage[i]) \in Nat \ {0}
  BY <1>1, <1>2, ModuleOf DEF Units, SectionRecords
<1>4. QED BY <1>3, PagesOf

LEMMA FirstInOrder ==
    ASSUME LayoutInv, modules # <<>>
    PROVE  1 \in 1 .. Len(procimage) /\ procimage[1].module = 1 /\ InOrder(procimage[1])
<1>1. Len(modules) \in Nat /\ Len(modules) > 0 /\ Len(procimage) = 3 * Len(modules)
  BY DEF LayoutInv
<1>2. 1 \in 1 .. Len(procimage)
  BY <1>1
<1>3. procimage[1].module = 1
  <2>1. procimage[1].module \in 1 .. Len(modules) /\ 3 * procimage[1].module - 2 <= 1
    BY <1>2, SectionOf
  <2>2. QED BY <1>1, <2>1
<1>4. QED BY <1>2, <1>3 DEF InOrder

\* The next section is in order if this one is, and if a .data section that ends a
\* module has .bss.
LEMMA NextInOrder ==
    ASSUME LayoutInv, NEW i \in 1 .. Len(procimage), i + 1 \in 1 .. Len(procimage), InOrder(procimage[i + 1])
    PROVE  /\ InOrder(procimage[i])
           /\ i = 3 * procimage[i].module => modules[procimage[i].module].bss > 0
<1> DEFINE k == procimage[i].module
           l == procimage[i + 1].module
<1>1. k \in 1 .. Len(modules) /\ 3 * k - 2 <= i /\ i <= 3 * k
  BY SectionOf
<1>2. l \in 1 .. Len(modules) /\ 3 * l - 2 <= i + 1 /\ i + 1 <= 3 * l
  BY SectionOf
<1>3. Len(modules) \in Nat /\ i \in Int
  BY DEF LayoutInv
<1>4. \A n \in 1 .. l - 1 : modules[n].bss > 0
  BY DEF InOrder
<1> HIDE DEF k, l
<1>5. k <= l /\ (i = 3 * k => k \in 1 .. l - 1)
  BY <1>1, <1>2, <1>3
<1>6. \A n \in 1 .. k - 1 : n \in 1 .. l - 1
  BY <1>1, <1>2, <1>3, <1>5
<1>7. QED BY <1>4, <1>5, <1>6 DEF InOrder, k

\* The end of a section that is mapped has a block, and one before it.
Bordered(b, edge) == edge \in Keys(b) /\ \E low \in Keys(b) : low < edge

LEMMA HeldBorder ==
    ASSUME NEW m, NEW first, NEW next, NEW perm, Holds(m, first, next, perm)
    PROVE  Bordered(m.blocks, next) /\ Anchor(m.blocks, next)
BY DEF Holds, Anchor, Bordered

\* There is always a block that no call works before.
LEMMA SomeAnchor ==
    ASSUME IInv, PlacedInv, Laid, Live
    PROVE  \E edge \in Nat : /\ Anchor(mem.blocks, edge) /\ edge <= offset
                             /\ phase = "map" /\ index <= Len(procimage) => edge <= Current.offset
<1>1. LayoutInv /\ modules # <<>> /\ index \in 1 .. Len(procimage) + 1 /\ phase \in {"layout", "map", "start", "run"}
  BY DEF IInv, PlacedInv, PlaceInv
<1>2. 1 \in 1 .. Len(procimage) /\ procimage[1].module = 1 /\ InOrder(procimage[1])
  BY <1>1, FirstInOrder
<1>3. CASE index = 1
  <2>1. phase = "map" /\ index <= Len(procimage) /\ InOrder(Current)
    <3>1. phase = "map"
      BY <1>1, <1>3 DEF PlacedInv, Laid
    <3>2. QED BY <1>2, <1>3, <3>1 DEF Current
  <2>2. FreeFrom(offset, mem, Current.offset)
    BY <2>1 DEF PlacedInv, ReadyInv
  <2>3. Anchor(mem.blocks, Current.offset)
    BY <2>2 DEF FreeFrom, Anchor
  <2>4. Current.offset \in Nat /\ Current.offset <= offset
    <3>1. Current = procimage[1] /\ Pages(Units(procimage[1])) \in Nat
      BY <1>1, <1>2, <1>3, UnitsOf DEF Current
    <3>2. /\ procimage[1].offset \in Nat /\ Following(1) \in Nat /\ Following(1) <= offset /\ offset \in Nat
          /\ procimage[1].offset + Pages(Units(procimage[1])) = Following(1)
      BY <1>1, <1>2, SectionOf
    <3>3. QED BY <3>1, <3>2
  <2>5. Current.offset <= Current.offset
    BY <2>4
  <2>6. QED BY <2>3, <2>4, <2>5
<1>4. CASE index # 1
  <2>1. 1 \in 1 .. index - 1
    BY <1>1, <1>4
  <2>2. Holds(mem, procimage[1].offset, Following(1), procimage[1].kind)
    BY <1>2, <2>1 DEF PlacedInv, SectionsHold
  <2>3. Anchor(mem.blocks, Following(1)) /\ Following(1) \in Nat /\ Following(1) <= offset
    BY <1>1, <1>2, <2>2, HeldBorder, SectionOf
  <2>4. phase = "map" /\ index <= Len(procimage) => Following(1) <= Current.offset
    <3>1. index <= Len(procimage) => Reached = Current.offset
      BY <1>1 DEF Reached, PastSections
    <3>2. QED BY <2>1, <3>1 DEF PlacedInv, BehindInv
  <2>5. QED BY <2>3, <2>4
<1>5. QED BY <1>3, <1>4

LEMMA BackedKept ==
    ASSUME IInv, IInv', Kept, Laid, Laid', offset' = offset
    PROVE  Backed(mem) \subseteq Backed(mem')
<1>1. HostInv(mem, SpaceEnd(offset)) /\ HostInv(mem', SpaceEnd(offset))
  BY DEF IInv, MemInv
<1>2. DOMAIN mem'.mapping = DOMAIN mem.mapping
  BY <1>1 DEF HostInv
<1>3. QED BY <1>2 DEF Kept, Backed

\* What stays below the edge of each section keeps them all in place.
LEMMA HoldsKept ==
    ASSUME IInv, PlacedInv, Laid, Live, Backed(mem) \subseteq Backed(mem'), WellFormed(mem', SpaceEnd(offset)),
           \A i \in 1 .. index - 1 :
               Bordered(mem.blocks, Following(i)) => Stays(mem, mem', Following(i))
    PROVE  SectionsHold(mem', index - 1)
<1> SUFFICES ASSUME NEW i \in 1 .. index - 1, InOrder(procimage[i])
             PROVE  Holds(mem', procimage[i].offset, Following(i), procimage[i].kind)
  BY DEF SectionsHold
<1>1. Holds(mem, procimage[i].offset, Following(i), procimage[i].kind)
  BY DEF PlacedInv, SectionsHold
<1>2. Stays(mem, mem', Following(i))
  BY <1>1, HeldBorder
<1>3. procimage[i].offset \in Nat /\ Following(i) \in Nat
  <2>1. i \in 1 .. Len(procimage) /\ LayoutInv
    <3>1. index \in 1 .. Len(procimage) + 1 /\ LayoutInv /\ Len(procimage) \in Nat
      BY DEF IInv, PlaceInv, LayoutInv
    <3>2. QED BY <3>1
  <2>2. QED BY <2>1, SectionOf
<1>4. WellFormed(mem, SpaceEnd(offset))
  BY DEF PlacedInv
<1>5. QED BY <1>1, <1>2, <1>3, <1>4, HoldsStays

\* The calls of SetProcessMemory for a section, when none of them fails.
LEMMA LiveSection ==
    ASSUME IInv, SetSection, Live'
    PROVE  LET at == Current.offset
               pages == Pages(SectionSize)
               set == SetMemoryPermission(MapSection, at, pages, PermissionOf(bintype))
           IN  /\ phase = "map" /\ index <= Len(procimage) /\ Live /\ index' = index + 1
               /\ UNCHANGED <<debug, phase, modules, procimage, offset>>
               /\ set.outcome = "ok" /\ MapSection.outcome = "ok" /\ MapSection = MapCodeMemory(mem, at, pages)
               /\ set.tables = MapSection.tables /\ set.mapping = MapSection.mapping
               /\ mem'.tables = set.tables /\ mem'.mapping = set.mapping /\ mem'.blocks = set.blocks
               /\ mem'.writable = set.writable
               /\ HostInv(mem, SpaceEnd(offset)) /\ Proper(MapSection)
<1> DEFINE at == Current.offset
           pages == Pages(SectionSize)
           mapped == MapSection
           set == SetMemoryPermission(mapped, at, pages, PermissionOf(bintype))
<1>1. /\ phase = "map" /\ index <= Len(procimage) /\ Live /\ (mem' = set \/ mem' = FillBss(set))
      /\ index' = index + 1 /\ UNCHANGED <<debug, phase, modules, procimage, offset>>
  BY DEF SetSection
<1>2. Proper(mapped) /\ HostInv(mem, SpaceEnd(offset))
  BY <1>1, MapSectionOf DEF Maps, IInv, MemInv, Laid
<1>3. mapped \in {Fail(mem, "aborted"), MapCodeMemory(mem, at, pages)}
  BY DEF MapSection
<1>4. Fail(mem, "aborted").outcome = "aborted"
  BY <1>2, FailOf DEF HostInv, Outcomes
<1> HIDE DEF mapped
<1>5. /\ Proper(set) /\ (set.outcome = "ok" => mapped.outcome = "ok")
      /\ set.tables = mapped.tables /\ set.mapping = mapped.mapping
  <2>1. set.outcome = "ok" => mapped.outcome = "ok"
    BY DEF SetMemoryPermission
  <2>2. QED BY <1>2, <2>1, SetMemoryPermissionOf
<1> HIDE DEF set
<1>6. /\ mem'.tables = set.tables /\ mem'.mapping = set.mapping /\ mem'.blocks = set.blocks
      /\ mem'.writable = set.writable /\ (mem'.outcome = "ok" => set.outcome = "ok")
  <2>1. CASE mem' = FillBss(set)
    <3>1. PICK first, last : mem' = FillMemory(set, first, last)
      BY <2>1 DEF FillBss
    <3>2. QED BY <1>5, <3>1, FillMemoryOf DEF Untouched
  <2>2. QED BY <1>1, <2>1
<1>7. set.outcome = "ok" /\ mapped.outcome = "ok"
  BY <1>5, <1>6 DEF Live
<1>8. mapped = MapCodeMemory(mem, at, pages)
  BY <1>3, <1>4, <1>7
<1>9. QED BY <1>1, <1>2, <1>5, <1>6, <1>7, <1>8 DEF set, mapped

\* The section at hand, in order, is held with the permission of its kind.
LEMMA FreshSection ==
    ASSUME IInv, PlacedInv, SetSection, Live', InOrder(Current)
    PROVE  /\ InStep /\ Holds(mem', Current.offset, Following(index), Current.kind)
           /\ FreeFrom(offset, mem', Following(index))
<1> DEFINE at == Current.offset
           pages == Pages(SectionSize)
           next == Following(index)
           perm == PermissionOf(bintype)
           mapped == MapSection
           set == SetMemoryPermission(mapped, at, pages, perm)
<1>1. /\ phase = "map" /\ index <= Len(procimage) /\ Live
      /\ set.outcome = "ok" /\ mapped.outcome = "ok" /\ mapped = MapCodeMemory(mem, at, pages)
      /\ set.tables = mapped.tables /\ set.mapping = mapped.mapping
      /\ mem'.tables = set.tables /\ mem'.mapping = set.mapping /\ mem'.blocks = set.blocks
      /\ mem'.writable = set.writable
      /\ HostInv(mem, SpaceEnd(offset)) /\ Proper(mapped)
  BY LiveSection
<1>2. InStep /\ FreeFrom(offset, mem, at) /\ mem.tables \in Seq(TableRecords) /\ EntriesEnd(mem, at)
  <2>1. Reached = at
    BY <1>1, MapSectionOf
  <2>2. QED BY <1>1, <2>1 DEF PlacedInv, ReadyInv, Laid, WellFormed
<1>3. /\ at \in Nat /\ pages \in Nat \ {0} /\ next \in Nat /\ next <= offset /\ offset \in Nat
      /\ at + pages = next /\ perm = Current.kind /\ perm \in {Text, Ro, Data}
  <2>1. /\ index \in 1 .. Len(procimage) /\ Current \in SectionRecords /\ SectionInv(index)
        /\ pages \in Nat \ {0} /\ SectionSize = Units(Current)
    BY <1>1, <1>2, SectionFits DEF IInv
  <2>2. /\ at \in Nat /\ next \in Nat /\ next <= offset /\ offset \in Nat
        /\ at + Pages(Units(Current)) = next
    BY <2>1, SectionOf DEF IInv, Current
  <2>3. perm = Current.kind
    <3>1. bintype = index - 3 * Current.module + 2
      BY <1>2 DEF InStep
    <3>2. Current.kind = PermissionOf(index - 3 * Current.module + 2)
      BY <2>1 DEF SectionInv, Current
    <3>3. QED BY <3>1, <3>2
  <2>4. perm \in {Text, Ro, Data}
    BY DEF PermissionOf
  <2>5. QED BY <2>1, <2>2, <2>3, <2>4
<1> HIDE DEF at, pages, next, perm, mapped
<1>4. /\ FreeFrom(offset, mapped, at + pages)
      /\ at \in Keys(mapped.blocks) /\ mapped.blocks[at] = Block(pages, "Code")
      /\ \A k \in Keys(mapped.blocks) : k <= at \/ at + pages <= k
      /\ \A p \in Span(at, pages) : p \in Backed(mapped) /\ p \in mapped.writable /\ CodeAt(mapped, p)
  <2>1. at + pages <= offset
    BY <1>3
  <2>2. MapCodeMemory(mem, at, pages).outcome = "ok" /\ HostInv(mem, SpaceEnd(offset))
    BY <1>1
  <2>3. FreeFrom(offset, mem, at) /\ mem.tables \in Seq(TableRecords) /\ EntriesEnd(mem, at)
    BY <1>2
  <2>4. at \in Nat /\ pages \in Nat \ {0} /\ offset \in Nat
    BY <1>3
  <2> DEFINE left == MapCodeMemory(mem, at, pages)
  <2>5. /\ FreeFrom(offset, left, at + pages)
        /\ at \in Keys(left.blocks) /\ left.blocks[at] = Block(pages, "Code")
        /\ \A k \in Keys(left.blocks) : k <= at \/ at + pages <= k
        /\ \A p \in Span(at, pages) : p \in Backed(left) /\ p \in left.writable /\ CodeAt(left, p)
    BY <2>1, <2>2, <2>3, <2>4, FreshCode
  <2>6. mapped = left
    BY <1>1
  <2> HIDE DEF left
  <2>7. QED BY <2>5, <2>6
<1>5. Holds(set, at, next, perm) /\ FreeFrom(offset, set, next)
  <2>1. \A k \in Keys(mapped.blocks) : k <= at \/ next <= k
    BY <1>3, <1>4
  <2>2. FreeFrom(offset, mapped, next)
    BY <1>3, <1>4
  <2>3. /\ Proper(mapped) /\ at \in Nat /\ pages \in Nat \ {0} /\ next = at + pages /\ perm \in {Text, Ro, Data}
        /\ at \in Keys(mapped.blocks) /\ mapped.blocks[at] = Block(pages, "Code") /\ offset \in Nat
    BY <1>1, <1>3, <1>4
  <2>4. \A p \in Span(at, pages) : p \in Backed(mapped) /\ p \in mapped.writable /\ CodeAt(mapped, p)
    BY <1>4
  <2>5. SetMemoryPermission(mapped, at, pages, perm).outcome = "ok"
    BY <1>1
  <2>6. Holds(set, at, next, perm)
    BY <2>1, <2>2, <2>3, <2>4, <2>5, FreshHolds
  <2>7. FreeFrom(offset, set, next)
    BY <2>1, <2>2, <2>3, <2>4, <2>5, FreshHolds
  <2>8. QED BY <2>6, <2>7
<1> HIDE DEF set
<1>6. Holds(mem', at, next, perm) /\ FreeFrom(offset, mem', next)
  BY <1>1, <1>5 DEF Holds, Shielded, CodeAt, Backed, FreeFrom
<1>7. QED BY <1>2, <1>3, <1>6 DEF at, next

\* Entries of the table end where the section does, in order or not.
LEMMA SectionEntries ==
    ASSUME IInv, PlacedInv, SetSection, Live'
    PROVE  EntriesEnd(mem', Following(index))
<1> DEFINE at == Current.offset
           pages == Pages(SectionSize)
           next == Following(index)
           set == SetMemoryPermission(MapSection, at, pages, PermissionOf(bintype))
<1>1. /\ phase = "map" /\ index <= Len(procimage) /\ Live /\ MapSection = MapCodeMemory(mem, at, pages)
      /\ mem'.tables = MapSection.tables /\ HostInv(mem, SpaceEnd(offset))
  BY LiveSection
<1>2. /\ at \in Nat /\ pages \in Nat \ {0} /\ at + pages <= next /\ next \in Nat /\ Reached = at
  BY <1>1, MapSectionOf
<1>3. mem.tables \in Seq(TableRecords) /\ EntriesEnd(mem, at)
  BY <1>1, <1>2 DEF PlacedInv, Laid, WellFormed
<1> HIDE DEF at, pages, next
<1>4. \A i \in 1 .. Len(mem'.tables) :
          \/ mem'.tables[i] = Typed("Code", at, pages)
          \/ i \in 1 .. Len(mem.tables) /\ mem'.tables[i] = mem.tables[i]
  <2>1. at \in Int
    BY <1>2
  <2>2. MapCodeMemory(mem, at, pages) = DelimitTable(MapSegment(mem, at, pages, "Code"), "Code", at, pages)
    BY <1>1, <1>2, <2>1, MapCodeMemoryOf
  <2> DEFINE left == DelimitTable(MapSegment(mem, at, pages, "Code"), "Code", at, pages)
  <2>3. \A i \in 1 .. Len(left.tables) :
            \/ left.tables[i] = Typed("Code", at, pages)
            \/ i \in 1 .. Len(mem.tables) /\ left.tables[i] = mem.tables[i]
    BY <1>1, <1>2, <1>3, SegmentEntry
  <2>4. mem'.tables = left.tables
    BY <1>1, <2>2
  <2> HIDE DEF left
  <2>5. QED BY <2>3, <2>4
<1>5. Typed("Code", at, pages).end = at + pages
  BY DEF Typed
<1>6. ASSUME NEW i \in 1 .. Len(mem'.tables) PROVE mem'.tables[i].end <= next
  <2>1. CASE mem'.tables[i] = Typed("Code", at, pages)
    BY <1>2, <1>5, <2>1
  <2>2. CASE i \in 1 .. Len(mem.tables) /\ mem'.tables[i] = mem.tables[i]
    <3>1. mem.tables[i] \in TableRecords
      BY <1>3, <2>2
    <3>2. mem.tables[i].end \in Int
      BY <3>1 DEF TableRecords
    <3>3. mem.tables[i].end <= at
      BY <1>3, <2>2 DEF EntriesEnd
    <3>4. QED BY <1>2, <2>2, <3>2, <3>3
  <2>3. QED BY <1>4, <2>1, <2>2
<1>7. QED BY <1>6 DEF EntriesEnd, next

\* With the section the place moves on, and while every module has .bss in step.
LEMMA SectionPlace ==
    ASSUME IInv, PlacedInv, SetSection
    PROVE  Reached' = Following(index) /\ Reached <= Following(index) /\ Reached \in Nat /\ BehindInv'
<1>1. /\ phase = "map" /\ index <= Len(procimage) /\ Live /\ index' = index + 1
      /\ UNCHANGED <<debug, phase, modules, procimage, offset>>
  BY DEF SetSection
<1>2. index \in Nat /\ Len(procimage) \in Nat /\ 1 <= index /\ LayoutInv
  BY DEF IInv, LayoutInv, PlaceInv
<1>3. Reached' = Following(index)
  BY <1>1, <1>2 DEF Reached, PastSections, Following, Current
<1>4. Reached = Current.offset /\ Reached \in Nat /\ Reached <= Following(index)
  <2>1. /\ Current.offset \in Nat /\ Pages(SectionSize) \in Nat \ {0} /\ Reached = Current.offset
        /\ Current.offset + Pages(SectionSize) <= Following(index) /\ Following(index) \in Nat
    BY <1>1, MapSectionOf
  <2>2. QED BY <2>1
<1>5. ASSUME NEW i \in 1 .. index PROVE Following(i)' <= Reached'
  <2>1. i \in 1 .. Len(procimage)
    BY <1>1, <1>2
  <2>2. Following(i) \in Nat /\ Following(index) \in Nat
    <3>1. index \in 1 .. Len(procimage)
      BY <1>1, <1>2
    <3>2. QED BY <1>2, <2>1, <3>1, SectionOf
  <2>3. Following(i)' = Following(i)
    BY <1>1 DEF Following
  <2>4. CASE i = index
    BY <1>3, <2>2, <2>3, <2>4
  <2>5. CASE i # index
    <3>1. i \in 1 .. index - 1
      BY <1>2, <2>5
    <3>2. Following(i) <= Reached
      BY <1>1, <3>1 DEF PlacedInv, BehindInv
    <3>3. QED BY <1>3, <1>4, <2>2, <2>3, <3>2
  <2>6. QED BY <2>4, <2>5
<1>6. index' - 1 = index
  BY <1>1, <1>2
<1>7. BehindInv'
  BY <1>5, <1>6 DEF BehindInv
<1>8. QED BY <1>3, <1>4, <1>7

LEMMA SetSectionReady ==
    ASSUME IInv, PlacedInv, SetSection, Live'
    PROVE  ReadyInv'
<1> SUFFICES ASSUME index' <= Len(procimage'), InOrder(Current)'
             PROVE  InStep' /\ FreeFrom(offset, mem, Current.offset)'
  BY DEF ReadyInv
<1>1. /\ phase = "map" /\ index <= Len(procimage) /\ index' = index + 1
      /\ UNCHANGED <<debug, phase, modules, procimage, offset>>
  BY DEF SetSection
<1>2. LayoutInv /\ index \in Nat /\ 1 <= index /\ Len(procimage) \in Nat
  BY DEF IInv, LayoutInv, PlaceInv
<1>3. index \in 1 .. Len(procimage) /\ index + 1 \in 1 .. Len(procimage)
  BY <1>1, <1>2
<1>4. InOrder(procimage[index + 1]) /\ Current' = procimage[index + 1]
  <2>1. Current' = procimage[index + 1]
    BY <1>1 DEF Current
  <2>2. QED BY <1>1, <2>1 DEF InOrder
<1>5. /\ InOrder(Current)
      /\ index = 3 * Current.module => modules[Current.module].bss > 0
  BY <1>2, <1>3, <1>4, NextInOrder DEF Current
<1>6. InStep /\ FreeFrom(offset, mem', Following(index))
  BY <1>5, FreshSection
<1>7. InStep'
  <2>1. BssSize # 0 \/ bintype # 2
    <3>1. SUFFICES ASSUME bintype = 2 PROVE BssSize # 0
      OBVIOUS
    <3>2. BssSize = modules[Current.module].bss
      BY <1>1, <1>6, <3>1, SectionFits DEF IInv
    <3>3. Current.module \in Nat
      <4>1. Current.module \in 1 .. Len(modules)
        BY <1>2, <1>3, SectionOf DEF Current
      <4>2. QED BY <4>1
    <3>4. index = 3 * Current.module
      <4> DEFINE k == Current.module
      <4>1. 2 = index - 3 * k + 2 /\ k \in Nat
        BY <1>6, <3>1, <3>3 DEF InStep
      <4> HIDE DEF k
      <4>2. index = 3 * k
        BY <1>2, <4>1
      <4>3. QED BY <4>2 DEF k
    <3>5. QED BY <1>5, <3>2, <3>4
  <2>2. QED BY <1>6, <2>1, SetSectionLayout DEF IInv
<1>8. Current'.offset = Following(index)
  BY <1>2, <1>3, <1>4 DEF Following
<1>9. QED BY <1>1, <1>6, <1>7, <1>8

LEMMA SetSectionPlaced == ASSUME IInv, PlacedInv, SetSection PROVE PlacedInv'
<1>1. /\ phase = "map" /\ index <= Len(procimage) /\ Live /\ index' = index + 1
      /\ UNCHANGED <<debug, phase, modules, procimage, offset>>
  BY DEF SetSection
<1>2. Reached' = Following(index) /\ Reached <= Following(index) /\ Reached \in Nat /\ BehindInv'
  BY SectionPlace
<1>3. IInv' /\ Kept /\ Laid /\ Laid'
  BY <1>1, SetSectionKept DEF Laid
<1>4. Backed(mem) \subseteq Backed(mem')
  BY <1>1, <1>3, BackedKept
<1>5. ASSUME Live'
      PROVE  /\ WellFormed(mem', SpaceEnd(offset)) /\ SectionsHold(mem', index)
             /\ EntriesEnd(mem', Reached') /\ ReadyInv'
  <2>1. WellFormed(mem, SpaceEnd(offset))
    BY <1>1, <1>3 DEF PlacedInv
  <2>2. WellFormed(mem', SpaceEnd(offset))
    <3>1. PICK edge \in Nat : Anchor(mem.blocks, edge) /\ edge <= Current.offset
      BY <1>1, <1>3, SomeAnchor
    <3>2. QED BY <1>5, <2>1, <3>1, SetSectionStays
  <2>3. ASSUME NEW i \in 1 .. index - 1, Bordered(mem.blocks, Following(i))
        PROVE  Stays(mem, mem', Following(i))
    <3>1. Following(i) <= Current.offset
      <4>1. Reached = Current.offset
        BY <1>1, MapSectionOf
      <4>2. QED BY <1>1, <4>1 DEF PlacedInv, BehindInv
    <3>2. Following(i) \in Nat
      <4>1. i \in 1 .. Len(procimage) /\ LayoutInv
        BY <1>1 DEF IInv, LayoutInv, PlaceInv
      <4>2. QED BY <4>1, SectionOf
    <3>3. Anchor(mem.blocks, Following(i))
      BY <2>3 DEF Anchor, Bordered
    <3>4. QED BY <1>5, <2>1, <3>1, <3>2, <3>3, SetSectionStays
  <2>4. SectionsHold(mem', index - 1)
    BY <1>1, <1>3, <1>4, <2>2, <2>3, HoldsKept
  <2>5. InOrder(procimage[index]) => Holds(mem', procimage[index].offset, Following(index), procimage[index].kind)
    BY <1>5, FreshSection DEF Current
  <2>6. SectionsHold(mem', index)
    <3>1. \A i \in 1 .. index : i = index \/ i \in 1 .. index - 1
      BY DEF IInv, PlaceInv
    <3>2. QED BY <2>4, <2>5, <3>1 DEF SectionsHold
  <2>7. EntriesEnd(mem', Reached')
    BY <1>2, <1>5, SectionEntries
  <2>8. QED BY <1>5, <2>2, <2>6, <2>7, SetSectionReady
<1>6. (Laid => modules # <<>>)' /\ (phase \in {"start", "run"} => index > 1)'
  BY <1>1, <1>3 DEF PlacedInv
<1>7. SectionsHold(mem', index) => SectionsHold(mem, index - 1)'
  <2>1. index' - 1 = index
    BY <1>1 DEF IInv, PlaceInv
  <2>2. QED BY <1>1, <2>1 DEF SectionsHold, InOrder, Following
<1>8. QED BY <1>1, <1>2, <1>5, <1>6, <1>7 DEF PlacedInv

\* Steps that are done with the sections: their calls work behind all of them.
LEMMA RestPlaced ==
    ASSUME IInv, PlacedInv, IInv', Kept, Laid, Live, phase' \in {"start", "run"},
           UNCHANGED <<index, modules, procimage, offset>>, index > 1,
           ASSUME NEW edge \in Nat, Live', Bordered(mem.blocks, edge), edge <= offset,
                  phase = "map" => edge <= Reached
           PROVE  WellFormed(mem', SpaceEnd(offset)) /\ Stays(mem, mem', edge)
    PROVE  PlacedInv'
<1>1. Laid' /\ ~(phase' = "map")
  BY DEF Laid
<1>2. Backed(mem) \subseteq Backed(mem')
  BY <1>1, BackedKept
<1>3. (Laid => modules # <<>>)' /\ (phase \in {"start", "run"} => index > 1)'
  BY DEF PlacedInv
<1>4. BehindInv' /\ ReadyInv'
  BY <1>1 DEF BehindInv, ReadyInv
<1>5. ASSUME NEW i \in 1 .. index - 1
      PROVE  /\ Following(i) \in Nat /\ Following(i) <= offset
             /\ phase = "map" => Following(i) <= Reached
  <2>1. i \in 1 .. Len(procimage) /\ LayoutInv
    BY DEF IInv, LayoutInv, PlaceInv
  <2>2. Following(i) \in Nat /\ Following(i) <= offset
    BY <2>1, SectionOf
  <2>3. QED BY <2>2 DEF PlacedInv, BehindInv
<1>6. ASSUME Live'
      PROVE  WellFormed(mem', SpaceEnd(offset)) /\ SectionsHold(mem', index - 1)
  <2>1. ASSUME NEW i \in 1 .. index - 1, Bordered(mem.blocks, Following(i))
        PROVE  WellFormed(mem', SpaceEnd(offset)) /\ Stays(mem, mem', Following(i))
    BY <1>5, <1>6, <2>1
  <2>2. 1 \in 1 .. index - 1
    BY DEF IInv, PlaceInv
  <2>3. Bordered(mem.blocks, Following(1))
    <3>1. InOrder(procimage[1])
      BY FirstInOrder DEF PlacedInv, IInv
    <3>2. Holds(mem, procimage[1].offset, Following(1), procimage[1].kind)
      BY <2>2, <3>1 DEF PlacedInv, SectionsHold
    <3>3. QED BY <3>2, HeldBorder
  <2>4. WellFormed(mem', SpaceEnd(offset))
    BY <2>1, <2>2, <2>3
  <2>5. QED BY <1>2, <2>1, <2>4, HoldsKept
<1>7. SectionsHold(mem', index - 1) => SectionsHold(mem, index - 1)'
  BY DEF SectionsHold, InOrder, Following
<1>8. QED BY <1>1, <1>3, <1>4, <1>6, <1>7 DEF PlacedInv

LEMMA ReturnPlaced == ASSUME IInv, PlacedInv, ReturnAtSilentSection PROVE PlacedInv'
<1>1. /\ phase = "map" /\ index <= Len(procimage) /\ Live /\ phase' = "start" /\ mem' = MapSection
      /\ UNCHANGED <<index, modules, procimage, offset>> /\ PermissionOf(bintype) = Ro
  BY DEF ReturnAtSilentSection, layoutVars
<1>2. IInv' /\ Kept /\ Laid /\ Reached = Current.offset /\ WellFormed(mem, SpaceEnd(offset))
  <2>1. Laid
    BY <1>1 DEF Laid
  <2>2. IInv' /\ Kept
    BY ReturnKept
  <2>3. Reached = Current.offset
    BY <1>1, MapSectionOf
  <2>4. QED BY <1>1, <2>1, <2>2, <2>3 DEF PlacedInv
<1>3. index > 1
  <2>1. SUFFICES ASSUME index = 1 PROVE FALSE
    BY DEF IInv, PlaceInv
  <2>2. procimage[1].module = 1 /\ InOrder(procimage[1])
    BY <1>2, FirstInOrder DEF PlacedInv, IInv
  <2>3. InStep
    BY <1>1, <1>2, <2>1, <2>2 DEF PlacedInv, ReadyInv, Current
  <2>4. bintype = 0
    BY <2>1, <2>2, <2>3 DEF InStep, Current
  <2>5. QED BY <1>1, <2>4 DEF PermissionOf, Text, Ro
<1>4. ASSUME NEW edge \in Nat, Live', Bordered(mem.blocks, edge), phase = "map" => edge <= Reached
      PROVE  WellFormed(mem', SpaceEnd(offset)) /\ Stays(mem, mem', edge)
  <2>1. Anchor(mem.blocks, edge) /\ edge <= Current.offset /\ MapSection.outcome = "ok"
    BY <1>1, <1>2, <1>4 DEF Anchor, Bordered, Live
  <2>2. QED BY <1>1, <1>2, <2>1, MapSectionStays
<1>5. QED BY <1>1, <1>2, <1>3, <1>4, RestPlaced

LEMMA EndOfSectionsPlaced == ASSUME IInv, PlacedInv, EndOfSections PROVE PlacedInv'
<1>1. /\ phase = "map" /\ PastSections /\ Live /\ phase' = "start"
      /\ UNCHANGED <<index, mem, modules, procimage, offset>>
  BY DEF EndOfSections, layoutVars
<1>2. IInv' /\ Kept /\ Laid
  BY <1>1, EndOfSectionsKept DEF Laid
<1>3. index > 1
  <2>1. 1 \in 1 .. Len(procimage) /\ index \in Nat /\ Len(procimage) \in Nat
    BY <1>2, FirstInOrder DEF PlacedInv, IInv, LayoutInv, PlaceInv
  <2>2. QED BY <1>1, <2>1 DEF PastSections
<1>4. WellFormed(mem', SpaceEnd(offset)) /\ \A edge \in Nat : Stays(mem, mem', edge)
  BY <1>1, <1>2, StaysSame DEF PlacedInv
<1>5. QED BY <1>1, <1>2, <1>3, <1>4, RestPlaced

LEMMA ExceptionTlsPlaced == ASSUME IInv, PlacedInv, NEW size, AllocateExceptionTls(size), IInv', Kept PROVE PlacedInv'
<1>1. /\ phase = "start" /\ Live /\ AllocateTls(mem) /\ UNCHANGED <<phase, index, modules, procimage, offset>>
  BY DEF AllocateExceptionTls, layoutVars
<1>2. /\ Laid /\ TlsLists /\ offset \in Nat /\ HostInv(mem, SpaceEnd(offset)) /\ index > 1
      /\ WellFormed(mem, SpaceEnd(offset))
  BY <1>1 DEF Laid, IInv, ThreadInv, LayoutInv, MemInv, PlacedInv
<1>3. ASSUME NEW edge \in Nat, Live', Bordered(mem.blocks, edge), edge <= offset
      PROVE  WellFormed(mem', SpaceEnd(offset)) /\ Stays(mem, mem', edge)
  <2>1. Anchor(mem.blocks, edge)
    BY <1>3 DEF Anchor, Bordered
  <2>2. QED BY <1>1, <1>2, <1>3, <2>1, TlsMemoryStays
<1>4. QED BY <1>1, <1>2, <1>3, RestPlaced

LEMMA ThreadTlsPlaced == ASSUME IInv, PlacedInv, AllocateThreadTls PROVE PlacedInv'
<1>1. /\ phase = "run" /\ Live /\ AllocateTls(mem) /\ UNCHANGED <<phase, index, modules, procimage, offset>>
  BY DEF AllocateThreadTls, layoutVars
<1>2. /\ Laid /\ TlsLists /\ offset \in Nat /\ HostInv(mem, SpaceEnd(offset)) /\ index > 1
      /\ WellFormed(mem, SpaceEnd(offset))
  BY <1>1 DEF Laid, IInv, ThreadInv, LayoutInv, MemInv, PlacedInv
<1>3. ASSUME NEW edge \in Nat, Live', Bordered(mem.blocks, edge), edge <= offset
      PROVE  WellFormed(mem', SpaceEnd(offset)) /\ Stays(mem, mem', edge)
  <2>1. Anchor(mem.blocks, edge)
    BY <1>3 DEF Anchor, Bordered
  <2>2. QED BY <1>1, <1>2, <1>3, <2>1, TlsMemoryStays
<1>4. IInv' /\ Kept
  BY AllocateThreadTlsKept
<1>5. QED BY <1>1, <1>2, <1>3, <1>4, RestPlaced

LEMMA InitializeThreadPlaced == ASSUME IInv, PlacedInv, InitializeThread PROVE PlacedInv'
<1> DEFINE mapped == MapStackMemory(mem, offset, stack)
           at == StackBegin(offset)
           end == SpaceEnd(offset)
<1>1. /\ phase = "start" /\ Live /\ tls # <<>> /\ phase' = "run"
      /\ UNCHANGED <<index, modules, procimage, offset>>
      /\ \/ mapped.outcome = "ok" /\ AllocateTls(mapped)
         \/ mapped.outcome # "ok" /\ mem' = mapped
  BY DEF InitializeThread, layoutVars
<1>2. /\ Laid /\ TlsLists /\ offset \in Nat /\ HostInv(mem, end) /\ index > 1 /\ WellFormed(mem, end)
      /\ stack \in StackSizes
  BY <1>1 DEF Laid, IInv, ThreadInv, LayoutInv, MemInv, PlacedInv
<1>3. \A p \in Backed(mem) : p < offset \/ p >= TlsIoBegin(offset)
  BY <1>1 DEF IInv, MemInv
<1>4. HostInv(mapped, end)
  <2>1. stack \in Nat \ {0} /\ stack <= StackSegmentPages /\ StackSegmentPages \in Nat
    BY <1>2, LoaderAssumption, MemoryAssumption
  <2>2. at \in Int /\ at \in Nat /\ offset < at /\ TlsIoBegin(offset) = at + StackSegmentPages
    BY <1>2, SegmentsOf
  <2>3. Maps(mem, mapped, at, stack)
    BY <1>2, <2>1, <2>2, MapStackMemoryOf
  <2> HIDE DEF mapped, at, end
  <2>4. ASSUME NEW p \in Backed(mem), p \in Span(at, stack) PROVE FALSE
    <3>1. p \in Int /\ at <= p /\ p < at + stack
      BY <2>1, <2>2, <2>4 DEF Span
    <3>2. p < offset \/ p >= TlsIoBegin(offset)
      BY <1>3
    <3>3. QED BY <1>2, <2>1, <2>2, <3>1, <3>2
  <2>5. Backed(mem) \cap Span(at, stack) = {}
    BY <2>4
  <2>6. QED BY <1>2, <2>1, <2>2, <2>3, <2>5, MapsPages
<1>5. ASSUME NEW edge \in Nat, Live', Bordered(mem.blocks, edge), edge <= offset
      PROVE  WellFormed(mem', end) /\ Stays(mem, mem', edge)
  <2>1. mapped.outcome = "ok" /\ AllocateTls(mapped)
    BY <1>1, <1>5 DEF Live
  <2>2. WellFormed(mapped, end) /\ Stays(mem, mapped, edge)
    <3>1. Anchor(mem.blocks, edge)
      BY <1>5 DEF Anchor, Bordered
    <3>2. QED BY <1>2, <1>5, <2>1, <3>1, StackMemoryStays
  <2> HIDE DEF mapped
  <2>3. Anchor(mapped.blocks, edge)
    BY <1>5, <2>2 DEF Anchor, Bordered, Stays, BlocksStay
  <2>4. WellFormed(mem', end) /\ Stays(mapped, mem', edge)
    BY <1>2, <1>4, <1>5, <2>1, <2>2, <2>3, TlsMemoryStays
  <2>5. QED BY <2>2, <2>4, StaysThen
<1>6. IInv' /\ Kept
  BY InitializeThreadKept
<1>7. QED BY <1>1, <1>2, <1>5, <1>6, RestPlaced

LEMMA LoadMemoryPlaced == ASSUME IInv, PlacedInv, LoadMemory PROVE PlacedInv'
<1>1. /\ modules # <<>> /\ phase = "layout" /\ phase' = "map" /\ mem' = InitializeForProcess(offset)
      /\ UNCHANGED <<index, modules, procimage, offset>>
  BY DEF LoadMemory, layoutVars
<1>2. LayoutInv /\ index = 1 /\ offset \in Nat
  BY <1>1 DEF IInv, PlaceInv, LayoutInv
<1>3. InStep' /\ Reached' = 0
  BY LoadMemoryLayout DEF IInv
<1>4. (Laid => modules # <<>>)' /\ (phase \in {"start", "run"} => index > 1)' /\ BehindInv'
  <2>1. 1 .. index' - 1 = {}
    BY <1>1, <1>2
  <2>2. QED BY <1>1, <2>1 DEF BehindInv
<1>5. FreeFrom(offset, mem', 0)
  BY <1>1, <1>2, FreeAtFirst
<1>6. WellFormed(mem', SpaceEnd(offset)) /\ EntriesEnd(mem', 0)
  <2> DEFINE end == SpaceEnd(offset)
  <2>1. end \in Nat
    BY <1>2, SegmentsOf
  <2>2. /\ mem'.blocks = [p \in {0, end} |-> IF p = 0 THEN Block(end, "Free") ELSE Block(0, "Inaccessible")]
        /\ mem'.tables = <<>>
    BY <1>1 DEF InitializeForProcess
  <2>3. Proper(mem')
    BY <1>1, <1>2, SpaceOf DEF HostInv
  <2> HIDE DEF end
  <2>4. Keys(mem'.blocks) = {0, end} /\ \A k \in {0, end} : k <= end
    BY <2>1, <2>2 DEF Keys
  <2>5. \A k \in {0, end} : DOMAIN mem'.blocks[k] = BlockFields
    BY <2>2 DEF Block, BlockFields
  <2>6. Blocked(mem'.blocks, end)
    BY <2>1, <2>4, <2>5 DEF Blocked
  <2>7. <<>> \in Seq(TableRecords) /\ Len(<<>>) = 0
    OBVIOUS
  <2>8. QED BY <2>2, <2>3, <2>6, <2>7 DEF WellFormed, EntriesEnd, end
<1>7. SectionsHold(mem, index - 1)'
  BY <1>1, <1>2 DEF SectionsHold
<1>8. ReadyInv'
  <2>1. Current'.offset = 0
    <3>1. 1 \in 1 .. Len(procimage)
      BY <1>1, <1>2, FirstInOrder
    <3>2. index' <= Len(procimage')
      BY <1>1, <1>2, <3>1
    <3>3. QED BY <1>2, <1>1, <1>3, <3>2 DEF Reached, PastSections
  <2>2. QED BY <1>1, <1>3, <1>5, <2>1 DEF ReadyInv
<1>9. WellFormed(mem, SpaceEnd(offset))' /\ EntriesEnd(mem, Reached)'
  BY <1>1, <1>3, <1>6 DEF EntriesEnd
<1>10. QED BY <1>4, <1>7, <1>8, <1>9 DEF PlacedInv

LEMMA PlacedKept == ASSUME IInv, PlacedInv, Next PROVE PlacedInv'
<1>1. CASE \E m \in Modules : GetCodeSet(m)
  <2>1. phase' = "layout"
    BY <1>1 DEF GetCodeSet
  <2>2. QED BY <2>1 DEF PlacedInv, Laid, BehindInv
<1>2. CASE \E size \in StackSizes : AllocateExceptionTls(size)
  BY <1>2, AllocateExceptionTlsKept, ExceptionTlsPlaced
<1>3. QED BY <1>1, <1>2, LoadMemoryPlaced, SetSectionPlaced, ReturnPlaced, EndOfSectionsPlaced,
              InitializeThreadPlaced, ThreadTlsPlaced DEF Next, Load, StartProcess

\* A held section has all its pages, its permission and protection, and is code to the JIT.
LEMMA PlacedSection ==
    ASSUME IInv, PlacedInv, Laid, Live, NEW i \in 1 .. index - 1, InOrder(procimage[i])
    PROVE  SectionPlaced(procimage[i])
<1> DEFINE first == procimage[i].offset
           next == Following(i)
           perm == procimage[i].kind
<1>1. i \in 1 .. Len(procimage) /\ LayoutInv
  BY DEF IInv, LayoutInv, PlaceInv
<1>2. first \in Nat /\ next \in Nat /\ ModuleSpan(procimage[i]) = first .. next - 1
  <2>1. first \in Nat /\ next \in Nat /\ first + Pages(Units(procimage[i])) = next
    BY <1>1, SectionOf
  <2> DEFINE count == Pages(Units(procimage[i]))
  <2>2. ModuleSpan(procimage[i]) = Span(first, count) /\ count \in Nat
    BY <1>1, UnitsOf DEF ModuleSpan, Units
  <2> HIDE DEF count, first, next
  <2>3. first + count = next
    BY <2>1 DEF count
  <2>4. QED BY <2>1, <2>2, <2>3 DEF Span
<1>3. Holds(mem, first, next, perm)
  BY DEF PlacedInv, SectionsHold
<1>4. WellFormed(mem, SpaceEnd(offset))
  BY DEF PlacedInv
<1> HIDE DEF first, next, perm
<1>5. ASSUME NEW p \in first .. next - 1
      PROVE  /\ p \in Mapped
             /\ BlockOf(p).perm = perm
             /\ p \in mem.writable <=> perm = Data
             /\ TableType(mem, p) = "Code"
  <2>1. Shielded(mem, p, perm)
    BY <1>3 DEF Holds
  <2>2. p \in Mapped /\ (p \in mem.writable <=> perm = Data)
    BY <2>1 DEF Shielded, Mapped, Guest, Backed
  <2>3. FindBlock(mem.blocks, p) = first
    <3>1. \A k \in Keys(mem.blocks) : k \in Nat /\ (k <= first \/ next <= k)
      BY <1>3, <1>4 DEF Holds, WellFormed, Blocked
    <3>2. p \in Nat /\ first <= p /\ p < next
      BY <1>2
    <3>3. first \in Keys(mem.blocks)
      BY <1>3 DEF Holds
    <3>4. CASE p \in Keys(mem.blocks)
      <4>1. p = first
        BY <1>2, <3>1, <3>2, <3>4
      <4>2. QED BY <3>4, <4>1 DEF FindBlock
    <3>5. CASE p \notin Keys(mem.blocks)
      <4>1. first < p /\ \A k \in Keys(mem.blocks) : k < p => k <= first
        BY <1>2, <3>1, <3>2, <3>3, <3>5
      <4>2. Before(mem.blocks, p) = first
        BY <3>1, <3>2, <3>3, <4>1, BeforeIs
      <4>3. QED BY <3>5, <4>2 DEF FindBlock
    <3>6. QED BY <3>4, <3>5
  <2>4. BlockOf(p).perm = perm
    BY <1>3, <2>3 DEF BlockOf, Holds
  <2>5. TableType(mem, p) = "Code"
    <3>1. mem.tables \in Seq(TableRecords)
      BY <1>4 DEF WellFormed
    <3>2. /\ \A j \in 1 .. Len(mem.tables) :
                mem.tables[j].first <= p /\ p < mem.tables[j].end => mem.tables[j].type = "Code"
          /\ \E j \in 1 .. Len(mem.tables) : mem.tables[j].first <= p /\ p < mem.tables[j].end
      BY <2>1 DEF Shielded, CodeAt, Covers
    <3>3. QED BY <3>1, <3>2, TableTypeOf
  <2>6. QED BY <2>2, <2>4, <2>5
<1>6. QED BY <1>2, <1>5 DEF SectionPlaced, perm

\* The sections that are done with hold for as long as the process lives.
LEMMA PlacesHold == Spec => []PlacedInv
<1>1. Init => PlacedInv
  BY DEF Init, PlacedInv, Laid, BehindInv
<1>2. IInv /\ PlacedInv /\ [Next]_vars => PlacedInv'
  <2> SUFFICES ASSUME IInv, PlacedInv, [Next]_vars PROVE PlacedInv'
    OBVIOUS
  <2>1. CASE Next
    BY <2>1, PlacedKept
  <2>2. CASE UNCHANGED vars
    <3>1. UNCHANGED <<phase, index, bintype, mem, modules, procimage, bsslayout, offset>>
      BY <2>2 DEF vars
    <3>2. (BehindInv => BehindInv') /\ (ReadyInv => ReadyInv')
      BY <3>1 DEF BehindInv, ReadyInv, Reached, PastSections, Current, Following, InOrder, InStep
    <3>3. QED BY <3>1, <3>2 DEF PlacedInv, Laid, Live, SectionsHold, InOrder, Following, Reached, PastSections, Current
  <2>3. QED BY <2>1, <2>2
<1>3. QED BY <1>1, <1>2, Invariance, PTL DEF Spec

\* The sections SetProcessMemory is done with, up to the first module without .bss and
\* its sections, have all their pages, the .bss of .data included; each has the
\* permission and the host protection of its kind and is code to the JIT, for as long
\* as the process lives.
THEOREM SectionsInPlace == Spec => []SectionsPlaced
<1>1. IInv /\ PlacedInv => SectionsPlaced
  <2> SUFFICES ASSUME IInv, PlacedInv, Live, NEW i \in 1 .. index - 1, InOrder(procimage[i])
               PROVE  SectionPlaced(procimage[i])
    BY DEF SectionsPlaced, Done
  <2>1. Laid
    BY DEF Laid, IInv, PlaceInv
  <2>2. QED BY <2>1, PlacedSection
<1>2. QED BY <1>1, Invariance, PlacesHold, PTL DEF Spec

-----------------------------------------------------------------------------
(* The pages and the slots that are left, with .bss in every module but the   *)
(* last.                                                                    *)

\* The slots of a page are handed out in order: n slots are those of the full pages
\* and the ones before the first that the free page has left.
Counted(free, full, n) ==
    \/ free = <<>> /\ n = Len(full) * TlsSlotCount
    \/ /\ Len(free) = 1
       /\ \E k \in 0 .. TlsSlotCount - 1 :
             free[1].freeslots = k + 1 .. TlsSlotCount /\ n = Len(full) * TlsSlotCount + k

TlsPages == Len(freetls) + Len(fulltls)

\* DRAM and userslabs have what the image, the stack and the TLS pages left, and the
\* block of the stack has its pages but for those of the TLS pages after the first.
CountInv ==
    /\ Counted(freetls, fulltls, Len(tls)) /\ (tls = <<>> => TlsPages = 0)
    /\ phase = "start" => TlsPages <= 1
    /\ Live => Len(userslabs) + TlsPages >= UserPages
    /\ EachHasBss /\ Live =>
          /\ phase = "map" => Len(mem.objects) + Reached >= HostPages
          /\ phase = "start" => Len(mem.objects) + offset + TlsPages >= HostPages
          /\ phase = "run" =>
                /\ Len(mem.objects) + offset + stack + TlsPages >= HostPages
                /\ mem.blocks[StackBegin(offset)].pages + TlsPages = stack + 1

\* What NoFailure asks for, beside .bss.
Enough == offset + stack + TlsPage + 1 < HostPages /\ TlsPage < UserPages /\ TlsPage <= stack

LEMMA FailureNeeds ==
    ASSUME EachHasBss /\ Enough => mem.outcome \in {"ok", "aborted"}
    PROVE  NoFailure
BY DEF NoFailure, Enough

LEMMA ObjectsLeft ==
    ASSUME NEW m, NEW end, HostInv(m, end)
    PROVE  Len(m.objects) \in 1 .. HostPages
<1>1. PICK n \in 1 .. HostPages : m.objects = SlabObjects(0, n)
  BY DEF HostInv, SlabInv
<1>2. n \in Nat
  BY MemoryAssumption
<1>3. QED BY <1>1, <1>2, SlabList

\* A call of Map that went well has taken the pages and put the block.
LEMMA PutsCount ==
    ASSUME NEW m, NEW left, NEW at, NEW new, new.pages \in Nat,
           PutsBlock(m, left, at, new), left.outcome = "ok"
    PROVE  /\ Len(left.objects) = Len(m.objects) - new.pages /\ Len(m.objects) \in Nat
           /\ left.blocks[at] = new
<1>1. PICK blocks, donor : Rearranged(m.blocks, blocks, at, new, donor) /\ Puts(m, left, at, new.pages, blocks)
  BY DEF PutsBlock
<1>2. left.blocks[at] = new
  BY <1>1 DEF Puts, Rearranged
<1>3. PICK n \in 1 .. HostPages :
          m.objects = SlabObjects(0, n) /\ new.pages < n /\ left.objects = SlabObjects(0, n - new.pages)
  BY <1>1 DEF Puts, MapsAt
<1>4. n \in Nat /\ n - new.pages \in Nat
  BY <1>3, MemoryAssumption
<1>5. Len(m.objects) = n /\ Len(left.objects) = n - new.pages
  <2> DEFINE k == n - new.pages
  <2>1. k \in Nat /\ left.objects = SlabObjects(0, k)
    BY <1>3, <1>4
  <2> HIDE DEF k
  <2>2. Len(left.objects) = k /\ Len(m.objects) = n
    BY <1>3, <1>4, <2>1, SlabList
  <2>3. QED BY <2>2 DEF k
<1>6. QED BY <1>2, <1>4, <1>5

\* A page that has no block in the segment of thread local pages is not mapped.
LEMMA NoBlockNoPage ==
    ASSUME NEW count \in Nat, NEW m, Named(count, m), NEW at, at >= TlsIoBegin(count), at \notin Keys(m.blocks)
    PROVE  at \notin Backed(m)
BY DEF Named, NamedBy

-----------------------------------------------------------------------------
(* The slots.                                                               *)

LEMMA TakeFromCounts ==
    ASSUME TlsLists, NEW managers, managers \in Seq(Managers), Len(managers) = 1,
           managers[1].freeslots # {}, TakeFrom(managers), Counted(managers, fulltls, Len(tls))
    PROVE  /\ Counted(freetls', fulltls', Len(tls'))
           /\ Len(freetls') + Len(fulltls') = 1 + Len(fulltls)
<1> DEFINE manager == managers[1]
           slot == FirstSlot(manager)
           left == TakeSlot(manager, slot)
           taken == [page |-> left.page, slot |-> slot]
           full == <<left>> \o fulltls
<1>1. manager \in Managers /\ Head(managers) = manager /\ Tail(managers) = <<>> /\ managers # <<>>
  <2>1. 1 \in 1 .. Len(managers)
    OBVIOUS
  <2>2. manager \in Managers
    BY <2>1, ElementOfSeq
  <2>3. managers # <<>>
    <3>1. Len(<<>>) = 0
      OBVIOUS
    <3>2. Len(managers) # Len(<<>>)
      BY <3>1
    <3>3. QED BY <3>2, Zenon
  <2>4. Head(managers) = manager
    BY <2>3
  <2>5. Tail(managers) \in Seq(Managers) /\ Len(Tail(managers)) = 0
    BY <2>3
  <2>6. Tail(managers) = <<>>
    BY <2>5, EmptySeq
  <2>7. QED BY <2>2, <2>3, <2>4, <2>6
<1>2. TlsSlotCount \in Nat /\ TlsSlotCount > 0
  BY LoaderAssumption
<1>3. PICK k \in 0 .. TlsSlotCount - 1 :
          manager.freeslots = k + 1 .. TlsSlotCount /\ Len(tls) = Len(fulltls) * TlsSlotCount + k
  BY <1>1 DEF Counted
<1> HIDE DEF manager
<1>4. slot = k + 1
  <2>1. k + 1 \in manager.freeslots /\ \A t \in manager.freeslots : k + 1 <= t
    BY <1>2, <1>3
  <2>2. \A s \in manager.freeslots : (\A t \in manager.freeslots : s <= t) => s = k + 1
    BY <1>2, <1>3, <2>1
  <2>3. QED BY <2>1, <2>2 DEF FirstSlot
<1> HIDE DEF slot
<1>5. left \in Managers /\ left.freeslots = k + 2 .. TlsSlotCount
  <2>1. left.freeslots = manager.freeslots \ {slot} /\ left \in Managers
    BY <1>1 DEF TakeSlot, Managers
  <2>2. (k + 1 .. TlsSlotCount) \ {k + 1} = k + 2 .. TlsSlotCount
    BY <1>2
  <2>3. QED BY <1>3, <1>4, <2>1, <2>2
<1>6. /\ tls' = Append(tls, taken)
      /\ (left.freeslots # {} /\ freetls' = <<left>> \o <<>> /\ fulltls' = fulltls)
           \/ (left.freeslots = {} /\ freetls' = <<>> /\ fulltls' = full)
  BY <1>1 DEF TakeFrom, Allocatable, slot
<1>7. taken \in Slots
  <2>1. left.page \in Int
    BY <1>5 DEF Managers
  <2>2. slot \in 1 .. TlsSlotCount
    BY <1>2, <1>4
  <2>3. QED BY <2>1, <2>2 DEF Slots
<1> HIDE DEF left, taken
<1>8. <<left>> \o <<>> = <<left>> /\ Len(<<left>>) = 1 /\ <<left>>[1] = left
  BY <1>5
<1>9. tls \in Seq(Slots) /\ fulltls \in Seq(Managers)
  BY DEF TlsLists
<1>10. Len(tls') = Len(tls) + 1 /\ Len(tls) \in Nat /\ Len(fulltls) \in Nat
  BY <1>6, <1>7, <1>9
<1>11. CASE left.freeslots # {} /\ freetls' = <<left>> /\ fulltls' = fulltls
  <2>1. k + 1 \in 0 .. TlsSlotCount - 1
    BY <1>2, <1>5, <1>11
  <2>2. freetls'[1].freeslots = (k + 1) + 1 .. TlsSlotCount
    BY <1>5, <1>8, <1>11
  <2> DEFINE f == Len(fulltls) * TlsSlotCount
  <2>3. f \in Nat /\ Len(tls) = f + k
    BY <1>2, <1>3, <1>10
  <2>4. Len(tls') = f + (k + 1)
    <3> HIDE DEF f
    <3>1. QED BY <1>10, <2>3
  <2>5. Counted(freetls', fulltls', Len(tls'))
    BY <1>8, <1>11, <2>1, <2>2, <2>4 DEF Counted
  <2>6. QED BY <1>8, <1>11, <2>5
<1>12. CASE left.freeslots = {} /\ freetls' = <<>> /\ fulltls' = full
  <2>1. k + 1 = TlsSlotCount
    <3>1. k + 2 \notin k + 2 .. TlsSlotCount
      BY <1>5, <1>12
    <3>2. QED BY <1>2, <3>1
  <2>2. Len(full) = 1 + Len(fulltls)
    <3>1. <<left>> \in Seq(Managers)
      BY <1>5
    <3>2. QED BY <1>8, <1>9, <3>1
  <2> HIDE DEF full
  <2> DEFINE f == Len(fulltls)
  <2>3. (1 + f) * TlsSlotCount = f * TlsSlotCount + TlsSlotCount /\ f * TlsSlotCount \in Nat
    BY <1>2, <1>10
  <2>4. Len(tls') = (1 + f) * TlsSlotCount
    <3> DEFINE g == f * TlsSlotCount
    <3>1. Len(tls') = g + k + 1 /\ g \in Nat
      BY <1>3, <1>10, <2>3
    <3> HIDE DEF g
    <3>2. Len(tls') = g + TlsSlotCount
      BY <1>2, <2>1, <3>1
    <3>3. QED BY <2>3, <3>2 DEF g
  <2>5. Counted(freetls', fulltls', Len(tls'))
    BY <1>12, <2>2, <2>4 DEF Counted
  <2>6. QED BY <1>10, <1>12, <2>2, <2>5
<1>13. QED BY <1>6, <1>8, <1>11, <1>12

\* With slots on full pages only, the next one is on a page there is not yet.
LEMMA TlsPageOf ==
    ASSUME TlsLists
    PROVE  /\ TlsPage \in Nat /\ Len(freetls) \in Nat /\ Len(fulltls) \in Nat /\ TlsPages \in Nat
           /\ freetls = <<>> /\ Counted(freetls, fulltls, Len(tls)) => TlsPage = TlsPages
<1>1. /\ TlsSlotCount \in Nat \ {0} /\ Len(tls) \in Nat /\ Len(freetls) \in Nat /\ Len(fulltls) \in Nat
  BY LoaderAssumption DEF TlsLists
<1>2. TlsPages \in Nat
  BY <1>1 DEF TlsPages
<1>3. TlsPage \in Nat
  <2>1. \A n \in Nat, d \in Nat \ {0} : n \div d \in Nat
    OBVIOUS
  <2>2. QED BY <1>1, <2>1 DEF TlsPage
<1>4. ASSUME freetls = <<>>, Counted(freetls, fulltls, Len(tls)) PROVE TlsPage = TlsPages
  <2>1. Len(freetls) = 0
    BY <1>4
  <2>2. Len(tls) = Len(fulltls) * TlsSlotCount
    BY <1>4, <2>1 DEF Counted
  <2>3. \A q \in Nat, d \in Nat \ {0} : (q * d) \div d = q
    OBVIOUS
  <2>4. TlsPage = Len(fulltls)
    BY <1>1, <2>2, <2>3 DEF TlsPage
  <2>5. QED BY <1>1, <2>1, <2>4 DEF TlsPages
<1>5. QED BY <1>1, <1>2, <1>3, <1>4

LEMMA UsedPageCounts ==
    ASSUME TlsLists, freetls # <<>>, TakeFrom(freetls), userslabs' = userslabs,
           Counted(freetls, fulltls, Len(tls))
    PROVE  Counted(freetls', fulltls', Len(tls')) /\ TlsPages' = TlsPages /\ tls' # <<>>
<1>1. freetls \in Seq(Managers) /\ Len(freetls) = 1 /\ freetls[1].freeslots # {}
  BY OneFreePage
<1>2. /\ Counted(freetls', fulltls', Len(tls')) /\ tls' # <<>>
      /\ Len(freetls') + Len(fulltls') = 1 + Len(fulltls)
  BY <1>1, TakeFromCounts, TakeFromOf
<1>3. QED BY <1>1, <1>2 DEF TlsPages

LEMMA FreshPageCounts ==
    ASSUME TlsLists, offset \in Nat, freetls = <<>>, TakeFrom(<<Fresh>>),
           userslabs' = SlabAllocate(userslabs).objects, Counted(freetls, fulltls, Len(tls)),
           Len(userslabs) + TlsPages >= UserPages
    PROVE  /\ Counted(freetls', fulltls', Len(tls')) /\ TlsPages' = TlsPages + 1 /\ tls' # <<>>
           /\ Len(userslabs') + TlsPages' >= UserPages
<1>1. /\ <<Fresh>> \in Seq(Managers) /\ Len(<<Fresh>>) = 1 /\ <<Fresh>>[1] = Fresh
      /\ Fresh.freeslots # {} /\ Fresh.freeslots = 1 .. TlsSlotCount
  BY FreshOf DEF Fresh
<1>2. /\ TlsSlotCount \in Nat \ {0} /\ Len(fulltls) \in Nat /\ Len(freetls) = 0 /\ UserPages \in Nat
  BY LoaderAssumption DEF TlsLists
<1>3. Counted(<<Fresh>>, fulltls, Len(tls))
  <2>1. Len(tls) = Len(fulltls) * TlsSlotCount
    BY <1>2 DEF Counted
  <2>2. Len(tls) \in Nat
    BY DEF TlsLists
  <2>3. 0 \in 0 .. TlsSlotCount - 1 /\ 0 + 1 = 1 /\ Len(tls) = Len(tls) + 0
    BY <1>2, <2>2
  <2>4. <<Fresh>>[1].freeslots = 0 + 1 .. TlsSlotCount /\ Len(tls) = Len(fulltls) * TlsSlotCount + 0
    BY <1>1, <2>1, <2>3
  <2>5. QED BY <1>1, <2>3, <2>4 DEF Counted
<1>4. /\ Counted(freetls', fulltls', Len(tls')) /\ tls' # <<>>
      /\ Len(freetls') + Len(fulltls') = 1 + Len(fulltls)
  BY <1>1, <1>3, TakeFromCounts, TakeFromOf
<1>5. TlsPages' = TlsPages + 1 /\ TlsPages \in Nat
  BY <1>2, <1>4 DEF TlsPages
<1>6. Len(userslabs') + TlsPages' >= UserPages
  <2>1. /\ userslabs = <<>> => userslabs' = <<>>
        /\ userslabs # <<>> => Len(userslabs') = Len(userslabs) - 1
    BY UserSlab DEF TlsLists
  <2>2. Len(userslabs) \in Nat
    <3>1. \A n \in 0 .. UserPages : n \in Nat
      BY <1>2
    <3>2. QED BY <3>1 DEF TlsLists
  <2>3. CASE userslabs = <<>>
    <3>1. Len(userslabs') = 0 /\ Len(userslabs) = 0
      BY <2>1, <2>3
    <3>2. QED BY <1>2, <1>5, <3>1
  <2>4. CASE userslabs # <<>>
    <3> DEFINE n == Len(userslabs)
    <3>1. Len(userslabs') = n - 1 /\ n \in Nat /\ n + TlsPages >= UserPages
      BY <2>1, <2>2, <2>4
    <3> HIDE DEF n
    <3>2. n - 1 + (TlsPages + 1) >= UserPages
      BY <1>2, <1>5, <3>1
    <3>3. QED BY <1>5, <3>1, <3>2
  <2>5. QED BY <2>3, <2>4
<1>7. QED BY <1>4, <1>5, <1>6

LEMMA AllocateTlsCounted ==
    ASSUME TlsLists, offset \in Nat, NEW before, AllocateTls(before),
           Counted(freetls, fulltls, Len(tls)), tls = <<>> => TlsPages = 0,
           Len(userslabs) + TlsPages >= UserPages
    PROVE  /\ Counted(freetls, fulltls, Len(tls))' /\ (tls = <<>> => TlsPages = 0)'
           /\ mem'.outcome = "ok" => Len(userslabs') + TlsPages' >= UserPages
<1>1. CASE freetls # <<>> /\ TakeFrom(freetls) /\ userslabs' = userslabs
  <2>1. Counted(freetls', fulltls', Len(tls')) /\ TlsPages' = TlsPages /\ tls' # <<>>
    BY <1>1, UsedPageCounts
  <2>2. QED BY <1>1, <2>1
<1>2. CASE freetls = <<>> /\ TakeFrom(<<Fresh>>) /\ userslabs' = SlabAllocate(userslabs).objects
  BY <1>2, FreshPageCounts
<1>3. CASE mem'.outcome # "ok" /\ UNCHANGED <<freetls, fulltls, tls>>
  BY <1>3 DEF TlsPages
<1>4. QED BY <1>1, <1>2, <1>3, AllocateTlsCases

\* A thread local page of a process with a stack of size pages.
RunCounts(m, size, low) ==
    /\ Len(m.objects) + offset + size + TlsPages >= HostPages
    /\ m.blocks[low].pages + TlsPages = size + 1

LEMMA AllocateTlsCounts ==
    ASSUME TlsLists, offset \in Nat, NEW before, HostInv(before, SpaceEnd(offset)), AllocateTls(before),
           NEW low, TlsFrom(offset, before, low, userslabs), before.blocks[low].pages \in Nat,
           before.outcome = "ok", Named(offset, before), stack \in Nat,
           Counted(freetls, fulltls, Len(tls)), Len(userslabs) + TlsPages >= UserPages,
           RunCounts(before, stack, low), offset' = offset, stack' = stack
    PROVE  /\ mem'.outcome = "ok" => RunCounts(mem, stack, low)'
           /\ mem'.outcome # "ok" => ~Enough'
<1> DEFINE slab == SlabAllocate(userslabs)
           at == TlsIoBegin(offset) + slab.pointer
<1>1. /\ TlsPages \in Nat /\ HostPages \in Nat /\ UserPages \in Nat
      /\ Len(before.objects) \in Nat /\ before.blocks[low].pages \in Nat
  <2>1. Len(before.objects) \in 1 .. HostPages
    BY ObjectsLeft
  <2>2. HostPages \in Nat
    BY MemoryAssumption
  <2>3. QED BY <2>1, <2>2, TlsPageOf, LoaderAssumption
<1>2. CASE freetls # <<>> /\ TakeFrom(freetls) /\ mem' = before /\ userslabs' = userslabs
  <2>1. TlsPages' = TlsPages
    BY <1>2, UsedPageCounts
  <2>2. QED BY <1>2, <2>1 DEF RunCounts
<1>3. CASE /\ freetls = <<>> /\ mem' = MapTlsMemory(before, offset, slab.pointer)
           /\ userslabs' = slab.objects
           /\ \/ mem'.outcome = "ok" /\ TakeFrom(<<Fresh>>)
              \/ mem'.outcome # "ok" /\ UNCHANGED <<freetls, fulltls, tls>>
  <2>1. /\ mem'.outcome = "ok" => mem'.blocks[low].pages = before.blocks[low].pages - 1
        /\ PutsBlock(before, mem', at, Block(1, "ThreadLocal"))
        /\ Room(before, at, 1) /\ before.blocks[low].pages > 0 => mem'.outcome = "ok"
    BY <1>3, NextTlsShape DEF TlsLists
  <2>2. /\ slab.pointer \in Nat /\ at \in TlsIoBegin(offset) .. SpaceEnd(offset) - 1
        /\ TlsIoBegin(offset) \in Nat /\ SpaceEnd(offset) \in Nat
    BY FreshOf, SegmentsOf
  <2>3. ASSUME mem'.outcome = "ok"
        PROVE  RunCounts(mem, stack, low)'
    <3>1. TlsPages' = TlsPages + 1
      BY <1>3, <2>3, FreshPageCounts
    <3>2. Len(mem'.objects) = Len(before.objects) - 1
      <4> DEFINE new == Block(1, "ThreadLocal")
      <4>1. new.pages = 1 /\ 1 \in Nat
        BY DEF Block
      <4> HIDE DEF new, at, slab
      <4>2. PutsBlock(before, mem', at, new)
        BY <2>1 DEF new
      <4>3. QED BY <2>3, <4>1, <4>2, PutsCount
    <3>3. /\ Len(before.objects) + offset + stack + TlsPages >= HostPages
          /\ before.blocks[low].pages + TlsPages = stack + 1
      BY DEF RunCounts
    <3> HIDE DEF at, slab
    <3> DEFINE n == Len(before.objects)
               pages == before.blocks[low].pages
    <3>4. /\ n - 1 + offset + stack + (TlsPages + 1) >= HostPages
          /\ pages - 1 + (TlsPages + 1) = stack + 1
      <4>1. /\ n + offset + stack + TlsPages >= HostPages /\ pages + TlsPages = stack + 1
            /\ n \in Nat /\ pages \in Nat
        BY <1>1, <3>3
      <4> HIDE DEF n, pages
      <4>2. QED BY <1>1, <4>1
    <3>5. QED BY <2>1, <2>3, <3>1, <3>2, <3>4 DEF RunCounts
  <2>4. ASSUME mem'.outcome # "ok", Enough' PROVE FALSE
    <3>1. UNCHANGED <<freetls, fulltls, tls>>
      BY <1>3, <2>4
    <3>2. TlsPage' = TlsPages
      <4>1. TlsPage = TlsPages
        BY <1>3, TlsPageOf
      <4>2. QED BY <3>1, <4>1 DEF TlsPage
    <3>3. offset + stack + TlsPages + 1 < HostPages /\ TlsPages < UserPages /\ TlsPages <= stack
      BY <2>4, <3>2 DEF Enough
    <3>4. Len(userslabs) \in Nat
      <4>1. \A n \in 0 .. UserPages : n \in Nat
        BY <1>1
      <4>2. QED BY <4>1 DEF TlsLists
    <3>5. 1 < Len(before.objects) /\ before.blocks[low].pages > 0 /\ Len(userslabs) > 0
      <4> DEFINE n == Len(before.objects)
                 pages == before.blocks[low].pages
                 left == Len(userslabs)
      <4>1. /\ n + offset + stack + TlsPages >= HostPages /\ pages + TlsPages = stack + 1
            /\ left + TlsPages >= UserPages /\ n \in Nat /\ pages \in Nat /\ left \in Nat
        BY <1>1, <3>4 DEF RunCounts
      <4> HIDE DEF n, pages, left
      <4>2. 1 < n /\ pages > 0 /\ left > 0
        BY <1>1, <3>3, <4>1
      <4>3. QED BY <4>2 DEF n, pages, left
    <3>6. at \notin Keys(before.blocks)
      <4>1. userslabs # <<>>
        BY <3>4, <3>5
      <4>2. slab.pointer = UserBase + Len(userslabs) - 1 /\ UserBase \in Nat
        BY <4>1, UserSlab, LoaderAssumption DEF TlsLists
      <4>3. SUFFICES ASSUME at \in Keys(before.blocks) PROVE FALSE
        OBVIOUS
      <4>4. TlsIoBegin(offset) <= at /\ at < SpaceEnd(offset)
        BY <2>2
      <4>5. at \in TlsBlocks(offset, before)
        BY <4>3, <4>4 DEF TlsBlocks
      <4>6. at >= TlsIoBegin(offset) + UserBase + Len(userslabs)
        BY <4>1, <4>5 DEF TlsFrom
      <4> HIDE DEF slab
      <4>7. QED BY <2>2, <3>4, <4>2, <4>6
    <3> HIDE DEF at, slab
    <3>7. at \notin Backed(before)
      <4>1. at >= TlsIoBegin(offset)
        BY <2>2
      <4>2. QED BY <3>6, <4>1, NoBlockNoPage
    <3>8. Room(before, at, 1)
      <4>1. at \in 0 .. SpaceEnd(offset) - 1
        BY <2>2
      <4>2. QED BY <3>5, <3>7, <4>1, RoomAt
    <3>9. QED BY <2>1, <2>4, <3>5, <3>8
  <2>5. QED BY <1>3, <2>3, <2>4
<1>4. QED BY <1>2, <1>3, AllocateTlsCases

-----------------------------------------------------------------------------
(* The actions.                                                             *)

\* What the loader leaves of the threads.
LEMMA ThreadCounts ==
    ASSUME CountInv, UNCHANGED <<userslabs, freetls, fulltls, tls>>
    PROVE  /\ Counted(freetls, fulltls, Len(tls))' /\ (tls = <<>> => TlsPages = 0)' /\ TlsPages' = TlsPages
           /\ Live => Len(userslabs') + TlsPages' >= UserPages
BY DEF CountInv, TlsPages

LEMMA GetCodeSetCounts ==
    ASSUME IInv, CountInv, NEW m \in Modules, GetCodeSet(m) PROVE CountInv' /\ NoFailure'
<1>1. phase = "layout" /\ UNCHANGED <<phase, mem, stack, userslabs, freetls, fulltls, tls>>
  BY DEF GetCodeSet, processVars
<1>2. CountInv'
  BY <1>1, ThreadCounts DEF CountInv, Live
<1>3. mem'.outcome = "ok"
  BY <1>1 DEF IInv, MemInv, NoMemory
<1>4. QED BY <1>2, <1>3 DEF NoFailure

LEMMA LoadMemoryCounts == ASSUME IInv, CountInv, LoadMemory PROVE CountInv' /\ NoFailure'
<1>1. /\ phase = "layout" /\ phase' = "map" /\ mem' = InitializeForProcess(offset)
      /\ UNCHANGED <<userslabs, freetls, fulltls, tls>>
  BY DEF LoadMemory, processVars
<1>2. Reached' = 0
  BY LoadMemoryLayout DEF IInv
<1>3. mem'.objects = SlabObjects(0, HostPages) /\ mem'.outcome = "ok" /\ HostPages \in Nat
  BY <1>1, MemoryAssumption DEF InitializeForProcess
<1>4. Len(mem'.objects) + Reached' >= HostPages
  BY <1>2, <1>3, SlabList
<1>5. Live
  BY <1>1 DEF IInv, MemInv, NoMemory, Live
<1>6. CountInv'
  BY <1>1, <1>4, <1>5, ThreadCounts DEF CountInv
<1>7. QED BY <1>3, <1>6 DEF NoFailure

\* The section at hand is put where nothing is backed, and there are pages for it.
LEMMA MapSectionCounts ==
    ASSUME IInv, CountInv, phase = "map", index <= Len(procimage), Live, EachHasBss
    PROVE  /\ MapSection.outcome = "ok" =>
                 /\ Len(MapSection.objects) + Following(index) >= HostPages
                 /\ MapSection.blocks[Current.offset] = Block(Pages(SectionSize), "Code")
           /\ Enough => MapSection.outcome \in {"ok", "aborted"}
<1> DEFINE at == Current.offset
           pages == Pages(SectionSize)
           n == Len(mem.objects)
<1>1. /\ Reached = at /\ at \in Nat /\ pages \in Nat \ {0} /\ at + pages <= Following(index)
      /\ Following(index) \in Nat /\ Following(index) <= offset
      /\ (MapSection.outcome = "ok" => at + pages = Following(index))
  BY MapSectionOf
<1>2. /\ offset \in Nat /\ HostInv(mem, SpaceEnd(offset)) /\ \A p \in Backed(mem) : p < at
      /\ FreeFrom(offset, mem, at)
  BY <1>1 DEF IInv, LayoutInv, MemInv, ShapeInv, Laid
<1>3. n + at >= HostPages /\ HostPages \in Nat /\ n \in Nat
  <2>1. n + at >= HostPages
    BY <1>1 DEF CountInv
  <2>2. n \in 1 .. HostPages /\ HostPages \in Nat
    BY <1>2, ObjectsLeft, MemoryAssumption
  <2>3. QED BY <2>1, <2>2
<1>4. MapSection \in {Fail(mem, "aborted"), MapCodeMemory(mem, at, pages)}
  BY DEF MapSection
<1>5. stack \in Nat /\ TlsPage \in Nat
  <2>1. stack \in Nat
    BY LoaderAssumption, MemoryAssumption DEF IInv, ThreadInv
  <2>2. QED BY <2>1, TlsPageOf DEF IInv, ThreadInv
<1> DEFINE next == Following(index)
<1> HIDE DEF at, pages, n, next
<1>6. at + pages <= offset
  BY <1>1, <1>2 DEF next
<1>7. CASE MapSection = Fail(mem, "aborted")
  BY <1>2, <1>7, FailOf DEF HostInv, Outcomes
<1>8. CASE MapSection = MapCodeMemory(mem, at, pages)
  <2>1. /\ PutsBlock(mem, MapSection, at, Block(pages, "Code"))
        /\ Room(mem, at, pages) => MapSection.outcome = "ok"
    BY <1>1, <1>2, <1>6, <1>8, CodeShape
  <2>2. ASSUME MapSection.outcome = "ok"
        PROVE  /\ Len(MapSection.objects) + next >= HostPages
               /\ MapSection.blocks[at] = Block(pages, "Code")
    <3>1. Block(pages, "Code").pages = pages /\ pages \in Nat
      BY <1>1 DEF Block
    <3>2. Len(MapSection.objects) = n - pages /\ MapSection.blocks[at] = Block(pages, "Code")
      BY <2>1, <2>2, <3>1, PutsCount DEF n
    <3>3. next = at + pages
      BY <1>1, <2>2 DEF next
    <3>4. n - pages + (at + pages) >= HostPages
      BY <1>1, <1>3
    <3>5. QED BY <3>2, <3>3, <3>4
  <2>3. ASSUME Enough PROVE MapSection.outcome = "ok"
    <3>1. offset + stack + TlsPage + 1 < HostPages
      BY <2>3 DEF Enough
    <3>2. pages < n
      BY <1>1, <1>2, <1>3, <1>5, <1>6, <3>1
    <3>3. at \notin Backed(mem)
      <4>1. ~(at < at)
        BY <1>1
      <4>2. QED BY <1>2, <4>1
    <3>4. at \in 0 .. SpaceEnd(offset) - 1
      <4>1. SpaceEnd(offset) \in Nat /\ offset < SpaceEnd(offset)
        <5>1. /\ offset < StackBegin(offset) /\ StackBegin(offset) < TlsIoBegin(offset)
              /\ TlsIoBegin(offset) < SpaceEnd(offset) /\ SpaceEnd(offset) \in Nat
              /\ StackBegin(offset) \in Nat /\ TlsIoBegin(offset) \in Nat
          BY <1>2, SegmentsOf
        <5>2. QED BY <1>2, <5>1
      <4>2. QED BY <1>1, <1>2, <1>6, <4>1
    <3>5. Room(mem, at, pages)
      <4>1. mem.outcome = "ok" /\ pages < Len(mem.objects)
        BY <3>2 DEF Live, n
      <4>2. QED BY <1>2, <3>3, <3>4, <4>1, RoomAt
    <3>6. QED BY <2>1, <3>5
  <2>4. QED BY <2>2, <2>3 DEF at, pages, next
<1>9. QED BY <1>4, <1>7, <1>8

\* The permission is set on the one block that the section was mapped with, and its
\* .bss, which can be written then, is filled.
LEMMA SetSectionGoes ==
    ASSUME IInv, CountInv, SetSection, EachHasBss
    PROVE  /\ mem'.outcome = "ok" => Len(mem'.objects) + Following(index) >= HostPages
           /\ Enough => mem'.outcome \in {"ok", "aborted"}
<1> DEFINE at == Current.offset
           pages == Pages(SectionSize)
           perm == PermissionOf(bintype)
           mapped == MapSection
           set == SetMemoryPermission(mapped, at, pages, perm)
<1>1. /\ phase = "map" /\ index <= Len(procimage) /\ Live
      /\ (mem' = set) \/ (BssSize # 0 /\ mem' = FillBss(set))
  BY DEF SetSection
<1>2. /\ mapped.outcome = "ok" =>
            Len(mapped.objects) + Following(index) >= HostPages /\ mapped.blocks[at] = Block(pages, "Code")
      /\ Enough => mapped.outcome \in {"ok", "aborted"}
  BY <1>1, MapSectionCounts
<1>3. /\ Proper(mapped) /\ at \in Nat /\ pages \in Nat \ {0}
      /\ (mapped.outcome = "ok" => at \in Keys(mapped.blocks))
  BY <1>1, MapSectionOf DEF Maps
<1>4. perm # NoPermission /\ (BssSize # 0 => perm = Data)
  <2>1. perm # NoPermission
    BY DEF PermissionOf, NoPermission, Text, Ro, Data
  <2>2. BssSize # 0 => bintype = 2
    BY <1>1, SectionFits DEF IInv
  <2>3. QED BY <2>1, <2>2 DEF PermissionOf
<1>5. Current.size \in Nat
  BY <1>1, SectionFits DEF IInv, SectionRecords
<1> DEFINE filled == at + Current.size \div PageUnits
<1>6. FillBss(set) = FillMemory(set, filled, at + pages)
  BY DEF FillBss
<1>7. filled \in Nat /\ at <= filled
  <2>1. \A u \in Nat : u \div 2 \in Nat
    OBVIOUS
  <2> DEFINE skipped == Current.size \div PageUnits
  <2>2. skipped \in Nat
    BY <1>5, <2>1 DEF PageUnits
  <2> HIDE DEF skipped
  <2>3. at + skipped \in Nat /\ at <= at + skipped
    BY <1>3, <2>2
  <2>4. QED BY <2>3 DEF skipped
<1> HIDE DEF at, pages, perm, mapped, filled
<1>8. CASE mapped.outcome # "ok"
  <2>1. set = mapped
    BY <1>8 DEF SetMemoryPermission
  <2>2. FillMemory(set, filled, at + pages) = set
    BY <1>8, <2>1 DEF FillMemory
  <2>3. mem' = mapped
    BY <1>1, <1>6, <2>1, <2>2
  <2>4. QED BY <1>2, <1>8, <2>3
<1>9. CASE mapped.outcome = "ok"
  <2>1. FindBlock(mapped.blocks, at) = at /\ mapped.blocks[at] = Block(pages, "Code")
    BY <1>2, <1>3, <1>9 DEF FindBlock
  <2>2. ~FewerThan(pages, pages)
    BY <1>3 DEF FewerThan
  <2>3. set = Reprotect(mapped, at, pages, perm)
    BY <1>4, <1>9, <2>1, <2>2 DEF SetMemoryPermission, Block
  <2>4. /\ set.outcome = "ok" /\ set.objects = mapped.objects
        /\ (perm = Data => Span(at, pages) \subseteq set.writable)
    BY <1>3, <1>9, <2>3 DEF Reprotect, Proper, Fields
  <2> HIDE DEF set
  <2>5. perm = Data => FillMemory(set, filled, at + pages) = set
    <3> DEFINE end == at + pages
    <3>1. ASSUME perm = Data PROVE Span(filled, end - filled) \subseteq set.writable
      <4>1. Span(filled, end - filled) \subseteq Span(at, pages)
        BY <1>3, <1>7 DEF Span
      <4>2. QED BY <2>4, <3>1, <4>1
    <3> HIDE DEF end
    <3>2. perm = Data => WriteMemory(set, filled, end - filled) = set
      BY <3>1 DEF WriteMemory
    <3>3. perm = Data => FillMemory(set, filled, end) = set
      BY <3>2 DEF FillMemory
    <3>4. QED BY <3>3 DEF end
  <2>6. mem' = set
    BY <1>1, <1>4, <1>6, <2>5
  <2>7. QED BY <1>2, <1>9, <2>4, <2>6
<1>10. QED BY <1>8, <1>9

LEMMA SetSectionCounts ==
    ASSUME IInv, PlacedInv, CountInv, SetSection PROVE CountInv' /\ NoFailure'
<1>1. /\ phase = "map" /\ phase' = "map" /\ Live
      /\ UNCHANGED <<modules, offset, stack, userslabs, freetls, fulltls, tls>>
  BY DEF SetSection, processVars
<1>2. Reached' = Following(index)
  BY SectionPlace
<1>3. EachHasBss' = EachHasBss /\ Enough' = Enough
  BY <1>1 DEF EachHasBss, Enough, TlsPage
<1>4. CountInv'
  <2>1. EachHasBss' /\ Live' => Len(mem'.objects) + Reached' >= HostPages
    BY <1>2, <1>3, SetSectionGoes DEF Live
  <2>2. QED BY <1>1, <2>1, ThreadCounts DEF CountInv
<1>5. EachHasBss' /\ Enough' => mem'.outcome \in {"ok", "aborted"}
  BY <1>3, SetSectionGoes
<1>6. QED BY <1>4, <1>5 DEF NoFailure, Enough

LEMMA ReturnCounts ==
    ASSUME IInv, CountInv, ReturnAtSilentSection PROVE CountInv' /\ NoFailure'
<1>1. /\ phase = "map" /\ index <= Len(procimage) /\ Live /\ phase' = "start" /\ mem' = MapSection
      /\ UNCHANGED <<modules, offset, stack, userslabs, freetls, fulltls, tls>>
  BY DEF ReturnAtSilentSection, processVars, layoutVars
<1>2. EachHasBss' = EachHasBss /\ Enough' = Enough
  BY <1>1 DEF EachHasBss, Enough, TlsPage
<1>3. tls = <<>> /\ TlsPages = 0
  BY <1>1 DEF IInv, ThreadInv, CountInv
<1>4. ASSUME EachHasBss', Live' PROVE Len(mem'.objects) + offset' + TlsPages' >= HostPages
  <2>1. Len(mem'.objects) + Following(index) >= HostPages
    BY <1>1, <1>2, <1>4, MapSectionCounts DEF Live
  <2>2. /\ Following(index) \in Nat /\ Following(index) <= offset /\ offset \in Nat
        /\ TlsPages' = 0
    BY <1>1, <1>3, MapSectionOf, ThreadCounts DEF IInv, LayoutInv
  <2>3. Len(mem'.objects) \in Nat
    <3>1. IInv'
      BY ReturnKept
    <3>2. HostInv(mem', SpaceEnd(offset')) /\ HostPages \in Nat
      BY <1>1, <3>1, MemoryAssumption DEF IInv, MemInv, Laid
    <3>3. Len(mem'.objects) \in 1 .. HostPages
      BY <3>2, ObjectsLeft
    <3>4. QED BY <3>2, <3>3
  <2>4. HostPages \in Nat
    BY MemoryAssumption
  <2>5. QED BY <1>1, <2>1, <2>2, <2>3, <2>4
<1>5. CountInv'
  BY <1>1, <1>3, <1>4, ThreadCounts DEF CountInv
<1>6. EachHasBss' /\ Enough' => mem'.outcome \in {"ok", "aborted"}
  BY <1>1, <1>2, MapSectionCounts
<1>7. QED BY <1>5, <1>6 DEF NoFailure, Enough

LEMMA EndOfSectionsCounts ==
    ASSUME IInv, CountInv, EndOfSections PROVE CountInv' /\ NoFailure'
<1>1. /\ phase = "map" /\ PastSections /\ Live /\ phase' = "start"
      /\ UNCHANGED <<mem, modules, offset, stack, userslabs, freetls, fulltls, tls>>
  BY DEF EndOfSections, processVars, layoutVars
<1>2. EachHasBss' = EachHasBss
  BY <1>1 DEF EachHasBss
<1>3. TlsPages = 0 /\ Reached = offset
  BY <1>1 DEF IInv, ThreadInv, CountInv, Reached
<1>4. ASSUME EachHasBss' PROVE Len(mem'.objects) + offset' + TlsPages' >= HostPages
  <2>1. Len(mem.objects) + offset >= HostPages
    BY <1>1, <1>2, <1>3, <1>4 DEF CountInv
  <2>2. Len(mem.objects) \in 1 .. HostPages /\ HostPages \in Nat /\ offset \in Nat
    BY <1>1, ObjectsLeft, MemoryAssumption DEF IInv, MemInv, Laid, LayoutInv
  <2>3. TlsPages' = 0
    BY <1>1, <1>3, ThreadCounts
  <2>4. QED BY <1>1, <2>1, <2>2, <2>3
<1>5. CountInv'
  BY <1>1, <1>3, <1>4, ThreadCounts DEF CountInv
<1>6. mem'.outcome = "ok"
  BY <1>1 DEF Live
<1>7. QED BY <1>5, <1>6 DEF NoFailure

\* The first thread local page is put where nothing is backed.
LEMMA ExceptionTlsCounts ==
    ASSUME IInv, NameInv, CountInv, NEW size \in StackSizes, AllocateExceptionTls(size)
    PROVE  CountInv' /\ NoFailure'
<1> DEFINE pointer == SlabAllocate(userslabs).pointer
           at == TlsIoBegin(offset) + pointer
           n == Len(mem.objects)
<1>1. /\ phase = "start" /\ phase' = "start" /\ Live /\ tls = <<>> /\ stack' = size /\ AllocateTls(mem)
      /\ UNCHANGED <<modules, offset>>
  BY DEF AllocateExceptionTls, layoutVars
<1>2. /\ TlsLists /\ offset \in Nat /\ HostInv(mem, SpaceEnd(offset)) /\ freetls = <<>>
      /\ Counted(freetls, fulltls, Len(tls)) /\ TlsPages = 0 /\ Len(userslabs) + TlsPages >= UserPages
  BY <1>1 DEF IInv, ThreadInv, TlsLists, LayoutInv, MemInv, Laid, CountInv
<1>3. /\ mem' = MapTlsMemory(mem, offset, pointer)
      /\ userslabs' = SlabAllocate(userslabs).objects
      /\ \/ mem'.outcome = "ok" /\ TakeFrom(<<Fresh>>)
         \/ mem'.outcome # "ok" /\ UNCHANGED <<freetls, fulltls, tls>>
  BY <1>1, <1>2, AllocateTlsCases
<1>4. mem'.outcome = "ok" => /\ Counted(freetls', fulltls', Len(tls')) /\ TlsPages' = 1 /\ tls' # <<>>
                             /\ Len(userslabs') + TlsPages' >= UserPages
  BY <1>2, <1>3, FreshPageCounts
<1>5. mem'.outcome # "ok" => UNCHANGED <<freetls, fulltls, tls>>
  BY <1>3
<1>6. n \in Nat /\ HostPages \in Nat /\ (EachHasBss => n + offset >= HostPages)
  <2>1. n \in 1 .. HostPages /\ HostPages \in Nat
    BY <1>2, ObjectsLeft, MemoryAssumption
  <2>2. EachHasBss => n + offset + TlsPages >= HostPages
    BY <1>1 DEF CountInv
  <2> HIDE DEF n
  <2>3. QED BY <1>2, <2>1, <2>2
<1>7. EachHasBss' = EachHasBss
  BY <1>1 DEF EachHasBss
<1>8. /\ pointer \in Nat /\ at \in TlsIoBegin(offset) .. SpaceEnd(offset) - 1
      /\ TlsIoBegin(offset) \in Nat /\ SpaceEnd(offset) \in Nat /\ offset < TlsIoBegin(offset)
  <2>1. /\ offset < StackBegin(offset) /\ StackBegin(offset) < TlsIoBegin(offset)
        /\ TlsIoBegin(offset) \in Nat /\ SpaceEnd(offset) \in Nat /\ StackBegin(offset) \in Nat
    BY <1>2, SegmentsOf
  <2>2. offset < TlsIoBegin(offset)
    BY <1>2, <2>1
  <2>3. QED BY <1>2, <2>1, <2>2, FreshOf
<1>9. ASSUME EachHasBss
      PROVE  /\ PutsBlock(mem, mem', at, Block(1, "ThreadLocal"))
             /\ Room(mem, at, 1) => mem'.outcome = "ok"
             /\ at \notin Backed(mem)
  <2>1. PICK low \in 0 .. offset : FreeFrom(offset, mem, low)
    BY <1>1, <1>9 DEF IInv, ShapeInv
  <2>2. /\ PutsBlock(mem, mem', at, Block(1, "ThreadLocal"))
        /\ Room(mem, at, 1) => mem'.outcome = "ok"
    BY <1>2, <1>3, <2>1, FirstTlsShape DEF TlsLists
  <2>3. at \notin Keys(mem.blocks)
    <3> HIDE DEF at
    <3>1. \A k \in Keys(mem.blocks) : k \in Nat /\ (k <= low \/ k = SpaceEnd(offset))
      BY <2>1 DEF FreeFrom
    <3>2. ~(at <= low) /\ at # SpaceEnd(offset)
      BY <1>2, <1>8
    <3>3. QED BY <3>1, <3>2
  <2>4. Named(offset, mem) /\ at >= TlsIoBegin(offset)
    BY <1>1, <1>8, <1>9 DEF NameInv, Laid
  <2> HIDE DEF at
  <2>5. at \notin Backed(mem)
    BY <1>2, <2>3, <2>4, NoBlockNoPage
  <2>6. QED BY <2>2, <2>5 DEF at
<1> HIDE DEF at
<1>10. ASSUME EachHasBss, mem'.outcome = "ok" PROVE Len(mem'.objects) + offset' + TlsPages' >= HostPages
  <2>1. Block(1, "ThreadLocal").pages = 1 /\ 1 \in Nat
    BY DEF Block
  <2>2. Len(mem'.objects) = n - 1
    BY <1>9, <1>10, <2>1, PutsCount
  <2> HIDE DEF n
  <2>3. n - 1 + offset + 1 >= HostPages
    BY <1>2, <1>6, <1>10
  <2>4. QED BY <1>1, <1>4, <1>10, <2>2, <2>3
<1>11. CountInv'
  <2>1. CASE mem'.outcome = "ok"
    <3>1. TlsPages' <= 1 /\ Live
      BY <1>1, <1>4, <2>1
    <3>2. QED BY <1>1, <1>4, <1>7, <1>10, <2>1, <3>1 DEF CountInv
  <2>2. CASE mem'.outcome # "ok"
    <3>1. TlsPages' = TlsPages
      BY <1>5, <2>2 DEF TlsPages
    <3>2. ~Live' /\ TlsPages' <= 1 /\ TlsPages' = 0 /\ Counted(freetls', fulltls', Len(tls'))
      BY <1>2, <1>5, <2>2, <3>1 DEF Live
    <3>3. QED BY <1>1, <3>2 DEF CountInv
  <2>3. QED BY <2>1, <2>2
<1>12. ASSUME EachHasBss', Enough' PROVE mem'.outcome = "ok"
  <2>1. SUFFICES ASSUME mem'.outcome # "ok" PROVE FALSE
    OBVIOUS
  <2>2. TlsPage' = TlsPage /\ TlsPage \in Nat
    BY <1>2, <1>5, <2>1, TlsPageOf DEF TlsPage
  <2>3. offset + size + TlsPage + 1 < HostPages
    BY <1>1, <1>12, <2>2 DEF Enough
  <2>4. size \in Nat /\ size > 0
    BY LoaderAssumption, MemoryAssumption
  <2> HIDE DEF n
  <2>5. 1 < n
    BY <1>2, <1>6, <1>7, <1>12, <2>2, <2>3, <2>4
  <2>6. at \in 0 .. SpaceEnd(offset) - 1
    BY <1>8 DEF at
  <2>7. mem.outcome = "ok" /\ 1 < Len(mem.objects) /\ at \notin Backed(mem)
    BY <1>1, <1>7, <1>9, <1>12, <2>5 DEF n, Live
  <2>8. Room(mem, at, 1)
    BY <1>2, <2>6, <2>7, RoomAt
  <2>9. QED BY <1>7, <1>9, <1>12, <2>1, <2>8
<1>13. QED BY <1>11, <1>12 DEF NoFailure, Enough

LEMMA RunningCounts ==
    ASSUME phase' = "run", Live, EachHasBss' = EachHasBss, offset' = offset,
           NEW low, low = StackBegin(offset),
           (Counted(freetls, fulltls, Len(tls)) /\ (tls = <<>> => TlsPages = 0))',
           mem'.outcome = "ok" => Len(userslabs') + TlsPages' >= UserPages,
           EachHasBss => /\ mem'.outcome = "ok" => RunCounts(mem, stack, low)'
                         /\ mem'.outcome # "ok" => ~Enough'
    PROVE  CountInv' /\ NoFailure'
<1>1. CountInv'
  <2>1. low = StackBegin(offset')
    OBVIOUS
  <2>2. QED BY <2>1 DEF CountInv, Live, RunCounts
<1>2. NoFailure'
  BY DEF NoFailure, Enough
<1>3. QED BY <1>1, <1>2

\* The stack is put where nothing is backed, by a free block that has its pages.
LEMMA InitializeThreadCounts ==
    ASSUME IInv, NameInv, CountInv, InitializeThread PROVE CountInv' /\ NoFailure'
<1> DEFINE mapped == MapStackMemory(mem, offset, stack)
           at == StackBegin(offset)
           n == Len(mem.objects)
<1>1. /\ phase = "start" /\ phase' = "run" /\ Live /\ tls # <<>>
      /\ UNCHANGED <<stack, modules, offset>>
      /\ \/ mapped.outcome = "ok" /\ AllocateTls(mapped)
         \/ mapped.outcome # "ok" /\ mem' = mapped /\ UNCHANGED <<userslabs, freetls, fulltls, tls>>
  BY DEF InitializeThread, layoutVars
<1>2. /\ TlsLists /\ offset \in Nat /\ HostInv(mem, SpaceEnd(offset)) /\ stack \in StackSizes
      /\ \A p \in Backed(mem) : p < offset \/ p >= TlsIoBegin(offset)
      /\ Counted(freetls, fulltls, Len(tls)) /\ Len(userslabs) + TlsPages >= UserPages
      /\ TlsPages <= 1 /\ (tls = <<>> => TlsPages = 0)
  BY <1>1 DEF IInv, ThreadInv, LayoutInv, MemInv, Laid, CountInv
<1>3. TlsPages = 1
  <2>1. /\ TlsPages \in Nat /\ Len(freetls) \in Nat /\ Len(fulltls) \in Nat /\ TlsSlotCount \in Nat
        /\ tls \in Seq(Slots)
    BY <1>2, TlsPageOf, LoaderAssumption DEF TlsLists
  <2>2. TlsPages # 0
    <3>1. SUFFICES ASSUME TlsPages = 0 PROVE FALSE
      OBVIOUS
    <3>2. Len(freetls) = 0 /\ Len(fulltls) = 0
      BY <2>1, <3>1 DEF TlsPages
    <3>3. Len(tls) = 0 * TlsSlotCount
      BY <1>2, <3>2 DEF Counted
    <3>4. Len(tls) = 0
      BY <2>1, <3>3
    <3>5. QED BY <1>1, <2>1, <3>4
  <2>3. QED BY <1>2, <2>1, <2>2
<1>4. n \in Nat /\ HostPages \in Nat /\ (EachHasBss => n + offset + 1 >= HostPages)
  <2>1. n \in 1 .. HostPages /\ HostPages \in Nat
    BY <1>2, ObjectsLeft, MemoryAssumption
  <2>2. EachHasBss => n + offset + 1 >= HostPages
    BY <1>1, <1>3 DEF CountInv
  <2>3. QED BY <2>1, <2>2
<1>5. stack \in Nat \ {0} /\ stack <= StackSegmentPages /\ StackSegmentPages \in Nat
  BY <1>2, LoaderAssumption, MemoryAssumption
<1>6. /\ at \in Nat /\ offset < at /\ TlsIoBegin(offset) = at + StackSegmentPages
      /\ TlsIoBegin(offset) < SpaceEnd(offset) /\ SpaceEnd(offset) \in Nat
  BY <1>2, SegmentsOf
<1>7. EachHasBss' = EachHasBss
  BY <1>1 DEF EachHasBss
<1>8. ASSUME EachHasBss
      PROVE  /\ HostInv(mapped, SpaceEnd(offset)) /\ PutsBlock(mem, mapped, at, Block(stack, "Stack"))
             /\ mapped.outcome = "ok" => /\ TlsFrom(offset, mapped, at, userslabs)
                                         /\ mapped.blocks[at].pages = stack
                                         /\ Named(offset, mapped)
             /\ Room(mem, at, stack) => mapped.outcome = "ok"
  <2>1. PICK low \in 0 .. offset :
            TlsFrom(offset, mem, low, userslabs) /\ mem.blocks[low].pages = SpaceEnd(offset) - low - 1
    BY <1>1, <1>8 DEF IInv, ShapeInv
  <2>2. mem.blocks[low].pages \in Int /\ stack <= mem.blocks[low].pages
    BY <1>2, <1>5, <1>6, <2>1
  <2>3. /\ Maps(mem, mapped, at, stack) /\ Backed(mem) \cap Span(at, stack) = {}
        /\ PutsBlock(mem, mapped, at, Block(stack, "Stack"))
        /\ mapped.outcome = "ok" => /\ TlsFrom(offset, mapped, at, userslabs)
                                    /\ mapped.blocks[at].pages = stack
        /\ Room(mem, at, stack) => mapped.outcome = "ok"
    BY <1>2, <2>1, <2>2, StackShape
  <2>4. Named(offset, mem) /\ Filled(mem)
    BY <1>1, <1>8 DEF NameInv, Laid
  <2>5. Names(offset, mapped)
    BY <1>2, <2>3, <2>4, StackNames
  <2>6. HostInv(mapped, SpaceEnd(offset))
    <3>1. at \in Int
      BY <1>6
    <3> HIDE DEF mapped, at
    <3>2. QED BY <1>2, <1>5, <2>3, <3>1, MapsPages
  <2>7. QED BY <2>3, <2>5, <2>6 DEF Names
<1> HIDE DEF mapped, at
<1>9. ASSUME EachHasBss, mapped.outcome = "ok"
      PROVE  RunCounts(mapped, stack, at)
  <2>1. Block(stack, "Stack").pages = stack /\ stack \in Nat
    BY <1>5 DEF Block
  <2>2. Len(mapped.objects) = n - stack
    BY <1>8, <1>9, <2>1, PutsCount
  <2> HIDE DEF n
  <2>3. n - stack + offset + stack + 1 >= HostPages
    BY <1>2, <1>4, <1>5, <1>9
  <2>4. mapped.blocks[at].pages = stack
    BY <1>8, <1>9
  <2>5. QED BY <1>3, <2>2, <2>3, <2>4 DEF RunCounts
<1>10. ASSUME EachHasBss, Enough PROVE mapped.outcome = "ok"
  <2>1. TlsPage \in Nat
    BY <1>2, TlsPageOf
  <2>2. offset + stack + TlsPage + 1 < HostPages
    BY <1>10 DEF Enough
  <2> HIDE DEF n
  <2>3. stack < n
    BY <1>2, <1>4, <1>5, <1>10, <2>1, <2>2
  <2>4. at \notin Backed(mem) /\ at \in 0 .. SpaceEnd(offset) - 1
    <3>1. ~(at < offset) /\ ~(at >= TlsIoBegin(offset))
      BY <1>2, <1>5, <1>6
    <3>2. at \in 0 .. SpaceEnd(offset) - 1
      BY <1>5, <1>6
    <3>3. QED BY <1>2, <3>1, <3>2
  <2>5. mem.outcome = "ok" /\ stack < Len(mem.objects)
    BY <1>1, <2>3 DEF n, Live
  <2>6. Room(mem, at, stack)
    BY <1>2, <2>4, <2>5, RoomAt
  <2>7. QED BY <1>8, <1>10, <2>6
<1>11. CASE mapped.outcome # "ok" /\ mem' = mapped /\ UNCHANGED <<userslabs, freetls, fulltls, tls>>
  <2>1. Enough' = Enough /\ ~Live'
    BY <1>1, <1>11 DEF Enough, TlsPage, Live
  <2>2. CountInv'
    BY <1>1, <1>11, <2>1, ThreadCounts DEF CountInv
  <2>3. QED BY <1>7, <1>10, <1>11, <2>1, <2>2 DEF NoFailure, Enough
<1>12. CASE mapped.outcome = "ok" /\ AllocateTls(mapped)
  <2>1. /\ Counted(freetls, fulltls, Len(tls))' /\ (tls = <<>> => TlsPages = 0)'
        /\ mem'.outcome = "ok" => Len(userslabs') + TlsPages' >= UserPages
    BY <1>1, <1>2, <1>12, AllocateTlsCounted
  <2>2. PICK low : low = at
    OBVIOUS
  <2>3. ASSUME EachHasBss
        PROVE  /\ mem'.outcome = "ok" => RunCounts(mem, stack, low)'
               /\ mem'.outcome # "ok" => ~Enough'
    <3>1. /\ TlsFrom(offset, mapped, low, userslabs) /\ mapped.blocks[low].pages \in Nat
          /\ HostInv(mapped, SpaceEnd(offset)) /\ Named(offset, mapped)
      BY <1>5, <1>8, <1>12, <2>2, <2>3
    <3>2. RunCounts(mapped, stack, low) /\ stack \in Nat /\ offset' = offset /\ stack' = stack
      BY <1>1, <1>5, <1>9, <1>12, <2>2, <2>3
    <3>3. QED BY <1>2, <1>12, <3>1, <3>2, AllocateTlsCounts
  <2>4. low = StackBegin(offset)
    BY <2>2 DEF at
  <2>5. QED BY <1>1, <1>7, <2>1, <2>3, <2>4, RunningCounts
<1>13. QED BY <1>1, <1>11, <1>12

\* A slot for a further thread.
LEMMA ThreadTlsCounts ==
    ASSUME IInv, NameInv, CountInv, AllocateThreadTls PROVE CountInv' /\ NoFailure'
<1>0. PICK at : at = StackBegin(offset)
  OBVIOUS
<1>1. /\ phase = "run" /\ phase' = "run" /\ Live /\ AllocateTls(mem) /\ UNCHANGED <<stack, modules, offset>>
  BY DEF AllocateThreadTls, layoutVars
<1>2. /\ TlsLists /\ offset \in Nat /\ HostInv(mem, SpaceEnd(offset)) /\ stack \in Nat
      /\ Counted(freetls, fulltls, Len(tls)) /\ Len(userslabs) + TlsPages >= UserPages
      /\ (tls = <<>> => TlsPages = 0)
  <2>1. stack \in Nat
    BY <1>1, LoaderAssumption, MemoryAssumption DEF IInv, ThreadInv
  <2>2. QED BY <1>1, <2>1 DEF IInv, ThreadInv, LayoutInv, MemInv, Laid, CountInv
<1>3. /\ Counted(freetls, fulltls, Len(tls))' /\ (tls = <<>> => TlsPages = 0)'
      /\ mem'.outcome = "ok" => Len(userslabs') + TlsPages' >= UserPages
  BY <1>1, <1>2, AllocateTlsCounted
<1>4. EachHasBss' = EachHasBss
  BY <1>1 DEF EachHasBss
<1>5. ASSUME EachHasBss
      PROVE  /\ mem'.outcome = "ok" => RunCounts(mem, stack, at)'
             /\ mem'.outcome # "ok" => ~Enough'
  <2>1. TlsFrom(offset, mem, at, userslabs) /\ mem.blocks[at].pages \in Nat /\ RunCounts(mem, stack, at)
    BY <1>0, <1>1, <1>5 DEF IInv, ShapeInv, CountInv, RunCounts
  <2>2. mem.outcome = "ok" /\ Named(offset, mem)
    BY <1>1, <1>5 DEF NameInv, Laid, Live
  <2>3. QED BY <1>1, <1>2, <2>1, <2>2, AllocateTlsCounts
<1>6. QED BY <1>0, <1>1, <1>3, <1>4, <1>5, RunningCounts

LEMMA CountsKept == ASSUME IInv, NameInv, PlacedInv, CountInv, NoFailure, [Next]_vars PROVE CountInv' /\ NoFailure'
<1>1. CASE UNCHANGED vars
  <2>1. /\ UNCHANGED <<phase, index, modules, procimage, offset, mem, stack>>
        /\ UNCHANGED <<userslabs, freetls, fulltls, tls>>
    BY <1>1 DEF vars
  <2>2. NoFailure'
    BY <2>1 DEF NoFailure, EachHasBss, TlsPage
  <2>3. CountInv'
    BY <2>1, ThreadCounts DEF CountInv, EachHasBss, Live, Reached, PastSections, Current
  <2>4. QED BY <2>2, <2>3
<1>2. CASE \E m \in Modules : GetCodeSet(m)
  BY <1>2, GetCodeSetCounts
<1>3. CASE \E size \in StackSizes : AllocateExceptionTls(size)
  BY <1>3, ExceptionTlsCounts
<1>4. QED BY <1>1, <1>2, <1>3, LoadMemoryCounts, SetSectionCounts, ReturnCounts, EndOfSectionsCounts,
             InitializeThreadCounts, ThreadTlsCounts DEF Next, Load, StartProcess

LEMMA InitCounts == ASSUME Init PROVE CountInv /\ NoFailure
<1>1. /\ phase = "layout" /\ mem.outcome = "ok" /\ freetls = <<>> /\ fulltls = <<>> /\ tls = <<>>
      /\ userslabs = SlabObjects(UserBase, UserPages)
  BY DEF Init, NoMemory
<1>2. Len(<<>>) = 0 /\ UserPages \in Nat /\ TlsSlotCount \in Nat
  BY LoaderAssumption
<1>3. TlsPages = 0 /\ Counted(freetls, fulltls, Len(tls))
  BY <1>1, <1>2 DEF TlsPages, Counted
<1>4. Len(userslabs) = UserPages
  <2>1. UserBase \in Int
    BY LoaderAssumption
  <2>2. userslabs = [i \in 1 .. UserPages |-> UserBase + UserPages - i]
    BY <1>1 DEF SlabObjects
  <2>3. userslabs \in Seq(Int)
    BY <1>2, <2>1, <2>2
  <2>4. QED BY <1>2, <2>2, <2>3
<1>5. CountInv
  BY <1>1, <1>2, <1>3, <1>4 DEF CountInv
<1>6. QED BY <1>1, <1>5 DEF NoFailure

LEMMA CountsHold == Spec => [](CountInv /\ NoFailure)
<1>1. Init => CountInv /\ NoFailure
  BY InitCounts
<1>2. IInv /\ NameInv /\ PlacedInv /\ CountInv /\ NoFailure /\ [Next]_vars => CountInv' /\ NoFailure'
  BY CountsKept
<1>3. QED BY <1>1, <1>2, Invariance, NamesHold, PlacesHold, PTL DEF Spec

\* As long as the image, the stack and the TLS pages leave one page of DRAM, userslabs
\* has pages and the TLS pages after the first are no more than those of the stack,
\* nothing is undefined and no exception is thrown while a process is loaded and its
\* threads get their TLS, with .bss in every module but the last.
THEOREM NothingFails == Spec => []NoFailure
BY CountsHold, PTL

-----------------------------------------------------------------------------
(* The sum of the pages. The community modules work it out by a recursive     *)
(* function over the sets of keys that takes them in an order of its own.     *)

\* Induction with the statement as a set: one that has 0 and with every number the
\* next has them all.
LEMMA Induction ==
    ASSUME NEW T, 0 \in T, \A n \in Nat : n \in T => n + 1 \in T
    PROVE  \A n \in Nat : n \in T
<1> DEFINE rest == {n \in Nat : n \notin T}
<1>1. SUFFICES ASSUME rest # {} PROVE FALSE
  OBVIOUS
<1>2. PICK s \in rest : \A t \in rest : s <= t
  BY <1>1, Smallest
<1>3. s \in Nat \ {0} /\ s - 1 \in Nat
  OBVIOUS
<1>4. s - 1 \notin rest
  BY <1>2, <1>3
<1>5. s - 1 \in T
  BY <1>3, <1>4
<1>6. (s - 1) + 1 \in T
  BY <1>3, <1>5
<1>7. (s - 1) + 1 = s
  BY <1>3
<1>8. QED BY <1>6, <1>7

\* The sum of the blocks' pages as the community modules work it out: sum[s] is that of
\* the keys s, one key after the other.
Total(b) == MapThenSumSet(LAMBDA k : b[k].pages, DOMAIN b)
AnyKey(s) == CHOOSE k \in s : TRUE
Summed(b, sum, s) == IF s = {} THEN 0 ELSE b[AnyKey(s)].pages + sum[s \ {AnyKey(s)}]
Sums(b, sum) == sum = [s \in SUBSET DOMAIN b |-> Summed(b, sum, s)]
Counts(b) == IsFiniteSet(DOMAIN b) /\ \A k \in DOMAIN b : b[k].pages \in Int

LEMMA TotalIs ==
    ASSUME NEW b, \E sum : Sums(b, sum)
    PROVE  \E sum : Sums(b, sum) /\ Total(b) = sum[DOMAIN b]
<1> DEFINE sum == CHOOSE f : f = [s \in SUBSET DOMAIN b |->
                        IF s = {} THEN 0 ELSE b[CHOOSE k \in s : TRUE].pages + f[s \ {CHOOSE k \in s : TRUE}]]
<1>1. Sums(b, sum)
  BY DEF Sums, Summed, AnyKey
<1>2. Total(b) = sum[DOMAIN b]
  BY DEF Total, MapThenSumSet, MapThenFoldSet
<1>3. QED BY <1>1, <1>2

LEMMA SumExists ==
    ASSUME NEW b, Counts(b)
    PROVE  \E sum : Sums(b, sum)
<1> DEFINE D == SUBSET DOMAIN b
           Right(sum, n) ==
               /\ sum = [s \in D |-> sum[s]]
               /\ \A s \in D : Cardinality(s) <= n => sum[s] = Summed(b, sum, s)
           T == {n \in Nat : \E sum : Right(sum, n)}
<1>1. \A s \in D : IsFiniteSet(s) /\ Cardinality(s) \in Nat
  BY FS_Subset, FS_CardinalityType DEF Counts
<1>2. \A s \in D : s # {} => AnyKey(s) \in s
  BY DEF AnyKey
<1>3. ASSUME NEW s \in D, s # {}
      PROVE  s \ {AnyKey(s)} \in D /\ Cardinality(s \ {AnyKey(s)}) = Cardinality(s) - 1
  BY <1>1, <1>2, <1>3, FS_RemoveElement
<1>4. 0 \in T
  <2> DEFINE none == [s \in D |-> 0]
  <2>1. ASSUME NEW s \in D, Cardinality(s) <= 0 PROVE s = {}
    BY <1>1, <2>1, FS_EmptySet
  <2>2. Right(none, 0)
    BY <2>1 DEF Summed
  <2>3. QED BY <2>2
<1>5. ASSUME NEW n \in Nat, n \in T PROVE n + 1 \in T
  <2>1. PICK sum : Right(sum, n)
    BY <1>5
  <2> DEFINE next == [s \in D |-> IF Cardinality(s) <= n THEN sum[s] ELSE Summed(b, sum, s)]
  <2>2. next = [s \in D |-> next[s]]
    OBVIOUS
  <2>3. ASSUME NEW s \in D, Cardinality(s) <= n + 1 PROVE next[s] = Summed(b, next, s)
    <3>1. next[s] = Summed(b, sum, s)
      BY <2>1
    <3>2. ASSUME s # {} PROVE next[s \ {AnyKey(s)}] = sum[s \ {AnyKey(s)}]
      <4>1. Cardinality(s \ {AnyKey(s)}) <= n /\ s \ {AnyKey(s)} \in D
        BY <1>1, <1>3, <2>3, <3>2
      <4>2. QED BY <4>1
    <3> HIDE DEF next
    <3>3. QED BY <3>1, <3>2 DEF Summed
  <2> HIDE DEF next
  <2>4. Right(next, n + 1)
    BY <2>2, <2>3
  <2>5. \E f : Right(f, n + 1)
    BY <2>4
  <2> HIDE DEF Right
  <2>6. QED BY <2>5
<1>6. Cardinality(DOMAIN b) \in Nat /\ \A s \in D : Cardinality(s) <= Cardinality(DOMAIN b)
  BY FS_CardinalityType, FS_Subset DEF Counts
<1>7. \A n \in Nat : n \in T
  <2> HIDE DEF T
  <2>1. QED BY <1>4, <1>5, Induction
<1>8. PICK sum : Right(sum, Cardinality(DOMAIN b))
  BY <1>6, <1>7
<1>9. Sums(b, sum)
  BY <1>6, <1>8 DEF Sums
<1>10. QED BY <1>9

\* Whichever key is taken first.
LEMMA SumOf ==
    ASSUME NEW b, Counts(b), NEW sum, Sums(b, sum)
    PROVE  /\ sum[{}] = 0
           /\ \A s \in SUBSET DOMAIN b :
                 /\ sum[s] \in Int
                 /\ \A k \in s : sum[s] = b[k].pages + sum[s \ {k}]
<1> DEFINE D == SUBSET DOMAIN b
           Right(s) == sum[s] \in Int /\ \A k \in s : sum[s] = b[k].pages + sum[s \ {k}]
           T == {n \in Nat : \A s \in D : Cardinality(s) <= n => Right(s)}
<1>1. \A s \in D : IsFiniteSet(s) /\ Cardinality(s) \in Nat
  BY FS_Subset, FS_CardinalityType DEF Counts
<1>2. ASSUME NEW s \in D, NEW k \in s
      PROVE  s \ {k} \in D /\ Cardinality(s \ {k}) = Cardinality(s) - 1
  BY <1>1, FS_RemoveElement
<1>3. sum[{}] = 0 /\ \A s \in D : s # {} => sum[s] = b[AnyKey(s)].pages + sum[s \ {AnyKey(s)}]
  <2>1. \A s \in D : sum[s] = Summed(b, sum, s)
    BY DEF Sums
  <2>2. QED BY <2>1 DEF Summed
<1>4. \A s \in D : s # {} => AnyKey(s) \in s
  BY DEF AnyKey
<1>5. \A k \in DOMAIN b : b[k].pages \in Int
  BY DEF Counts
<1>6. 0 \in T
  <2>1. \A s \in D : Cardinality(s) <= 0 => s = {}
    BY <1>1, FS_EmptySet
  <2>2. Right({})
    BY <1>3
  <2> HIDE DEF Right
  <2>3. QED BY <2>1, <2>2
<1>7. ASSUME NEW n \in Nat, n \in T PROVE n + 1 \in T
  <2> SUFFICES ASSUME NEW s \in D, Cardinality(s) <= n + 1 PROVE Right(s)
    OBVIOUS
  <2>1. ASSUME NEW k \in s PROVE Right(s \ {k}) /\ s \ {k} \in D
    <3>1. Cardinality(s \ {k}) <= n /\ s \ {k} \in D
      BY <1>1, <1>2
    <3>2. QED BY <1>7, <3>1
  <2>2. CASE s = {}
    BY <1>3, <2>2
  <2>3. CASE s # {}
    <3> DEFINE a == AnyKey(s)
    <3>1. a \in s /\ a \in DOMAIN b /\ b[a].pages \in Int /\ sum[s] = b[a].pages + sum[s \ {a}]
      BY <1>3, <1>4, <1>5, <2>3
    <3> HIDE DEF a
    <3>2. sum[s \ {a}] \in Int
      BY <2>1, <3>1
    <3>3. ASSUME NEW k \in s, k # a PROVE sum[s] = b[k].pages + sum[s \ {k}]
      <4>1. sum[s \ {a}] = b[k].pages + sum[(s \ {a}) \ {k}]
        BY <2>1, <3>1, <3>3
      <4>2. sum[s \ {k}] = b[a].pages + sum[(s \ {k}) \ {a}]
        BY <2>1, <3>1, <3>3
      <4>3. (s \ {a}) \ {k} = (s \ {k}) \ {a}
        OBVIOUS
      <4>4. sum[(s \ {a}) \ {k}] \in Int /\ b[k].pages \in Int
        <5> DEFINE c == s \ {a}
        <5>1. c \in D /\ Cardinality(c) = Cardinality(s) - 1 /\ k \in c
          BY <1>2, <3>1, <3>3
        <5> HIDE DEF c
        <5>2. c \ {k} \in D /\ Cardinality(c \ {k}) = Cardinality(c) - 1
          BY <1>2, <5>1
        <5>3. Cardinality(c \ {k}) <= n
          BY <1>1, <5>1, <5>2
        <5>4. Right(c \ {k})
          BY <1>7, <5>2, <5>3
        <5>5. k \in DOMAIN b
          BY <3>3
        <5>6. QED BY <1>5, <5>4, <5>5 DEF c
      <4> DEFINE rest == (s \ {a}) \ {k}
      <4>5. /\ sum[s \ {a}] = b[k].pages + sum[rest] /\ sum[s \ {k}] = b[a].pages + sum[rest]
            /\ sum[rest] \in Int
        BY <4>1, <4>2, <4>3, <4>4
      <4> HIDE DEF rest
      <4>6. b[a].pages + (b[k].pages + sum[rest]) = b[k].pages + (b[a].pages + sum[rest])
        BY <3>1, <4>4, <4>5
      <4>7. QED BY <3>1, <4>5, <4>6
    <3>4. sum[s] \in Int
      BY <3>1, <3>2
    <3>5. \A k \in s : sum[s] = b[k].pages + sum[s \ {k}]
      BY <3>1, <3>3
    <3>6. QED BY <3>4, <3>5
  <2>4. QED BY <2>2, <2>3
<1>8. \A n \in Nat : n \in T
  <2> HIDE DEF T
  <2>1. QED BY <1>6, <1>7, Induction
<1>9. ASSUME NEW s \in D PROVE Right(s)
  BY <1>1, <1>8
<1>10. QED BY <1>3, <1>9

LEMMA SumTake ==
    ASSUME NEW b, Counts(b), NEW sum, Sums(b, sum), NEW s, s \subseteq DOMAIN b, NEW k \in s
    PROVE  sum[s] = b[k].pages + sum[s \ {k}]
<1>1. s \in SUBSET DOMAIN b
  OBVIOUS
<1>2. QED BY <1>1, SumOf

\* Two maps that count the same pages for a set of keys.
LEMMA SumSame ==
    ASSUME NEW b, Counts(b), NEW sum, Sums(b, sum), NEW left, Counts(left), NEW other, Sums(left, other),
           NEW S, S \subseteq DOMAIN b, S \subseteq DOMAIN left, \A k \in S : left[k].pages = b[k].pages
    PROVE  other[S] = sum[S]
<1> DEFINE T == {n \in Nat : \A s \in SUBSET S : Cardinality(s) <= n => other[s] = sum[s]}
<1>1. \A s \in SUBSET S : IsFiniteSet(s) /\ Cardinality(s) \in Nat
  BY FS_Subset, FS_CardinalityType DEF Counts
<1>2. 0 \in T
  <2>1. \A s \in SUBSET S : Cardinality(s) <= 0 => s = {}
    BY <1>1, FS_EmptySet
  <2>2. other[{}] = sum[{}]
    BY SumOf
  <2>3. QED BY <2>1, <2>2
<1>3. ASSUME NEW n \in Nat, n \in T PROVE n + 1 \in T
  <2> SUFFICES ASSUME NEW s \in SUBSET S, Cardinality(s) <= n + 1 PROVE other[s] = sum[s]
    OBVIOUS
  <2>1. CASE s = {}
    BY <2>1, SumOf
  <2>2. CASE s # {}
    <3>1. PICK k \in s : TRUE
      BY <2>2
    <3>2. s \ {k} \in SUBSET S /\ Cardinality(s \ {k}) <= n
      BY <1>1, FS_RemoveElement
    <3>3. other[s \ {k}] = sum[s \ {k}]
      BY <1>3, <3>2
    <3>4. /\ s \in SUBSET DOMAIN b /\ s \in SUBSET DOMAIN left
          /\ \A t \in SUBSET DOMAIN b : \A j \in t : sum[t] = b[j].pages + sum[t \ {j}]
          /\ \A t \in SUBSET DOMAIN left : \A j \in t : other[t] = left[j].pages + other[t \ {j}]
      BY SumOf
    <3>5. QED BY <3>3, <3>4
  <2>3. QED BY <2>1, <2>2
<1>4. \A n \in Nat : n \in T
  <2> HIDE DEF T
  <2>1. QED BY <1>2, <1>3, Induction
<1>5. QED BY <1>1, <1>4

\* A map in which the pages of one block are divided between it and a new one has as
\* many as before; so has one that counts the same for every key.
LEMMA TotalStays ==
    ASSUME NEW b, Counts(b), NEW left, NEW low \in DOMAIN b, NEW new, new \notin DOMAIN b,
           DOMAIN left = DOMAIN b \cup {new}, left[low].pages \in Int, left[new].pages \in Int,
           left[low].pages + left[new].pages = b[low].pages,
           \A k \in DOMAIN b \ {low} : left[k].pages = b[k].pages
    PROVE  Total(left) = Total(b) /\ Counts(left)
<1>1. Counts(left)
  <2>1. IsFiniteSet(DOMAIN left)
    BY FS_AddElement DEF Counts
  <2>2. QED BY <2>1 DEF Counts
<1>2. PICK sum : Sums(b, sum) /\ Total(b) = sum[DOMAIN b]
  BY SumExists, TotalIs
<1>3. PICK other : Sums(left, other) /\ Total(left) = other[DOMAIN left]
  BY <1>1, SumExists, TotalIs
<1> DEFINE S == DOMAIN b \ {low}
<1>4. other[S] = sum[S]
  BY <1>1, <1>2, <1>3, SumSame
<1>5. sum[DOMAIN b] = b[low].pages + sum[S] /\ sum[S] \in Int /\ b[low].pages \in Int
  <2>1. /\ \A t \in SUBSET DOMAIN b : sum[t] \in Int
        /\ \A t \in SUBSET DOMAIN b : \A j \in t : sum[t] = b[j].pages + sum[t \ {j}]
    BY <1>2, SumOf
  <2>2. DOMAIN b \in SUBSET DOMAIN b /\ S \in SUBSET DOMAIN b
    OBVIOUS
  <2>3. QED BY <2>1, <2>2 DEF Counts
<1>6. other[DOMAIN left] = left[new].pages + (left[low].pages + other[S])
  <2>1. other[DOMAIN left] = left[new].pages + other[(DOMAIN left) \ {new}]
    BY <1>1, <1>3, SumTake
  <2>2. (DOMAIN left) \ {new} = DOMAIN b
    OBVIOUS
  <2>3. other[DOMAIN b] = left[low].pages + other[S]
    BY <1>1, <1>3, SumTake
  <2>4. QED BY <2>1, <2>2, <2>3
<1> HIDE DEF S
<1>7. QED BY <1>1, <1>2, <1>3, <1>4, <1>5, <1>6

LEMMA TotalSame ==
    ASSUME NEW b, Counts(b), NEW left, DOMAIN left = DOMAIN b, \A k \in DOMAIN b : left[k].pages = b[k].pages
    PROVE  Total(left) = Total(b) /\ Counts(left)
<1>1. Counts(left)
  BY DEF Counts
<1>2. PICK sum : Sums(b, sum) /\ Total(b) = sum[DOMAIN b]
  BY SumExists, TotalIs
<1>3. PICK other : Sums(left, other) /\ Total(left) = other[DOMAIN left]
  BY <1>1, SumExists, TotalIs
<1>4. QED BY <1>1, <1>2, <1>3, SumSame

-----------------------------------------------------------------------------
(* The pages of all blocks.                                                 *)

AddUp(b, end) ==
    /\ {0, end} \subseteq Keys(b)
    /\ \A k \in Keys(b) : k \in 0 .. end /\ DOMAIN b[k] = BlockFields /\ b[k].pages \in Int
    /\ Total(b) = end

\* Some block has given pages to a new one.
Divides(b, left, new) ==
    /\ new \notin Keys(b) /\ Keys(left) = Keys(b) \cup {new}
    /\ \A k \in Keys(left) : DOMAIN left[k] = BlockFields /\ left[k].pages \in Int
    /\ \E low \in Keys(b) :
          /\ left[low].pages + left[new].pages = b[low].pages
          /\ \A k \in Keys(b) \ {low} : left[k].pages = b[k].pages

LEMMA AddUpCounts ==
    ASSUME NEW b, NEW end \in Nat, AddUp(b, end)
    PROVE  Counts(b)
<1>1. DOMAIN b \in SUBSET (0 .. end) /\ \A k \in DOMAIN b : b[k].pages \in Int
  BY DEF AddUp, Keys
<1>2. IsFiniteSet(0 .. end)
  BY FS_Interval
<1>3. QED BY <1>1, <1>2, FS_Subset DEF Counts

LEMMA DividesAddUp ==
    ASSUME NEW b, NEW end \in Nat, AddUp(b, end), NEW left, NEW new \in 0 .. end, Divides(b, left, new)
    PROVE  AddUp(left, end)
<1>1. Counts(b)
  BY AddUpCounts
<1>2. PICK low \in Keys(b) :
          /\ left[low].pages + left[new].pages = b[low].pages
          /\ \A k \in Keys(b) \ {low} : left[k].pages = b[k].pages
  BY DEF Divides
<1>3. Total(left) = Total(b)
  BY <1>1, <1>2, TotalStays DEF Divides, Keys
<1>4. QED BY <1>3 DEF AddUp, Divides

\* One that counts the same pages for the same keys.
LEMMA SameAddUp ==
    ASSUME NEW b, NEW end \in Nat, AddUp(b, end), NEW left, Keys(left) = Keys(b),
           \A k \in Keys(b) : DOMAIN left[k] = BlockFields /\ left[k].pages = b[k].pages
    PROVE  AddUp(left, end)
<1>1. Total(left) = Total(b)
  BY AddUpCounts, TotalSame DEF Keys
<1>2. QED BY <1>1 DEF AddUp

\* The pages are what the donor has left, at its place or behind the new block.
LEMMA WithDivides ==
    ASSUME NEW b, NEW end \in Nat, AddUp(b, end), NEW low \in Keys(b), NEW key, key \notin Keys(b),
           NEW new, DOMAIN new = BlockFields, new.pages \in Int
    PROVE  /\ Divides(b, With(With(b, low, Shrunk(b[low], new.pages)), key, new), key)
           /\ Divides(b, With(With(b, key, Shrunk(b[low], new.pages)), low, new), key)
<1> DEFINE rest == Shrunk(b[low], new.pages)
           c == With(b, low, rest)
           left == With(c, key, new)
           d == With(b, key, rest)
           other == With(d, low, new)
<1>1. /\ DOMAIN rest = BlockFields /\ rest.pages = b[low].pages - new.pages /\ b[low].pages \in Int
      /\ \A k \in Keys(b) : DOMAIN b[k] = BlockFields /\ b[k].pages \in Int
  BY ShrunkIs DEF AddUp
<1> HIDE DEF rest
<1>2. Keys(c) = Keys(b) \cup {low} /\ c[low] = rest /\ \A k \in Keys(b) : k # low => c[k] = b[k]
  BY WithIs
<1>3. Keys(d) = Keys(b) \cup {key} /\ d[key] = rest /\ \A k \in Keys(b) : k # key => d[k] = b[k]
  BY WithIs
<1> HIDE DEF c, d
<1>4. Keys(left) = Keys(c) \cup {key} /\ left[key] = new /\ \A k \in Keys(c) : k # key => left[k] = c[k]
  BY WithIs
<1>5. Keys(other) = Keys(d) \cup {low} /\ other[low] = new /\ \A k \in Keys(d) : k # low => other[k] = d[k]
  BY WithIs
<1> HIDE DEF left, other
<1>6. rest.pages + new.pages = b[low].pages /\ new.pages + rest.pages = b[low].pages /\ rest.pages \in Int
  BY <1>1
<1>7. Divides(b, left, key)
  <2>1. left[low] = rest /\ \A k \in Keys(b) \ {low} : left[k] = b[k]
    BY <1>2, <1>4
  <2>2. Keys(left) = Keys(b) \cup {key}
    BY <1>2, <1>4
  <2>3. \A k \in Keys(left) : DOMAIN left[k] = BlockFields /\ left[k].pages \in Int
    BY <1>1, <1>4, <1>6, <2>1, <2>2
  <2>4. QED BY <1>4, <1>6, <2>1, <2>2, <2>3 DEF Divides
<1>8. Divides(b, other, key)
  <2>1. other[key] = rest /\ \A k \in Keys(b) \ {low} : other[k] = b[k]
    BY <1>3, <1>5
  <2>2. Keys(other) = Keys(b) \cup {key}
    BY <1>3, <1>5
  <2>3. \A k \in Keys(other) : DOMAIN other[k] = BlockFields /\ other[k].pages \in Int
    BY <1>1, <1>5, <1>6, <2>1, <2>2
  <2>4. QED BY <1>5, <1>6, <2>1, <2>2, <2>3 DEF Divides
<1>9. QED BY <1>7, <1>8 DEF left, other, c, d, rest

\* Where the key of the new block is: at the address, or behind the block that was
\* there, or behind an allocated block that is the last before it.
UpTo(b, at, end) == \A k \in Keys(b) : k <= at \/ k = end
Landed(m, at, pages, end, key) ==
    \/ key = at
    \/ at \in Keys(m.blocks) /\ UpTo(m.blocks, at, end) /\ key = at + pages
    \/ \E low \in Keys(m.blocks) :
          low < at /\ key = low + pages /\ IsAllocated(m, m.blocks, low) /\ UpTo(m.blocks, low, end)

\* If no block begins within the pages, nor where they begin but for a page that is
\* backed or the last block, Map conserves the pages.
LEMMA MapBlockDivides ==
    ASSUME NEW m, NEW end \in Nat, HostInv(m, end), AddUp(m.blocks, end), NEW at \in Nat,
           NEW new, DOMAIN new = BlockFields, new.pages \in Nat \ {0}, at + new.pages <= end,
           \A k \in Keys(m.blocks) : k <= at \/ at + new.pages <= k,
           at \in Keys(m.blocks) => at \in Backed(m) \/ (at + new.pages < end /\ UpTo(m.blocks, at, end))
    PROVE  LET left == MapBlock(m, at, new)
           IN  \/ left.blocks = m.blocks
               \/ \E key \in 0 .. end : Landed(m, at, new.pages, end, key) /\ Divides(m.blocks, left.blocks, key)
<1> DEFINE b == m.blocks
           pages == new.pages
           left == MapBlock(m, at, new)
           Good(c) == c = b \/ \E key \in 0 .. end : Landed(m, at, pages, end, key) /\ Divides(b, c, key)
<1>1. /\ 0 \in Keys(b) /\ end \in Keys(b) /\ \A k \in Keys(b) : k \in Nat /\ k <= end
      /\ at < end /\ at + pages \in Nat /\ pages \in Nat \ {0} /\ EndKey(b) = end
  <2>1. 0 \in Keys(b) /\ end \in Keys(b) /\ \A k \in Keys(b) : k \in Nat /\ k <= end
    BY DEF AddUp
  <2>2. QED BY <2>1, EndKeyIs
<1>2. \A blocks, ended : CanAllocate(m, at, pages) => BackBlock(m, blocks, at, pages, ended).blocks = blocks
  <2>1. at \in Int
    OBVIOUS
  <2>2. QED BY <2>1, BackBlockOf
<1>3. CASE m.outcome # "ok"
  BY <1>3 DEF MapBlock
<1>4. CASE m.outcome = "ok" /\ ~CanAllocate(m, at, pages)
  <2>1. left = Fail(m, "exception")
    BY <1>4 DEF MapBlock
  <2>2. QED BY <2>1, FailOf DEF HostInv, Outcomes
<1>5. CASE m.outcome = "ok" /\ CanAllocate(m, at, pages)
  <2>1. at \notin Backed(m)
    <3>1. AllocInv(m) /\ at \in Int
      BY DEF HostInv
    <3>2. QED BY <1>1, <1>5, <3>1, NotAgain
  <2> DEFINE g == LowerBound(b, at)
             f == Before(b, at)
  <2>2. CASE at \in Keys(b)
    <3>1. at + pages < end /\ UpTo(b, at, end)
      BY <2>1, <2>2
    <3>2. LowerBound(b, at) = at
      BY <1>1, <2>2, LowerBoundIs
    <3>3. LowerBound(b, at + pages) = end
      <4>1. \A k \in Keys(b) : at + pages <= k => end <= k
        BY <1>1, <3>1 DEF UpTo
      <4>2. QED BY <1>1, <4>1, LowerBoundIs
    <3>4. ~IsAllocated(m, b, at)
      <4>1. CanAllocate(m, at, b[at].pages)
        BY <1>1, <1>5 DEF CanAllocate
      <4>2. QED BY <4>1, NotAllocated
    <3> DEFINE c == With(With(b, at + pages, Shrunk(b[at], pages)), at, new)
    <3>5. SplitBlocks(m, at, new, at, end) = c
      BY <1>1, <3>1, <3>4 DEF SplitBlocks
    <3>6. at + pages \notin Keys(b)
      BY <1>1, <3>1 DEF UpTo
    <3>7. Divides(b, c, at + pages)
      BY <1>1, <2>2, <3>6, WithDivides
    <3> HIDE DEF c
    <3>8. left = BackBlock(m, c, at, pages, at)
      BY <1>1, <1>5, <3>2, <3>3, <3>5 DEF MapBlock
    <3>9. left.blocks = c
      BY <1>2, <1>5, <3>8
    <3>10. at + pages \in 0 .. end /\ Landed(m, at, pages, end, at + pages)
      BY <1>1, <2>2, <3>1 DEF Landed
    <3>11. QED BY <3>7, <3>9, <3>10
  <2>3. CASE at \notin Keys(b)
    <3>1. f \in Keys(b) /\ f < at /\ \A k \in Keys(b) : k <= f \/ at < k
      <4>1. 0 < at
        BY <1>1, <2>3
      <4>2. PICK low \in {k \in Keys(b) : k < at} : \A k \in {j \in Keys(b) : j < at} : k <= low
        <5>1. {k \in Keys(b) : k < at} \subseteq Nat /\ 0 \in {k \in Keys(b) : k < at}
          BY <1>1, <4>1
        <5>2. \A k \in {j \in Keys(b) : j < at} : k <= at
          BY <1>1
        <5>3. QED BY <5>1, <5>2, Greatest
      <4>3. f = low
        BY <1>1, <4>2, BeforeIs
      <4>4. QED BY <1>1, <2>3, <4>2, <4>3
    <3>2. g \in Keys(b) /\ at + pages <= g /\ \A k \in Keys(b) : k <= f \/ g <= k
      <4>1. PICK key \in {k \in Keys(b) : at <= k} : \A k \in {j \in Keys(b) : at <= j} : key <= k
        <5>1. at <= end
          BY <1>1
        <5>2. {k \in Keys(b) : at <= k} \subseteq Nat /\ end \in {k \in Keys(b) : at <= k}
          BY <1>1, <5>1
        <5>3. QED BY <5>2, Smallest
      <4>2. g = key
        BY <1>1, <4>1, LowerBoundIs
      <4>3. QED BY <1>1, <2>3, <3>1, <4>1, <4>2
    <3> HIDE DEF f, g
    <3>3. f \in Nat /\ g \in Nat /\ g <= end /\ f + pages < at + pages /\ f + pages \in Nat
      BY <1>1, <3>1, <3>2
    <3>4. LowerBound(b, at + pages) = g
      <4>1. \A k \in Keys(b) : at + pages <= k => g <= k
        BY <1>1, <3>1, <3>2, <3>3
      <4>2. QED BY <1>1, <3>2, <4>1, LowerBoundIs
    <3>5. Before(b, g) = f
      <4>1. \A k \in Keys(b) : k < g => k <= f
        BY <1>1, <3>2, <3>3
      <4>2. f < g
        BY <1>1, <3>1, <3>2, <3>3
      <4>3. QED BY <1>1, <3>1, <3>3, <4>1, <4>2, BeforeIs
    <3> DEFINE shorter == With(With(b, f, Shrunk(b[f], pages)), at, new)
               behind == With(With(b, f, Shrunk(b[f], pages)), f + pages, new)
               taken == With(With(b, g, Shrunk(b[g], pages)), at, new)
    <3>6. Divides(b, shorter, at) /\ Divides(b, taken, at)
      BY <1>1, <2>3, <3>1, <3>2, WithDivides
    <3>7. at \in 0 .. end /\ Landed(m, at, pages, end, at)
      BY <1>1 DEF Landed
    <3>8. Good(shorter) /\ Good(taken)
      <4> HIDE DEF shorter, taken
      <4>1. QED BY <3>6, <3>7
    <3>9. CASE g = end
      <4>1. UpTo(b, f, end)
        BY <1>1, <3>2, <3>3, <3>9 DEF UpTo
      <4>2. f + pages < end /\ f < at /\ f + pages \in 0 .. end
        BY <1>1, <3>1, <3>3
      <4>3. IsAllocated(m, b, f) => Good(behind)
        <5>1. f + pages \notin Keys(b)
          BY <1>1, <3>3, <4>1, <4>2 DEF UpTo
        <5>2. Divides(b, behind, f + pages)
          BY <1>1, <3>1, <5>1, WithDivides
        <5> HIDE DEF behind
        <5>3. IsAllocated(m, b, f) => Landed(m, at, pages, end, f + pages)
          BY <3>1, <4>1 DEF Landed
        <5>4. QED BY <4>2, <5>2, <5>3
      <4>4. /\ ~IsAllocated(m, b, f) => SplitBlocks(m, at, new, f, end) = shorter
            /\ IsAllocated(m, b, f) => SplitBlocks(m, at, new, f, end) = behind
        BY <4>2 DEF SplitBlocks
      <4> HIDE DEF shorter, behind
      <4>5. f # end
        BY <3>3, <4>2
      <4>6. left = BackBlock(m, SplitBlocks(m, at, new, f, end), at, pages, f)
        BY <1>1, <1>5, <3>4, <3>5, <3>9, <4>5 DEF MapBlock, g
      <4>7. left.blocks = SplitBlocks(m, at, new, f, end)
        BY <1>2, <1>5, <4>6
      <4> HIDE DEF Good
      <4>8. Good(left.blocks)
        BY <3>8, <4>3, <4>4, <4>7
      <4>9. QED BY <4>8 DEF Good
    <3>10. CASE g # end
      <4> DEFINE donor == IF IsAllocated(m, b, g) THEN f ELSE g
      <4>1. \/ left = Fail(m, "exception")
            \/ left = BackBlock(m, With(With(b, donor, Shrunk(b[donor], pages)), at, new), at, pages, at)
        BY <1>1, <1>5, <3>4, <3>5, <3>10 DEF MapBlock, g
      <4>2. With(With(b, donor, Shrunk(b[donor], pages)), at, new) \in {shorter, taken}
        OBVIOUS
      <4> HIDE DEF shorter, taken, donor
      <4>3. Fail(m, "exception").blocks = b
        BY FailOf DEF HostInv, Outcomes
      <4>4. left.blocks \in {b, shorter, taken}
        BY <1>2, <1>5, <4>1, <4>2, <4>3
      <4>5. Good(b)
        OBVIOUS
      <4> HIDE DEF Good
      <4>6. Good(left.blocks)
        BY <3>8, <4>4, <4>5
      <4>7. QED BY <4>6 DEF Good
    <3>11. QED BY <3>9, <3>10
  <2>4. QED BY <2>2, <2>3
<1>6. QED BY <1>3, <1>4, <1>5

\* What a call that maps pages makes of the blocks.
Conserves(m, left, at, pages, end) ==
    /\ AddUp(left.blocks, end)
    /\ \/ Keys(left.blocks) = Keys(m.blocks)
       \/ \E key : Landed(m, at, pages, end, key) /\ Keys(left.blocks) = Keys(m.blocks) \cup {key}
MayPut(m, at, pages, end) ==
    /\ at + pages <= end
    /\ \A k \in Keys(m.blocks) : k <= at \/ at + pages <= k
    /\ at \in Keys(m.blocks) => at \in Backed(m) \/ (at + pages < end /\ UpTo(m.blocks, at, end))

LEMMA SegmentConserves ==
    ASSUME NEW m, NEW end \in Nat, HostInv(m, end), AddUp(m.blocks, end), NEW at \in Nat,
           NEW pages \in Nat \ {0}, MayPut(m, at, pages, end), NEW kind
    PROVE  Conserves(m, MapSegment(m, at, pages, kind), at, pages, end)
<1> DEFINE new == Block(pages, kind)
           mid == MapBlock(m, at, new)
           left == WriteMemory(mid, at, pages)
<1>1. DOMAIN new = BlockFields /\ new.pages = pages
  BY DEF Block, BlockFields
<1> HIDE DEF new
<1>2. /\ at + new.pages <= end /\ \A k \in Keys(m.blocks) : k <= at \/ at + new.pages <= k
      /\ at \in Keys(m.blocks) => at \in Backed(m) \/ (at + new.pages < end /\ UpTo(m.blocks, at, end))
  BY <1>1 DEF MayPut
<1>3. \/ mid.blocks = m.blocks
      \/ \E key \in 0 .. end : Landed(m, at, new.pages, end, key) /\ Divides(m.blocks, mid.blocks, key)
  BY <1>1, <1>2, MapBlockDivides
<1>4. at \in Int /\ Proper(mid)
  BY <1>1, MapBlockOf DEF Maps
<1>5. MapSegment(m, at, pages, kind) = left
  BY <1>4, MapSegmentOf DEF new
<1> HIDE DEF mid
<1>6. left.blocks = mid.blocks
  BY <1>4, WriteMemoryOf
<1> HIDE DEF left
<1>7. CASE mid.blocks = m.blocks
  BY <1>5, <1>6, <1>7 DEF Conserves
<1>8. CASE \E key \in 0 .. end : Landed(m, at, new.pages, end, key) /\ Divides(m.blocks, mid.blocks, key)
  <2>1. PICK key \in 0 .. end : Landed(m, at, pages, end, key) /\ Divides(m.blocks, mid.blocks, key)
    BY <1>1, <1>8
  <2>2. AddUp(mid.blocks, end)
    BY <2>1, DividesAddUp
  <2>3. Keys(mid.blocks) = Keys(m.blocks) \cup {key}
    BY <2>1 DEF Divides
  <2>4. QED BY <1>5, <1>6, <2>1, <2>2, <2>3 DEF Conserves
<1>9. QED BY <1>3, <1>7, <1>8

LEMMA CodeConserves ==
    ASSUME NEW m, NEW end \in Nat, HostInv(m, end), AddUp(m.blocks, end), NEW at \in Nat,
           NEW pages \in Nat \ {0}, at + pages < end, UpTo(m.blocks, at, end)
    PROVE  LET left == MapCodeMemory(m, at, pages)
           IN  AddUp(left.blocks, end) /\ UpTo(left.blocks, at + pages, end)
<1> DEFINE mid == MapSegment(m, at, pages, "Code")
           left == DelimitTable(mid, "Code", at, pages)
<1>1. /\ at + pages \in Nat /\ at < at + pages /\ at \in Int
      /\ \A k \in Keys(m.blocks) : k \in Nat /\ (k <= at \/ k = end)
  BY DEF UpTo, AddUp
<1>2. MayPut(m, at, pages, end)
  BY <1>1 DEF MayPut
<1>3. Conserves(m, mid, at, pages, end)
  BY <1>2, SegmentConserves
<1>4. Proper(mid) /\ MapCodeMemory(m, at, pages) = left
  BY <1>1, MapSegmentOf, MapCodeMemoryOf DEF Maps
<1> HIDE DEF mid
<1>5. left.blocks = mid.blocks
  BY <1>4, DelimitTableOf
<1> HIDE DEF left
<1>6. ASSUME NEW key, Landed(m, at, pages, end, key) PROVE key <= at + pages
  <2>1. CASE key = at \/ key = at + pages
    BY <1>1, <2>1
  <2>2. CASE \E low \in Keys(m.blocks) : low < at /\ key = low + pages
    BY <1>1, <2>2
  <2>3. QED BY <1>6, <2>1, <2>2 DEF Landed
<1>7. \A k \in Keys(m.blocks) : k <= at + pages \/ k = end
  BY <1>1
<1>8. QED BY <1>3, <1>4, <1>5, <1>6, <1>7 DEF Conserves, UpTo

\* The keys of a process that runs: below the thread local pages, at their segment's
\* first, or among those that userslabs no longer has.
Apart(b, count, low, slabs) ==
    \A k \in Keys(b) : k <= low \/ k = TlsIoBegin(count) \/ k >= TlsIoBegin(count) + UserBase + Len(slabs)

LEMMA StackConserves ==
    ASSUME NEW count \in Nat, NEW m, HostInv(m, SpaceEnd(count)), AddUp(m.blocks, SpaceEnd(count)),
           NEW pages \in Nat \ {0}, pages <= StackSegmentPages, NEW slabs, Len(slabs) \in 0 .. UserPages,
           UpTo(m.blocks, count + 1, SpaceEnd(count)) \/ Apart(m.blocks, count, count, slabs)
    PROVE  LET left == MapStackMemory(m, count, pages)
           IN  AddUp(left.blocks, SpaceEnd(count)) /\ Apart(left.blocks, count, TlsIoBegin(count), slabs)
<1> DEFINE end == SpaceEnd(count)
           at == StackBegin(count)
           tlsio == TlsIoBegin(count)
           mid == MapSegment(m, at, pages, "Stack")
           left == DelimitTable(mid, "Stack", at, pages)
           above == tlsio + UserBase + Len(slabs)
<1>1. /\ at \in Nat /\ tlsio \in Nat /\ end \in Nat /\ count < at /\ at + pages \in Nat
      /\ at + pages <= tlsio /\ tlsio < end /\ at < tlsio
      /\ above <= end /\ tlsio < above /\ above \in Nat
  <2>1. /\ StackSegmentPages \in Nat /\ UserBase \in Nat \ {0} /\ UserPages \in Nat
        /\ UserBase + UserPages <= TlsIoPages /\ TlsIoPages \in Nat /\ Len(slabs) \in Nat /\ Len(slabs) <= UserPages
    BY MemoryAssumption, LoaderAssumption
  <2>2. /\ at \in Nat /\ tlsio = at + StackSegmentPages /\ end = tlsio + TlsIoPages /\ count < at /\ tlsio \in Nat
        /\ tlsio < end /\ at < tlsio /\ end \in Nat
    BY SegmentsOf
  <2> HIDE DEF at, tlsio, end
  <2>3. QED BY <2>1, <2>2
<1>2. \A k \in Keys(m.blocks) : k \in Nat /\ k <= end
  BY <1>1 DEF AddUp
<1>3. (\A k \in Keys(m.blocks) : k <= count + 1 \/ k = end) \/ (\A k \in Keys(m.blocks) : k <= count \/ k >= tlsio)
  <2>1. CASE UpTo(m.blocks, count + 1, end)
    BY <2>1 DEF UpTo
  <2>2. CASE Apart(m.blocks, count, count, slabs)
    <3>1. \A k \in Keys(m.blocks) : k <= count \/ k = tlsio \/ k >= above
      BY <2>2 DEF Apart
    <3> HIDE DEF above, tlsio, end, at
    <3>2. QED BY <1>1, <1>2, <3>1
  <2>3. QED BY <2>1, <2>2
<1>4. \A k \in Keys(m.blocks) : k <= tlsio \/ k >= above
  <2>1. CASE UpTo(m.blocks, count + 1, end)
    <3>1. \A k \in Keys(m.blocks) : k <= count + 1 \/ k = end
      BY <2>1 DEF UpTo
    <3> HIDE DEF above, tlsio, end, at
    <3>2. QED BY <1>1, <1>2, <3>1
  <2>2. CASE Apart(m.blocks, count, count, slabs)
    <3>1. \A k \in Keys(m.blocks) : k <= count \/ k = tlsio \/ k >= above
      BY <2>2 DEF Apart
    <3> HIDE DEF above, tlsio, end, at
    <3>2. QED BY <1>1, <1>2, <3>1
  <2>3. QED BY <2>1, <2>2
<1> HIDE DEF above
<1>5. MayPut(m, at, pages, end)
  <2> HIDE DEF end, at, tlsio
  <2>1. at + pages <= end /\ at + pages < end /\ count + 1 <= at
    BY <1>1
  <2>2. \A k \in Keys(m.blocks) : k <= at \/ at + pages <= k
    BY <1>1, <1>2, <1>3, <2>1
  <2>3. at \in Keys(m.blocks) => \A k \in Keys(m.blocks) : k <= at \/ k = end
    BY <1>1, <1>2, <1>3, <2>1
  <2>4. QED BY <2>1, <2>2, <2>3 DEF MayPut, UpTo
<1>6. Conserves(m, mid, at, pages, end)
  BY <1>1, <1>5, SegmentConserves
<1>7. Proper(mid) /\ MapStackMemory(m, count, pages) = left
  <2>1. at \in Int
    BY <1>1
  <2>2. QED BY <2>1, MapSegmentOf, MapStackMemoryOf DEF Maps
<1> HIDE DEF mid
<1>8. left.blocks = mid.blocks
  BY <1>7, DelimitTableOf
<1> HIDE DEF left
<1>9. ASSUME NEW key, Landed(m, at, pages, end, key) PROVE key <= tlsio
  <2> HIDE DEF end, at, tlsio
  <2>1. CASE key = at \/ key = at + pages
    BY <1>1, <2>1
  <2>2. CASE \E low \in Keys(m.blocks) : low < at /\ key = low + pages
    BY <1>1, <1>2, <2>2
  <2>3. QED BY <1>9, <2>1, <2>2 DEF Landed
<1>10. \A k \in Keys(left.blocks) : k <= tlsio \/ k >= above
  <2> HIDE DEF end, at, tlsio
  <2>1. QED BY <1>4, <1>6, <1>8, <1>9 DEF Conserves
<1>11. AddUp(left.blocks, end)
  BY <1>6, <1>8 DEF Conserves
<1>12. QED BY <1>7, <1>10, <1>11 DEF Apart, above

\* One page, of which no block begins there unless the page is backed.
LEMMA TlsConserves ==
    ASSUME NEW count \in Nat, NEW m, HostInv(m, SpaceEnd(count)), AddUp(m.blocks, SpaceEnd(count)),
           NEW pointer \in Nat, pointer < TlsIoPages,
           TlsIoBegin(count) + pointer \in Keys(m.blocks) => TlsIoBegin(count) + pointer \in Backed(m)
    PROVE  Conserves(m, MapTlsMemory(m, count, pointer), TlsIoBegin(count) + pointer, 1, SpaceEnd(count))
<1> DEFINE end == SpaceEnd(count)
           at == TlsIoBegin(count) + pointer
<1>1. at \in Nat /\ end \in Nat /\ at + 1 <= end
  <2>1. TlsIoBegin(count) \in Nat /\ end = TlsIoBegin(count) + TlsIoPages /\ end \in Nat /\ TlsIoPages \in Nat
    BY SegmentsOf, MemoryAssumption
  <2> HIDE DEF end
  <2>2. QED BY <2>1
<1>2. at \in Keys(m.blocks) => at \in Backed(m)
  OBVIOUS
<1>3. MapTlsMemory(m, count, pointer) = MapSegment(m, at, 1, "ThreadLocal")
  BY DEF MapTlsMemory
<1> HIDE DEF end, at
<1>4. \A k \in Keys(m.blocks) : k <= at \/ at + 1 <= k
  <2>1. \A k \in Keys(m.blocks) : k \in Nat
    BY DEF AddUp
  <2>2. QED BY <1>1, <2>1
<1>5. MayPut(m, at, 1, end)
  BY <1>1, <1>2, <1>4 DEF MayPut
<1>6. HostInv(m, end) /\ AddUp(m.blocks, end) /\ 1 \in Nat \ {0}
  BY DEF end
<1>7. Conserves(m, MapSegment(m, at, 1, "ThreadLocal"), at, 1, end)
  BY <1>1, <1>5, <1>6, SegmentConserves
<1>8. QED BY <1>3, <1>7 DEF at, end

-----------------------------------------------------------------------------
(* What the steps of the loader and the threads conserve.                    *)

LEMMA FirstAddsUp ==
    ASSUME NEW count \in Nat
    PROVE  LET b == InitializeForProcess(count).blocks
           IN  AddUp(b, SpaceEnd(count)) /\ Keys(b) = {0, SpaceEnd(count)}
<1> DEFINE end == SpaceEnd(count)
           b == InitializeForProcess(count).blocks
<1>1. b = [p \in {0, end} |-> IF p = 0 THEN Block(end, "Free") ELSE Block(0, "Inaccessible")]
  BY DEF InitializeForProcess
<1>2. end \in Nat \ {0} /\ end \in 0 .. end /\ 0 \in 0 .. end
  <2>1. TlsIoBegin(count) \in Nat /\ TlsIoBegin(count) < end /\ end \in Nat
    BY SegmentsOf
  <2> HIDE DEF end
  <2>2. QED BY <2>1
<1> HIDE DEF end, b
<1>3. /\ DOMAIN b = {0, end} /\ b[0] = Block(end, "Free") /\ b[end] = Block(0, "Inaccessible")
      /\ \A k \in {0, end} : DOMAIN b[k] = BlockFields
      /\ b[0].pages = end /\ b[end].pages = 0
  BY <1>1, <1>2 DEF Block, BlockFields
<1>4. Counts(b)
  <2>1. IsFiniteSet(0 .. end) /\ {0, end} \subseteq 0 .. end
    BY <1>2, FS_Interval
  <2>2. IsFiniteSet({0, end})
    BY <2>1, FS_Subset
  <2>3. QED BY <1>2, <1>3, <2>2 DEF Counts
<1>5. PICK sum : Sums(b, sum) /\ Total(b) = sum[DOMAIN b]
  BY <1>4, SumExists, TotalIs
<1>6. sum[{}] = 0
  BY <1>4, <1>5, SumOf
<1>7. {0, end} \ {0} = {end} /\ {end} \ {end} = {}
  BY <1>2
<1>8. sum[{0, end}] = end + sum[{end}]
  <2>1. sum[{0, end}] = b[0].pages + sum[{0, end} \ {0}]
    BY <1>3, <1>4, <1>5, SumTake
  <2>2. QED BY <1>3, <1>7, <2>1
<1>9. sum[{end}] = 0 + 0
  <2>1. {end} \subseteq DOMAIN b
    BY <1>3
  <2>2. sum[{end}] = b[end].pages + sum[{end} \ {end}]
    BY <1>4, <1>5, <2>1, SumTake
  <2>3. QED BY <1>3, <1>6, <1>7, <2>2
<1>10. Total(b) = end
  BY <1>2, <1>3, <1>5, <1>8, <1>9
<1>11. AddUp(b, end) /\ Keys(b) = {0, end}
  BY <1>2, <1>3, <1>10 DEF AddUp, Keys
<1>12. QED BY <1>11 DEF b, end

\* The permission of a block is not among what is counted.
LEMMA PermissionConserves ==
    ASSUME NEW m, Proper(m), NEW end \in Nat, AddUp(m.blocks, end), NEW at, NEW pages, NEW perm
    PROVE  LET left == SetMemoryPermission(m, at, pages, perm)
           IN  AddUp(left.blocks, end) /\ Keys(left.blocks) = Keys(m.blocks)
<1> DEFINE left == SetMemoryPermission(m, at, pages, perm)
<1>1. CASE left = m
  BY <1>1
<1>2. CASE left = Fail(m, "undefined")
  BY <1>2, FailOf DEF Outcomes
<1>3. CASE left = Reprotect(m, at, pages, perm)
  <2> DEFINE key == FindBlock(m.blocks, at)
             c == left.blocks
  <2> HIDE DEF key
  <2>1. c = [m.blocks EXCEPT ![key].perm = perm]
    BY <1>3 DEF Reprotect, Proper, Fields, key
  <2> HIDE DEF c
  <2>2. Keys(c) = Keys(m.blocks)
    BY <2>1 DEF Keys
  <2>3. \A k \in Keys(m.blocks) : DOMAIN c[k] = BlockFields /\ c[k].pages = m.blocks[k].pages
    <3>1. \A k \in Keys(m.blocks) : c[k] = m.blocks[k] \/ c[k] = [m.blocks[k] EXCEPT !.perm = perm]
      BY <2>1 DEF Keys
    <3>2. \A k \in Keys(m.blocks) : DOMAIN m.blocks[k] = BlockFields
      BY DEF AddUp
    <3>3. \A r, v : DOMAIN [r EXCEPT !.perm = v] = DOMAIN r
      OBVIOUS
    <3>4. \A k \in Keys(m.blocks) : c[k].pages = m.blocks[k].pages
      BY PermissionNames DEF c
    <3>5. QED BY <3>1, <3>2, <3>3, <3>4
  <2>4. AddUp(c, end)
    BY <2>2, <2>3, SameAddUp
  <2>5. QED BY <2>2, <2>4 DEF c
<1>4. QED BY <1>1, <1>2, <1>3 DEF SetMemoryPermission

LEMMA AllocatedBacked ==
    ASSUME NEW m, NEW end, HostInv(m, end), NEW b, NEW key \in 0 .. end - 1, IsAllocated(m, b, key)
    PROVE  key \in Backed(m)
<1>1. PICK a \in m.allocs : key \in Span(a.guest, a.pages)
  BY DEF IsAllocated, CanAllocate
<1>2. DOMAIN m.mapping = 0 .. end - 1 /\ AllocInv(m)
  BY DEF HostInv
<1>3. m.mapping[key] # NoPage
  BY <1>1, <1>2 DEF AllocInv
<1>4. QED BY <1>2, <1>3 DEF Backed

\* Once the process runs, new blocks are below the thread local pages or are theirs.
PagesInv ==
    Laid /\ (EachHasBss \/ TlsPage < UserPages) =>
        LET b == mem.blocks
            end == SpaceEnd(offset)
        IN  /\ AddUp(b, end)
            /\ Live =>
                  /\ phase = "map" => UpTo(b, Reached, end)
                  /\ phase = "start" /\ tls = <<>> => UpTo(b, offset, end)
                  /\ phase = "start" /\ tls # <<>> =>
                        UpTo(b, offset + 1, end) \/ Apart(b, offset, offset, userslabs)
                  /\ phase = "start" /\ (tls = <<>> \/ UserPages > 0) =>
                        TlsIoBegin(offset) \notin Backed(mem)
                  /\ phase = "run" /\ TlsPage < UserPages =>
                        /\ Apart(b, offset, TlsIoBegin(offset), userslabs)
                        /\ TlsIoBegin(offset) \notin Backed(mem)

LEMMA MapSectionConserves ==
    ASSUME IInv, phase = "map", index <= Len(procimage), Live,
           AddUp(mem.blocks, SpaceEnd(offset)), UpTo(mem.blocks, Reached, SpaceEnd(offset))
    PROVE  /\ AddUp(MapSection.blocks, SpaceEnd(offset))
           /\ UpTo(MapSection.blocks, Following(index), SpaceEnd(offset))
<1> DEFINE at == Current.offset
           pages == Pages(SectionSize)
           next == Following(index)
           end == SpaceEnd(offset)
<1>1. /\ at \in Nat /\ pages \in Nat \ {0} /\ Reached = at /\ at + pages <= next
      /\ next \in Nat /\ next <= offset
  BY MapSectionOf
<1>2. offset \in Nat /\ HostInv(mem, end)
  BY DEF IInv, LayoutInv, MemInv, Laid
<1>3. end \in Nat /\ offset < end
  <2>1. /\ offset < StackBegin(offset) /\ StackBegin(offset) < TlsIoBegin(offset) /\ TlsIoBegin(offset) < end
        /\ StackBegin(offset) \in Nat /\ TlsIoBegin(offset) \in Nat /\ end \in Nat
    BY <1>2, SegmentsOf
  <2> HIDE DEF end
  <2>2. QED BY <1>2, <2>1
<1>4. MapSection \in {Fail(mem, "aborted"), MapCodeMemory(mem, at, pages)}
  BY DEF MapSection
<1>5. AddUp(mem.blocks, end) /\ UpTo(mem.blocks, at, end)
  BY <1>1
<1> HIDE DEF at, pages, next, end
<1>6. at + pages < end
  BY <1>1, <1>2, <1>3
<1>7. CASE MapSection = Fail(mem, "aborted")
  <2>1. MapSection.blocks = mem.blocks
    BY <1>2, <1>7, FailOf DEF HostInv, Outcomes
  <2>2. UpTo(mem.blocks, next, end)
    <3>1. \A k \in Keys(mem.blocks) : k \in Nat /\ (k <= at \/ k = end)
      BY <1>5 DEF AddUp, UpTo
    <3>2. QED BY <1>1, <3>1 DEF UpTo
  <2>3. QED BY <1>5, <2>1, <2>2 DEF next, end
<1>8. CASE MapSection = MapCodeMemory(mem, at, pages)
  <2>1. AddUp(MapSection.blocks, end) /\ UpTo(MapSection.blocks, at + pages, end)
    BY <1>1, <1>2, <1>3, <1>5, <1>6, <1>8, CodeConserves
  <2>2. UpTo(MapSection.blocks, next, end)
    <3>1. \A k \in Keys(MapSection.blocks) : k \in Nat /\ (k <= at + pages \/ k = end)
      BY <2>1 DEF AddUp, UpTo
    <3>2. QED BY <1>1, <3>1 DEF UpTo
  <2>3. QED BY <2>1, <2>2 DEF next, end
<1>9. QED BY <1>4, <1>7, <1>8

LEMMA SetSectionPages == ASSUME IInv, PagesInv, SetSection PROVE PagesInv'
<1> DEFINE set == SetMemoryPermission(MapSection, Current.offset, Pages(SectionSize), PermissionOf(bintype))
           end == SpaceEnd(offset)
           next == Following(index)
<1>1. /\ phase = "map" /\ phase' = "map" /\ index <= Len(procimage) /\ Live /\ index' = index + 1
      /\ UNCHANGED <<phase, modules, procimage, offset, userslabs, tls>>
      /\ mem' = set \/ mem' = FillBss(set)
  BY DEF SetSection, processVars
<1>2. Reached' = next
  <2>1. index \in Nat /\ Len(procimage) \in Nat
    BY DEF IInv, LayoutInv, PlaceInv
  <2>2. QED BY <1>1, <2>1 DEF Reached, PastSections, Following, Current
<1>3. EachHasBss' = EachHasBss /\ TlsPage' = TlsPage
  BY <1>1 DEF EachHasBss, TlsPage
<1> SUFFICES ASSUME EachHasBss \/ TlsPage < UserPages
             PROVE  AddUp(mem'.blocks, end) /\ UpTo(mem'.blocks, next, end)
  BY <1>1, <1>2, <1>3 DEF PagesInv, Laid
<1>4. AddUp(mem.blocks, end) /\ UpTo(mem.blocks, Reached, end)
  BY <1>1 DEF PagesInv, Laid
<1>5. AddUp(MapSection.blocks, end) /\ UpTo(MapSection.blocks, next, end)
  BY <1>1, <1>4, MapSectionConserves
<1>6. Proper(MapSection) /\ end \in Nat
  <2>1. offset \in Nat
    BY DEF IInv, LayoutInv
  <2>2. QED BY <1>1, <2>1, MapSectionOf, SegmentsOf DEF Maps
<1> HIDE DEF next, end
<1>7. AddUp(set.blocks, end) /\ Keys(set.blocks) = Keys(MapSection.blocks) /\ Proper(set)
  BY <1>5, <1>6, PermissionConserves, SetMemoryPermissionOf
<1> HIDE DEF set
<1>8. mem'.blocks = set.blocks
  <2>1. CASE mem' = set
    BY <2>1
  <2>2. CASE mem' = FillBss(set)
    BY <1>7, <2>2, FillMemoryOf DEF FillBss
  <2>3. QED BY <1>1, <2>1, <2>2
<1>9. QED BY <1>5, <1>7, <1>8 DEF UpTo

LEMMA ReturnPages == ASSUME IInv, MemInv', PagesInv, ReturnAtSilentSection PROVE PagesInv'
<1> DEFINE end == SpaceEnd(offset)
<1>1. /\ phase = "map" /\ phase' = "start" /\ index <= Len(procimage) /\ Live /\ mem' = MapSection
      /\ UNCHANGED <<modules, offset, userslabs, tls>>
  BY DEF ReturnAtSilentSection, processVars, layoutVars
<1>2. EachHasBss' = EachHasBss /\ TlsPage' = TlsPage /\ tls = <<>>
  BY <1>1 DEF EachHasBss, TlsPage, IInv, ThreadInv
<1>3. offset \in Nat /\ Following(index) \in Nat /\ Following(index) <= offset
  BY <1>1, MapSectionOf DEF IInv, LayoutInv
<1>4. TlsIoBegin(offset) \notin Backed(mem')
  <2>1. /\ MapSection.mapping = mem.mapping \/ MapsAt(mem, MapSection, Current.offset, Pages(SectionSize))
        /\ Maps(mem, MapSection, Current.offset, Pages(SectionSize))
        /\ Current.offset \in Nat /\ Pages(SectionSize) \in Nat \ {0} /\ Reached = Current.offset
        /\ Current.offset + Pages(SectionSize) <= Following(index)
        /\ Backed(mem) \cap Span(Current.offset, Pages(SectionSize)) = {}
    BY <1>1, MapSectionOf DEF Maps, Untouched
  <2>2. HostInv(mem, end) /\ \A p \in Backed(mem) : p < Current.offset
    BY <1>1, <2>1 DEF IInv, MemInv, Laid
  <2> DEFINE at == Current.offset
             pages == Pages(SectionSize)
             first == TlsIoBegin(offset)
  <2>3. first \in Nat /\ offset < first
    <3>1. /\ offset < StackBegin(offset) /\ StackBegin(offset) < first
          /\ StackBegin(offset) \in Nat /\ first \in Nat
      BY <1>3, SegmentsOf
    <3> HIDE DEF first
    <3>2. QED BY <1>3, <3>1
  <2> HIDE DEF at, pages, first, end
  <2>4. Backed(MapSection) \subseteq Backed(mem) \cup Span(at, pages)
    <3>1. at \in Int
      BY <2>1 DEF at
    <3>2. QED BY <2>1, <2>2, <3>1, MapsPages DEF at, pages
  <2>5. first \notin Backed(mem) /\ first \notin Span(at, pages)
    <3>1. at \in Nat /\ pages \in Nat \ {0} /\ at + pages <= Following(index)
      BY <2>1 DEF at, pages
    <3>2. ~(first < at) /\ ~(first <= at + pages - 1)
      BY <1>3, <2>3, <3>1
    <3>3. QED BY <2>2, <3>2 DEF Span, at
  <2>6. QED BY <1>1, <2>4, <2>5 DEF first
<1> SUFFICES ASSUME EachHasBss \/ TlsPage < UserPages
             PROVE  AddUp(mem'.blocks, end) /\ UpTo(mem'.blocks, offset, end)
  BY <1>1, <1>2, <1>4 DEF PagesInv, Laid
<1>5. AddUp(mem.blocks, end) /\ UpTo(mem.blocks, Reached, end)
  BY <1>1 DEF PagesInv, Laid
<1>6. AddUp(mem'.blocks, end) /\ UpTo(mem'.blocks, Following(index), end)
  BY <1>1, <1>5, MapSectionConserves
<1> HIDE DEF end
<1>7. \A k \in Keys(mem'.blocks) : k \in Nat /\ (k <= Following(index) \/ k = end)
  BY <1>6 DEF AddUp, UpTo
<1>8. UpTo(mem'.blocks, offset, end)
  BY <1>3, <1>7 DEF UpTo
<1>9. QED BY <1>6, <1>8

LEMMA EndOfSectionsPages == ASSUME IInv, PagesInv, EndOfSections PROVE PagesInv'
<1>1. /\ phase = "map" /\ phase' = "start" /\ PastSections /\ Live
      /\ UNCHANGED <<modules, offset, userslabs, tls, mem>>
  BY DEF EndOfSections, processVars, layoutVars
<1>2. EachHasBss' = EachHasBss /\ TlsPage' = TlsPage /\ tls = <<>>
  BY <1>1 DEF EachHasBss, TlsPage, IInv, ThreadInv
<1>3. Reached = offset /\ offset \in Nat
  BY <1>1 DEF Reached, IInv, LayoutInv
<1>4. TlsIoBegin(offset) \notin Backed(mem)
  <2>1. \A p \in Backed(mem) : p < offset
    BY <1>1, <1>3 DEF IInv, MemInv
  <2>2. ~(TlsIoBegin(offset) < offset)
    <3>1. /\ offset < StackBegin(offset) /\ StackBegin(offset) < TlsIoBegin(offset)
          /\ StackBegin(offset) \in Nat /\ TlsIoBegin(offset) \in Nat
      BY <1>3, SegmentsOf
    <3>2. QED BY <1>3, <3>1
  <2>3. QED BY <2>1, <2>2
<1>5. QED BY <1>1, <1>2, <1>3, <1>4 DEF PagesInv, Laid

LEMMA LoadMemoryPages == ASSUME IInv, LoadMemory PROVE PagesInv'
<1>1. Reached' = 0
  BY LoadMemoryLayout DEF IInv
<1>2. /\ phase' = "map" /\ mem' = InitializeForProcess(offset) /\ offset' = offset /\ offset \in Nat
  BY DEF LoadMemory, layoutVars, IInv, LayoutInv
<1> DEFINE end == SpaceEnd(offset)
<1>3. AddUp(mem'.blocks, end) /\ Keys(mem'.blocks) = {0, end}
  BY <1>2, FirstAddsUp
<1>4. UpTo(mem'.blocks, 0, end)
  BY <1>3 DEF UpTo
<1>5. QED BY <1>1, <1>2, <1>3, <1>4 DEF PagesInv

\* The next page of userslabs, or the null pointer.
LEMMA NextSlab ==
    ASSUME TlsLists
    PROVE  LET slab == SlabAllocate(userslabs)
           IN  /\ slab.pointer \in Nat /\ slab.pointer < TlsIoPages
               /\ Len(userslabs) \in Nat /\ Len(slab.objects) \in Nat
               /\ userslabs = <<>> => slab.pointer = 0
               /\ userslabs # <<>> => /\ slab.pointer = UserBase + Len(slab.objects) /\ slab.pointer # 0
                                      /\ Len(slab.objects) = Len(userslabs) - 1
<1> DEFINE slab == SlabAllocate(userslabs)
           n == Len(userslabs)
           left == Len(slab.objects)
<1>1. /\ slab.pointer \in Nat /\ slab.pointer < TlsIoPages
      /\ n \in 0 .. UserPages /\ left \in 0 .. UserPages
      /\ userslabs = <<>> => slab.pointer = 0
      /\ userslabs # <<>> => slab.pointer = UserBase + n - 1 /\ left = n - 1
  BY UserSlab DEF TlsLists
<1>2. UserBase \in Nat \ {0} /\ UserPages \in Nat
  BY LoaderAssumption
<1>3. userslabs # <<>> => slab.pointer = UserBase + left /\ slab.pointer # 0
  <2> HIDE DEF slab, n, left
  <2>1. QED BY <1>1, <1>2
<1>4. n \in Nat /\ left \in Nat
  <2> HIDE DEF slab, n, left
  <2>1. QED BY <1>1, <1>2
<1>5. QED BY <1>1, <1>3, <1>4

\* With slots handed out, the pages before the next slot's get no fewer.
LEMMA TlsPageGrows ==
    ASSUME TlsLists, NEW before, AllocateTls(before)
    PROVE  TlsPage \in Nat /\ TlsPage' \in Nat /\ TlsPage <= TlsPage'
<1>1. \A n \in Nat, d \in Nat \ {0} : n \div d \in Nat /\ (n + 1) \div d \in Nat /\ n \div d <= (n + 1) \div d
  OBVIOUS
<1>2. TlsSlotCount \in Nat \ {0} /\ tls \in Seq(Slots) /\ Len(tls) \in Nat
  BY LoaderAssumption DEF TlsLists
<1>3. tls' = tls \/ \E taken : tls' = Append(tls, taken)
  BY AllocateTlsCases DEF TakeFrom
<1>4. Len(tls') = Len(tls) \/ Len(tls') = Len(tls) + 1
  <2>1. \A taken : Len(Append(tls, taken)) = Len(tls) + 1
    BY <1>2
  <2>2. QED BY <1>3, <2>1
<1>5. QED BY <1>1, <1>2, <1>4 DEF TlsPage

LEMMA LandsAt ==
    ASSUME NEW m, NEW end \in Nat, NEW at \in Nat, at < end, at \notin Keys(m.blocks),
           NEW key, Landed(m, at, 1, end, key)
    PROVE  \/ key = at
           \/ \E low \in Keys(m.blocks) : low < at /\ key = low + 1 /\ IsAllocated(m, m.blocks, low)
BY DEF Landed

\* The page of the process is the first; while it has no block, it has none before it
\* either, and gets its block at the end of the image or where it is.
LEMMA ExceptionTlsPages ==
    ASSUME IInv, CountInv, PagesInv, NEW size \in StackSizes, AllocateExceptionTls(size) PROVE PagesInv'
<1> DEFINE pointer == SlabAllocate(userslabs).pointer
           first == TlsIoBegin(offset)
           at == first + pointer
           end == SpaceEnd(offset)
<1>1. /\ phase = "start" /\ phase' = "start" /\ Live /\ tls = <<>> /\ AllocateTls(mem)
      /\ UNCHANGED <<modules, offset>>
  BY DEF AllocateExceptionTls, layoutVars
<1>2. /\ TlsLists /\ offset \in Nat /\ HostInv(mem, end) /\ freetls = <<>>
      /\ TlsPages = 0 /\ Len(userslabs) + TlsPages >= UserPages
  BY <1>1 DEF IInv, ThreadInv, TlsLists, LayoutInv, MemInv, Laid, CountInv
<1>3. /\ mem' = MapTlsMemory(mem, offset, pointer)
      /\ userslabs' = SlabAllocate(userslabs).objects
      /\ mem'.outcome = "ok" => tls' # <<>>
  <2>1. mem' = MapTlsMemory(mem, offset, pointer) /\ userslabs' = SlabAllocate(userslabs).objects
    BY <1>1, <1>2, AllocateTlsCases
  <2>2. mem'.outcome = "ok" => tls' # <<>>
    BY <1>1, <1>2, AllocateTlsOf
  <2>3. QED BY <2>1, <2>2
<1>4. EachHasBss' = EachHasBss /\ TlsPage \in Nat /\ TlsPage' \in Nat /\ TlsPage <= TlsPage' /\ UserPages \in Nat
  BY <1>1, <1>2, TlsPageGrows, LoaderAssumption DEF EachHasBss
<1>5. /\ pointer \in Nat /\ pointer < TlsIoPages /\ Len(userslabs') \in Nat /\ Len(userslabs) \in Nat
      /\ userslabs = <<>> => pointer = 0
      /\ userslabs # <<>> => pointer = UserBase + Len(userslabs') /\ pointer # 0
  BY <1>2, <1>3, NextSlab
<1>6. /\ first \in Nat /\ end \in Nat /\ offset < first /\ end = first + TlsIoPages /\ TlsIoPages \in Nat
      /\ UserBase \in Nat \ {0}
  <2>1. /\ offset < StackBegin(offset) /\ StackBegin(offset) < first /\ first \in Nat /\ end \in Nat
        /\ end = first + TlsIoPages /\ StackBegin(offset) \in Nat
    BY <1>2, SegmentsOf
  <2>2. offset < first
    <3> HIDE DEF first, end
    <3>1. QED BY <1>2, <2>1
  <2>3. QED BY <2>1, <2>2, MemoryAssumption, LoaderAssumption
<1> SUFFICES ASSUME EachHasBss \/ TlsPage < UserPages
             PROVE  /\ AddUp(mem'.blocks, end)
                    /\ mem'.outcome = "ok" =>
                          /\ UpTo(mem'.blocks, offset + 1, end) \/ Apart(mem'.blocks, offset, offset, userslabs')
                          /\ UserPages > 0 => first \notin Backed(mem')
  <2>1. (EachHasBss' \/ TlsPage' < UserPages) => (EachHasBss \/ TlsPage < UserPages)
    BY <1>4
  <2>2. QED BY <1>1, <1>3, <2>1 DEF PagesInv, Laid, Live
<1>7. /\ AddUp(mem.blocks, end) /\ UpTo(mem.blocks, offset, end) /\ first \notin Backed(mem)
  BY <1>1 DEF PagesInv, Laid
<1>8. \A k \in Keys(mem.blocks) : k \in Nat /\ (k <= offset \/ k = end)
  BY <1>7 DEF AddUp, UpTo
<1>9. at \in Nat /\ at < end /\ offset < at /\ at \notin Keys(mem.blocks)
  <2> HIDE DEF first, end, pointer
  <2>1. at \in Nat /\ at < end /\ offset < at
    BY <1>2, <1>5, <1>6
  <2> HIDE DEF at
  <2>2. QED BY <1>2, <1>6, <1>8, <2>1
<1>10. Conserves(mem, mem', at, 1, end)
  BY <1>2, <1>3, <1>5, <1>7, <1>9, TlsConserves
<1>11. UpTo(mem'.blocks, offset + 1, end) \/ Apart(mem'.blocks, offset, offset, userslabs')
  <2> HIDE DEF first, end, pointer, at
  <2>1. ASSUME Keys(mem'.blocks) = Keys(mem.blocks) PROVE UpTo(mem'.blocks, offset + 1, end)
    BY <1>2, <1>8, <2>1 DEF UpTo
  <2>2. ASSUME NEW key, Landed(mem, at, 1, end, key), Keys(mem'.blocks) = Keys(mem.blocks) \cup {key}
        PROVE  UpTo(mem'.blocks, offset + 1, end) \/ Apart(mem'.blocks, offset, offset, userslabs')
    <3>1. CASE key = at
      <4>1. at = first \/ at >= first + UserBase + Len(userslabs')
        BY <1>5, <1>6 DEF at
      <4>2. end >= first + UserBase + Len(userslabs')
        <5>1. Len(userslabs') \in 0 .. UserPages
          <6>1. TlsLists'
            BY <1>1, <1>2, AllocateTlsOf DEF end
          <6>2. QED BY <6>1 DEF TlsLists
        <5>2. UserBase + UserPages <= TlsIoPages
          BY LoaderAssumption
        <5>3. QED BY <1>4, <1>6, <5>1, <5>2
      <4>3. \A k \in Keys(mem'.blocks) : k <= offset \/ k = first \/ k >= first + UserBase + Len(userslabs')
        BY <1>8, <2>2, <3>1, <4>1, <4>2
      <4>4. QED BY <4>3 DEF Apart, first
    <3>2. CASE key # at
      <4>1. PICK low \in Keys(mem.blocks) : low < at /\ key = low + 1
        BY <1>6, <1>9, <2>2, <3>2, LandsAt
      <4>2. low \in Nat /\ low <= offset
        BY <1>6, <1>8, <1>9, <4>1
      <4>3. key <= offset + 1
        BY <1>2, <4>1, <4>2
      <4>4. QED BY <1>2, <1>8, <2>2, <4>3 DEF UpTo
    <3>3. QED BY <3>1, <3>2
  <2>3. QED BY <1>10, <2>1, <2>2 DEF Conserves
<1>12. UserPages > 0 => first \notin Backed(mem')
  <2>1. UserPages > 0 => pointer # 0
    <3>1. Len(userslabs) + 0 >= UserPages
      BY <1>2
    <3>2. userslabs = <<>> => Len(userslabs) = 0
      OBVIOUS
    <3> HIDE DEF pointer
    <3>3. QED BY <1>4, <1>5, <3>1, <3>2
  <2>2. Backed(mem') \subseteq Backed(mem) \cup Span(at, 1)
    <3>1. Maps(mem, mem', at, 1) /\ at \in Int
      BY <1>2, <1>3, <1>5, <1>9, MapTlsMemoryOf
    <3> HIDE DEF at, end
    <3>2. QED BY <1>2, <3>1, MapsPages
  <2>3. pointer # 0 => first \notin Span(at, 1)
    <3> HIDE DEF first, pointer
    <3>1. pointer # 0 => ~(first >= at)
      BY <1>5, <1>6
    <3>2. QED BY <3>1 DEF Span
  <2>4. QED BY <1>7, <2>1, <2>2, <2>3
<1>13. QED BY <1>10, <1>11, <1>12 DEF Conserves

\* A slot for a thread. The page it may need has no block, or one that is backed.
LEMMA RunningPages ==
    ASSUME TlsLists, offset \in Nat, NEW before, HostInv(before, SpaceEnd(offset)), AllocateTls(before),
           AddUp(before.blocks, SpaceEnd(offset)), Counted(freetls, fulltls, Len(tls)),
           Len(userslabs) + TlsPages >= UserPages,
           EachHasBss => \E low : TlsFrom(offset, before, low, userslabs),
           EachHasBss \/ TlsPage < UserPages,
           TlsPage < UserPages => /\ Apart(before.blocks, offset, TlsIoBegin(offset), userslabs)
                                  /\ TlsIoBegin(offset) \notin Backed(before)
    PROVE  /\ AddUp(mem'.blocks, SpaceEnd(offset))
           /\ TlsPage < UserPages => /\ Apart(mem'.blocks, offset, TlsIoBegin(offset), userslabs')
                                     /\ TlsIoBegin(offset) \notin Backed(mem')
<1> DEFINE pointer == SlabAllocate(userslabs).pointer
           first == TlsIoBegin(offset)
           at == first + pointer
           end == SpaceEnd(offset)
           above == first + UserBase + Len(userslabs)
           next == first + UserBase + Len(userslabs')
<1>1. CASE mem' = before /\ userslabs' = userslabs
  BY <1>1
<1>2. CASE /\ freetls = <<>> /\ mem' = MapTlsMemory(before, offset, pointer)
           /\ userslabs' = SlabAllocate(userslabs).objects
  <2>1. /\ pointer \in Nat /\ pointer < TlsIoPages /\ Len(userslabs') \in Nat /\ Len(userslabs) \in Nat
        /\ userslabs # <<>> => /\ pointer = UserBase + Len(userslabs') /\ pointer # 0
                               /\ Len(userslabs') = Len(userslabs) - 1
    BY <1>2, NextSlab
  <2>2. /\ first \in Nat /\ end \in Nat /\ end = first + TlsIoPages /\ TlsIoPages \in Nat
        /\ UserBase \in Nat \ {0} /\ UserPages \in Nat
    BY SegmentsOf, MemoryAssumption, LoaderAssumption
  <2>3. TlsPage < UserPages => userslabs # <<>>
    <3>1. TlsPage = TlsPages /\ TlsPages \in Nat
      BY <1>2, TlsPageOf
    <3>2. userslabs = <<>> => Len(userslabs) = 0
      OBVIOUS
    <3>3. QED BY <2>1, <2>2, <3>1, <3>2
  <2>4. at \in Nat /\ at < end /\ at >= first /\ (pointer # 0 => at # first)
    <3> HIDE DEF first, end, pointer
    <3>1. QED BY <2>1, <2>2
  <2>5. \A k \in Keys(before.blocks) : k \in Nat
    BY <2>2 DEF AddUp
  <2>6. ASSUME TlsPage < UserPages
        PROVE  /\ at \notin Keys(before.blocks) /\ at = next /\ at # first /\ next < above
               /\ \A k \in Keys(before.blocks) : k <= first \/ k >= above
               /\ next \in Nat /\ above \in Nat
    <3>1. \A k \in Keys(before.blocks) : k <= first \/ k = first \/ k >= above
      BY <2>6 DEF Apart
    <3>2. \A k \in Keys(before.blocks) : k \in Nat /\ (k <= first \/ k >= above)
      BY <2>2, <2>5, <3>1
    <3>3. /\ pointer = UserBase + Len(userslabs') /\ pointer # 0 /\ Len(userslabs') = Len(userslabs) - 1
      BY <2>1, <2>3, <2>6
    <3> HIDE DEF first, pointer
    <3>4. at = next /\ next < above /\ at # first /\ first < at /\ next \in Nat /\ above \in Nat
      BY <2>1, <2>2, <3>3
    <3> HIDE DEF at, next, above
    <3>5. at \notin Keys(before.blocks)
      BY <2>2, <3>2, <3>4
    <3>6. QED BY <3>2, <3>4, <3>5
  <2>7. ASSUME at \in Keys(before.blocks) PROVE at \in Backed(before)
    <3>1. EachHasBss
      BY <2>6, <2>7
    <3>2. PICK low : TlsFrom(offset, before, low, userslabs)
      BY <3>1
    <3>3. at \in TlsBlocks(offset, before)
      BY <2>2, <2>4, <2>7 DEF TlsBlocks
    <3>4. QED BY <3>2, <3>3 DEF TlsFrom, TlsPageInv
  <2>8. Conserves(before, mem', at, 1, end)
    BY <1>2, <2>1, <2>7, TlsConserves
  <2>9. ASSUME TlsPage < UserPages PROVE Apart(mem'.blocks, offset, first, userslabs')
    <3>1. ASSUME NEW key, Landed(before, at, 1, end, key) PROVE key <= first \/ key >= next
      <4>1. CASE key = at
        BY <2>4, <2>6, <2>9, <4>1
      <4>2. CASE key # at
        <5> HIDE DEF at, first, end, above, next
        <5>1. PICK low \in Keys(before.blocks) :
                  low < at /\ key = low + 1 /\ IsAllocated(before, before.blocks, low)
          BY <2>2, <2>4, <2>6, <2>9, <3>1, <4>2, LandsAt
        <5>2. low \in Nat /\ low <= first /\ low \in 0 .. end - 1
          BY <2>2, <2>4, <2>5, <2>6, <2>9, <5>1
        <5>3. low # first
          BY <2>9, <5>1, <5>2, AllocatedBacked DEF end, first
        <5>4. QED BY <2>2, <5>1, <5>2, <5>3
      <4>3. QED BY <4>1, <4>2
    <3>2. \A k \in Keys(before.blocks) : k <= first \/ k >= next
      <4> HIDE DEF at, first, end, above, next
      <4>1. QED BY <2>5, <2>6, <2>9
    <3>3. \A k \in Keys(mem'.blocks) : k <= first \/ k >= next
      BY <2>8, <3>1, <3>2 DEF Conserves
    <3>4. QED BY <3>3 DEF Apart
  <2>10. ASSUME TlsPage < UserPages PROVE first \notin Backed(mem')
    <3>1. Maps(before, mem', at, 1)
      BY <1>2, <2>1, MapTlsMemoryOf
    <3>2. at \in Int
      BY <2>4
    <3> HIDE DEF at, end, first
    <3>3. Backed(mem') \subseteq Backed(before) \cup Span(at, 1)
      BY <3>1, <3>2, MapsPages DEF end
    <3>4. Span(at, 1) = {at}
      BY <3>2 DEF Span
    <3>5. first # at /\ first \notin Backed(before)
      BY <2>6, <2>10 DEF first
    <3>6. QED BY <3>3, <3>4, <3>5
  <2>11. QED BY <2>8, <2>9, <2>10 DEF Conserves
<1>3. QED BY <1>1, <1>2, AllocateTlsCases

LEMMA ThreadTlsPages == ASSUME IInv, CountInv, PagesInv, AllocateThreadTls PROVE PagesInv'
<1>1. /\ phase = "run" /\ phase' = "run" /\ Live /\ AllocateTls(mem) /\ UNCHANGED <<modules, offset>>
  BY DEF AllocateThreadTls, layoutVars
<1>2. /\ TlsLists /\ offset \in Nat /\ HostInv(mem, SpaceEnd(offset))
      /\ Counted(freetls, fulltls, Len(tls)) /\ Len(userslabs) + TlsPages >= UserPages
  BY <1>1 DEF IInv, ThreadInv, LayoutInv, MemInv, Laid, CountInv
<1>3. EachHasBss' = EachHasBss
  BY <1>1 DEF EachHasBss
<1>4. TlsPage' < UserPages => TlsPage < UserPages
  BY <1>1, <1>2, TlsPageGrows, LoaderAssumption
<1>5. EachHasBss => \E low : TlsFrom(offset, mem, low, userslabs)
  BY <1>1 DEF IInv, ShapeInv
<1> SUFFICES ASSUME EachHasBss \/ TlsPage < UserPages
             PROVE  /\ AddUp(mem'.blocks, SpaceEnd(offset))
                    /\ TlsPage < UserPages => /\ Apart(mem'.blocks, offset, TlsIoBegin(offset), userslabs')
                                              /\ TlsIoBegin(offset) \notin Backed(mem')
  BY <1>1, <1>3, <1>4 DEF PagesInv, Laid
<1>6. /\ AddUp(mem.blocks, SpaceEnd(offset))
      /\ TlsPage < UserPages => /\ Apart(mem.blocks, offset, TlsIoBegin(offset), userslabs)
                                /\ TlsIoBegin(offset) \notin Backed(mem)
  BY <1>1 DEF PagesInv, Laid
<1>7. QED BY <1>1, <1>2, <1>5, <1>6, RunningPages

LEMMA InitializeThreadPages == ASSUME IInv, CountInv, PagesInv, InitializeThread PROVE PagesInv'
<1> DEFINE mapped == MapStackMemory(mem, offset, stack)
           at == StackBegin(offset)
           end == SpaceEnd(offset)
           first == TlsIoBegin(offset)
<1>1. /\ phase = "start" /\ phase' = "run" /\ Live /\ tls # <<>>
      /\ UNCHANGED <<modules, offset>>
      /\ \/ mapped.outcome = "ok" /\ AllocateTls(mapped)
         \/ mapped.outcome # "ok" /\ mem' = mapped /\ UNCHANGED <<userslabs, freetls, fulltls, tls>>
  BY DEF InitializeThread, layoutVars
<1>2. /\ TlsLists /\ offset \in Nat /\ HostInv(mem, end) /\ stack \in StackSizes
      /\ \A p \in Backed(mem) : p < offset \/ p >= first
      /\ Counted(freetls, fulltls, Len(tls)) /\ Len(userslabs) + TlsPages >= UserPages
      /\ Len(userslabs) \in 0 .. UserPages
  BY <1>1 DEF IInv, ThreadInv, TlsLists, LayoutInv, MemInv, Laid, CountInv
<1>3. /\ stack \in Nat \ {0} /\ stack <= StackSegmentPages /\ StackSegmentPages \in Nat /\ UserPages \in Nat
  BY <1>2, LoaderAssumption, MemoryAssumption
<1>4. /\ at \in Nat /\ offset < at /\ first = at + StackSegmentPages /\ first < end /\ end \in Nat
  BY <1>2, SegmentsOf
<1>5. EachHasBss' = EachHasBss
  BY <1>1 DEF EachHasBss
<1>6. /\ TlsPage \in Nat /\ (TlsPage' < UserPages => TlsPage < UserPages)
      /\ mapped.outcome # "ok" => mem'.outcome # "ok"
  <2>1. CASE mapped.outcome = "ok" /\ AllocateTls(mapped)
    BY <1>2, <1>3, <2>1, TlsPageGrows
  <2>2. CASE mapped.outcome # "ok" /\ mem' = mapped /\ tls' = tls
    BY <1>2, <2>2, TlsPageOf DEF TlsPage
  <2>3. QED BY <1>1, <2>1, <2>2
<1> SUFFICES ASSUME EachHasBss \/ TlsPage < UserPages
             PROVE  /\ AddUp(mem'.blocks, end)
                    /\ mem'.outcome = "ok" /\ TlsPage < UserPages =>
                          Apart(mem'.blocks, offset, first, userslabs') /\ first \notin Backed(mem')
  BY <1>1, <1>5, <1>6 DEF PagesInv, Laid, Live
<1>7. /\ AddUp(mem.blocks, end)
      /\ UpTo(mem.blocks, offset + 1, end) \/ Apart(mem.blocks, offset, offset, userslabs)
      /\ UserPages > 0 => first \notin Backed(mem)
  BY <1>1 DEF PagesInv, Laid
<1>8. AddUp(mapped.blocks, end) /\ Apart(mapped.blocks, offset, first, userslabs)
  BY <1>2, <1>3, <1>7, StackConserves
<1>9. HostInv(mapped, end) /\ Backed(mapped) \subseteq Backed(mem) \cup Span(at, stack)
  <2>1. Maps(mem, mapped, at, stack) /\ at \in Int
    BY <1>2, <1>3, <1>4, MapStackMemoryOf
  <2> HIDE DEF mapped, at, end, first
  <2>2. Backed(mem) \cap Span(at, stack) = {}
    <3>1. ASSUME NEW p \in Backed(mem), p \in Span(at, stack) PROVE FALSE
      <4>1. p \in Int /\ at <= p /\ p < at + stack
        BY <1>3, <1>4, <3>1 DEF Span
      <4>2. p < offset \/ p >= first
        BY <1>2
      <4>3. QED BY <1>2, <1>3, <1>4, <4>1, <4>2
    <3>2. QED BY <3>1
  <2>3. QED BY <1>2, <1>3, <2>1, <2>2, MapsPages
<1>10. TlsPage < UserPages => first \notin Backed(mapped)
  <2> HIDE DEF mapped, at, end, first
  <2>1. TlsPage < UserPages => first \notin Backed(mem)
    BY <1>3, <1>6, <1>7
  <2>2. first \notin Span(at, stack)
    <3>1. ~(first <= at + stack - 1)
      BY <1>3, <1>4
    <3>2. QED BY <3>1 DEF Span
  <2>3. QED BY <1>9, <2>1, <2>2
<1>11. EachHasBss /\ mapped.outcome = "ok" => \E low : TlsFrom(offset, mapped, low, userslabs)
  <2> SUFFICES ASSUME EachHasBss, mapped.outcome = "ok" PROVE TlsFrom(offset, mapped, at, userslabs)
    OBVIOUS
  <2>1. PICK low \in 0 .. offset :
            TlsFrom(offset, mem, low, userslabs) /\ mem.blocks[low].pages = end - low - 1
    BY <1>1 DEF IInv, ShapeInv
  <2>2. mem.blocks[low].pages \in Int
    BY <1>2, <1>4, <2>1
  <2>3. QED BY <1>2, <2>1, <2>2, StackShape
<1> HIDE DEF mapped
<1>12. CASE mapped.outcome = "ok" /\ AllocateTls(mapped)
  BY <1>2, <1>8, <1>9, <1>10, <1>11, <1>12, RunningPages
<1>13. CASE mapped.outcome # "ok" /\ mem' = mapped
  BY <1>8, <1>13
<1>14. QED BY <1>1, <1>12, <1>13

LEMMA PagesKept == ASSUME IInv, IInv', CountInv, PagesInv, [Next]_vars PROVE PagesInv'
<1>1. CASE UNCHANGED vars
  <2>1. UNCHANGED <<phase, index, modules, procimage, offset, mem, userslabs, tls>>
    BY <1>1 DEF vars
  <2>2. QED BY <2>1 DEF PagesInv, EachHasBss, TlsPage, Live, Laid, Reached, PastSections, Current
<1>2. CASE \E m \in Modules : GetCodeSet(m)
  <2>1. phase' = "layout"
    BY <1>2 DEF GetCodeSet
  <2>2. QED BY <2>1 DEF PagesInv, Laid
<1>3. CASE \E size \in StackSizes : AllocateExceptionTls(size)
  BY <1>3, ExceptionTlsPages
<1>4. MemInv'
  BY DEF IInv
<1>5. QED BY <1>1, <1>2, <1>3, <1>4, LoadMemoryPages, SetSectionPages, ReturnPages, EndOfSectionsPages,
             InitializeThreadPages, ThreadTlsPages DEF Next, Load, StartProcess

\* The pages of all blocks are those of the address space, as long as userslabs has
\* pages or with .bss in every module but the last: no page is lost or counted twice
\* when Map splits a block, takes pages from another one or puts a block behind it.
THEOREM PagesAddUp == Spec => []PagesConserved
<1>1. Init => PagesInv
  BY DEF Init, PagesInv, Laid
<1>2. IInv /\ IInv' /\ CountInv /\ PagesInv /\ [Next]_vars => PagesInv'
  BY PagesKept
<1>3. PagesInv => PagesConserved
  BY DEF PagesInv, PagesConserved, AddUp, Total
<1>4. QED BY <1>1, <1>2, <1>3, Invariance, CountsHold, PTL DEF Spec
=============================================================================
