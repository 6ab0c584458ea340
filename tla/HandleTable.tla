----------------------------- MODULE HandleTable -----------------------------
(***************************************************************************)
(* The handle table of a process (kernel/types/khandle_table.{h,cpp}) over *)
(* the object lifetimes of AutoObject.                                     *)
(*                                                                         *)
(* A table has Size slots. Allocate pops a slot off the free stack, stamps *)
(* it with a running U16 count and returns count << 15 | slot; Free looks  *)
(* the count up, ignoring the slot; GetObject looks the slot up and        *)
(* compares the count. A handle is written here <<count, slot>>: with      *)
(* Size <= 2^15 slots the packing is one to one.                           *)
(*                                                                         *)
(* Each call is one step: fibers of the process switch at Yield() alone,   *)
(* never inside a call.                                                    *)
(***************************************************************************)
EXTENDS AutoObject, Sequences

CONSTANTS
    Size,        \* slots of the table (1024 in the code)
    CounterMod,  \* counter is a U16: CounterMod stands for 2^16
    MaxAllocs,   \* bound: handles one table ever gives out
    MaxOpen      \* handles the clients keep open at once

\* The count must not come round to a count still in use, nor to 0, which marks
\* a free slot; the lifetimes must not overflow.
ASSUME TableAssumption ==
    /\ Size \in Nat \ {0}
    /\ MaxOpen \in 1 .. Size
    /\ MaxAllocs \in Nat
    /\ CounterMod \in Nat
    /\ MaxAllocs + 1 < CounterMod
    /\ LifetimeMod \in Nat
    /\ Size + MaxBorrowed + 1 < LifetimeMod

VARIABLES
    itemstable,  \* slot -> [handle, object] (KHandleEntry)
    freelist,    \* stack of free slots, its top last
    counter,     \* the count the next handle gets
    fault,       \* freelist.back() of an empty list or a call on a null object
    closed,      \* CloseAll has run: the owner, being destroyed, stops here
    issued,      \* history: every handle returned to a client
    open         \* history: pairs <<handle, object>> the clients hold

tableVars == <<itemstable, freelist, counter, fault, closed, issued, open>>
vars == <<autoVars, tableVars>>

Slot == 0 .. Size - 1
Counts == 0 .. CounterMod - 1
Handle == Counts \X Slot

\* counter++ on the U16. (Mistake: the count is used but not advanced.)
CountStandsStill(n) == n - 1
Wrap16(n) == IF n = CounterMod THEN 0 ELSE n

\* The constructor stacks every slot. (Mistake: the slots numbered from 1.)
SlotsFromOne == [i \in 1 .. Size |-> i]
AllSlots == [i \in 1 .. Size |-> i - 1]

FreeSlots == {freelist[i] : i \in 1 .. Len(freelist)}
SlotsOf(o) == {s \in Slot \ FreeSlots : itemstable[s].object = o}

\* The object a handle resolves to (KHandleTable::GetObject).
GetObject(h) ==
    IF itemstable[h[2]].handle = h[1] THEN itemstable[h[2]].object ELSE NoObject

Init ==
    /\ AutoInit
    /\ itemstable = [s \in Slot |-> [handle |-> 0, object |-> NoObject]]
    /\ freelist = AllSlots
    /\ counter = 1
    /\ fault = FALSE
    /\ closed = FALSE
    /\ issued = {}
    /\ open = {}

InService == ~fault /\ ~closed
-----------------------------------------------------------------------------

\* The slot on top of the stack takes the object and the count.
Stamp(o) ==
    LET s == freelist[Len(freelist)]
        h == <<counter, s>>
    IN  /\ itemstable' = [itemstable EXCEPT ![s] = [handle |-> counter, object |-> o]]
        /\ freelist' = SubSeq(freelist, 1, Len(freelist) - 1)
        /\ issued' = issued \cup {h}
        /\ open' = open \cup {<<h, o>>}
        /\ UNCHANGED fault

\* Allocate(object). The code does not ask whether a slot is left: back() of an
\* empty vector is undefined. (Allocate(nullptr) returns 0 and changes nothing.)
Allocate(o) ==
    /\ InService
    /\ counter <= MaxAllocs
    /\ Cardinality(open) < MaxOpen
    /\ counter' = Wrap16(counter + 1)
    /\ IncreaseLifetime(o)
    /\ IF freelist # <<>>
       THEN Stamp(o)
       ELSE fault' = TRUE /\ UNCHANGED <<itemstable, freelist, issued, open>>
    /\ UNCHANGED <<destroyed, autorefs, borrowed, closed>>

Matches(cnt) == {s \in Slot : itemstable[s].handle = cnt}
FirstMatch(cnt, s) == s \in Matches(cnt) /\ \A t \in Matches(cnt) : s <= t

\* The slot's object is released and the slot pushed, with the count it keeps. A
\* slot that never held an object is a call on a null pointer.
ReleaseSlot(s, count, pushed) ==
    IF itemstable[s].object \in Objects
    THEN /\ DeteriorateLifetimes(Once(itemstable[s].object))
         /\ itemstable' = [itemstable EXCEPT ![s].handle = count]
         /\ freelist' = pushed
         /\ UNCHANGED fault
    ELSE fault' = TRUE /\ UNCHANGED <<lifetime, destroyed, autorefs, itemstable, freelist>>

\* Mistakes: the count is not reset; the slot is not pushed.
ReleaseKeepsCount(s) == ReleaseSlot(s, itemstable[s].handle, Append(freelist, s))
ReleaseLosesSlot(s) == ReleaseSlot(s, 0, freelist)

\* The first slot with the count is released. std::move only binds a reference:
\* the slot keeps its object.
Release(s) == ReleaseSlot(s, 0, Append(freelist, s))

\* Free(handle), for any handle a client was ever given: a handle that is no
\* longer in the table is ignored.
Free(h) ==
    /\ InService
    /\ \/ /\ Matches(h[1]) = {}
          /\ UNCHANGED <<lifetime, destroyed, autorefs, itemstable, freelist, fault>>
       \/ \E s \in Slot : FirstMatch(h[1], s) /\ Release(s)
    /\ open' = {p \in open : p[1] # h}
    /\ UNCHANGED <<borrowed, counter, closed, issued>>

\* CloseAll releases what every slot not on the stack holds and pushes the slot,
\* in slot order; counts and objects stay in the slots. KProcess::Destroyed, its
\* only caller, ends the table's life.
CloseAll ==
    /\ InService
    /\ DeteriorateLifetimes([o \in Objects |-> Cardinality(SlotsOf(o))])
    /\ LET taken == Slot \ FreeSlots
       IN  \E q \in [1 .. Cardinality(taken) -> taken] :
               /\ \A i, j \in DOMAIN q : i < j => q[i] < q[j]
               /\ freelist' = freelist \o q
    /\ closed' = TRUE
    /\ open' = {}
    /\ UNCHANGED <<borrowed, itemstable, counter, fault, issued>>

Next ==
    \/ \E o \in Objects : Allocate(o)
    \/ \E h \in issued : Free(h)
    \/ CloseAll
    \/ AutoNext /\ UNCHANGED tableVars

Spec == Init /\ [][Next]_vars
-----------------------------------------------------------------------------

\* The type of every variable.
TypeOK ==
    /\ lifetime \in [Objects -> 0 .. LifetimeMod - 1]
    /\ destroyed \in [Objects -> Nat]
    /\ autorefs \in [Keys -> Objects \cup {NoObject}]
    /\ borrowed \in [Objects -> 0 .. MaxBorrowed]
    /\ itemstable \in [Slot -> [handle : Counts, object : Objects \cup {NoObject}]]
    /\ freelist \in Seq(Slot)
    /\ counter \in Counts
    /\ fault \in BOOLEAN
    /\ closed \in BOOLEAN
    /\ issued \subseteq Handle
    /\ open \subseteq Handle \X Objects

\* The table never reaches the undefined cases of Allocate and Free: as long as
\* the clients keep at most Size handles open, a slot is on the stack when
\* Allocate pops one, and the slot Free finds holds an object, whatever mixture
\* of fresh, repeated and outdated handles was freed before.
NoFault == ~fault

\* Every handle ever returned resolves to the object it was opened for while the
\* client holds it, and to nothing once it was freed: neither a reused slot nor a
\* repeated Free makes an outdated handle name somebody else's object.
ResolvesExactlyOpen ==
    ~closed => \A h \in issued, o \in Objects :
                   GetObject(h) = o <=> <<h, o>> \in open

\* The references clients have on an object, as the clients count them.
References(o) == borrowed[o] + Cardinality({p \in open : p[2] = o})

\* An object's lifetime count is what its clients hold: open handles and borrowed
\* references, no more (a leak) and no less (a use after Destroyed).
LifetimeIsReferences == \A o \in Objects : lifetime[o] = References(o)

\* Destroyed() runs in exactly the steps that take an object's last reference,
\* once per such step, also when CloseAll takes several at a time.
DestroyedAtLastRelease ==
    [][\A o \in Objects :
          destroyed'[o] - destroyed[o] =
              IF References(o) > 0 /\ References(o)' = 0 THEN 1 ELSE 0]_vars

\* autorefs holds raw pointers. Whoever gives back an object's last reference, through
\* Free, CloseAll or GetObjectBy, takes its only name away (RemoveReference(0)), and no
\* name of an object that has references left but 0, the key that means none.
Names(o) == {k \in Keys : autorefs[k] = o}
LastReleased(o) == References(o) > 0 /\ References(o)' = 0
OnlyNameGoesAtLastRelease ==
    [][\A o \in Objects : LastReleased(o) =>
          /\ (\A j, k \in Names(o) : j = k) => Names(o)' = {}
          /\ \A p \in Objects : ~LastReleased(p) => Names(p)' \ {0} = Names(p) \ {0}]_vars

\* The table keeps the promise of HandleRegistry: slots off the free stack are
\* the opened handles.
OpenedSlots == {<<<<itemstable[s].handle, s>>, itemstable[s].object>> :
                   s \in Slot \ FreeSlots}

Registry == INSTANCE HandleRegistry WITH
                RegisteredObjects <- Objects,
                Handles <- Handle,
                opened <- OpenedSlots

\* Every behaviour of the table is one of HandleRegistry's: a returned handle is
\* new, Free of an open handle closes that handle alone, Free of any other and
\* the reference counting change nothing a client sees.
ImplementsRegistry == Registry!Spec
=============================================================================
