-------------------------- MODULE HandleTableProofs --------------------------
(***************************************************************************)
(* Proofs about HandleTable for tables of any size, any objects and keys.  *)
(***************************************************************************)
EXTENDS HandleTable, FiniteSetTheorems, FunctionTheorems, TLAPS

-----------------------------------------------------------------------------
(* The stack of free slots.                                                *)

\* The values on a stack.
Values(q) == {q[i] : i \in 1 .. Len(q)}
Injective(q) == \A i, j \in 1 .. Len(q) : q[i] = q[j] => i = j

\* The first n entries of a stack.
LEMMA PrefixLemma ==
    ASSUME NEW T, NEW q \in Seq(T), NEW n \in Nat, n <= Len(q)
    PROVE  /\ SubSeq(q, 1, n) \in Seq(T)
           /\ Len(SubSeq(q, 1, n)) = n
           /\ \A i \in 1 .. n : SubSeq(q, 1, n)[i] = q[i]
OBVIOUS

\* A function on 1 .. n is a sequence of length n.
LEMMA FunctionIsSeq ==
    ASSUME NEW T, NEW n \in Nat, NEW f \in [1 .. n -> T]
    PROVE  f \in Seq(T)
OBVIOUS

\* Putting a sequence on top adds its values.
LEMMA ConcatLemma ==
    ASSUME NEW S, NEW T, NEW p \in Seq(S), NEW q \in Seq(T)
    PROVE  Values(p \o q) = Values(p) \cup Values(q)
<1>1. p \o q \in Seq(S \cup T) /\ Len(p \o q) = Len(p) + Len(q) /\ Len(p) \in Nat /\ Len(q) \in Nat
  OBVIOUS
<1>2. \A i \in 1 .. Len(p) : (p \o q)[i] = p[i]
  OBVIOUS
<1>3. \A i \in 1 .. Len(q) : (p \o q)[Len(p) + i] = q[i]
  OBVIOUS
<1>4. ASSUME NEW x \in Values(p \o q) PROVE x \in Values(p) \cup Values(q)
  <2>1. PICK i \in 1 .. Len(p) + Len(q) : x = (p \o q)[i]
    BY <1>1 DEF Values
  <2>2. CASE i \in 1 .. Len(p)
    BY <1>2, <2>1, <2>2 DEF Values
  <2>3. CASE i \notin 1 .. Len(p)
    <3>1. i - Len(p) \in 1 .. Len(q) /\ i = Len(p) + (i - Len(p))
      BY <1>1, <2>1, <2>3
    <3>2. x = q[i - Len(p)]
      BY <1>3, <2>1, <3>1
    <3>3. QED BY <3>1, <3>2 DEF Values
  <2>4. QED BY <2>2, <2>3
<1>5. ASSUME NEW x \in Values(p) \cup Values(q) PROVE x \in Values(p \o q)
  <2>1. CASE x \in Values(p)
    BY <1>1, <1>2, <2>1 DEF Values
  <2>2. CASE x \in Values(q)
    <3>1. PICK i \in 1 .. Len(q) : x = q[i]
      BY <2>2 DEF Values
    <3>2. Len(p) + i \in 1 .. Len(p \o q) /\ x = (p \o q)[Len(p) + i]
      BY <1>1, <1>3, <3>1
    <3>3. QED BY <3>2 DEF Values
  <2>3. QED BY <1>5, <2>1, <2>2
<1>6. QED BY <1>4, <1>5

\* Popping removes exactly the top of a stack without repetitions.
LEMMA PopLemma ==
    ASSUME NEW T, NEW q \in Seq(T), q # <<>>, Injective(q)
    PROVE  LET r == SubSeq(q, 1, Len(q) - 1)
           IN  /\ r \in Seq(T)
               /\ Injective(r)
               /\ q[Len(q)] \in T
               /\ Values(r) = Values(q) \ {q[Len(q)]}
<1> DEFINE r == SubSeq(q, 1, Len(q) - 1)
<1>1. Len(q) \in Nat \ {0}
  OBVIOUS
<1>2. r \in Seq(T) /\ Len(r) = Len(q) - 1 /\ \A i \in 1 .. Len(r) : r[i] = q[i]
  <2>1. Len(q) - 1 \in Nat /\ Len(q) - 1 <= Len(q)
    BY <1>1
  <2>2. QED BY ONLY q \in Seq(T), <2>1, PrefixLemma
<1>4. Injective(r)
  BY <1>1, <1>2 DEF Injective
<1>5. Values(r) = Values(q) \ {q[Len(q)]}
  <2>1. ASSUME NEW x \in Values(r) PROVE x \in Values(q) \ {q[Len(q)]}
    BY <1>1, <1>2 DEF Values, Injective
  <2>2. ASSUME NEW x \in Values(q) \ {q[Len(q)]} PROVE x \in Values(r)
    <3>1. PICK i \in 1 .. Len(q) : x = q[i]
      BY DEF Values
    <3>2. i \in 1 .. Len(r)
      BY <1>1, <1>2, <2>2, <3>1
    <3>3. QED BY <1>2, <3>1, <3>2 DEF Values
  <2>3. QED BY <2>1, <2>2
<1>6. QED BY <1>1, <1>2, <1>4, <1>5

\* Pushing a new value adds exactly that value.
LEMMA PushLemma ==
    ASSUME NEW T, NEW q \in Seq(T), NEW x \in T, x \notin Values(q), Injective(q)
    PROVE  /\ Append(q, x) \in Seq(T)
           /\ Injective(Append(q, x))
           /\ Values(Append(q, x)) = Values(q) \cup {x}
<1> DEFINE r == Append(q, x)
<1>1. r \in Seq(T) /\ Len(r) = Len(q) + 1 /\ Len(q) \in Nat /\ r[Len(q) + 1] = x
  OBVIOUS
<1>2. \A i \in 1 .. Len(q) : r[i] = q[i]
  OBVIOUS
<1>3. Injective(r)
  BY <1>1, <1>2 DEF Injective, Values
<1>4. Values(r) = Values(q) \cup {x}
  <2>1. ASSUME NEW y \in Values(r) PROVE y \in Values(q) \cup {x}
    BY <1>1, <1>2 DEF Values
  <2>2. ASSUME NEW y \in Values(q) \cup {x} PROVE y \in Values(r)
    BY <1>1, <1>2 DEF Values
  <2>3. QED BY <2>1, <2>2
<1>5. QED BY <1>1, <1>3, <1>4

-----------------------------------------------------------------------------
(* The inductive invariant. The counts of issued handles are all different    *)
(* and positive, a slot is on the stack exactly when its count is 0, and the  *)
(* slots off the stack are exactly the handles the clients hold: that is why  *)
(* Free, which looks for the count alone, finds the slot of its handle.       *)

CounterInv == counter \in 1 .. MaxAllocs + 1

IssuedInv ==
    \A h \in issued : /\ h[1] \in 1 .. counter - 1
                      /\ \A g \in issued : g[1] = h[1] => g = h

StackInv == ~closed => Injective(freelist)

SlotInv ==
    ~closed => \A s \in Slot :
                   /\ s \in FreeSlots <=> itemstable[s].handle = 0
                   /\ s \notin FreeSlots => /\ itemstable[s].object \in Objects
                                            /\ <<itemstable[s].handle, s>> \in issued

OpenInv == IF closed THEN open = {} ELSE open = OpenedSlots

Held(o) == IF closed THEN 0 ELSE Cardinality(SlotsOf(o))
LifetimeInv == \A o \in Objects : lifetime[o] = borrowed[o] + Held(o)

IInv ==
    /\ TypeOK
    /\ NoFault
    /\ CounterInv
    /\ IssuedInv
    /\ StackInv
    /\ SlotInv
    /\ OpenInv
    /\ LifetimeInv

-----------------------------------------------------------------------------
(* Counting slots and handles.                                             *)

\* There are Size slots.
LEMMA SlotCount == IsFiniteSet(Slot) /\ Cardinality(Slot) = Size
<1>1. 0 \in Int /\ Size - 1 \in Int
  BY TableAssumption
<1>2. IsFiniteSet(0 .. Size - 1) /\ Cardinality(0 .. Size - 1) = IF 0 > Size - 1 THEN 0 ELSE (Size - 1) - 0 + 1
  BY ONLY <1>1, FS_Interval
<1>3. QED BY <1>2, TableAssumption DEF Slot

\* Finitely many slots hold an object, at most Size.
LEMMA SlotsOfCount ==
    ASSUME NEW o
    PROVE  /\ IsFiniteSet(SlotsOf(o))
           /\ Cardinality(SlotsOf(o)) \in 0 .. Size
<1>1. SlotsOf(o) \in SUBSET Slot
  BY DEF SlotsOf
<1>2. IsFiniteSet(SlotsOf(o)) /\ Cardinality(SlotsOf(o)) <= Cardinality(Slot)
  BY <1>1, SlotCount, FS_Subset
<1>3. Cardinality(SlotsOf(o)) \in Nat
  BY <1>2, FS_CardinalityType
<1>4. QED BY <1>2, <1>3, SlotCount, TableAssumption

\* Pairing the members of a set with distinct first components keeps their number.
LEMMA PairCount ==
    ASSUME NEW S, IsFiniteSet(S), S \subseteq Slot
    PROVE  LET P == {<<<<itemstable[s].handle, s>>, itemstable[s].object>> : s \in S}
           IN  IsFiniteSet(P) /\ Cardinality(P) = Cardinality(S)
<1> DEFINE Pair(s) == <<<<itemstable[s].handle, s>>, itemstable[s].object>>
           P == {Pair(s) : s \in S}
           f == [s \in S |-> Pair(s)]
<1>1. f \in Bijection(S, P)
  <2>1. f \in [S -> P]
    OBVIOUS
  <2>2. \A s, t \in S : f[s] = f[t] => s = t
    OBVIOUS
  <2>3. \A x \in P : \E s \in S : f[s] = x
    OBVIOUS
  <2>4. QED BY <2>1, <2>2, <2>3, Fun_IsBij
<1>2. ExistsBijection(S, P)
  BY <1>1 DEF ExistsBijection
<1>3. QED BY <1>2, FS_Bijection

\* The open handles to one object, counted by the clients and by the table.
LEMMA OpenCount ==
    ASSUME OpenInv, NEW o \in Objects
    PROVE  Cardinality({p \in open : p[2] = o}) = Held(o)
<1>1. CASE closed
  <2>1. {p \in open : p[2] = o} = {}
    BY <1>1 DEF OpenInv
  <2>2. QED BY <1>1, <2>1, FS_EmptySet DEF Held
<1>2. CASE ~closed
  <2>1. {p \in open : p[2] = o} =
        {<<<<itemstable[s].handle, s>>, itemstable[s].object>> : s \in SlotsOf(o)}
    BY <1>2 DEF OpenInv, OpenedSlots, SlotsOf
  <2>2. SlotsOf(o) \subseteq Slot
    BY DEF SlotsOf
  <2>3. QED BY <1>2, <2>1, <2>2, SlotsOfCount, PairCount DEF Held
<1>3. QED BY <1>1, <1>2

\* While fewer than Size handles are open, the stack is not empty.
LEMMA SlotLeft ==
    ASSUME OpenInv, ~closed, Cardinality(open) < MaxOpen
    PROVE  freelist # <<>>
<1>1. SUFFICES ASSUME freelist = <<>> PROVE FALSE
  OBVIOUS
<1>2. Slot \ FreeSlots = Slot
  BY <1>1 DEF FreeSlots
<1>3. open = {<<<<itemstable[s].handle, s>>, itemstable[s].object>> : s \in Slot}
  BY <1>2 DEF OpenInv, OpenedSlots
<1>4. Cardinality(open) = Size
  BY <1>3, SlotCount, PairCount
<1>5. QED BY <1>4, TableAssumption

\* An object's count stays far from both ends of the U32.
LEMMA LifetimeRange ==
    ASSUME TypeOK, LifetimeInv, NEW o \in Objects
    PROVE  /\ lifetime[o] \in Nat
           /\ lifetime[o] + 1 < LifetimeMod
           /\ Held(o) \in Nat
           /\ borrowed[o] \in Nat
           /\ lifetime[o] = borrowed[o] + Held(o)
<1>1. Held(o) \in 0 .. Size
  BY SlotsOfCount, TableAssumption DEF Held
<1>2. borrowed[o] \in 0 .. MaxBorrowed
  BY DEF TypeOK
<1>3. lifetime[o] = borrowed[o] + Held(o)
  BY DEF LifetimeInv
<1>4. QED BY <1>1, <1>2, <1>3, TableAssumption, BorrowAssumption

-----------------------------------------------------------------------------
(* The invariant holds initially and every action preserves it.            *)

\* The constructor establishes the invariant.
LEMMA InitInv == Init => IInv
<1> SUFFICES ASSUME Init PROVE IInv
  OBVIOUS
<1> USE DEF Init, AutoInit
<1>1. Size \in Nat \ {0} /\ freelist = AllSlots /\ closed = FALSE /\ open = {} /\ issued = {}
  BY TableAssumption
<1>2. freelist \in Seq(Slot) /\ Len(freelist) = Size /\ \A i \in 1 .. Size : freelist[i] = i - 1
  BY <1>1 DEF AllSlots, Slot
<1>3. FreeSlots = Slot
  <2>1. ASSUME NEW s \in Slot PROVE s \in FreeSlots
    <3>1. s + 1 \in 1 .. Size /\ freelist[s + 1] = s
      BY <1>1, <1>2 DEF Slot
    <3>2. QED BY <1>2, <3>1 DEF FreeSlots
  <2>2. ASSUME NEW s \in FreeSlots PROVE s \in Slot
    BY <1>1, <1>2 DEF FreeSlots, Slot
  <2>3. QED BY <2>1, <2>2
<1>4. TypeOK
  <2>1. /\ lifetime \in [Objects -> 0 .. LifetimeMod - 1]
        /\ destroyed \in [Objects -> Nat]
        /\ autorefs \in [Keys -> Objects \cup {NoObject}]
        /\ borrowed \in [Objects -> 0 .. MaxBorrowed]
    BY TableAssumption, BorrowAssumption
  <2>2. 0 \in Counts /\ counter \in Counts
    BY TableAssumption DEF Counts
  <2>3. itemstable \in [Slot -> [handle : Counts, object : Objects \cup {NoObject}]]
    BY <2>2
  <2>4. QED BY ONLY Init, <1>1, <1>2, <2>1, <2>2, <2>3 DEF TypeOK, Init
<1>5. NoFault /\ IssuedInv
  BY DEF NoFault, IssuedInv
<1>6. CounterInv
  BY TableAssumption DEF CounterInv
<1>7. StackInv
  BY <1>1, <1>2 DEF StackInv, Injective
<1>8. SlotInv
  BY <1>3 DEF SlotInv
<1>9. OpenInv
  BY <1>1, <1>3 DEF OpenInv, OpenedSlots
<1>10. LifetimeInv
  <2>1. ASSUME NEW o \in Objects PROVE SlotsOf(o) = {}
    BY <1>3 DEF SlotsOf
  <2>2. QED BY <1>1, <2>1, FS_EmptySet DEF LifetimeInv, Held
<1>11. QED BY <1>4, <1>5, <1>6, <1>7, <1>8, <1>9, <1>10 DEF IInv

\* The references go up by one where IncreaseLifetime is called.
LEMMA IncreaseEffect ==
    ASSUME TypeOK, LifetimeInv, NEW o \in Objects, IncreaseLifetime(o)
    PROVE  /\ lifetime' \in [Objects -> 0 .. LifetimeMod - 1]
           /\ \A p \in Objects : lifetime'[p] = IF p = o THEN lifetime[p] + 1 ELSE lifetime[p]
<1>1. lifetime \in [Objects -> 0 .. LifetimeMod - 1]
  BY DEF TypeOK
<1>2. lifetime[o] \in Nat /\ lifetime[o] + 1 < LifetimeMod
  BY LifetimeRange
<1>3. Wrap32(lifetime[o] + 1) = lifetime[o] + 1
  BY <1>2, TableAssumption DEF Wrap32
<1>4. QED BY <1>1, <1>2, <1>3, TableAssumption DEF IncreaseLifetime

\* Releases that do not outnumber the references: counts go down by as much, and
\* an object that dies loses the name that is looked up for it.
LEMMA DeteriorateEffect ==
    ASSUME TypeOK,
           NEW drops \in [Objects -> Nat], \A o \in Objects : drops[o] <= lifetime[o],
           DeteriorateLifetimes(drops)
    PROVE  /\ lifetime' \in [Objects -> 0 .. LifetimeMod - 1]
           /\ \A o \in Objects : lifetime'[o] = lifetime[o] - drops[o]
           /\ destroyed' \in [Objects -> Nat]
           /\ \A o \in Objects : destroyed'[o] = IF o \in Dying(drops) THEN destroyed[o] + 1 ELSE destroyed[o]
           /\ autorefs' \in [Keys -> Objects \cup {NoObject}]
<1> USE DEF DeteriorateLifetimes
<1>1. ASSUME NEW o \in Objects PROVE Wrap32(lifetime[o] - drops[o]) = lifetime[o] - drops[o]
                                     /\ lifetime[o] - drops[o] \in 0 .. LifetimeMod - 1
  <2>1. lifetime[o] \in 0 .. LifetimeMod - 1 /\ drops[o] \in Nat /\ drops[o] <= lifetime[o]
    BY DEF TypeOK
  <2>2. QED BY <2>1, TableAssumption DEF Wrap32
<1>2. lifetime' \in [Objects -> 0 .. LifetimeMod - 1]
      /\ \A o \in Objects : lifetime'[o] = lifetime[o] - drops[o]
  BY <1>1
<1>3. destroyed' \in [Objects -> Nat]
      /\ \A o \in Objects : destroyed'[o] = IF o \in Dying(drops) THEN destroyed[o] + 1 ELSE destroyed[o]
  BY DEF TypeOK
<1>4. autorefs' \in [Keys -> Objects \cup {NoObject}]
  BY DEF TypeOK
<1>5. QED BY <1>2, <1>3, <1>4

\* Allocate preserves the invariant: the popped slot and the fresh count are new to
\* the table and to every handle issued.
LEMMA AllocateInv ==
    ASSUME IInv, NEW o \in Objects, Allocate(o)
    PROVE  IInv'
<1> DEFINE s == freelist[Len(freelist)]
           h == <<counter, s>>
<1> USE DEF IInv
<1>1. ~closed /\ ~fault /\ closed' = FALSE /\ counter <= MaxAllocs
      /\ UNCHANGED <<destroyed, autorefs, borrowed>>
  BY DEF Allocate, InService
<1>2. freelist # <<>>
  BY <1>1, SlotLeft DEF Allocate
<1>3. /\ itemstable' = [itemstable EXCEPT ![s] = [handle |-> counter, object |-> o]]
      /\ freelist' = SubSeq(freelist, 1, Len(freelist) - 1)
      /\ issued' = issued \cup {h}
      /\ open' = open \cup {<<h, o>>}
      /\ fault' = fault
  BY <1>2 DEF Allocate, Stamp
<1>4. counter \in 1 .. MaxAllocs /\ counter' = counter + 1 /\ counter' \in Counts /\ counter \in Counts
  BY <1>1, TableAssumption DEF CounterInv, Allocate, Wrap16, Counts
<1>5. /\ freelist' \in Seq(Slot)
      /\ Injective(freelist')
      /\ s \in Slot
      /\ FreeSlots' = FreeSlots \ {s}
      /\ s \in FreeSlots
  <2>1. freelist \in Seq(Slot) /\ Injective(freelist)
    BY <1>1 DEF TypeOK, StackInv
  <2>2. /\ freelist' \in Seq(Slot)
        /\ Injective(freelist')
        /\ s \in Slot
        /\ Values(freelist') = Values(freelist) \ {s}
    BY <1>2, <1>3, <2>1, PopLemma
  <2>3. s \in FreeSlots
    BY <1>2, <2>1 DEF FreeSlots
  <2>4. QED BY <2>2, <2>3 DEF Values, FreeSlots
<1>6. itemstable \in [Slot -> [handle : Counts, object : Objects \cup {NoObject}]]
  BY DEF TypeOK
<1>7. \A t \in Slot : itemstable'[t] = IF t = s THEN [handle |-> counter, object |-> o] ELSE itemstable[t]
  BY <1>3, <1>5, <1>6
<1>8. /\ lifetime' \in [Objects -> 0 .. LifetimeMod - 1]
      /\ \A p \in Objects : lifetime'[p] = IF p = o THEN lifetime[p] + 1 ELSE lifetime[p]
  BY IncreaseEffect DEF Allocate
<1>9. TypeOK'
  <2>1. itemstable' \in [Slot -> [handle : Counts, object : Objects \cup {NoObject}]]
    BY <1>3, <1>4, <1>5, <1>6
  <2>2. issued' \subseteq Handle /\ open' \subseteq Handle \X Objects
    BY <1>3, <1>4, <1>5 DEF TypeOK, Handle
  <2>3. QED BY <1>1, <1>3, <1>4, <1>5, <1>8, <2>1, <2>2 DEF TypeOK
<1>10. NoFault' /\ CounterInv' /\ StackInv'
  <2>1. NoFault' /\ StackInv'
    BY <1>1, <1>3, <1>5 DEF NoFault, StackInv
  <2>2. CounterInv'
    BY <1>4, TableAssumption DEF CounterInv
  <2>3. QED BY <2>1, <2>2
<1>11. IssuedInv'
  BY <1>3, <1>4 DEF IssuedInv
<1>12. SlotInv'
  <2>1. SUFFICES ASSUME NEW t \in Slot
                 PROVE  /\ t \in FreeSlots' <=> itemstable'[t].handle = 0
                        /\ t \notin FreeSlots' => /\ itemstable'[t].object \in Objects
                                                  /\ <<itemstable'[t].handle, t>> \in issued'
    BY <1>1 DEF SlotInv
  <2>2. CASE t = s
    BY <1>3, <1>4, <1>5, <1>7, <2>2
  <2>3. CASE t # s
    BY <1>1, <1>3, <1>5, <1>7, <2>3 DEF SlotInv
  <2>4. QED BY <2>2, <2>3
<1>13. OpenInv'
  <2>1. open = OpenedSlots
    BY <1>1 DEF OpenInv
  <2>2. OpenedSlots' = OpenedSlots \cup {<<h, o>>}
    <3>1. OpenedSlots' = {<<<<itemstable'[t].handle, t>>, itemstable'[t].object>> :
                             t \in (Slot \ FreeSlots) \cup {s}}
      BY <1>5 DEF OpenedSlots
    <3>2. QED BY <1>5, <1>7, <3>1 DEF OpenedSlots
  <2>3. QED BY <1>1, <1>3, <2>1, <2>2 DEF OpenInv
<1>14. LifetimeInv'
  <2>1. SlotsOf(o)' = SlotsOf(o) \cup {s} /\ s \notin SlotsOf(o)
    BY <1>5, <1>7 DEF SlotsOf
  <2>2. ASSUME NEW p \in Objects, p # o PROVE SlotsOf(p)' = SlotsOf(p)
    BY <1>5, <1>7, <2>2 DEF SlotsOf
  <2>3. Cardinality(SlotsOf(o) \cup {s}) = Cardinality(SlotsOf(o)) + 1
    BY <2>1, SlotsOfCount, FS_AddElement
  <2>4. ASSUME NEW p \in Objects PROVE Held(p)' = IF p = o THEN Held(p) + 1 ELSE Held(p)
    BY <1>1, <2>1, <2>2, <2>3 DEF Held
  <2>5. ASSUME NEW p \in Objects PROVE lifetime'[p] = borrowed'[p] + Held(p)'
    BY <1>1, <1>8, <2>4, LifetimeRange
  <2>6. QED BY <2>5 DEF LifetimeInv
<1>15. QED BY <1>9, <1>10, <1>11, <1>12, <1>13, <1>14

\* A step that changes no variable preserves the invariant.
LEMMA StutterInv ==
    ASSUME IInv, UNCHANGED vars
    PROVE  IInv'
<1> USE DEF vars, autoVars, tableVars
<1>1. FreeSlots' = FreeSlots /\ OpenedSlots' = OpenedSlots
  BY DEF FreeSlots, OpenedSlots
<1>2. ASSUME NEW o PROVE Held(o)' = Held(o)
  BY <1>1 DEF Held, SlotsOf
<1>3. TypeOK' /\ NoFault' /\ CounterInv' /\ IssuedInv' /\ StackInv'
  BY DEF IInv, TypeOK, NoFault, CounterInv, IssuedInv, StackInv
<1>4. SlotInv' /\ OpenInv'
  BY <1>1 DEF IInv, SlotInv, OpenInv
<1>5. LifetimeInv'
  BY <1>2 DEF IInv, LifetimeInv
<1>6. QED BY <1>3, <1>4, <1>5 DEF IInv

\* Freeing a handle that no slot holds changes nothing, not even open.
LEMMA FreeNothing ==
    ASSUME IInv, NEW h \in issued, Free(h), Matches(h[1]) = {}
    PROVE  UNCHANGED vars
<1>1. ~closed /\ \A s : ~FirstMatch(h[1], s)
  BY DEF Free, InService, FirstMatch
<1>2. UNCHANGED <<lifetime, destroyed, autorefs, itemstable, freelist, fault,
                  borrowed, counter, closed, issued>>
      /\ open' = {p \in open : p[1] # h}
  BY <1>1 DEF Free
<1>3. \A p \in open : p[1] # h
  BY <1>1 DEF IInv, OpenInv, OpenedSlots, Matches
<1>4. open' = open
  BY <1>2, <1>3
<1>5. QED BY <1>2, <1>4 DEF vars, autoVars, tableVars

\* The slot Free finds is the handle's own, in use and with an object.
LEMMA MatchIsOwnSlot ==
    ASSUME IInv, ~closed, NEW h \in issued, NEW s \in Slot, FirstMatch(h[1], s)
    PROVE  /\ h = <<itemstable[s].handle, s>>
           /\ h[1] # 0
           /\ s \notin FreeSlots
           /\ itemstable[s].object \in Objects
           /\ lifetime[itemstable[s].object] > 0
           /\ s \in SlotsOf(itemstable[s].object)
<1> DEFINE o == itemstable[s].object
<1>1. h[1] \in 1 .. counter - 1 /\ counter \in Nat
  BY TableAssumption DEF IInv, IssuedInv, CounterInv
<1>2. itemstable[s].handle = h[1]
  BY DEF FirstMatch, Matches
<1>3. s \notin FreeSlots
  <2>1. itemstable[s].handle # 0
    BY <1>1, <1>2
  <2>2. QED BY <2>1 DEF IInv, SlotInv
<1>4. o \in Objects /\ <<itemstable[s].handle, s>> \in issued
  BY <1>3 DEF IInv, SlotInv
<1>5. h = <<itemstable[s].handle, s>>
  BY <1>2, <1>4 DEF IInv, IssuedInv
<1>6. s \in SlotsOf(o)
  BY <1>3 DEF SlotsOf
<1>7. Cardinality(SlotsOf(o)) # 0
  BY <1>6, SlotsOfCount, FS_EmptySet
<1>8. lifetime[o] > 0
  BY <1>4, <1>7, SlotsOfCount, LifetimeRange DEF Held, IInv
<1>9. QED BY <1>1, <1>3, <1>4, <1>5, <1>6, <1>8

\* Free preserves the invariant: it releases the handle's own slot, or nothing.
LEMMA FreeInv ==
    ASSUME IInv, NEW h \in issued, Free(h)
    PROVE  IInv'
<1>1. CASE Matches(h[1]) = {}
  BY <1>1, FreeNothing, StutterInv
<1>2. CASE Matches(h[1]) # {}
  <2>1. ~closed /\ ~fault /\ closed' = FALSE
        /\ UNCHANGED <<borrowed, counter, issued>>
        /\ open' = {p \in open : p[1] # h}
    BY DEF Free, InService
  <2>2. PICK s \in Slot : FirstMatch(h[1], s) /\ Release(s)
    BY <1>2 DEF Free
  <2>3. PICK o \in Objects :
           /\ o = itemstable[s].object
           /\ h = <<itemstable[s].handle, s>>
           /\ h[1] # 0
           /\ s \notin FreeSlots
           /\ lifetime[o] > 0
           /\ s \in SlotsOf(o)
    BY <2>1, <2>2, MatchIsOwnSlot
  <2>4. /\ DeteriorateLifetimes(Once(o))
        /\ itemstable' = [itemstable EXCEPT ![s].handle = 0]
        /\ freelist' = Append(freelist, s)
        /\ fault' = fault
    BY <2>2, <2>3 DEF Release, ReleaseSlot
  <2>5. Once(o) \in [Objects -> Nat] /\ \A p \in Objects : Once(o)[p] <= lifetime[p]
    BY <2>3, LifetimeRange DEF Once, IInv
  <2>6. /\ lifetime' \in [Objects -> 0 .. LifetimeMod - 1]
        /\ \A p \in Objects : lifetime'[p] = lifetime[p] - Once(o)[p]
        /\ destroyed' \in [Objects -> Nat]
        /\ autorefs' \in [Keys -> Objects \cup {NoObject}]
    BY <2>4, <2>5, DeteriorateEffect DEF IInv
  <2>7. /\ freelist' \in Seq(Slot)
        /\ Injective(freelist')
        /\ FreeSlots' = FreeSlots \cup {s}
    <3>1. freelist \in Seq(Slot) /\ Injective(freelist) /\ s \notin Values(freelist)
      BY <2>1, <2>3 DEF IInv, TypeOK, StackInv, Values, FreeSlots
    <3>2. /\ freelist' \in Seq(Slot)
          /\ Injective(freelist')
          /\ Values(freelist') = Values(freelist) \cup {s}
      BY <2>4, <3>1, PushLemma
    <3>3. QED BY <3>2 DEF Values, FreeSlots
  <2>8. itemstable \in [Slot -> [handle : Counts, object : Objects \cup {NoObject}]]
    BY DEF IInv, TypeOK
  <2>9. \A t \in Slot : itemstable'[t] = IF t = s THEN [handle |-> 0, object |-> o] ELSE itemstable[t]
    BY <2>3, <2>4, <2>8
  <2>10. TypeOK'
    <3>1. 0 \in Counts
      BY TableAssumption DEF Counts
    <3>2. itemstable' \in [Slot -> [handle : Counts, object : Objects \cup {NoObject}]]
      BY <2>4, <2>8, <3>1
    <3>3. QED BY <2>1, <2>4, <2>6, <2>7, <3>2 DEF IInv, TypeOK
  <2>11. NoFault' /\ CounterInv' /\ IssuedInv' /\ StackInv'
    BY <2>1, <2>4, <2>7 DEF IInv, NoFault, CounterInv, IssuedInv, StackInv
  <2>12. SlotInv'
    <3>1. SUFFICES ASSUME NEW t \in Slot
                   PROVE  /\ t \in FreeSlots' <=> itemstable'[t].handle = 0
                          /\ t \notin FreeSlots' => /\ itemstable'[t].object \in Objects
                                                    /\ <<itemstable'[t].handle, t>> \in issued'
      BY <2>1 DEF SlotInv
    <3>2. CASE t = s
      BY <2>7, <2>9, <3>2
    <3>3. CASE t # s
      BY <2>1, <2>7, <2>9, <3>3 DEF IInv, SlotInv
    <3>4. QED BY <3>2, <3>3
  <2>13. OpenInv'
    <3>1. OpenedSlots' = {p \in OpenedSlots : p[1] # h}
      <4>1. OpenedSlots' = {<<<<itemstable'[t].handle, t>>, itemstable'[t].object>> :
                               t \in (Slot \ FreeSlots) \ {s}}
        BY <2>7 DEF OpenedSlots
      <4>2. OpenedSlots' = {<<<<itemstable[t].handle, t>>, itemstable[t].object>> :
                               t \in (Slot \ FreeSlots) \ {s}}
        BY <2>9, <4>1
      <4>3. QED BY <2>3, <4>2 DEF OpenedSlots
    <3>2. QED BY <2>1, <3>1 DEF IInv, OpenInv
  <2>14. LifetimeInv'
    <3>1. SlotsOf(o)' = SlotsOf(o) \ {s}
      BY <2>7, <2>9 DEF SlotsOf
    <3>2. ASSUME NEW p \in Objects, p # o PROVE SlotsOf(p)' = SlotsOf(p)
      BY <2>3, <2>7, <2>9, <3>2 DEF SlotsOf
    <3>3. Cardinality(SlotsOf(o) \ {s}) = Cardinality(SlotsOf(o)) - 1
      BY <2>3, SlotsOfCount, FS_RemoveElement
    <3>4. ASSUME NEW p \in Objects PROVE Held(p)' = IF p = o THEN Held(p) - 1 ELSE Held(p)
      BY <2>1, <3>1, <3>2, <3>3 DEF Held
    <3>5. ASSUME NEW p \in Objects PROVE lifetime'[p] = borrowed'[p] + Held(p)'
      BY <2>1, <2>6, <3>4, LifetimeRange DEF IInv, Once
    <3>6. QED BY <3>5 DEF LifetimeInv
  <2>15. QED BY <2>6, <2>10, <2>11, <2>12, <2>13, <2>14 DEF IInv
<1>3. QED BY <1>1, <1>2

\* CloseAll releases what the table holds of each object.
LEMMA CloseAllDrops ==
    ASSUME IInv, ~closed
    PROVE  LET drops == [o \in Objects |-> Cardinality(SlotsOf(o))]
           IN  /\ drops \in [Objects -> Nat]
               /\ \A o \in Objects : drops[o] = Held(o) /\ drops[o] <= lifetime[o]
<1>1. ASSUME NEW o \in Objects
      PROVE  /\ Cardinality(SlotsOf(o)) \in Nat
             /\ Cardinality(SlotsOf(o)) = Held(o)
             /\ Held(o) <= lifetime[o]
  BY SlotsOfCount, LifetimeRange, TableAssumption DEF Held, IInv
<1>2. QED BY <1>1

\* CloseAll preserves the invariant: each object loses what the table held of it.
LEMMA CloseAllInv ==
    ASSUME IInv, CloseAll
    PROVE  IInv'
<1> DEFINE drops == [o \in Objects |-> Cardinality(SlotsOf(o))]
           taken == Slot \ FreeSlots
<1>1. /\ ~closed
      /\ DeteriorateLifetimes(drops)
      /\ closed' = TRUE
      /\ open' = {}
      /\ UNCHANGED <<borrowed, itemstable, counter, fault, issued>>
  BY DEF CloseAll, InService
<1>2. /\ drops \in [Objects -> Nat]
      /\ \A o \in Objects : drops[o] = Held(o) /\ drops[o] <= lifetime[o]
  BY <1>1, CloseAllDrops
<1>3. /\ lifetime' \in [Objects -> 0 .. LifetimeMod - 1]
      /\ \A o \in Objects : lifetime'[o] = lifetime[o] - drops[o]
      /\ destroyed' \in [Objects -> Nat]
      /\ autorefs' \in [Keys -> Objects \cup {NoObject}]
  <2> HIDE DEF drops
  <2>1. QED BY <1>1, <1>2, DeteriorateEffect DEF IInv
<1>4. freelist' \in Seq(Slot)
  <2>1. PICK q \in [1 .. Cardinality(taken) -> taken] : freelist' = freelist \o q
    BY DEF CloseAll
  <2>2. Cardinality(taken) \in Nat
    <3>1. taken \in SUBSET Slot
      OBVIOUS
    <3>2. IsFiniteSet(taken)
      BY <3>1, SlotCount, FS_Subset
    <3>3. QED BY <3>2, FS_CardinalityType
  <2>3. q \in Seq(Slot)
    <3>1. q \in [1 .. Cardinality(taken) -> Slot]
      BY <2>1
    <3>2. QED BY ONLY <2>2, <3>1, FunctionIsSeq
  <2>4. freelist \in Seq(Slot)
    BY DEF IInv, TypeOK
  <2>5. QED BY <2>1, <2>3, <2>4
<1>5. TypeOK'
  BY <1>1, <1>3, <1>4 DEF IInv, TypeOK
<1>6. NoFault' /\ CounterInv' /\ IssuedInv' /\ StackInv' /\ SlotInv' /\ OpenInv'
  BY <1>1 DEF IInv, NoFault, CounterInv, IssuedInv, StackInv, SlotInv, OpenInv
<1>7. LifetimeInv'
  <2>1. ASSUME NEW o \in Objects PROVE lifetime'[o] = borrowed'[o] + Held(o)'
    <3>1. lifetime'[o] = lifetime[o] - Held(o)
      BY <1>2, <1>3
    <3>2. lifetime[o] = borrowed[o] + Held(o) /\ borrowed[o] \in Nat /\ Held(o) \in Nat
      BY LifetimeRange DEF IInv
    <3>3. Held(o)' = 0
      BY <1>1 DEF Held
    <3>4. QED BY <1>1, <3>1, <3>2, <3>3
  <2>2. QED BY <2>1 DEF LifetimeInv
<1>8. QED BY <1>3, <1>5, <1>6, <1>7 DEF IInv

\* A sequence without repetitions, as long as a set is large, covers the set.
LEMMA InjectionCovers ==
    ASSUME NEW S, IsFiniteSet(S),
           NEW q \in [1 .. Cardinality(S) -> S],
           \A i, j \in 1 .. Cardinality(S) : q[i] = q[j] => i = j,
           NEW t \in S
    PROVE  \E i \in 1 .. Cardinality(S) : q[i] = t
<1> DEFINE D == 1 .. Cardinality(S)
           R == S \ {t}
<1>1. SUFFICES ASSUME \A i \in D : q[i] # t PROVE FALSE
  OBVIOUS
<1>2. q \in [D -> R]
  BY <1>1
<1>3. Cardinality(S) \in Nat
  BY FS_CardinalityType
<1>4. IsFiniteSet(R) /\ Cardinality(R) = Cardinality(S) - 1
  BY FS_RemoveElement
<1>5. IsFiniteSet(D) /\ Cardinality(D) = Cardinality(S)
  BY <1>3, FS_Interval
<1>6. Cardinality(R) < Cardinality(D)
  BY <1>3, <1>4, <1>5
<1> HIDE DEF D, R
<1>7. \E x, y \in D : x # y /\ q[x] = q[y]
  BY ONLY <1>2, <1>4, <1>5, <1>6, FS_PigeonHole
<1>8. QED BY <1>7 DEF D

\* After CloseAll every slot is on the stack: the increasing sequence of the slots
\* that were not is as long as there are such slots, so it misses none.
LEMMA CloseAllFrees ==
    ASSUME IInv, CloseAll
    PROVE  FreeSlots' = Slot
<1> DEFINE taken == Slot \ FreeSlots
           n == Cardinality(taken)
<1>1. PICK q \in [1 .. n -> taken] :
         /\ \A i, j \in DOMAIN q : i < j => q[i] < q[j]
         /\ freelist' = freelist \o q
  BY DEF CloseAll
<1>2. IsFiniteSet(taken) /\ n \in Nat
  <2>1. taken \in SUBSET Slot
    OBVIOUS
  <2>2. IsFiniteSet(taken)
    BY <2>1, SlotCount, FS_Subset
  <2>3. QED BY <2>2, FS_CardinalityType
<1>3. ASSUME NEW t \in taken PROVE \E i \in 1 .. n : q[i] = t
  <2>1. ASSUME NEW i \in 1 .. n, NEW j \in 1 .. n, q[i] = q[j] PROVE i = j
    <3>1. i \in DOMAIN q /\ j \in DOMAIN q /\ i \in Int /\ j \in Int
      BY <1>1
    <3>2. q[i] \in Slot /\ q[j] \in Slot
      BY <1>1
    <3>3. q[i] \in Int /\ q[j] \in Int
      BY <3>2, TableAssumption DEF Slot
    <3>4. ~(i < j) /\ ~(j < i)
      <4>1. (i < j => q[i] < q[j]) /\ (j < i => q[j] < q[i])
        BY <1>1, <3>1
      <4>2. QED BY <2>1, <3>3, <4>1
    <3>5. QED BY <3>1, <3>4
  <2> HIDE DEF taken
  <2>2. QED BY <1>1, <1>2, <2>1, InjectionCovers
<1>4. freelist \in Seq(Slot) /\ q \in Seq(taken) /\ Len(q) = n
  <2>1. freelist \in Seq(Slot)
    BY DEF IInv, TypeOK
  <2> HIDE DEF taken
  <2>2. QED BY <1>2, <2>1, FunctionIsSeq
<1>5. Values(freelist') = Values(freelist) \cup Values(q)
  BY <1>1, <1>4, ConcatLemma
<1>6. Values(q) = taken
  BY <1>1, <1>3, <1>4 DEF Values
<1>7. Values(freelist) = FreeSlots /\ Values(freelist') = FreeSlots' /\ FreeSlots \subseteq Slot
  BY <1>4 DEF Values, FreeSlots
<1>8. QED BY <1>5, <1>6, <1>7

\* References taken through autorefs and given back.
LEMMA AutoInv ==
    ASSUME IInv, AutoNext, UNCHANGED tableVars
    PROVE  IInv'
<1> USE DEF tableVars
<1>1. FreeSlots' = FreeSlots /\ OpenedSlots' = OpenedSlots
  BY DEF FreeSlots, OpenedSlots
<1>2. ASSUME NEW o PROVE Held(o)' = Held(o)
  BY <1>1 DEF Held, SlotsOf
<1>3. NoFault' /\ CounterInv' /\ IssuedInv' /\ StackInv' /\ SlotInv' /\ OpenInv'
  BY <1>1 DEF IInv, NoFault, CounterInv, IssuedInv, StackInv, SlotInv, OpenInv
<1>4. SUFFICES TypeOK' /\ LifetimeInv'
  BY <1>3 DEF IInv
<1>5. ASSUME NEW k \in Keys, NEW o \in Objects, AddReference(k, o)
      PROVE  TypeOK' /\ LifetimeInv'
  <2> USE <1>5 DEF AddReference
  <2>1. autorefs \in [Keys -> Objects \cup {NoObject}]
    BY DEF IInv, TypeOK
  <2>2. TypeOK'
    BY <2>1 DEF IInv, TypeOK
  <2>3. LifetimeInv'
    BY <1>2 DEF IInv, LifetimeInv
  <2>4. QED BY <2>2, <2>3
<1>6. ASSUME NEW k \in Keys \cup {0}, NEW o \in Objects, RemoveReference(k, o)
      PROVE  TypeOK' /\ LifetimeInv'
  <2>1. autorefs \in [Keys -> Objects \cup {NoObject}]
    BY DEF IInv, TypeOK
  <2>2. UNCHANGED <<lifetime, destroyed, borrowed>>
    BY <1>6 DEF RemoveReference
  <2>3. autorefs' \in [Keys -> Objects \cup {NoObject}]
    BY <1>6, <2>1 DEF RemoveReference
  <2>4. TypeOK'
    BY <2>2, <2>3 DEF IInv, TypeOK
  <2>5. LifetimeInv'
    BY <1>2, <2>2 DEF IInv, LifetimeInv
  <2>6. QED BY <2>4, <2>5
<1>7. ASSUME NEW k \in Keys, GetObjectBy(k)
      PROVE  TypeOK' /\ LifetimeInv'
  <2>1. PICK o \in Objects : o = autorefs[k]
    BY <1>7 DEF GetObjectBy
  <2>2. /\ lifetime' \in [Objects -> 0 .. LifetimeMod - 1]
        /\ \A p \in Objects : lifetime'[p] = IF p = o THEN lifetime[p] + 1 ELSE lifetime[p]
    BY <1>7, <2>1, IncreaseEffect DEF GetObjectBy, IInv
  <2>3. borrowed \in [Objects -> 0 .. MaxBorrowed]
        /\ borrowed[o] < MaxBorrowed
        /\ borrowed' = [borrowed EXCEPT ![o] = @ + 1]
        /\ UNCHANGED <<destroyed, autorefs>>
    BY <1>7, <2>1 DEF GetObjectBy, IInv, TypeOK
  <2>4. \A p \in Objects : borrowed'[p] = IF p = o THEN borrowed[p] + 1 ELSE borrowed[p]
    BY <2>3
  <2>5. borrowed' \in [Objects -> 0 .. MaxBorrowed]
    BY <2>3, BorrowAssumption
  <2>6. TypeOK'
    BY <2>2, <2>3, <2>5 DEF IInv, TypeOK
  <2>7. LifetimeInv'
    <3>1. ASSUME NEW p \in Objects PROVE lifetime'[p] = borrowed'[p] + Held(p)'
      BY <1>2, <2>2, <2>4, LifetimeRange DEF IInv
    <3>2. QED BY <3>1 DEF LifetimeInv
  <2>8. QED BY <2>6, <2>7
<1>8. ASSUME NEW o \in Objects, ReturnObject(o)
      PROVE  TypeOK' /\ LifetimeInv'
  <2>1. borrowed \in [Objects -> 0 .. MaxBorrowed]
        /\ borrowed[o] > 0
        /\ borrowed' = [borrowed EXCEPT ![o] = @ - 1]
        /\ DeteriorateLifetimes(Once(o))
    BY <1>8 DEF ReturnObject, IInv, TypeOK
  <2>2. Once(o) \in [Objects -> Nat] /\ \A p \in Objects : Once(o)[p] <= lifetime[p]
    BY <2>1, LifetimeRange DEF Once, IInv
  <2>3. /\ lifetime' \in [Objects -> 0 .. LifetimeMod - 1]
        /\ \A p \in Objects : lifetime'[p] = lifetime[p] - Once(o)[p]
        /\ destroyed' \in [Objects -> Nat]
        /\ autorefs' \in [Keys -> Objects \cup {NoObject}]
    BY <2>1, <2>2, DeteriorateEffect DEF IInv
  <2>4. \A p \in Objects : borrowed'[p] = IF p = o THEN borrowed[p] - 1 ELSE borrowed[p]
    BY <2>1
  <2>5. borrowed' \in [Objects -> 0 .. MaxBorrowed]
    BY <2>1, BorrowAssumption
  <2>6. TypeOK'
    BY <2>3, <2>5 DEF IInv, TypeOK
  <2>7. LifetimeInv'
    <3>1. ASSUME NEW p \in Objects PROVE lifetime'[p] = borrowed'[p] + Held(p)'
      BY <1>2, <2>3, <2>4, LifetimeRange DEF IInv, Once
    <3>2. QED BY <3>1 DEF LifetimeInv
  <2>8. QED BY <2>6, <2>7
<1>9. QED BY <1>5, <1>6, <1>7, <1>8 DEF AutoNext

\* Every step preserves the invariant.
LEMMA NextInv == IInv /\ [Next]_vars => IInv'
<1> SUFFICES ASSUME IInv, [Next]_vars PROVE IInv'
  OBVIOUS
<1>1. ASSUME NEW o \in Objects, Allocate(o) PROVE IInv'
  BY <1>1, AllocateInv
<1>2. ASSUME NEW h \in issued, Free(h) PROVE IInv'
  BY <1>2, FreeInv
<1>3. CASE CloseAll
  BY <1>3, CloseAllInv
<1>4. CASE AutoNext /\ UNCHANGED tableVars
  BY <1>4, AutoInv
<1>5. CASE UNCHANGED vars
  BY <1>5, StutterInv
<1>6. QED BY <1>1, <1>2, <1>3, <1>4, <1>5 DEF Next

\* The invariant holds in every reachable state of a table of any size.
THEOREM Invariance == Spec => []IInv
<1>1. Init => IInv
  BY InitInv
<1>2. IInv /\ [Next]_vars => IInv'
  BY NextInv
<1>3. QED BY <1>1, <1>2, PTL DEF Spec

-----------------------------------------------------------------------------
(* What follows from it.                                                   *)

\* Every variable keeps its type.
THEOREM TypeCorrectness == Spec => []TypeOK
<1>1. IInv => TypeOK
  BY DEF IInv
<1>2. QED BY <1>1, Invariance, PTL

\* Allocate always finds a free slot and Free always finds an object.
THEOREM FaultFreedom == Spec => []NoFault
<1>1. IInv => NoFault
  BY DEF IInv
<1>2. QED BY <1>1, Invariance, PTL

\* A handle resolves to its object while it is open and to nothing afterwards.
THEOREM Resolution == Spec => []ResolvesExactlyOpen
<1>1. IInv => ResolvesExactlyOpen
  <2>1. SUFFICES ASSUME IInv, ~closed, NEW h \in issued, NEW o \in Objects
                 PROVE  GetObject(h) = o <=> <<h, o>> \in open
    BY DEF ResolvesExactlyOpen
  <2>2. h \in Counts \X Slot /\ h[1] # 0 /\ open = OpenedSlots
    <3>1. h \in Counts \X Slot
      BY <2>1 DEF IInv, TypeOK, Handle
    <3>2. h[1] \in 1 .. counter - 1 /\ counter \in Nat
      BY <2>1, TableAssumption DEF IInv, IssuedInv, CounterInv
    <3>3. QED BY <2>1, <3>1, <3>2 DEF IInv, OpenInv
  <2>3. ASSUME GetObject(h) = o PROVE <<h, o>> \in open
    <3>1. itemstable[h[2]].handle = h[1] /\ itemstable[h[2]].object = o
      BY <2>3, ObjectsAssumption DEF GetObject
    <3>2. h[2] \in Slot \ FreeSlots
      BY <2>1, <2>2, <3>1 DEF IInv, SlotInv
    <3>3. h = <<itemstable[h[2]].handle, h[2]>>
      BY <2>2, <3>1
    <3>4. QED BY <2>2, <3>1, <3>2, <3>3 DEF OpenedSlots
  <2>4. ASSUME <<h, o>> \in open PROVE GetObject(h) = o
    BY <2>2, <2>4 DEF OpenedSlots, GetObject
  <2>5. QED BY <2>3, <2>4
<1>2. QED BY <1>1, Invariance, PTL

\* The invariant's count of references is the one the property states.
LEMMA ReferencesCount == IInv => LifetimeIsReferences
BY OpenCount DEF IInv, LifetimeInv, LifetimeIsReferences, References

\* The count of an object is the number of references clients have on it.
THEOREM LifetimeCorrectness == Spec => []LifetimeIsReferences
<1>1. QED BY ReferencesCount, Invariance, PTL

\* The references of an object, in a state and in the next, are its count.
LEMMA ReferencesAre ==
    ASSUME IInv, IInv', NEW o \in Objects
    PROVE  /\ References(o) = lifetime[o] /\ References(o)' = lifetime'[o]
           /\ lifetime[o] \in Nat /\ lifetime'[o] \in Nat
           /\ destroyed[o] \in Nat
<1>1. References(o) = lifetime[o]
  BY ReferencesCount DEF LifetimeIsReferences
<1>2. IInv' => LifetimeIsReferences'
  BY ReferencesCount, PTL
<1>3. References(o)' = lifetime'[o]
  BY <1>2 DEF LifetimeIsReferences
<1>4. lifetime[o] \in Nat /\ destroyed[o] \in Nat
  BY DEF IInv, TypeOK
<1>5. lifetime'[o] \in Nat
  BY DEF IInv, TypeOK
<1>6. QED BY <1>1, <1>3, <1>4, <1>5

\* A step takes no references away, or it releases at once as many as drops says, no
\* more than there are; nothing else happens to Destroyed() and to autorefs on the way.
LEMMA StepReleases ==
    ASSUME IInv, IInv', Next
    PROVE  \/ /\ UNCHANGED destroyed
              /\ \A o \in Objects : lifetime'[o] >= lifetime[o]
           \/ \E drops \in [Objects -> Nat] :
                 /\ DeteriorateLifetimes(drops)
                 /\ \A o \in Objects : drops[o] <= lifetime[o]
<1> DEFINE Keeps == UNCHANGED destroyed /\ \A o \in Objects : lifetime'[o] >= lifetime[o]
           Releases == \E drops \in [Objects -> Nat] :
                          /\ DeteriorateLifetimes(drops)
                          /\ \A o \in Objects : drops[o] <= lifetime[o]
<1> SUFFICES Keeps \/ Releases
  OBVIOUS
<1>1. ASSUME NEW x \in Objects, IncreaseLifetime(x), UNCHANGED destroyed PROVE Keeps
  BY <1>1, ReferencesAre, IncreaseEffect DEF IInv
<1>2. ASSUME NEW x \in Objects, Allocate(x) PROVE Keeps
  BY <1>1, <1>2 DEF Allocate
<1>3. ASSUME NEW h \in issued, Free(h) PROVE Keeps \/ Releases
  <2>1. CASE Matches(h[1]) = {}
    <3>1. UNCHANGED <<destroyed, lifetime>>
      BY <1>3, <2>1, FreeNothing DEF vars, autoVars
    <3>2. QED BY <3>1, ReferencesAre
  <2>2. CASE Matches(h[1]) # {}
    <3>1. PICK s \in Slot : FirstMatch(h[1], s) /\ Release(s)
      BY <1>3, <2>2 DEF Free
    <3>2. PICK x \in Objects : x = itemstable[s].object /\ lifetime[x] > 0
      BY <1>3, <3>1, MatchIsOwnSlot DEF Free, InService
    <3>3. DeteriorateLifetimes(Once(x))
      BY <3>1, <3>2 DEF Release, ReleaseSlot
    <3>4. Once(x) \in [Objects -> Nat] /\ \A p \in Objects : Once(x)[p] <= lifetime[p]
      BY <3>2, ReferencesAre DEF Once
    <3>5. QED BY <3>3, <3>4
  <2>3. QED BY <2>1, <2>2
<1>4. CASE CloseAll
  <2> DEFINE drops == [p \in Objects |-> Cardinality(SlotsOf(p))]
  <2>1. ~closed /\ DeteriorateLifetimes(drops)
    BY <1>4 DEF CloseAll, InService
  <2>2. drops \in [Objects -> Nat] /\ \A p \in Objects : drops[p] <= lifetime[p]
    BY <2>1, CloseAllDrops
  <2> HIDE DEF drops
  <2>3. QED BY <2>1, <2>2
<1>5. ASSUME NEW k \in Keys, NEW x \in Objects, AddReference(k, x) PROVE Keeps
  BY <1>5, ReferencesAre DEF AddReference
<1>6. ASSUME NEW k \in Keys \cup {0}, NEW x \in Objects, RemoveReference(k, x) PROVE Keeps
  BY <1>6, ReferencesAre DEF RemoveReference
<1>7. ASSUME NEW k \in Keys, GetObjectBy(k) PROVE Keeps
  BY <1>1, <1>7 DEF GetObjectBy
<1>8. ASSUME NEW x \in Objects, ReturnObject(x) PROVE Releases
  <2>1. DeteriorateLifetimes(Once(x)) /\ borrowed[x] > 0
    BY <1>8 DEF ReturnObject
  <2>2. Once(x) \in [Objects -> Nat] /\ \A p \in Objects : Once(x)[p] <= lifetime[p]
    BY <2>1, LifetimeRange DEF Once, IInv
  <2>3. QED BY <2>1, <2>2
<1> HIDE DEF Keeps, Releases
<1>9. QED BY <1>2, <1>3, <1>4, <1>5, <1>6, <1>7, <1>8 DEF Next, AutoNext

\* An object has its last reference taken in exactly the releases it does not survive.
LEMMA DyingIsLastReleased ==
    ASSUME IInv, IInv', NEW drops \in [Objects -> Nat], DeteriorateLifetimes(drops),
           \A p \in Objects : drops[p] <= lifetime[p], NEW o \in Objects
    PROVE  o \in Dying(drops) <=> LastReleased(o)
<1>1. lifetime'[o] = lifetime[o] - drops[o]
  BY DeteriorateEffect DEF IInv
<1>2. drops[o] \in Nat /\ drops[o] <= lifetime[o]
  OBVIOUS
<1>3. QED BY <1>1, <1>2, ReferencesAre DEF Dying, LastReleased

\* Destroyed() runs once per object in the steps that take its last reference.
THEOREM Destruction == Spec => DestroyedAtLastRelease
<1> DEFINE Counts1(o) == destroyed'[o] - destroyed[o] =
                             IF References(o) > 0 /\ References(o)' = 0 THEN 1 ELSE 0
<1>1. IInv /\ IInv' /\ [Next]_vars => [\A o \in Objects : Counts1(o)]_vars
  <2> SUFFICES ASSUME IInv, IInv', Next, NEW o \in Objects PROVE Counts1(o)
    OBVIOUS
  <2>1. CASE UNCHANGED destroyed /\ \A p \in Objects : lifetime'[p] >= lifetime[p]
    BY <2>1, ReferencesAre
  <2>2. ASSUME NEW drops \in [Objects -> Nat], DeteriorateLifetimes(drops),
               \A p \in Objects : drops[p] <= lifetime[p]
        PROVE  Counts1(o)
    <3>1. destroyed'[o] = IF o \in Dying(drops) THEN destroyed[o] + 1 ELSE destroyed[o]
      BY <2>2, DeteriorateEffect DEF IInv
    <3>2. o \in Dying(drops) <=> LastReleased(o)
      BY <2>2, DyingIsLastReleased
    <3>3. QED BY <3>1, <3>2, ReferencesAre DEF LastReleased
  <2>3. QED BY <2>1, <2>2, StepReleases
<1>2. QED BY <1>1, Invariance, PTL DEF Spec, DestroyedAtLastRelease

\* Whoever gives back an object's last reference takes its only name out of autorefs, and
\* no name of an object that has references left, but for the key 0: whatever the keys,
\* and however many objects CloseAll releases.
THEOREM NamesGo == Spec => OnlyNameGoesAtLastRelease
<1> DEFINE Goes(o) ==
        LastReleased(o) =>
          /\ (\A j, k \in Names(o) : j = k) => Names(o)' = {}
          /\ \A p \in Objects : ~LastReleased(p) => Names(p)' \ {0} = Names(p) \ {0}
<1>1. IInv /\ IInv' /\ [Next]_vars => [\A o \in Objects : Goes(o)]_vars
  <2> SUFFICES ASSUME IInv, IInv', Next, NEW o \in Objects, LastReleased(o)
               PROVE  /\ (\A j, k \in Names(o) : j = k) => Names(o)' = {}
                      /\ \A p \in Objects : ~LastReleased(p) => Names(p)' \ {0} = Names(p) \ {0}
    OBVIOUS
  <2>1. PICK drops \in [Objects -> Nat] :
           /\ DeteriorateLifetimes(drops)
           /\ \A p \in Objects : drops[p] <= lifetime[p]
    <3>1. ~(UNCHANGED destroyed /\ \A p \in Objects : lifetime'[p] >= lifetime[p])
      BY ReferencesAre DEF LastReleased
    <3>2. QED BY <3>1, StepReleases
  <2>2. \A p \in Objects : p \in Dying(drops) <=> LastReleased(p)
    BY <2>1, DyingIsLastReleased
  <2>3. \A k \in Keys : autorefs'[k] = IF \E q \in Dying(drops) : IsErased(k, q)
                                      THEN NoObject ELSE autorefs[k]
    BY <2>1 DEF DeteriorateLifetimes
  <2>4. ASSUME \A j, k \in Names(o) : j = k, NEW k \in Names(o)' PROVE FALSE
    <3>1. k \in Keys /\ autorefs'[k] = o /\ autorefs[k] = o
      BY <2>3, <2>4, ObjectsAssumption DEF Names
    <3>2. IsErased(k, o)
      <4>1. \A j \in Keys : autorefs[j] = o => j = k
        BY <2>4, <3>1 DEF Names
      <4>2. \A j \in NamedBut0(o) : j = k
        BY <4>1 DEF NamedBut0
      <4>3. k # 0 => k \in NamedBut0(o)
        BY <3>1 DEF NamedBut0
      <4>4. k \in Nat
        BY <3>1, KeysAssumption
      <4>5. CASE k = 0
        <5>1. NamedBut0(o) = {}
          BY <4>2, <4>5 DEF NamedBut0
        <5>2. QED BY <4>5, <5>1 DEF IsErased
      <4>6. CASE k # 0
        <5>1. NamedBut0(o) = {k}
          BY <4>2, <4>3, <4>6
        <5>2. k <= k
          BY <4>4
        <5>3. QED BY <5>1, <5>2 DEF IsErased
      <4>7. QED BY <4>5, <4>6
    <3>3. QED BY <2>2, <2>3, <3>1, <3>2, ObjectsAssumption
  <2>5. ASSUME NEW p \in Objects, ~LastReleased(p) PROVE Names(p)' \ {0} = Names(p) \ {0}
    <3>1. ASSUME NEW k \in Keys \ {0}, autorefs[k] = p PROVE autorefs'[k] = p
      <4>1. ASSUME NEW q \in Dying(drops) PROVE ~IsErased(k, q)
        BY <2>2, <2>5, <3>1 DEF IsErased, NamedBut0, Dying
      <4>2. QED BY <2>3, <3>1, <4>1
    <3>2. ASSUME NEW k \in Keys \ {0}, autorefs'[k] = p PROVE autorefs[k] = p
      BY <2>3, <3>2, ObjectsAssumption
    <3>3. QED BY <3>1, <3>2 DEF Names
  <2>6. QED BY <2>4, <2>5
<1>2. QED BY <1>1, Invariance, PTL DEF Spec, OnlyNameGoesAtLastRelease

\* The table implements the registry of handles.
THEOREM Refinement == Spec => ImplementsRegistry
<1> USE DEF Registry!registryVars
<1>1. Init => Registry!Init
  <2>1. SUFFICES ASSUME Init PROVE OpenedSlots = {} /\ issued = {}
    BY DEF Registry!Init
  <2>2. IInv /\ ~closed /\ open = {} /\ issued = {}
    BY <2>1, InitInv DEF Init
  <2>3. QED BY <2>2 DEF IInv, OpenInv
<1>2. IInv /\ IInv' /\ [Next]_vars => [Registry!Next]_(Registry!registryVars)
  <2> SUFFICES ASSUME IInv, IInv', [Next]_vars
               PROVE  Registry!Next \/ (OpenedSlots' = OpenedSlots /\ issued' = issued)
    OBVIOUS
  <2>1. ASSUME NEW o \in Objects, Allocate(o) PROVE Registry!Next
    <3> DEFINE h == <<counter, freelist[Len(freelist)]>>
    <3>1. ~closed /\ ~closed' /\ freelist # <<>>
      BY <2>1, SlotLeft DEF Allocate, InService, IInv
    <3>2. issued' = issued \cup {h} /\ open' = open \cup {<<h, o>>}
      BY <2>1, <3>1 DEF Allocate, Stamp
    <3>3. open = OpenedSlots /\ open' = OpenedSlots'
      BY <3>1 DEF IInv, OpenInv
    <3>4. h \in Handle
      <4>1. issued' \subseteq Handle
        BY DEF IInv, TypeOK
      <4>2. QED BY <3>2, <4>1
    <3>5. h \notin issued
      BY TableAssumption DEF IInv, IssuedInv, CounterInv
    <3>6. Registry!Open(h, o)
      BY <3>2, <3>3, <3>4, <3>5 DEF Registry!Open
    <3>7. QED BY <3>4, <3>6 DEF Registry!Next
  <2>2. ASSUME NEW h \in issued, Free(h)
        PROVE  Registry!Next \/ (OpenedSlots' = OpenedSlots /\ issued' = issued)
    <3>1. CASE Matches(h[1]) = {}
      BY <2>2, <3>1, FreeNothing DEF vars, tableVars, OpenedSlots, FreeSlots
    <3>2. CASE Matches(h[1]) # {}
      <4>1. ~closed /\ ~closed' /\ issued' = issued /\ open' = {p \in open : p[1] # h}
        BY <2>2 DEF Free, InService
      <4>2. open = OpenedSlots /\ open' = OpenedSlots'
        BY <4>1 DEF IInv, OpenInv
      <4>3. PICK s \in Slot : FirstMatch(h[1], s)
        BY <2>2, <3>2 DEF Free
      <4>4. h = <<itemstable[s].handle, s>> /\ s \notin FreeSlots /\ itemstable[s].object \in Objects
        BY <4>1, <4>3, MatchIsOwnSlot
      <4>5. <<h, itemstable[s].object>> \in OpenedSlots
        BY <4>4 DEF OpenedSlots
      <4>6. h \in Handle
        BY DEF IInv, TypeOK
      <4>7. Registry!Close(h)
        BY <4>1, <4>2, <4>4, <4>5 DEF Registry!Close
      <4>8. QED BY <4>6, <4>7 DEF Registry!Next
    <3>3. QED BY <3>1, <3>2
  <2>3. ASSUME CloseAll PROVE Registry!Next \/ (OpenedSlots' = OpenedSlots /\ issued' = issued)
    <3>1. UNCHANGED issued
      BY <2>3 DEF CloseAll
    <3>2. OpenedSlots' = {}
      BY <2>3, CloseAllFrees DEF OpenedSlots
    <3>3. QED BY <3>1, <3>2 DEF Registry!CloseEvery, Registry!Next
  <2>4. ASSUME AutoNext /\ UNCHANGED tableVars PROVE OpenedSlots' = OpenedSlots /\ issued' = issued
    BY <2>4 DEF tableVars, OpenedSlots, FreeSlots
  <2>5. ASSUME UNCHANGED vars PROVE OpenedSlots' = OpenedSlots /\ issued' = issued
    BY <2>5 DEF vars, tableVars, OpenedSlots, FreeSlots
  <2>6. QED BY <2>1, <2>2, <2>3, <2>4, <2>5 DEF Next
<1>3. QED BY <1>1, <1>2, Invariance, PTL DEF Spec, ImplementsRegistry, Registry!Spec

=============================================================================
