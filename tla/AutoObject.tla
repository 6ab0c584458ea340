----------------------------- MODULE AutoObject -----------------------------
(***************************************************************************)
(* Lifetimes of kernel objects (kernel/kauto_object.{h,cpp}).              *)
(*                                                                         *)
(* KAutoObject counts the references the emulated kernel holds on an       *)
(* object in a U32 and runs Destroyed() when the count returns to zero;    *)
(* Kernel::autorefs names objects by a U64 and holds raw pointers. Nothing *)
(* in it asks whether an object has references left or has a name already: *)
(* an object with several names keeps all but one when it is destroyed.    *)
(***************************************************************************)
EXTENDS Integers, FiniteSets

CONSTANTS
    Objects,      \* kernel objects: processes and threads
    NoObject,     \* the null pointer
    Keys,         \* values autorefs is keyed by
    LifetimeMod,  \* KAutoObject::counter is a U32: LifetimeMod stands for 2^32
    MaxBorrowed,  \* bound: references taken with GetObjectBy and not yet returned
    MaxDestroyed  \* bound: GetObjectBy finds no object that was destroyed so often

ASSUME KeysAssumption == Keys \subseteq Nat
ASSUME ObjectsAssumption == NoObject \notin Objects
ASSUME BorrowAssumption == MaxBorrowed \in Nat /\ MaxDestroyed \in Nat

VARIABLES
    lifetime,   \* KAutoObject::counter of each object
    destroyed,  \* history: how often Destroyed() ran on each object
    autorefs,   \* Kernel::autorefs, NoObject where a key is absent
    borrowed    \* history: GetObjectBy(.., true) references not yet returned

autoVars == <<lifetime, destroyed, autorefs, borrowed>>

\* fetch_add and fetch_sub on the U32 counter.
Wrap32(n) ==
    IF n < 0 THEN n + LifetimeMod
    ELSE IF n >= LifetimeMod THEN n - LifetimeMod ELSE n

AutoInit ==
    /\ lifetime = [o \in Objects |-> 0]
    /\ destroyed = [o \in Objects |-> 0]
    /\ autorefs = [k \in Keys |-> NoObject]
    /\ borrowed = [o \in Objects |-> 0]

\* (Mistake: a reference is handed out and not counted.)
LifetimeNotIncreased(o) == UNCHANGED lifetime
IncreaseLifetime(o) ==
    lifetime' = [lifetime EXCEPT ![o] = Wrap32(@ + 1)]

\* The key RemoveReference(0) erases: the first but 0, in the map's order, that maps
\* to the object; with none the value stays 0 and that key goes, whomever it names.
\* (Mistake: the lookup never succeeds.)
NamedBut0(o) == {j \in Keys \ {0} : autorefs[j] = o}
KeyIs0(k, o) == k = 0
IsErased(k, o) ==
    IF NamedBut0(o) = {} THEN k = 0
    ELSE k \in NamedBut0(o) /\ \A j \in NamedBut0(o) : k <= j

\* drops[o] calls of DeteriorateLifetime on each object o, in any order: an
\* object whose count reaches zero on the way leaves autorefs and is destroyed.
\* (Mistake: the object goes although references are left.)
DyingAtAnyDrop(drops) == {o \in Objects : drops[o] > 0}
Dying(drops) == {o \in Objects : lifetime[o] \in 1 .. drops[o]}

DeteriorateLifetimes(drops) ==
    /\ lifetime' = [o \in Objects |-> Wrap32(lifetime[o] - drops[o])]
    /\ destroyed' = [o \in Objects |->
                        IF o \in Dying(drops) THEN destroyed[o] + 1 ELSE destroyed[o]]
    /\ autorefs' = [k \in Keys |->
                        IF \E o \in Dying(drops) : IsErased(k, o)
                        THEN NoObject ELSE autorefs[k]]

Once(o) == [p \in Objects |-> IF p = o THEN 1 ELSE 0]

-----------------------------------------------------------------------------

\* A key that is taken keeps its object. Nothing else is asked: an object may have names
\* already, and no references. (The shared pointers of its slots keep its memory.)
AddReference(k, o) ==
    /\ autorefs[k] = NoObject
    /\ autorefs' = [autorefs EXCEPT ![k] = o]
    /\ UNCHANGED <<lifetime, destroyed, borrowed>>

\* RemoveReference called on an object: with a value that entry goes, whichever object
\* it names, with 0 the one that is looked up.
RemoveReference(k, o) ==
    /\ autorefs' = [j \in Keys |->
                        IF (IF k = 0 THEN IsErased(j, o) ELSE j = k) THEN NoObject ELSE autorefs[j]]
    /\ UNCHANGED <<lifetime, destroyed, borrowed>>

\* GetObjectBy(k, true) hands out a reference of its own, be it to a destroyed object.
GetObjectBy(k) ==
    /\ autorefs[k] \in Objects
    /\ borrowed[autorefs[k]] < MaxBorrowed
    /\ lifetime[autorefs[k]] = 0 => destroyed[autorefs[k]] < MaxDestroyed
    /\ IncreaseLifetime(autorefs[k])
    /\ borrowed' = [borrowed EXCEPT ![autorefs[k]] = @ + 1]
    /\ UNCHANGED <<destroyed, autorefs>>

\* The borrower is done: it calls DeteriorateLifetime.
ReturnObject(o) ==
    /\ borrowed[o] > 0
    /\ DeteriorateLifetimes(Once(o))
    /\ borrowed' = [borrowed EXCEPT ![o] = @ - 1]

AutoNext ==
    \/ \E k \in Keys, o \in Objects : AddReference(k, o)
    \/ \E k \in Keys \cup {0}, o \in Objects : RemoveReference(k, o)
    \/ \E k \in Keys : GetObjectBy(k)
    \/ \E o \in Objects : ReturnObject(o)
=============================================================================
