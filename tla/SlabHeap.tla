------------------------------ MODULE SlabHeap ------------------------------
(***************************************************************************)
(* KSlabHeap (kernel/memory/kslab_heap.{h,cpp}): a list of free objects of *)
(* one size, highest address first. The kernel has two: poffset, which     *)
(* hands out host pages with Reserve, and userslabs, which hands out the   *)
(* addresses of thread local pages with Allocate.                          *)
(*                                                                         *)
(* Addresses are object numbers; a result is a record [objects, pointer].  *)
(***************************************************************************)
EXTENDS Integers, Sequences, SequencesExt

\* A call whose effect the language leaves undefined (front() or next() of an
\* empty list), and the null pointer.
Undefined == -1
Null == 0

\* The constructor lists the objects from base upwards and reverses the list.
SlabObjects(base, count) == [i \in 1 .. count |-> base + count - i]

\* Allocate. The object is taken off the list unless its address is null, which
\* the first object of a slab at address 0 has.
SlabAllocate(objects) ==
    IF objects = <<>> THEN [objects |-> objects, pointer |-> Null]
    ELSE IF Head(objects) = Null THEN [objects |-> objects, pointer |-> Null]
    ELSE [objects |-> Tail(objects), pointer |-> Head(objects)]

\* Reserve({}, count objects): the highest objects leave the list one by one, and
\* what is returned is the object that is in front after them, which stays in the
\* list: the caller's objects are that one and those above it but for the highest.
\* The list needs two objects for the object size, and one left for the result.
\* (Mistake: one object too few leaves the list.)
SlabReserveOneLess(objects, count) ==
    IF Len(objects) < 2 \/ count >= Len(objects)
    THEN [objects |-> objects, pointer |-> Undefined]
    ELSE [objects |-> SubSeq(objects, count, Len(objects)), pointer |-> objects[count + 1]]
SlabReserve(objects, count) ==
    IF Len(objects) < 2 \/ count >= Len(objects)
    THEN [objects |-> objects, pointer |-> Undefined]
    ELSE [objects |-> SubSeq(objects, count + 1, Len(objects)), pointer |-> objects[count + 1]]
=============================================================================
