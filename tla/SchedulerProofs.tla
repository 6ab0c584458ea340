--------------------------- MODULE SchedulerProofs ---------------------------
(***************************************************************************)
(* Of the scheduler on fibers, for every number of threads, cores and      *)
(* slices: its types, that a core has a thread once, that Kill finds every *)
(* live thread, that the fibers wait in one chain, and that no thread of   *)
(* the guest creates another.                                              *)
(***************************************************************************)
EXTENDS Scheduler, FiniteSetTheorems, SequenceTheorems, TLAPS

-----------------------------------------------------------------------------
(* Lists of threads.                                                        *)

\* What is left of a list when a thread of it is erased.
LEMMA RemoveFirstOf ==
    ASSUME NEW S, NEW list \in Seq(S), IsInjective(list), NEW n \in 1 .. Len(list)
    PROVE  /\ RemoveFirst(list, list[n]) \in Seq(S)
           /\ Len(RemoveFirst(list, list[n])) = Len(list) - 1
           /\ \A k \in 1 .. Len(list) - 1 :
                  RemoveFirst(list, list[n])[k] = IF k < n THEN list[k] ELSE list[k + 1]
<1>1. {i \in 1 .. Len(list) : list[i] = list[n]} = {n}
  BY DEF IsInjective
<1>2. Min({n}) = n
  BY DEF Min
<1>3. SelectInSeq(list, LAMBDA v : v = list[n]) = n
  BY <1>1, <1>2 DEF SelectInSeq
<1>4. RemoveFirst(list, list[n]) = RemoveAt(list, n)
  BY <1>3 DEF RemoveFirst
<1>5. RemoveAt(list, n) = SubSeq(list, 1, n - 1) \o SubSeq(list, n + 1, Len(list))
  BY DEF RemoveAt
<1> DEFINE before == SubSeq(list, 1, n - 1)
           behind == SubSeq(list, n + 1, Len(list))
<1>6. /\ before \in Seq(S) /\ Len(before) = n - 1
      /\ \A k \in 1 .. n - 1 : before[k] = list[k]
  OBVIOUS
<1>7. /\ behind \in Seq(S) /\ Len(behind) = Len(list) - n
      /\ \A k \in 1 .. Len(list) - n : behind[k] = list[n + k]
  OBVIOUS
<1>8. RemoveFirst(list, list[n]) = before \o behind
  BY <1>4, <1>5
<1> HIDE DEF before, behind
<1>9. /\ before \o behind \in Seq(S) /\ Len(before \o behind) = Len(list) - 1
      /\ \A k \in 1 .. Len(list) - 1 :
            (before \o behind)[k] = IF k < n THEN before[k] ELSE behind[k - (n - 1)]
  <2>1. /\ before \o behind \in Seq(S)
        /\ Len(before \o behind) = Len(before) + Len(behind)
        /\ \A k \in 1 .. Len(before) + Len(behind) :
              (before \o behind)[k] = IF k <= Len(before) THEN before[k] ELSE behind[k - Len(before)]
    BY <1>6, <1>7, ConcatProperties
  <2>2. QED BY <1>6, <1>7, <2>1
<1>10. \A k \in 1 .. Len(list) - 1 :
            (before \o behind)[k] = IF k < n THEN list[k] ELSE list[k + 1]
  <2>1. ASSUME NEW k \in n .. Len(list) - 1
        PROVE  behind[k - (n - 1)] = list[k + 1]
    <3>1. k - (n - 1) \in 1 .. Len(list) - n /\ n + (k - (n - 1)) = k + 1
      OBVIOUS
    <3>2. QED BY <1>7, <3>1
  <2>2. QED BY <1>6, <1>9, <2>1
<1>11. QED BY <1>8, <1>9, <1>10

LEMMA RemoveFirstNone ==
    ASSUME NEW S, NEW list \in Seq(S), NEW t, ~Contains(list, t)
    PROVE  RemoveFirst(list, t) = list
BY DEF RemoveFirst, Contains

\* The thread that goes to the end of a list is on it once, and the others stay.
LEMMA ToEndOf ==
    ASSUME NEW S, NEW list \in Seq(S), IsInjective(list), NEW t \in S
    PROVE  /\ ToEnd(list, t) \in Seq(S) /\ IsInjective(ToEnd(list, t))
           /\ ToSet(ToEnd(list, t)) = ToSet(list) \cup {t}
<1>1. CASE ~Contains(list, t)
  <2>1. ToEnd(list, t) = Append(list, t)
    BY <1>1, RemoveFirstNone DEF ToEnd
  <2>2. QED BY <1>1, <2>1 DEF IsInjective, ToSet, Contains
<1>2. CASE Contains(list, t)
  <2>1. PICK n \in 1 .. Len(list) : list[n] = t
    BY <1>2 DEF Contains
  <2> DEFINE rest == RemoveFirst(list, t)
  <2>2. /\ rest \in Seq(S) /\ Len(rest) = Len(list) - 1
        /\ \A k \in 1 .. Len(list) - 1 : rest[k] = IF k < n THEN list[k] ELSE list[k + 1]
    BY <2>1, RemoveFirstOf
  <2>3. ToEnd(list, t) = Append(rest, t)
    BY DEF ToEnd
  <2> HIDE DEF rest
  <2>4. ToEnd(list, t) \in Seq(S) /\ Len(ToEnd(list, t)) = Len(list)
        /\ DOMAIN ToEnd(list, t) = 1 .. Len(list) /\ DOMAIN list = 1 .. Len(list)
    BY <2>2, <2>3
  <2>5. \A k \in 1 .. Len(list) : ToEnd(list, t)[k] = IF k = Len(list) THEN t ELSE rest[k]
    BY <2>2, <2>3
  <2> DEFINE from(k) == IF k = Len(list) THEN n ELSE IF k < n THEN k ELSE k + 1
  <2>6. \A k \in 1 .. Len(list) : from(k) \in 1 .. Len(list) /\ ToEnd(list, t)[k] = list[from(k)]
    BY <2>1, <2>2, <2>5
  <2>7. \A j, k \in 1 .. Len(list) : from(j) = from(k) => j = k
    OBVIOUS
  <2>8. \A k \in 1 .. Len(list) : \E j \in 1 .. Len(list) : from(j) = k
    <3>1. ASSUME NEW k \in 1 .. Len(list)
          PROVE  from(IF k = n THEN Len(list) ELSE IF k < n THEN k ELSE k - 1) = k
      OBVIOUS
    <3>2. \A k \in 1 .. Len(list) :
              (IF k = n THEN Len(list) ELSE IF k < n THEN k ELSE k - 1) \in 1 .. Len(list)
      OBVIOUS
    <3> HIDE DEF from
    <3>3. QED BY <3>1, <3>2
  <2> HIDE DEF from
  <2>9. IsInjective(ToEnd(list, t))
    BY <2>4, <2>6, <2>7 DEF IsInjective
  <2>10. ToSet(ToEnd(list, t)) \subseteq ToSet(list)
    BY <2>4, <2>6 DEF ToSet
  <2>11. ToSet(list) \subseteq ToSet(ToEnd(list, t))
    BY <2>4, <2>6, <2>8 DEF ToSet
  <2>12. t \in ToSet(list)
    BY <2>1, <2>4 DEF ToSet
  <2>13. QED BY <2>4, <2>9, <2>10, <2>11, <2>12
<1>3. QED BY <1>1, <1>2

LEMMA ContainsIn ==
    ASSUME NEW S, NEW list \in Seq(S), NEW t
    PROVE  Contains(list, t) <=> t \in ToSet(list)
BY DEF Contains, ToSet

\* The iterator after a thread of the list is at one of it, or at the end.
LEMMA AfterOf ==
    ASSUME NEW S, NEW list \in Seq(S), NEW t, Contains(list, t), After(list, t) # None
    PROVE  Contains(list, After(list, t))
<1>1. PICK n \in 1 .. Len(list) : list[n] = t
  BY DEF Contains
<1> DEFINE i == CHOOSE i \in DOMAIN list : list[i] = t
<1>2. i \in 1 .. Len(list) /\ list[i] = t
  BY <1>1
<1>3. After(list, t) = list[1 + i] /\ list[Len(list)] # t
  BY DEF After, Last
<1> HIDE DEF i
<1>4. 1 + i \in 1 .. Len(list)
  BY <1>2, <1>3
<1>5. QED BY <1>3, <1>4 DEF Contains

LEMMA BeginOf ==
    ASSUME NEW S, NEW list \in Seq(S), Begin(list) # None
    PROVE  Contains(list, Begin(list))
BY DEF Begin, Contains

-----------------------------------------------------------------------------
(* The fibers. As long as one runs, those that there are form a path: the   *)
(* caller of Start, the fiber it created, then cores, each of which waits   *)
(* for the next, and the last of which runs.                                *)

Path(path) ==
    /\ path \in Seq(Fibers) /\ IsInjective(path) /\ Len(path) > 0
    /\ path[1] = Main /\ (Len(path) > 1 => path[2] = First)
    /\ path[Len(path)] = current
    /\ \A i \in 1 .. Len(path) - 1 : waits[path[i]] = path[i + 1]
    /\ {f \in Fibers : pc[f] # "none"} = ToSet(path)

FiberTypes ==
    /\ pc \in [Fibers -> {"create", "none", "reeschedule", "loop", "resume"}]
    /\ waits \in [Fibers -> Fibers \cup {None}]
    /\ ready \in Seq(Fibers) /\ current \in Fibers \cup {None}
    /\ outcome \in {"ok", "undefined", "exception", "blocked"}

FiberPlaces ==
    /\ pc[Main] = "create" /\ pc[First] \in {"none", "reeschedule"}
    /\ \A c \in Cores : pc[c] \in {"none", "loop", "resume", "reeschedule"}

FiberInv ==
    /\ FiberTypes /\ FiberPlaces
    /\ Live => ready = <<>> /\ waits[current] = None /\ \E path : Path(path)
    /\ \A f \in Fibers : pc[f] = "none" => waits[f] = None

LEMMA FiberNames ==
    /\ None \notin Fibers /\ Main # First /\ Main \notin Cores /\ First \notin Cores
    /\ Main \in Fibers /\ First \in Fibers /\ Cores \subseteq Fibers
    /\ IsFiniteSet(Fibers)
<1>1. IsFiniteSet(Cores \cup {Main} \cup {First})
  BY SchedulerAssumption, FS_AddElement
<1>2. Fibers = Cores \cup {Main} \cup {First}
  BY DEF Fibers
<1>3. IsFiniteSet(Fibers)
  BY <1>1, <1>2
<1>4. QED BY <1>3, SchedulerAssumption DEF Fibers

\* A path ends where no fiber of it waits, so the same fiber is not its end and before it.
LEMMA PathOf ==
    ASSUME NEW path, Path(path)
    PROVE  /\ DOMAIN path = 1 .. Len(path) /\ Len(path) \in Nat
           /\ \A f \in Fibers : pc[f] # "none" <=> \E i \in 1 .. Len(path) : path[i] = f
           /\ \A i, j \in 1 .. Len(path) : path[i] = path[j] => i = j
<1>1. DOMAIN path = 1 .. Len(path) /\ Len(path) \in Nat
  BY DEF Path
<1>2. \A i, j \in 1 .. Len(path) : path[i] = path[j] => i = j
  BY <1>1 DEF Path, IsInjective
<1>3. ToSet(path) = {path[i] : i \in 1 .. Len(path)}
  BY <1>1 DEF ToSet
<1>4. \A f \in Fibers : pc[f] # "none" <=> f \in ToSet(path)
  BY DEF Path
<1>5. QED BY <1>1, <1>2, <1>3, <1>4

\* The fiber that runs is there, and every other one that is there waits.
LEMMA OthersWait ==
    ASSUME FiberInv, Live
    PROVE  /\ current \in Fibers /\ pc[current] # "none"
           /\ \A f \in Fibers : waits[f] = None <=> f = current \/ pc[f] = "none"
<1>1. PICK path : Path(path)
  BY DEF FiberInv
<1>2. /\ DOMAIN path = 1 .. Len(path) /\ Len(path) \in Nat
      /\ \A f \in Fibers : pc[f] # "none" <=> \E i \in 1 .. Len(path) : path[i] = f
  BY <1>1, PathOf
<1>3. /\ path \in Seq(Fibers) /\ Len(path) > 0 /\ path[Len(path)] = current
      /\ \A i \in 1 .. Len(path) - 1 : waits[path[i]] = path[i + 1]
  BY <1>1 DEF Path
<1>4. \A i \in 1 .. Len(path) : path[i] \in Fibers
  BY <1>2, <1>3
<1>5. current \in Fibers /\ pc[current] # "none"
  BY <1>2, <1>3, <1>4
<1>6. ASSUME NEW f \in Fibers, pc[f] # "none", f # current
      PROVE  waits[f] # None
  <2>1. PICK i \in 1 .. Len(path) : path[i] = f
    BY <1>2, <1>6
  <2>2. i \in 1 .. Len(path) - 1 /\ i + 1 \in 1 .. Len(path)
    BY <2>1, <1>2, <1>3, <1>6
  <2>3. waits[f] \in Fibers
    BY <1>3, <1>4, <2>1, <2>2
  <2>4. QED BY <2>3, FiberNames
<1>7. QED BY <1>5, <1>6 DEF FiberInv

\* With a fiber after the first two, somebody waits for a core.
LEMMA CoreIsWaitedFor ==
    ASSUME FiberInv, Live, current \in Cores
    PROVE  LockHeld
<1>1. PICK path : Path(path)
  BY DEF FiberInv
<1>2. DOMAIN path = 1 .. Len(path) /\ Len(path) \in Nat
  BY <1>1, PathOf
<1>3. /\ path \in Seq(Fibers) /\ Len(path) > 0 /\ path[Len(path)] = current /\ path[1] = Main
      /\ \A i \in 1 .. Len(path) - 1 : waits[path[i]] = path[i + 1]
  BY <1>1 DEF Path
<1>4. Len(path) # 1
  BY <1>3, FiberNames
<1> DEFINE i == Len(path) - 1
<1>5. i \in 1 .. Len(path) - 1 /\ i \in 1 .. Len(path) /\ i + 1 = Len(path)
  BY <1>2, <1>3, <1>4
<1> HIDE DEF i
<1>6. waits[path[i]] = current /\ path[i] \in Fibers
  BY <1>3, <1>5
<1>7. QED BY <1>6 DEF LockHeld

-----------------------------------------------------------------------------
(* What a fiber that joins and one that ends leave.                         *)

LEMMA JoinOf ==
    ASSUME FiberInv, Live, NEW g \in Fibers, Join(current, g)
    PROVE  \/ g = current /\ outcome' = "exception" /\ UNCHANGED fiberVars
           \/ /\ waits' = [waits EXCEPT ![current] = g] /\ ready' = <<>> /\ outcome' = "ok"
              /\ g # current /\ current' = IF pc[g] = "none" THEN g ELSE None
<1>1. ready = <<>> /\ outcome = "ok"
  BY DEF FiberInv, Live
<1>2. CASE current = g
  BY <1>2 DEF Join
<1>3. CASE current # g
  <2>1. Append(<<>>, g) # <<>> /\ Head(Append(<<>>, g)) = g /\ Tail(Append(<<>>, g)) = <<>>
    OBVIOUS
  <2>2. QED BY <1>1, <1>3, <2>1 DEF Join, Dispatch
<1>4. QED BY <1>2, <1>3

\* A fiber that did not exist is the new end of the path.
LEMMA PathGrows ==
    ASSUME FiberInv, Live, NEW path, Path(path), NEW g \in Fibers, pc[g] = "none",
           Len(path) = 1 => g = First,
           waits' = [waits EXCEPT ![current] = g], current' = g,
           {f \in Fibers : pc'[f] # "none"} = {f \in Fibers : pc[f] # "none"} \cup {g}
    PROVE  Path(Append(path, g))'
<1> DEFINE longer == Append(path, g)
<1>1. /\ DOMAIN path = 1 .. Len(path) /\ Len(path) \in Nat
      /\ \A f \in Fibers : pc[f] # "none" <=> \E i \in 1 .. Len(path) : path[i] = f
      /\ \A i, j \in 1 .. Len(path) : path[i] = path[j] => i = j
  BY PathOf
<1>2. /\ path \in Seq(Fibers) /\ Len(path) > 0 /\ path[Len(path)] = current
      /\ \A i \in 1 .. Len(path) - 1 : waits[path[i]] = path[i + 1]
      /\ path[1] = Main /\ (Len(path) > 1 => path[2] = First)
      /\ {f \in Fibers : pc[f] # "none"} = ToSet(path)
  BY DEF Path
<1>3. /\ longer \in Seq(Fibers) /\ Len(longer) = Len(path) + 1
      /\ DOMAIN longer = 1 .. Len(path) + 1
      /\ \A i \in 1 .. Len(path) : longer[i] = path[i]
      /\ longer[Len(path) + 1] = g
  BY <1>1, <1>2
<1> HIDE DEF longer
<1>4. \A i \in 1 .. Len(path) : path[i] # g /\ path[i] \in Fibers
  BY <1>1, <1>2
<1>5. IsInjective(longer)
  BY <1>1, <1>3, <1>4 DEF IsInjective
<1>6. ToSet(longer) = ToSet(path) \cup {g}
  BY <1>1, <1>3 DEF ToSet
<1>7. ASSUME NEW i \in 1 .. Len(longer) - 1
      PROVE  waits'[longer[i]] = longer[i + 1]
  <2>0. i \in 1 .. Len(path) /\ Len(path) \in 1 .. Len(path)
    BY <1>1, <1>2, <1>3
  <2>1. CASE i = Len(path)
    BY <2>1, <1>2, <1>3, <1>4 DEF FiberInv, FiberTypes
  <2>2. CASE i # Len(path)
    <3> DEFINE n == Len(path)
    <3> HIDE DEF n
    <3>0. n \in Nat /\ i \in 1 .. n /\ i # n
      BY <2>0, <2>2, <1>1 DEF n
    <3>1. i \in 1 .. n - 1 /\ i + 1 \in 1 .. n
      BY <3>0
    <3>2. path[i] # current
      BY <2>0, <2>2, <1>1, <1>2
    <3>3. waits'[path[i]] = waits[path[i]]
      BY <2>0, <3>2, <1>4 DEF FiberInv, FiberTypes
    <3>4. QED BY <2>0, <3>1, <3>3, <1>2, <1>3 DEF n
  <2>3. QED BY <2>1, <2>2
<1>8. longer[1] = Main /\ (Len(longer) > 1 => longer[2] = First) /\ longer[Len(longer)] = current'
  BY <1>1, <1>2, <1>3
<1>9. QED BY <1>2, <1>3, <1>5, <1>6, <1>7, <1>8 DEF Path, longer

\* When the first fiber ends it was the last: Main runs on.
LEMMA EndOf ==
    ASSUME FiberInv, Live, current = First, End(First)
    PROVE  /\ waits' = [f \in Fibers |-> None] /\ current' = Main /\ ready' = <<>>
           /\ {f \in Fibers : pc[f] # "none"} = {Main, First}
<1>1. PICK path : Path(path)
  BY DEF FiberInv
<1>2. /\ DOMAIN path = 1 .. Len(path) /\ Len(path) \in Nat
      /\ \A f \in Fibers : pc[f] # "none" <=> \E i \in 1 .. Len(path) : path[i] = f
      /\ \A i, j \in 1 .. Len(path) : path[i] = path[j] => i = j
  BY <1>1, PathOf
<1>3. /\ path \in Seq(Fibers) /\ Len(path) > 0 /\ path[Len(path)] = First
      /\ \A i \in 1 .. Len(path) - 1 : waits[path[i]] = path[i + 1]
      /\ path[1] = Main /\ (Len(path) > 1 => path[2] = First)
  BY <1>1 DEF Path
<1>4. Len(path) = 2
  <2>1. Len(path) > 1
    BY <1>2, <1>3, FiberNames
  <2>2. 2 \in 1 .. Len(path) /\ Len(path) \in 1 .. Len(path)
    BY <2>1, <1>2
  <2>3. QED BY <2>1, <2>2, <1>2, <1>3
<1>5. \A f \in Fibers : pc[f] # "none" <=> f \in {Main, First}
  BY <1>2, <1>3, <1>4
<1>6. waits[Main] = First /\ waits[First] = None
  BY <1>2, <1>3, <1>4 DEF FiberInv
<1>7. \A f \in Fibers : f # Main => waits[f] = None
  BY <1>5, <1>6 DEF FiberInv
<1>8. {g \in Fibers : waits[g] = First} = {Main}
  BY <1>6, <1>7, FiberNames
<1>9. SetToSeq({Main}) = <<Main>>
  <2>1. Cardinality({Main}) = 1
    BY FS_Singleton
  <2>2. \A f \in [1 .. 1 -> {Main}] : f = <<Main>>
    OBVIOUS
  <2>3. <<Main>> \in [1 .. 1 -> {Main}] /\ IsInjective(<<Main>>)
    BY DEF IsInjective
  <2>4. QED BY <2>1, <2>2, <2>3 DEF SetToSeq
<1>10. ready \o <<Main>> = <<Main>>
  BY DEF FiberInv
<1>11. current' = Main /\ ready' = <<>>
  <2>1. Dispatch(<<Main>>)
    BY <1>8, <1>9, <1>10 DEF End
  <2>2. <<Main>> # <<>> /\ Head(<<Main>>) = Main /\ Tail(<<Main>>) = <<>>
    OBVIOUS
  <2>3. QED BY <2>1, <2>2 DEF Dispatch
<1>12. waits' = [f \in Fibers |-> None]
  BY <1>7, <1>8 DEF End
<1>13. QED BY <1>5, <1>11, <1>12, FiberNames

-----------------------------------------------------------------------------
(* FiberInv is an invariant.                                                *)

LEMMA FiberInit == Init => FiberInv
<1> SUFFICES ASSUME Init PROVE FiberInv
  OBVIOUS
<1>1. FiberTypes /\ FiberPlaces
  BY FiberNames DEF Init, FiberTypes, FiberPlaces
<1>2. ready = <<>> /\ waits[current] = None /\ \A f \in Fibers : pc[f] = "none" => waits[f] = None
  BY FiberNames DEF Init
<1>3. Path(<<Main>>)
  <2> DEFINE path == <<Main>>
  <2>1. /\ path \in Seq(Fibers) /\ Len(path) = 1 /\ path[1] = Main /\ DOMAIN path = 1 .. 1
    BY FiberNames
  <2> HIDE DEF path
  <2>2. IsInjective(path) /\ ToSet(path) = {Main}
    BY <2>1 DEF IsInjective, ToSet
  <2>3. {f \in Fibers : pc[f] # "none"} = {Main} /\ current = Main
    BY FiberNames DEF Init
  <2>4. QED BY <2>1, <2>2, <2>3 DEF Path, path
<1>4. QED BY <1>1, <1>2, <1>3 DEF FiberInv

\* A step that wakes or creates no fiber keeps the path.
LEMMA PathStays ==
    ASSUME FiberInv, Live, UNCHANGED fiberVars, FiberTypes', FiberPlaces',
           {f \in Fibers : pc'[f] # "none"} = {f \in Fibers : pc[f] # "none"}
    PROVE  FiberInv'
<1>1. PICK path : Path(path)
  BY DEF FiberInv
<1>2. Path(path)'
  BY <1>1 DEF Path, fiberVars
<1>3. ready' = <<>> /\ waits'[current'] = None
  BY DEF FiberInv, fiberVars
<1>4. \A f \in Fibers : pc'[f] = "none" => waits'[f] = None
  BY DEF FiberInv, fiberVars
<1>5. QED BY <1>2, <1>3, <1>4 DEF FiberInv

LEMMA CoreGoes ==
    ASSUME FiberInv, Live, NEW c \in Cores, current = c, NEW at \in {"loop", "resume", "reeschedule"},
           Goes(c, at), UNCHANGED <<fiberVars, outcome>>
    PROVE  FiberInv'
<1>1. pc[c] # "none"
  BY OthersWait
<1>2. FiberTypes' /\ FiberPlaces'
  BY FiberNames DEF FiberInv, FiberTypes, FiberPlaces, Goes, fiberVars
<1>3. {f \in Fibers : pc'[f] # "none"} = {f \in Fibers : pc[f] # "none"}
  BY <1>1, FiberNames DEF FiberInv, FiberTypes, Goes
<1>4. QED BY <1>2, <1>3, PathStays DEF fiberVars

\* A fiber joins one that did not exist, is itself, or waits already: then nothing runs.
LEMMA FiberJoins ==
    ASSUME FiberInv, Live, NEW g \in Fibers, Join(current, g),
           NEW at \in {"loop", "reeschedule"},
           IF g \in Cores THEN at = "loop" ELSE at = "reeschedule" /\ g = First,
           pc' = IF pc[g] = "none" THEN [pc EXCEPT ![g] = at] ELSE pc,
           current \in Cores \cup {First} => g \in Cores,
           current = Main => g = First
    PROVE  FiberInv'
<1>1. /\ current \in Fibers /\ pc[current] # "none" /\ outcome = "ok" /\ ready = <<>>
      /\ \A f \in Fibers : waits[f] = None <=> f = current \/ pc[f] = "none"
  BY OthersWait DEF Live, FiberInv
<1>2. FiberPlaces'
  BY FiberNames DEF FiberInv, FiberTypes, FiberPlaces
<1>3. CASE outcome' = "exception" /\ UNCHANGED fiberVars
  <2>1. FiberTypes'
    BY <1>3, FiberNames DEF FiberInv, FiberTypes, fiberVars
  <2>2. ~Live'
    BY <1>3 DEF Live
  <2>3. \A f \in Fibers : pc'[f] = "none" => waits'[f] = None
    BY <1>3 DEF FiberInv, FiberTypes, fiberVars
  <2>4. QED BY <1>2, <2>1, <2>2, <2>3 DEF FiberInv
<1>4. CASE /\ waits' = [waits EXCEPT ![current] = g] /\ ready' = <<>> /\ outcome' = "ok"
           /\ g # current /\ current' = IF pc[g] = "none" THEN g ELSE None
  <2>1. FiberTypes'
    BY <1>1, <1>4, FiberNames DEF FiberInv, FiberTypes
  <2>2. \A f \in Fibers : pc'[f] = "none" => pc[f] = "none" /\ f # g
    BY FiberNames DEF FiberInv, FiberTypes
  <2>3. \A f \in Fibers : pc'[f] = "none" => waits'[f] = None
    BY <1>1, <1>4, <2>2 DEF FiberInv, FiberTypes
  <2>4. CASE pc[g] # "none"
    <3>1. ~Live'
      BY <1>4, <2>4 DEF Live
    <3>2. QED BY <1>2, <2>1, <2>3, <3>1 DEF FiberInv
  <2>5. CASE pc[g] = "none"
    <3>1. waits'[g] = None
      BY <1>1, <1>4, <2>5 DEF FiberInv, FiberTypes
    <3>2. {f \in Fibers : pc'[f] # "none"} = {f \in Fibers : pc[f] # "none"} \cup {g}
      BY <2>5 DEF FiberInv, FiberTypes
    <3>3. PICK path : Path(path)
      BY DEF FiberInv
    <3>4. Len(path) = 1 => g = First
      BY <3>3 DEF Path
    <3>5. Path(Append(path, g))'
      BY <1>4, <2>5, <3>2, <3>3, <3>4, PathGrows
    <3>6. current' = g
      BY <1>4, <2>5
    <3>7. QED BY <1>2, <1>4, <2>1, <2>3, <3>1, <3>5, <3>6 DEF FiberInv
  <2>6. QED BY <2>4, <2>5
<1>5. QED BY <1>3, <1>4, JoinOf

LEMMA FirstEnds ==
    ASSUME FiberInv, Live, current = First, Goes(First, "none"), End(First), UNCHANGED outcome
    PROVE  FiberInv'
<1>1. /\ waits' = [f \in Fibers |-> None] /\ current' = Main /\ ready' = <<>>
      /\ {f \in Fibers : pc[f] # "none"} = {Main, First}
  BY EndOf
<1>2. FiberTypes' /\ FiberPlaces'
  BY <1>1, FiberNames DEF FiberInv, FiberTypes, FiberPlaces, Goes
<1>3. {f \in Fibers : pc'[f] # "none"} = {Main}
  BY <1>1, FiberNames DEF FiberInv, FiberTypes, Goes
<1>4. Path(<<Main>>)'
  <2> DEFINE path == <<Main>>
  <2>1. /\ path \in Seq(Fibers) /\ Len(path) = 1 /\ path[1] = Main /\ DOMAIN path = 1 .. 1
    BY FiberNames
  <2> HIDE DEF path
  <2>2. IsInjective(path) /\ ToSet(path) = {Main}
    BY <2>1 DEF IsInjective, ToSet
  <2>3. QED BY <1>1, <1>3, <2>1, <2>2 DEF Path, path
<1>5. waits'[current'] = None /\ \A f \in Fibers : waits'[f] = None
  BY <1>1, FiberNames
<1>6. QED BY <1>1, <1>2, <1>4, <1>5 DEF FiberInv

\* While the caller of Start runs there is no other fiber.
LEMMA MainIsAlone ==
    ASSUME FiberInv, Live, current = Main
    PROVE  pc[First] = "none"
<1>1. PICK path : Path(path)
  BY DEF FiberInv
<1>2. /\ DOMAIN path = 1 .. Len(path) /\ Len(path) \in Nat /\ Len(path) > 0
      /\ \A i, j \in 1 .. Len(path) : path[i] = path[j] => i = j
      /\ path[1] = Main /\ path[Len(path)] = Main
      /\ \A f \in Fibers : pc[f] # "none" <=> \E i \in 1 .. Len(path) : path[i] = f
  BY <1>1, PathOf DEF Path
<1>3. Len(path) = 1
  BY <1>2
<1>4. QED BY <1>2, <1>3, FiberNames

\* The fiber that steps runs.
LEMMA StepsWhenLive ==
    \A f \in Fibers : \A at : Runs(f, at) => Live /\ current = f
BY FiberNames DEF Runs, Live

LEMMA FiberStep == FiberInv /\ [Next]_vars => FiberInv'
<1> SUFFICES ASSUME FiberInv, [Next]_vars PROVE FiberInv'
  OBVIOUS
<1>1. CASE CreateFirstFiber
  <2>1. Live /\ current = Main /\ pc[Main] = "create"
    BY <1>1, StepsWhenLive, FiberNames DEF CreateFirstFiber, Runs
  <2>3. pc[First] = "none"
    BY <2>1, MainIsAlone
  <2>4. pc' = [pc EXCEPT ![First] = "reeschedule"]
    BY <1>1, <2>1 DEF CreateFirstFiber, FiberInv, FiberTypes
  <2>5. Join(current, First)
    BY <1>1, <2>1 DEF CreateFirstFiber
  <2>6. QED BY <2>1, <2>3, <2>4, <2>5, FiberJoins, FiberNames
<1>2. ASSUME NEW f \in Fibers \ {Main}, ReturnFromReeschedule(f)
      PROVE  FiberInv'
  <2>1. Live /\ current = f
    BY <1>2, StepsWhenLive DEF ReturnFromReeschedule
  <2>2. CASE f = First
    BY <1>2, <2>1, <2>2, FirstEnds DEF ReturnFromReeschedule
  <2>3. CASE f # First
    <3>1. f \in Cores
      BY <2>3 DEF Fibers
    <3>2. Goes(f, "resume") /\ UNCHANGED <<fiberVars, outcome>>
      BY <1>2, <2>3 DEF ReturnFromReeschedule
    <3>3. QED BY <2>1, <3>1, <3>2, CoreGoes
  <2>4. QED BY <2>2, <2>3
<1>3. ASSUME NEW f \in Fibers \ {Main}, PassThread(f)
      PROVE  FiberInv'
  <2>1. Live
    BY <1>3, StepsWhenLive DEF PassThread
  <2>2. UNCHANGED <<pc, fiberVars>> /\ outcome' \in {"ok", "undefined"}
    BY <1>3 DEF PassThread
  <2>3. FiberTypes' /\ FiberPlaces'
    BY <2>2 DEF FiberInv, FiberTypes, FiberPlaces, fiberVars
  <2>4. QED BY <2>1, <2>2, <2>3, PathStays
<1>4. ASSUME NEW f \in Fibers \ {Main}, PreemptThread(f)
      PROVE  FiberInv'
  <2> DEFINE c == desiredcpu[threadit[f]]
  <2>1. Live /\ current = f /\ c \in Cores
    BY <1>4, StepsWhenLive DEF PreemptThread, NotPreempted
  <2>2. Join(current, c) /\ pc' = IF pc[c] = "none" THEN [pc EXCEPT ![c] = "loop"] ELSE pc
    BY <1>4, <2>1 DEF PreemptThread
  <2> HIDE DEF c
  <2>3. QED BY <2>1, <2>2, FiberJoins, FiberNames
<1>5. ASSUME NEW c \in Cores, ResumeFront(c) \/ ThreadReturns(c) \/ RunSlice(c) \/ Kill(c)
      PROVE  FiberInv'
  <2>1. Live /\ current = c
    BY <1>5, StepsWhenLive, FiberNames DEF ResumeFront, ThreadReturns, RunSlice, Kill
  <2>2. UNCHANGED <<fiberVars, outcome>> /\ \E at \in {"loop", "resume", "reeschedule"} : Goes(c, at)
    BY <1>5 DEF ResumeFront, ThreadReturns, RunSlice, Kill, YieldsTo
  <2>3. QED BY <2>1, <2>2, CoreGoes
<1>6. ASSUME NEW c \in Cores, NEW t \in Threads, NEW core \in Cores, CreateThread(c, t, core)
      PROVE  FiberInv'
  <2>1. Live /\ current = c /\ LockHeld
    BY <1>6, StepsWhenLive, FiberNames, CoreIsWaitedFor DEF CreateThread
  <2>2. UNCHANGED <<pc, fiberVars>> /\ outcome' = "blocked"
    BY <1>6, <2>1 DEF CreateThread
  <2>3. FiberTypes' /\ FiberPlaces'
    BY <2>2 DEF FiberInv, FiberTypes, FiberPlaces, fiberVars
  <2>4. QED BY <2>1, <2>2, <2>3, PathStays
<1>7. CASE UNCHANGED vars
  BY <1>7 DEF FiberInv, FiberTypes, FiberPlaces, Live, Path, vars, fiberVars
<1>8. QED
  BY <1>1, <1>2, <1>3, <1>4, <1>5, <1>6, <1>7
  DEF Next, System, Guest, Reeschedule, CoreLoop

-----------------------------------------------------------------------------
(* The threads.                                                             *)

ThreadTypes ==
    /\ desiredcpu \in [Threads -> Cores \cup {NoCore, None}]
    /\ state \in [Threads -> {0, 1}] /\ killed \in BOOLEAN
    /\ preemplist \in Seq(Threads)
    /\ ToSet(preemplist) \subseteq Created /\ IsInjective(preemplist)
    /\ preempting \in [Cores -> Seq(Threads)]
    /\ \A c \in Cores : ToSet(preempting[c]) \subseteq Created
    /\ resumed \in [Cores -> Threads \cup {None}] /\ count \in [Cores -> 0 .. Rounds]
    /\ threadit \in [Fibers -> Threads \cup {None}]

\* A core that resumes a thread has it on its list, until ResumeThread returns.
CoreInv ==
    \A c \in Cores :
        /\ pc[c] \in {"resume", "reeschedule"} => resumed[c] \in ToSet(preempting[c])
        /\ pc[c] = "reeschedule" => count[c] < Rounds

\* Only the fiber that runs is in the loop of Reeschedule, at a thread of the list.
ListInv ==
    /\ \A t \in Threads : t \notin Created => state[t] = 0
    /\ \A f \in Fibers : threadit[f] # None =>
          f = current /\ pc[f] = "reeschedule" /\ threadit[f] \in ToSet(preemplist)

ThreadInv ==
    ThreadTypes /\ CoreInv /\ ListInv /\ PreemptedOnce /\ KillFindsEveryThread

IInv == FiberInv /\ ThreadInv

LEMMA ThreadNames ==
    /\ None \notin Threads /\ None \notin Fibers /\ None \notin Cores /\ NoCore \notin Cores
    /\ Rounds \in Nat /\ Rounds > 0 /\ \A t \in Created : t \in Threads
BY SchedulerAssumption DEF Fibers, Created

LEMMA EmptyList == ToSet(<<>>) = {} /\ IsInjective(<<>>) /\ Begin(<<>>) = None
BY DEF ToSet, IsInjective, Begin

\* The loop of Reeschedule begins at a thread of the list, or ends.
LEMMA BeginIn ==
    ASSUME NEW list \in Seq(Threads)
    PROVE  Begin(list) # None => Begin(list) \in ToSet(list) /\ Begin(list) \in Threads
<1> SUFFICES ASSUME Begin(list) # None
             PROVE  Begin(list) \in ToSet(list) /\ Begin(list) \in Threads
  OBVIOUS
<1>1. Contains(list, Begin(list))
  BY BeginOf
<1>2. Begin(list) \in ToSet(list)
  BY <1>1, ContainsIn
<1>3. ToSet(list) \subseteq Threads
  BY DEF ToSet
<1>4. QED BY <1>2, <1>3

LEMMA ThreadInit == Init => ThreadInv
<1> SUFFICES ASSUME Init PROVE ThreadInv
  OBVIOUS
<1> DEFINE n == Cardinality(Created)
<1>1. IsFiniteSet(Created) /\ n \in Nat
  <2>1. Created \in SUBSET Threads /\ IsFiniteSet(Threads)
    BY SchedulerAssumption DEF Created
  <2>2. QED BY <2>1, FS_Subset, FS_CardinalityType
<1>2. preemplist \in [1 .. n -> Created] /\ \A i, j \in 1 .. n : i # j => preemplist[i] # preemplist[j]
  BY DEF Init, SetToSeqs, Created
<1>3. preemplist \in Seq(Threads) /\ Len(preemplist) = n /\ IsInjective(preemplist)
  <2>1. preemplist \in Seq(Created) /\ Len(preemplist) = n
    BY <1>1, <1>2
  <2>2. preemplist \in Seq(Threads)
    BY <2>1, ThreadNames
  <2>3. QED BY <2>1, <2>2, <1>2 DEF IsInjective
<1>4. ToSet(preemplist) = Created
  <2>1. preemplist \in Injection(1 .. n, Created)
    BY <1>2 DEF Injection, IsInjective
  <2>2. Cardinality(1 .. n) = n
    BY <1>1, FS_Interval
  <2>3. preemplist \in Surjection(1 .. n, Created)
    BY <2>1, <2>2, <1>1, FS_Injection
  <2>4. QED BY <2>3, <1>2 DEF Surjection, ToSet
<1>5. /\ desiredcpu \in [Threads -> Cores \cup {NoCore, None}] /\ state \in [Threads -> {0, 1}]
      /\ \A t \in Threads : state[t] = 0 <=> t \notin Created
  BY DEF Init, Created
<1>6. ThreadTypes
  <2>1. preempting \in [Cores -> Seq(Threads)] /\ \A c \in Cores : ToSet(preempting[c]) \subseteq Created
    BY EmptyList DEF Init
  <2>2. resumed \in [Cores -> Threads \cup {None}] /\ count \in [Cores -> 0 .. Rounds]
    BY ThreadNames DEF Init
  <2>3. threadit \in [Fibers -> Threads \cup {None}] /\ killed \in BOOLEAN
    BY DEF Init
  <2>4. QED BY <2>1, <2>2, <2>3, <1>3, <1>4, <1>5 DEF ThreadTypes
<1>7. CoreInv
  BY FiberNames DEF Init, CoreInv
<1>8. ListInv
  BY <1>5 DEF Init, ListInv
<1>9. PreemptedOnce
  BY EmptyList DEF Init, PreemptedOnce
<1>10. KillFindsEveryThread
  <2>1. \A t \in Created : state[t] # 0 /\ Contains(preemplist, t)
    BY <1>3, <1>4, <1>5, ThreadNames, ContainsIn
  <2>2. QED BY <2>1 DEF Init, KillFindsEveryThread
<1>11. QED BY <1>6, <1>7, <1>8, <1>9, <1>10 DEF ThreadInv

\* A thread of the scheduler's list is alive, and one that is not has no iterator at it.
LEMMA ListedLive ==
    ASSUME IInv
    PROVE  /\ \A t \in Created : state[t] # 0 <=> t \in ToSet(preemplist)
           /\ \A t \in ToSet(preemplist) : t \in Threads /\ state[t] # 0
<1>1. preemplist \in Seq(Threads) /\ ToSet(preemplist) \subseteq Created
  BY DEF IInv, ThreadInv, ThreadTypes
<1>2. \A t \in Created : state[t] # 0 <=> t \in ToSet(preemplist)
  BY <1>1, ContainsIn DEF IInv, ThreadInv, KillFindsEveryThread
<1>3. QED BY <1>1, <1>2, ThreadNames

\* KillFindsEveryThread speaks of the list's members only.
LEMMA KillFinds ==
    ASSUME IInv, ThreadTypes', ToSet(preemplist') = ToSet(preemplist),
           UNCHANGED <<desiredcpu, state, killed>>
    PROVE  KillFindsEveryThread'
<1>1. Created' = Created
  BY DEF Created
<1>2. \A t \in Created : state[t] # 0 <=> Contains(preemplist', t)
  <2>1. preemplist' \in Seq(Threads)
    BY DEF ThreadTypes
  <2>2. QED BY <2>1, ListedLive, ContainsIn
<1>3. QED BY <1>1, <1>2 DEF KillFindsEveryThread, IInv, ThreadInv

\* A step that changes neither the threads nor the cores' lists: only an iterator,
\* and the fiber that runs.
LEMMA ListsStay ==
    ASSUME IInv, FiberInv', UNCHANGED <<listVars, killed>>,
           threadit' \in [Fibers -> Threads \cup {None}],
           resumed' \in [Cores -> Threads \cup {None}], count' \in [Cores -> 0 .. Rounds],
           CoreInv',
           \A f \in Fibers : threadit'[f] # None =>
               f = current' /\ pc'[f] = "reeschedule" /\ threadit'[f] \in ToSet(preemplist)
    PROVE  ThreadInv'
<1>1. UNCHANGED <<desiredcpu, state, preemplist, preempting, killed>> /\ Created' = Created
  BY DEF listVars, Created
<1>2. ThreadTypes'
  BY <1>1 DEF IInv, ThreadInv, ThreadTypes
<1>3. ListInv'
  BY <1>1 DEF IInv, ThreadInv, ListInv
<1>4. PreemptedOnce'
  BY <1>1 DEF IInv, ThreadInv, PreemptedOnce
<1>5. KillFindsEveryThread'
  BY <1>1, <1>2, KillFinds
<1>6. QED BY <1>2, <1>3, <1>4, <1>5 DEF ThreadInv

LEMMA CreateFirstFiberKeeps ==
    ASSUME IInv, FiberInv', CreateFirstFiber
    PROVE  ThreadInv'
<1>1. FiberInv /\ Live /\ current = Main /\ pc[Main] = "create"
  BY StepsWhenLive, FiberNames DEF IInv, CreateFirstFiber, Runs
<1>2. /\ pc' = [pc EXCEPT ![First] = "reeschedule"] /\ current' = First
      /\ threadit' = [threadit EXCEPT ![First] = Begin(preemplist)]
      /\ UNCHANGED <<listVars, resumed, count, killed>>
  <2>1. pc' = [pc EXCEPT ![First] = "reeschedule"]
    BY <1>1 DEF CreateFirstFiber, FiberInv, FiberTypes
  <2>2. Join(current, First)
    BY <1>1 DEF CreateFirstFiber
  <2>3. current' = First
    BY <2>2, <1>1, FiberNames, MainIsAlone, JoinOf
  <2>4. QED BY <1>1, <2>1, <2>3 DEF CreateFirstFiber
<1>3. preemplist \in Seq(Threads) /\ threadit \in [Fibers -> Threads \cup {None}]
      /\ \A f \in Fibers : threadit[f] # None => f = Main /\ pc[Main] = "reeschedule"
  BY <1>1 DEF IInv, ThreadInv, ThreadTypes, ListInv
<1>4. threadit' \in [Fibers -> Threads \cup {None}]
      /\ \A f \in Fibers : threadit'[f] # None => f = First /\ threadit'[f] \in ToSet(preemplist)
  BY <1>1, <1>2, <1>3, BeginIn, FiberNames
<1>5. CoreInv'
  BY <1>1, <1>2, FiberNames DEF IInv, ThreadInv, CoreInv, FiberInv, FiberTypes, listVars
<1>6. pc'[First] = "reeschedule"
  BY <1>1, <1>2, FiberNames DEF FiberInv, FiberTypes
<1>7. QED
  BY <1>2, <1>4, <1>5, <1>6, ListsStay DEF IInv, ThreadInv, ThreadTypes

LEMMA ReturnFromReescheduleKeeps ==
    ASSUME IInv, FiberInv', NEW f \in Fibers \ {Main}, ReturnFromReeschedule(f)
    PROVE  ThreadInv'
<1>1. /\ FiberInv /\ Live /\ current = f /\ pc[f] = "reeschedule"
      /\ UNCHANGED <<listVars, resumed, threadit, killed>>
  BY StepsWhenLive DEF IInv, ReturnFromReeschedule, Runs
<1>2. \A g \in Fibers : threadit[g] = None
  BY <1>1 DEF ReturnFromReeschedule, IInv, ThreadInv, ListInv
<1>3. count' \in [Cores -> 0 .. Rounds] /\ CoreInv'
  <2>1. CASE f = First
    BY <1>1, <2>1, FiberNames
    DEF ReturnFromReeschedule, Goes, IInv, ThreadInv, ThreadTypes, CoreInv, FiberInv, FiberTypes, listVars
  <2>2. CASE f # First
    <3>1. f \in Cores /\ pc' = [pc EXCEPT ![f] = "resume"] /\ count' = [count EXCEPT ![f] = @ + 1]
      BY <2>2 DEF Fibers, ReturnFromReeschedule, Goes
    <3>2. count[f] \in 0 .. Rounds /\ count[f] < Rounds
      BY <1>1, <3>1 DEF IInv, ThreadInv, ThreadTypes, CoreInv
    <3>3. count' \in [Cores -> 0 .. Rounds]
      BY <3>1, <3>2, ThreadNames DEF IInv, ThreadInv, ThreadTypes
    <3>4. CoreInv'
      BY <1>1, <3>1, FiberNames DEF IInv, ThreadInv, ThreadTypes, CoreInv, FiberInv, FiberTypes, listVars
    <3>5. QED BY <3>3, <3>4
  <2>3. QED BY <2>1, <2>2
<1>4. QED
  BY <1>1, <1>2, <1>3, ListsStay DEF IInv, ThreadInv, ThreadTypes

LEMMA PassThreadKeeps ==
    ASSUME IInv, FiberInv', NEW f \in Fibers \ {Main}, PassThread(f)
    PROVE  ThreadInv'
<1> DEFINE t == threadit[f]
<1>1. /\ FiberInv /\ current = f /\ pc[f] = "reeschedule" /\ t # None
      /\ UNCHANGED <<desiredcpu, state, preempting, pc, fiberVars, resumed, count, killed>>
      /\ threadit' = [threadit EXCEPT ![f] = After(preemplist, t)]
      /\ preemplist' = IF state[t] = 0 THEN RemoveFirst(preemplist, t) ELSE preemplist
  BY DEF IInv, PassThread, Runs
<1> HIDE DEF t
<1>2. t \in ToSet(preemplist) /\ state[t] # 0
  BY <1>1, ListedLive DEF t, IInv, ThreadInv, ListInv
<1>3. After(preemplist, t) = None \/ After(preemplist, t) \in ToSet(preemplist)
  <2>1. preemplist \in Seq(Threads)
    BY DEF IInv, ThreadInv, ThreadTypes
  <2>2. QED BY <2>1, <1>2, AfterOf, ContainsIn
<1>4. threadit' \in [Fibers -> Threads \cup {None}]
      /\ \A g \in Fibers : threadit'[g] # None => g = f /\ threadit'[g] \in ToSet(preemplist)
  BY <1>1, <1>3, ListedLive DEF IInv, ThreadInv, ThreadTypes, ListInv
<1>5. UNCHANGED listVars /\ current' = f
  BY <1>1, <1>2 DEF listVars, fiberVars
<1>6. CoreInv'
  BY <1>1 DEF IInv, ThreadInv, CoreInv
<1>7. QED
  BY <1>1, <1>4, <1>5, <1>6, ListsStay DEF IInv, ThreadInv, ThreadTypes

\* The thread is new to its core's list, which no other fiber reads meanwhile.
LEMMA PreemptThreadKeeps ==
    ASSUME IInv, FiberInv', NEW f \in Fibers \ {Main}, PreemptThread(f)
    PROVE  ThreadInv'
<1> DEFINE t == threadit[f]
           c == desiredcpu[t]
<1>1. /\ FiberInv /\ Live /\ current = f /\ t # None /\ c \in Cores /\ ~Contains(preempting[c], t)
      /\ UNCHANGED <<desiredcpu, state, resumed, count, killed>>
      /\ preemplist' = ToEnd(preemplist, t)
      /\ preempting' = [preempting EXCEPT ![c] = <<t>> \o @]
      /\ threadit' = [threadit EXCEPT ![f] = None]
      /\ pc' = IF pc[c] = "none" THEN [pc EXCEPT ![c] = "loop"] ELSE pc
  BY StepsWhenLive DEF IInv, PreemptThread, NotPreempted
<1> HIDE DEF t, c
<1>2. /\ preemplist \in Seq(Threads) /\ IsInjective(preemplist) /\ ToSet(preemplist) \subseteq Created
      /\ preempting \in [Cores -> Seq(Threads)] /\ threadit \in [Fibers -> Threads \cup {None}]
  BY DEF IInv, ThreadInv, ThreadTypes
<1>3. t \in ToSet(preemplist) /\ t \in Threads /\ t \in Created
  BY <1>1, <1>2, ListedLive DEF t, IInv, ThreadInv, ListInv
<1>4. /\ preemplist' \in Seq(Threads) /\ IsInjective(preemplist')
      /\ ToSet(preemplist') = ToSet(preemplist)
  <2>1. ToSet(preemplist) \cup {t} = ToSet(preemplist)
    BY <1>3
  <2>2. /\ ToEnd(preemplist, t) \in Seq(Threads) /\ IsInjective(ToEnd(preemplist, t))
        /\ ToSet(ToEnd(preemplist, t)) = ToSet(preemplist) \cup {t}
    BY <1>2, <1>3, ToEndOf
  <2>3. QED BY <1>1, <2>1, <2>2
<1>5. /\ preempting'[c] \in Seq(Threads) /\ ToSet(preempting'[c]) = ToSet(preempting[c]) \cup {t}
      /\ (IsInjective(preempting[c]) => IsInjective(preempting'[c]))
  <2> DEFINE old == preempting[c]
             new == <<t>> \o old
  <2>1. preempting'[c] = new /\ old \in Seq(Threads) /\ ~Contains(old, t)
    BY <1>1, <1>2
  <2>2. /\ new \in Seq(Threads) /\ Len(new) = 1 + Len(old) /\ DOMAIN new = 1 .. 1 + Len(old)
        /\ DOMAIN old = 1 .. Len(old) /\ Len(old) \in Nat
        /\ new[1] = t /\ \A i \in 2 .. 1 + Len(old) : new[i] = old[i - 1]
    BY <2>1, <1>3
  <2>3. \A i \in 1 .. Len(old) : old[i] # t /\ new[i + 1] = old[i]
    <3> SUFFICES ASSUME NEW i \in 1 .. Len(old) PROVE old[i] # t /\ new[i + 1] = old[i]
      OBVIOUS
    <3>1. i + 1 \in 2 .. 1 + Len(old) /\ (i + 1) - 1 = i
      BY <2>2
    <3>2. QED BY <2>1, <2>2, <3>1 DEF Contains
  <2> HIDE DEF old, new
  <2>4. ToSet(new) = ToSet(old) \cup {t}
    <3>1. ToSet(new) \subseteq ToSet(old) \cup {t}
      <4> SUFFICES ASSUME NEW i \in DOMAIN new PROVE new[i] \in ToSet(old) \cup {t}
        BY DEF ToSet
      <4>1. CASE i = 1
        BY <4>1, <2>2
      <4>2. CASE i # 1
        <5>1. i \in 2 .. 1 + Len(old) /\ i - 1 \in DOMAIN old
          BY <4>2, <2>2
        <5>2. QED BY <5>1, <2>2 DEF ToSet
      <4>3. QED BY <4>1, <4>2
    <3>2. ToSet(old) \subseteq ToSet(new)
      <4> SUFFICES ASSUME NEW i \in DOMAIN old PROVE old[i] \in ToSet(new)
        BY DEF ToSet
      <4>1. i + 1 \in DOMAIN new /\ new[i + 1] = old[i]
        BY <2>2, <2>3
      <4>2. QED BY <4>1 DEF ToSet
    <3>3. t \in ToSet(new)
      <4>1. 1 \in DOMAIN new
        BY <2>2
      <4>2. QED BY <4>1, <2>2 DEF ToSet
    <3>4. QED BY <3>1, <3>2, <3>3
  <2>5. ASSUME IsInjective(old) PROVE IsInjective(new)
    <3> SUFFICES ASSUME NEW i \in 1 .. 1 + Len(old), NEW j \in 1 .. 1 + Len(old), new[i] = new[j]
                 PROVE  i = j
      BY <2>2 DEF IsInjective
    <3>1. \A k \in 1 .. 1 + Len(old) : k # 1 => k - 1 \in 1 .. Len(old) /\ new[k] = old[k - 1]
      <4> SUFFICES ASSUME NEW k \in 1 .. 1 + Len(old), k # 1
                   PROVE  k - 1 \in 1 .. Len(old) /\ new[k] = old[k - 1]
        OBVIOUS
      <4>1. k \in 2 .. 1 + Len(old) /\ k - 1 \in 1 .. Len(old)
        BY <2>2
      <4>2. QED BY <4>1, <2>2
    <3>2. CASE i = 1 \/ j = 1
      BY <3>1, <3>2, <2>2, <2>3
    <3>3. CASE i # 1 /\ j # 1
      <4>1. i - 1 = j - 1
        BY <3>1, <3>3, <2>2, <2>5 DEF IsInjective
      <4>2. QED BY <4>1, <2>2
    <3>4. QED BY <3>2, <3>3
  <2>6. QED BY <2>1, <2>2, <2>4, <2>5 DEF old
<1>6. \A b \in Cores : b # c => preempting'[b] = preempting[b]
  BY <1>1, <1>2
<1>7. Created' = Created
  BY <1>1 DEF Created
<1>8. threadit' \in [Fibers -> Threads \cup {None}] /\ \A g \in Fibers : threadit'[g] = None
  BY <1>1, <1>2 DEF IInv, ThreadInv, ListInv
<1>9. ThreadTypes'
  <2>1. preempting' \in [Cores -> Seq(Threads)]
    BY <1>1, <1>2, <1>5
  <2>2. \A b \in Cores : ToSet(preempting'[b]) \subseteq Created'
    <3>1. \A b \in Cores : ToSet(preempting[b]) \subseteq Created
      BY DEF IInv, ThreadInv, ThreadTypes
    <3>2. QED BY <3>1, <1>1, <1>3, <1>5, <1>6, <1>7
  <2>3. QED BY <1>1, <1>2, <1>4, <1>7, <1>8, <2>1, <2>2 DEF IInv, ThreadInv, ThreadTypes
<1>10. CoreInv'
  <2>1. \A b \in Cores : ToSet(preempting[b]) \subseteq ToSet(preempting'[b])
    BY <1>5, <1>6
  <2>2. \A b \in Cores : pc'[b] = pc[b] \/ pc'[b] = "loop"
    BY <1>1, FiberNames DEF FiberInv, FiberTypes
  <2>3. QED BY <1>1, <2>1, <2>2 DEF IInv, ThreadInv, CoreInv
<1>11. ListInv'
  BY <1>1, <1>7, <1>8 DEF IInv, ThreadInv, ListInv
<1>12. PreemptedOnce'
  <2> SUFFICES ASSUME NEW b \in Cores
               PROVE  IsInjective(preempting'[b]) /\ \A u \in ToSet(preempting'[b]) : desiredcpu'[u] = b
    BY DEF PreemptedOnce
  <2>1. IsInjective(preempting[b]) /\ \A u \in ToSet(preempting[b]) : desiredcpu[u] = b
    BY DEF IInv, ThreadInv, PreemptedOnce
  <2>2. QED BY <1>1, <1>5, <1>6, <2>1 DEF c
<1>13. KillFindsEveryThread'
  BY <1>1, <1>4, <1>9, KillFinds
<1>14. QED BY <1>9, <1>10, <1>11, <1>12, <1>13 DEF ThreadInv

LEMMA ResumeFrontKeeps ==
    ASSUME IInv, FiberInv', NEW c \in Cores, ResumeFront(c)
    PROVE  ThreadInv'
<1>1. /\ Live /\ current = c /\ pc[c] = "loop" /\ preempting[c] # <<>>
      /\ UNCHANGED <<listVars, fiberVars, threadit, killed>> /\ pc' = [pc EXCEPT ![c] = "resume"]
      /\ resumed' = [resumed EXCEPT ![c] = Head(preempting[c])] /\ count' = [count EXCEPT ![c] = 0]
  BY StepsWhenLive, FiberNames DEF ResumeFront, Runs, Goes
<1>2. /\ preempting \in [Cores -> Seq(Threads)] /\ resumed \in [Cores -> Threads \cup {None}]
      /\ count \in [Cores -> 0 .. Rounds] /\ threadit \in [Fibers -> Threads \cup {None}]
      /\ pc \in [Fibers -> {"create", "none", "reeschedule", "loop", "resume"}]
  BY DEF IInv, ThreadInv, ThreadTypes, FiberInv, FiberTypes
<1>3. Head(preempting[c]) \in Threads /\ Head(preempting[c]) \in ToSet(preempting[c])
  <2>1. preempting[c] \in Seq(Threads) /\ 1 \in DOMAIN preempting[c] /\ Head(preempting[c]) = preempting[c][1]
    BY <1>1, <1>2
  <2>2. QED BY <2>1 DEF ToSet
<1>4. resumed' \in [Cores -> Threads \cup {None}] /\ count' \in [Cores -> 0 .. Rounds]
  BY <1>1, <1>2, <1>3, ThreadNames
<1>5. CoreInv'
  BY <1>1, <1>2, <1>3, FiberNames DEF IInv, ThreadInv, CoreInv, listVars
<1>6. \A f \in Fibers : threadit[f] = None
  BY <1>1 DEF IInv, ThreadInv, ListInv
<1>7. QED BY <1>1, <1>2, <1>4, <1>5, <1>6, ListsStay

LEMMA ThreadReturnsKeeps ==
    ASSUME IInv, FiberInv', NEW c \in Cores, ThreadReturns(c)
    PROVE  ThreadInv'
<1>1. /\ Live /\ current = c /\ pc[c] = "resume"
      /\ preempting' = [preempting EXCEPT ![c] = ToEnd(@, resumed[c])]
      /\ pc' = [pc EXCEPT ![c] = "loop"]
      /\ UNCHANGED <<desiredcpu, state, preemplist, fiberVars, resumed, count, threadit, killed>>
  BY StepsWhenLive, FiberNames DEF ThreadReturns, Requeue, Runs, Goes
<1>2. /\ preempting \in [Cores -> Seq(Threads)] /\ \A b \in Cores : IsInjective(preempting[b])
      /\ pc \in [Fibers -> {"create", "none", "reeschedule", "loop", "resume"}]
  BY DEF IInv, ThreadInv, ThreadTypes, FiberInv, FiberTypes, PreemptedOnce
<1>3. resumed[c] \in ToSet(preempting[c])
  BY <1>1 DEF IInv, ThreadInv, CoreInv
<1>4. resumed[c] \in Threads /\ ToSet(preempting[c]) \cup {resumed[c]} = ToSet(preempting[c])
  BY <1>2, <1>3 DEF ToSet
<1>5. \A b \in Cores : /\ preempting'[b] \in Seq(Threads) /\ IsInjective(preempting'[b])
                       /\ ToSet(preempting'[b]) = ToSet(preempting[b])
  <2>1. /\ preempting'[c] \in Seq(Threads) /\ IsInjective(preempting'[c])
        /\ ToSet(preempting'[c]) = ToSet(preempting[c])
    <3>1. /\ ToEnd(preempting[c], resumed[c]) \in Seq(Threads)
          /\ IsInjective(ToEnd(preempting[c], resumed[c]))
          /\ ToSet(ToEnd(preempting[c], resumed[c])) = ToSet(preempting[c]) \cup {resumed[c]}
      BY <1>2, <1>4, ToEndOf
    <3>2. preempting'[c] = ToEnd(preempting[c], resumed[c])
      BY <1>1, <1>2
    <3>3. QED BY <1>4, <3>1, <3>2
  <2>2. QED BY <1>1, <1>2, <2>1
<1>6. Created' = Created
  BY <1>1 DEF Created
<1>7. ThreadTypes'
  <2>1. preempting' \in [Cores -> Seq(Threads)]
    BY <1>1, <1>2, <1>5
  <2>2. \A b \in Cores : ToSet(preempting'[b]) \subseteq Created'
    BY <1>5, <1>6 DEF IInv, ThreadInv, ThreadTypes
  <2>3. QED BY <1>1, <1>6, <2>1, <2>2 DEF IInv, ThreadInv, ThreadTypes
<1>8. CoreInv'
  <2>1. \A b \in Cores : pc'[b] = IF b = c THEN "loop" ELSE pc[b]
    BY <1>1, <1>2, FiberNames
  <2>2. QED BY <1>1, <1>5, <2>1 DEF IInv, ThreadInv, CoreInv
<1>9. ListInv'
  BY <1>1, <1>6 DEF IInv, ThreadInv, ListInv
<1>10. PreemptedOnce'
  BY <1>1, <1>5 DEF IInv, ThreadInv, PreemptedOnce
<1>11. KillFindsEveryThread'
  BY <1>1, <1>7, KillFinds
<1>12. QED BY <1>7, <1>8, <1>9, <1>10, <1>11 DEF ThreadInv

LEMMA RunSliceKeeps ==
    ASSUME IInv, FiberInv', NEW c \in Cores, RunSlice(c)
    PROVE  ThreadInv'
<1>1. /\ Live /\ current = c /\ pc[c] = "resume" /\ GoesOn(c) /\ pc' = [pc EXCEPT ![c] = "reeschedule"]
      /\ threadit' = [threadit EXCEPT ![c] = Begin(preemplist)]
      /\ UNCHANGED <<desiredcpu, state, preemplist, preempting, fiberVars, resumed, count, killed>>
  BY StepsWhenLive, FiberNames DEF RunSlice, YieldsTo, Runs, Goes
<1>2. /\ preemplist \in Seq(Threads) /\ threadit \in [Fibers -> Threads \cup {None}]
      /\ resumed \in [Cores -> Threads \cup {None}] /\ count \in [Cores -> 0 .. Rounds]
      /\ pc \in [Fibers -> {"create", "none", "reeschedule", "loop", "resume"}]
  BY DEF IInv, ThreadInv, ThreadTypes, FiberInv, FiberTypes
<1>3. threadit' \in [Fibers -> Threads \cup {None}]
      /\ \A f \in Fibers : threadit'[f] # None => f = c /\ threadit'[f] \in ToSet(preemplist)
  BY <1>1, <1>2, BeginIn, FiberNames DEF IInv, ThreadInv, ListInv
<1>4. \A b \in Cores : pc'[b] = IF b = c THEN "reeschedule" ELSE pc[b]
  BY <1>1, <1>2, FiberNames
<1>5. CoreInv'
  BY <1>1, <1>4 DEF IInv, ThreadInv, CoreInv, GoesOn
<1>6. current' = c /\ UNCHANGED listVars
  BY <1>1 DEF fiberVars, listVars
<1>7. QED BY <1>1, <1>2, <1>3, <1>4, <1>5, <1>6, ListsStay

\* A core runs only while a fiber holds the mutex, so the thread is not created.
LEMMA CreateThreadBlocks ==
    ASSUME IInv, NEW c \in Cores, NEW t \in Threads, NEW core \in Cores, CreateThread(c, t, core)
    PROVE  outcome' = "blocked" /\ UNCHANGED <<listVars, pc, fiberVars, resumed, count, threadit, killed>>
<1>1. Live /\ current = c /\ FiberInv
  BY StepsWhenLive, FiberNames DEF IInv, CreateThread
<1>2. LockHeld
  BY <1>1, CoreIsWaitedFor
<1>3. QED BY <1>2 DEF CreateThread

LEMMA KillKeeps ==
    ASSUME IInv, FiberInv', NEW c \in Cores, Kill(c)
    PROVE  ThreadInv'
<1>1. /\ Live /\ current = c /\ pc[c] = "resume" /\ GoesOn(c) /\ pc' = [pc EXCEPT ![c] = "reeschedule"]
      /\ threadit' = [threadit EXCEPT ![c] = None] /\ preemplist' = <<>> /\ killed' = TRUE
      /\ state' = [t \in Threads |-> StateKilled(t)]
      /\ UNCHANGED <<desiredcpu, preempting, fiberVars, resumed, count>>
  BY StepsWhenLive, FiberNames, EmptyList DEF Kill, YieldsTo, Runs, Goes
<1>2. /\ preemplist \in Seq(Threads) /\ threadit \in [Fibers -> Threads \cup {None}]
      /\ pc \in [Fibers -> {"create", "none", "reeschedule", "loop", "resume"}]
      /\ state \in [Threads -> {0, 1}]
  BY DEF IInv, ThreadInv, ThreadTypes, FiberInv, FiberTypes
<1>3. \A t \in Threads : state'[t] = 0
  <2> SUFFICES ASSUME NEW t \in Threads, state[t] # 0 PROVE Contains(preemplist, t)
    BY <1>1 DEF StateKilled
  <2>1. t \in Created
    BY DEF IInv, ThreadInv, ListInv
  <2>2. QED BY <2>1 DEF IInv, ThreadInv, KillFindsEveryThread
<1>4. \A f \in Fibers : threadit'[f] = None
  BY <1>1, <1>2 DEF IInv, ThreadInv, ListInv
<1>5. Created' = Created
  BY <1>1 DEF Created
<1>6. ThreadTypes'
  <2>1. state' \in [Threads -> {0, 1}]
    BY <1>1, <1>3
  <2>2. threadit' \in [Fibers -> Threads \cup {None}]
    BY <1>1, <1>2
  <2>3. preemplist' \in Seq(Threads) /\ ToSet(preemplist') \subseteq Created' /\ IsInjective(preemplist')
    BY <1>1, EmptyList
  <2>4. QED BY <1>1, <1>5, <2>1, <2>2, <2>3 DEF IInv, ThreadInv, ThreadTypes
<1>7. CoreInv'
  <2>1. \A b \in Cores : pc'[b] = IF b = c THEN "reeschedule" ELSE pc[b]
    BY <1>1, <1>2, FiberNames
  <2>2. QED BY <1>1, <2>1 DEF IInv, ThreadInv, CoreInv, GoesOn
<1>8. ListInv'
  BY <1>3, <1>4 DEF ListInv
<1>9. PreemptedOnce'
  BY <1>1 DEF IInv, ThreadInv, PreemptedOnce
<1>10. KillFindsEveryThread'
  <2>1. \A t \in Created' : t \in Threads /\ ~Contains(preemplist', t)
    BY <1>1 DEF Created, Contains
  <2>2. QED BY <1>3, <2>1 DEF KillFindsEveryThread
<1>11. QED BY <1>6, <1>7, <1>8, <1>9, <1>10 DEF ThreadInv

-----------------------------------------------------------------------------
(* The invariant and what follows from it.                                  *)

LEMMA Inductive == IInv /\ [Next]_vars => IInv'
<1> SUFFICES ASSUME IInv, [Next]_vars PROVE IInv'
  OBVIOUS
<1>1. FiberInv'
  BY FiberStep DEF IInv
<1>2. ASSUME NEW f \in Fibers \ {Main}, ReturnFromReeschedule(f) \/ PassThread(f) \/ PreemptThread(f)
      PROVE  ThreadInv'
  BY <1>1, <1>2, ReturnFromReescheduleKeeps, PassThreadKeeps, PreemptThreadKeeps
<1>3. ASSUME NEW c \in Cores, ResumeFront(c) \/ ThreadReturns(c) \/ RunSlice(c) \/ Kill(c)
      PROVE  ThreadInv'
  BY <1>1, <1>3, ResumeFrontKeeps, ThreadReturnsKeeps, RunSliceKeeps, KillKeeps
<1>4. ASSUME NEW c \in Cores, NEW t \in Threads, NEW core \in Cores, CreateThread(c, t, core)
      PROVE  ThreadInv'
  <2>1. UNCHANGED <<listVars, pc, fiberVars, resumed, count, threadit, killed>>
    BY <1>4, CreateThreadBlocks
  <2>2. CoreInv'
    BY <2>1 DEF listVars, IInv, ThreadInv, CoreInv
  <2>3. QED
    BY <1>1, <2>1, <2>2, ListsStay DEF fiberVars, IInv, ThreadInv, ThreadTypes, ListInv
<1>5. ASSUME CreateFirstFiber PROVE ThreadInv'
  BY <1>1, <1>5, CreateFirstFiberKeeps
<1>6. ASSUME UNCHANGED vars PROVE ThreadInv'
  BY <1>6
  DEF vars, listVars, fiberVars, IInv, ThreadInv, ThreadTypes, CoreInv, ListInv, PreemptedOnce,
      KillFindsEveryThread, Created
<1>7. ThreadInv'
  BY <1>2, <1>3, <1>4, <1>5, <1>6 DEF Next, System, Guest, Reeschedule, CoreLoop
<1>8. QED BY <1>1, <1>7 DEF IInv

\* The inductive invariant holds in every state the fibers and threads reach.
THEOREM Invariance == Spec => []IInv
<1>1. Init => IInv
  BY FiberInit, ThreadInit DEF IInv
<1>2. QED BY <1>1, Inductive, PTL DEF Spec

\* Every variable keeps its type; the lists hold threads that were created.
THEOREM TypeCorrect == Spec => []TypeOK
<1>1. IInv => TypeOK
  BY DEF IInv, FiberInv, FiberTypes, ThreadInv, ThreadTypes, TypeOK
<1>2. QED BY <1>1, Invariance, PTL

\* PreemptThread and StartThread: a core has a thread once, and only its own.
THEOREM CoreHasThreadOnce == Spec => []PreemptedOnce
<1>1. IInv => PreemptedOnce
  BY DEF IInv, ThreadInv
<1>2. QED BY <1>1, Invariance, PTL

\* Kill finds every live thread, because no splice of Reeschedule loses one.
THEOREM KillIsComplete == Spec => []KillFindsEveryThread
<1>1. IInv => KillFindsEveryThread
  BY DEF IInv, ThreadInv
<1>2. QED BY <1>1, Invariance, PTL

\* The fibers wait in one chain that ends at the one that runs, whatever the cores
\* the threads desire.
THEOREM OneRuns == Spec => []OnlyTheLastRuns
<1>1. IInv => OnlyTheLastRuns
  <2> SUFFICES ASSUME FiberInv, Live, NEW f \in Fibers, pc[f] # "none"
               PROVE  WaitsFor(f, current)
    BY DEF IInv, FiberInv, OnlyTheLastRuns
  <2>1. PICK path : Path(path)
    BY DEF FiberInv
  <2>2. /\ DOMAIN path = 1 .. Len(path) /\ Len(path) \in Nat
        /\ \A g \in Fibers : pc[g] # "none" <=> \E i \in 1 .. Len(path) : path[i] = g
        /\ \A i, j \in 1 .. Len(path) : path[i] = path[j] => i = j
    BY <2>1, PathOf
  <2>3. /\ path \in Seq(Fibers) /\ path[Len(path)] = current
        /\ \A i \in 1 .. Len(path) - 1 : waits[path[i]] = path[i + 1]
    BY <2>1 DEF Path
  <2> DEFINE size == Cardinality(Fibers)
             last == Len(path)
  <2>4. last \in Nat /\ size \in Nat /\ last <= size
    <3>1. path \in Injection(1 .. last, Fibers)
      BY <2>2, <2>3 DEF Injection, IsInjective
    <3>2. Cardinality(1 .. last) = last
      <4>1. last \in Nat
        BY <2>2
      <4> HIDE DEF last
      <4>2. QED BY <4>1, FS_Interval
    <3>3. Cardinality(1 .. last) <= size
      BY <3>1, FiberNames, FS_Injection
    <3>4. size \in Nat
      BY FiberNames, FS_CardinalityType
    <3>5. QED BY <3>2, <3>3, <3>4, <2>2
  <2>5. PICK k \in 1 .. last : path[k] = f
    BY <2>2
  <2> HIDE DEF size, last
  <2> DEFINE chain == [i \in 1 .. size |-> IF i + k - 1 <= last THEN path[i + k - 1] ELSE Main]
             n == last - k + 1
  <2>6. \A i \in 1 .. last : path[i] \in Fibers
    BY <2>2, <2>3 DEF last
  <2>7. chain \in [1 .. size -> Fibers]
    <3> SUFFICES ASSUME NEW i \in 1 .. size, i + k - 1 <= last PROVE path[i + k - 1] \in Fibers
      BY FiberNames
    <3>1. i + k - 1 \in 1 .. last
      BY <2>4
    <3>2. QED BY <3>1, <2>6
  <2>8. n \in 1 .. size /\ \A i \in 1 .. n : chain[i] = path[i + k - 1]
    BY <2>4
  <2>9. chain[1] = f /\ chain[n] = current
    <3>1. 1 \in 1 .. n /\ n \in 1 .. n /\ 1 + k - 1 = k /\ n + k - 1 = last
      BY <2>4
    <3> HIDE DEF n, chain
    <3>2. QED BY <3>1, <2>3, <2>5, <2>8 DEF last
  <2>10. ASSUME NEW i \in 1 .. n - 1
         PROVE  waits[chain[i]] = chain[i + 1]
    <3>1. i \in 1 .. n /\ i + 1 \in 1 .. n /\ i + k - 1 \in 1 .. last - 1
          /\ (i + 1) + k - 1 = (i + k - 1) + 1
      BY <2>4
    <3> HIDE DEF n, chain
    <3>2. chain[i] = path[i + k - 1] /\ chain[i + 1] = path[(i + k - 1) + 1]
      BY <3>1, <2>8
    <3>3. QED BY <3>1, <3>2, <2>3 DEF last
  <2> HIDE DEF n, chain
  <2>11. DOMAIN chain = 1 .. size
    BY <2>7
  <2>12. QED BY <2>7, <2>8, <2>9, <2>10, <2>11 DEF WaitsFor, size
<1>2. QED BY <1>1, Invariance, PTL

\* A thread that the guest creates never starts: whenever a core runs, the fiber that
\* dispatched it holds the mutex of the list.
THEOREM GuestIsBlocked == Spec => GuestCreatesNoThread
<1>1. IInv /\ [Next]_vars => [Created' = Created]_vars
  <2> SUFFICES ASSUME IInv, Next PROVE desiredcpu' = desiredcpu
    BY DEF Created
  <2>1. ASSUME NEW c \in Cores, NEW t \in Threads, NEW core \in Cores, CreateThread(c, t, core)
        PROVE  desiredcpu' = desiredcpu
    BY <2>1, CreateThreadBlocks DEF listVars
  <2>2. QED
    BY <2>1
    DEF Next, System, Guest, Reeschedule, CoreLoop, CreateFirstFiber, ReturnFromReeschedule,
        PassThread, PreemptThread, ResumeFront, ThreadReturns, RunSlice, Kill, listVars
<1>2. QED BY <1>1, Invariance, PTL DEF Spec, GuestCreatesNoThread
=============================================================================
