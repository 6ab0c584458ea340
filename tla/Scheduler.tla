------------------------------ MODULE Scheduler ------------------------------
(***************************************************************************)
(* KScheduler on fibers (kernel/threads/kscheduler.cpp), which is how the  *)
(* program runs: ismultithread is false and never set. With it             *)
(* KProcess::Start and Kill (kernel/types/kprocess.cpp), and               *)
(* KThread::ResumeThread (kernel/types/kthread.cpp).                       *)
(*                                                                         *)
(* A fiber runs until it joins another or ends. There is the fiber of the  *)
(* caller of Start, the one that it creates to reschedule, and one for     *)
(* each core, created with the first thread for the core. The guest is the *)
(* environment: a slice of it may create a thread or end the process.      *)
(***************************************************************************)
EXTENDS Integers, Sequences, SequencesExt, FiniteSets

CONSTANTS
    Threads,
    Cores,    \* coreslist (4 in the code)
    NoCore,   \* a main core of the npdm file that is none of them
    Rounds,   \* slices of a thread per ResumeThread (100 in the code)
    Main,     \* the fiber that calls Start, and firstfiber
    First,
    None

ASSUME SchedulerAssumption ==
    /\ Rounds \in Nat \ {0} /\ IsFiniteSet(Threads) /\ IsFiniteSet(Cores)
    /\ NoCore \notin Cores /\ None \notin Threads \cup Cores \cup {Main, First}
    /\ Main # First /\ {Main, First} \cap Cores = {}

Fibers == {Main, First} \cup Cores

VARIABLES
    desiredcpu,  \* of each thread; None before it is created
    state,       \* KThread::state: 0 once the thread is killed
    preemplist,  \* KScheduler::preemplist
    preempting,  \* CoreContext::preempting
    pc,          \* where each fiber is; "none" before it is created
    waits,       \* the fiber it joins
    ready,       \* the queue of Boost.Fiber
    current,     \* the fiber that runs, None if all wait
    resumed,     \* the thread a core's fiber is resuming and its slices so far
    count,
    threadit,    \* the iterator of a fiber that is in Reeschedule; None is end()
    killed,      \* KProcess::Kill has been called
    outcome      \* "ok", "undefined", "exception" (a fiber joined itself), "blocked"

listVars == <<desiredcpu, state, preemplist, preempting>>
fiberVars == <<waits, ready, current>>
vars == <<listVars, pc, fiberVars, resumed, count, threadit, killed, outcome>>

\* Start finds the threads that were created and initialized before, in any order.
Init ==
    /\ desiredcpu \in [Threads -> Cores \cup {NoCore, None}]
    /\ state = [t \in Threads |-> IF desiredcpu[t] = None THEN 0 ELSE 1]
    /\ \E created \in SUBSET Threads :
        /\ created = {t \in Threads : desiredcpu[t] # None}
        /\ created # {}
        /\ preemplist \in SetToSeqs(created)
    /\ preempting = [c \in Cores |-> <<>>]
    /\ pc = [f \in Fibers |-> IF f = Main THEN "create" ELSE "none"]
    /\ waits = [f \in Fibers |-> None] /\ ready = <<>> /\ current = Main
    /\ resumed = [c \in Cores |-> None] /\ count = [c \in Cores |-> 0]
    /\ threadit = [f \in Fibers |-> None]
    /\ killed = FALSE /\ outcome = "ok"

Runs(f, at) == current = f /\ pc[f] = at /\ outcome = "ok"
Goes(f, at) == pc' = [pc EXCEPT ![f] = at]

\* Iterators of preemplist. (Mistake: the first thread is passed over.)
BeginSecond(list) == IF Len(list) < 2 THEN None ELSE list[2]
Begin(list) == IF list = <<>> THEN None ELSE Head(list)
After(list, t) ==
    IF Last(list) = t THEN None
    ELSE list[1 + CHOOSE i \in DOMAIN list : list[i] = t]
ToEnd(list, t) == Append(RemoveFirst(list, t), t)

-----------------------------------------------------------------------------
(* Boost.Fiber.                                                             *)

\* The fiber is in the queue and another one runs, or none.
Dispatch(queue) ==
    IF queue = <<>> THEN current' = None /\ ready' = queue
    ELSE current' = Head(queue) /\ ready' = Tail(queue)

\* f joins g, which is new to the queue or was created before. Joining oneself throws.
\* (Mistake: f goes on without waiting.)
JoinDetached(f, g) ==
    /\ Dispatch(IF pc[g] = "none" THEN ready \o <<g, f>> ELSE Append(ready, f))
    /\ UNCHANGED <<waits, outcome>>
Join(f, g) ==
    IF f = g THEN outcome' = "exception" /\ UNCHANGED fiberVars
    ELSE /\ waits' = [waits EXCEPT ![f] = g]
         /\ Dispatch(IF pc[g] = "none" THEN Append(ready, g) ELSE ready)
         /\ UNCHANGED outcome

\* f ends, and whoever joined it is ready.
End(f) ==
    LET joined == {g \in Fibers : waits[g] = f}
    IN  /\ waits' = [g \in Fibers |-> IF g \in joined THEN None ELSE waits[g]]
        /\ Dispatch(ready \o SetToSeq(joined))

-----------------------------------------------------------------------------
(* KProcess::Start on the caller's fiber.                                   *)

\* A new fiber is joinable, so running stays true.
CreateFirstFiber ==
    /\ Runs(Main, "create")
    /\ pc' = [pc EXCEPT ![Main] = "create", ![First] = "reeschedule"]
    /\ threadit' = [threadit EXCEPT ![First] = Begin(preemplist)]
    /\ Join(Main, First)
    /\ UNCHANGED <<listVars, resumed, count, killed>>

-----------------------------------------------------------------------------
(* Reeschedule and PreemptThread: one thread of the list at a time.         *)

\* Yield returns into ResumeThread; the first fiber ends.
ReturnFromReeschedule(f) ==
    /\ Runs(f, "reeschedule") /\ threadit[f] = None
    /\ IF f = First
       THEN Goes(f, "none") /\ End(f) /\ UNCHANGED count
       ELSE Goes(f, "resume") /\ count' = [count EXCEPT ![f] = @ + 1] /\ UNCHANGED fiberVars
    /\ UNCHANGED <<listVars, resumed, threadit, killed, outcome>>

\* (Mistake: the core's list is not looked through.)
NotPreemptedUnseen(t) == desiredcpu[t] \in Cores
NotPreempted(t) ==
    desiredcpu[t] \in Cores /\ ~Contains(preempting[desiredcpu[t]], t)

\* A thread of state 0 leaves the list; after the last one the code reads on through
\* a reference to it. A thread its core has already, or that has no core, is passed.
PassThread(f) ==
    LET t == threadit[f]
        dead == state[t] = 0
    IN  /\ Runs(f, "reeschedule") /\ t # None /\ (dead \/ ~NotPreempted(t))
        /\ threadit' = [threadit EXCEPT ![f] = After(preemplist, t)]
        /\ preemplist' = IF dead THEN RemoveFirst(preemplist, t) ELSE preemplist
        /\ outcome' = IF dead /\ After(preemplist, t) = None THEN "undefined" ELSE "ok"
        /\ UNCHANGED <<desiredcpu, state, preempting, pc, fiberVars, resumed, count, killed>>

\* The thread goes to the end of the list and to the front of its core's, whose
\* fiber is created if it is not there, and joined. The iterator goes with the thread:
\* when the join returns it is at the end of the list.
PreemptThread(f) ==
    LET t == threadit[f]
        c == desiredcpu[t]
    IN  /\ Runs(f, "reeschedule") /\ t # None /\ state[t] # 0 /\ NotPreempted(t)
        /\ preemplist' = ToEnd(preemplist, t)
        /\ preempting' = [preempting EXCEPT ![c] = <<t>> \o @]
        /\ threadit' = [threadit EXCEPT ![f] = None]
        /\ pc' = IF pc[c] = "none" THEN [pc EXCEPT ![c] = "loop"] ELSE pc
        /\ Join(f, c)
        /\ UNCHANGED <<desiredcpu, state, resumed, count, killed>>

-----------------------------------------------------------------------------
(* StartThread and ResumeThread on the fiber of a core.                     *)

\* The inner loop of StartThread: the front thread; the list is never emptied.
ResumeFront(c) ==
    /\ Runs(c, "loop") /\ preempting[c] # <<>>
    /\ resumed' = [resumed EXCEPT ![c] = Head(preempting[c])]
    /\ count' = [count EXCEPT ![c] = 0]
    /\ Goes(c, "resume")
    /\ UNCHANGED <<listVars, fiberVars, threadit, killed, outcome>>

\* The loop of ResumeThread. (Mistake: one slice too many.)
GoesOnTooLong(c) == state[resumed[c]] # 0 /\ count[c] <= Rounds
GoesOn(c) == state[resumed[c]] # 0 /\ count[c] < Rounds

\* ResumeThread returns and its thread goes to the end of the core's list.
\* (Mistake: it is taken off.)
RequeueDrops(list, t) == RemoveFirst(list, t)
Requeue(list, t) == ToEnd(list, t)

ThreadReturns(c) ==
    /\ Runs(c, "resume") /\ ~GoesOn(c)
    /\ preempting' = [preempting EXCEPT ![c] = Requeue(@, resumed[c])]
    /\ Goes(c, "loop")
    /\ UNCHANGED <<desiredcpu, state, preemplist, fiberVars, resumed, count,
                   threadit, killed, outcome>>

\* jit->Run and Yield, the list of threads being what the guest left.
YieldsTo(c, list) ==
    /\ Goes(c, "reeschedule")
    /\ threadit' = [threadit EXCEPT ![c] = Begin(list)]
    /\ UNCHANGED <<preempting, fiberVars, resumed, count, outcome>>

RunSlice(c) ==
    /\ Runs(c, "resume") /\ GoesOn(c)
    /\ YieldsTo(c, preemplist)
    /\ UNCHANGED <<desiredcpu, state, preemplist, killed>>

\* PreemptThread holds the scheduler's mutex, shared, while it joins.
\* (Mistake: it is released before that.)
LockReleased == FALSE
LockHeld == \E f \in Fibers : waits[f] \in Cores

\* The guest creates a thread: Kernel::CreateThread, which lists it (Emplace), and
\* KThread::Initialize, which gives it its core and state 1. Emplace locks the mutex
\* for itself alone: with a fiber in PreemptThread, the thread all fibers run on
\* waits for itself.
CreateThread(c, t, core) ==
    /\ Runs(c, "resume") /\ GoesOn(c) /\ ~killed /\ desiredcpu[t] = None
    /\ IF LockHeld
       THEN outcome' = "blocked"
            /\ UNCHANGED <<listVars, pc, fiberVars, resumed, count, threadit>>
       ELSE /\ desiredcpu' = [desiredcpu EXCEPT ![t] = core]
            /\ state' = [state EXCEPT ![t] = 1]
            /\ preemplist' = Append(preemplist, t)
            /\ YieldsTo(c, preemplist')
    /\ UNCHANGED killed

\* KillThread: only a thread on the list is found. (Mistake: the thread is
\* erased and keeps its state.)
StateKept(t) == state[t]
StateKilled(t) == IF Contains(preemplist, t) THEN 0 ELSE state[t]

\* The guest ends the process: Kill, for every thread.
Kill(c) ==
    /\ Runs(c, "resume") /\ GoesOn(c) /\ ~killed
    /\ killed' = TRUE
    /\ state' = [t \in Threads |-> StateKilled(t)]
    /\ preemplist' = <<>>
    /\ YieldsTo(c, preemplist')
    /\ UNCHANGED desiredcpu

Reeschedule == \E f \in Fibers \ {Main} :
    ReturnFromReeschedule(f) \/ PassThread(f) \/ PreemptThread(f)
CoreLoop == \E c \in Cores : ResumeFront(c) \/ ThreadReturns(c) \/ RunSlice(c)
Guest == \E c \in Cores :
    \/ \E t \in Threads, core \in Cores : CreateThread(c, t, core)
    \/ Kill(c)

System == CreateFirstFiber \/ Reeschedule \/ CoreLoop
Next == System \/ Guest

\* A fiber that runs goes on; the guest need not create a thread or end.
Spec == Init /\ [][Next]_vars /\ WF_vars(System)
-----------------------------------------------------------------------------
(* Properties.                                                              *)

Live == outcome = "ok" /\ current # None
Created == {t \in Threads : desiredcpu[t] # None}

TypeOK ==
    /\ desiredcpu \in [Threads -> Cores \cup {NoCore, None}]
    /\ state \in [Threads -> {0, 1}]
    /\ ToSet(preemplist) \subseteq Created /\ IsInjective(preemplist)
    /\ \A c \in Cores : ToSet(preempting[c]) \subseteq Created
    /\ pc \in [Fibers -> {"create", "none", "reeschedule", "loop", "resume"}]
    /\ waits \in [Fibers -> Fibers \cup {None}]
    /\ ready \in Seq(Fibers) /\ current \in Fibers \cup {None}
    /\ \A c \in Cores : resumed[c] \in Threads \cup {None} /\ count[c] \in 0 .. Rounds
    /\ threadit \in [Fibers -> Threads \cup {None}]
    /\ outcome \in {"ok", "undefined", "exception", "blocked"}

\* A core has a thread at most once, and only the core the thread desires, although
\* every fiber that yields dispatches from the one list and a core never gives a
\* thread back (PreemptThread, StartThread).
PreemptedOnce ==
    \A c \in Cores :
        /\ IsInjective(preempting[c])
        /\ \A t \in ToSet(preempting[c]) : desiredcpu[t] = c

\* Every live thread is on the scheduler's list, whatever was spliced, so that Kill
\* finds it: after Kill none is left to run, on any core.
KillFindsEveryThread ==
    /\ \A t \in Created : state[t] # 0 <=> Contains(preemplist, t)
    /\ killed => \A t \in Threads : state[t] = 0

\* The fiber that runs is the only one that can: all the others wait for it, one
\* for the next. So a core runs only while no core it dispatched to does.
WaitsFor(f, g) ==
    \E chain \in [1 .. Cardinality(Fibers) -> Fibers] :
        \E n \in DOMAIN chain :
            chain[1] = f /\ chain[n] = g /\ \A i \in 1 .. n - 1 : waits[chain[i]] = chain[i + 1]
OnlyTheLastRuns ==
    Live => /\ ready = <<>> /\ waits[current] = None
            /\ \A f \in Fibers : pc[f] # "none" => WaitsFor(f, current)

\* A live thread with a core reaches it, unless the fibers all wait or one failed.
ThreadReachesCore ==
    \A t \in Threads :
        (desiredcpu[t] \in Cores /\ state[t] # 0)
            ~> (\E c \in Cores : Contains(preempting[c], t)) \/ state[t] = 0 \/ ~Live

\* No thread of the guest creates another one: it would wait for the mutex that the
\* fiber that dispatched it holds until it ends.
GuestCreatesNoThread == [][Created' = Created]_vars

\* The main thread, alone on a core, runs slices for ever unless the process ends or
\* it creates a thread: ResumeThread's rounds and the loop of StartThread come back
\* to it.
MainThreadRuns ==
    \A t \in Threads :
        [](Created = {t} /\ desiredcpu[t] \in Cores /\ ~killed /\ outcome = "ok")
            => []<><<\E c \in Cores : RunSlice(c)>>_vars

\* KProcess::Start says that it does not return "until the process has finished":
\* after Kill, control comes back to it.
StartResumes == killed ~> current = Main
=============================================================================
