--------------------------------- MODULE Jit ---------------------------------
(***************************************************************************)
(* The guest's threads on the cores' JITs (jit/dynarmic_jit.cpp), their    *)
(* system calls (jit/dynarmic_callbacks.cpp, kernel/svc) and the logger    *)
(* that start, loading and calls write to.                                 *)
(*                                                                         *)
(* Everything runs on one host thread, a slice of one guest thread at a    *)
(* time; which thread has the next slice is the scheduler's, and any here. *)
(* Within a slice dynarmic runs the guest in turns, each until its ticks   *)
(* are used up. What the guest's code does to its registers is arbitrary.  *)
(***************************************************************************)
EXTENDS AsyncLogger

CONSTANTS
    Threads,
    Cores,
    Words,      \* what a register holds, 0 among it
    Entry,      \* a thread's entry point, and the stack it starts with
    Stack,
    Contexts,   \* what the registers hold when guest code stops for the host
    Supported,  \* calls of syscall_table (0x6, QueryMemory, in the code)
    Calls,      \* calls the guest makes
    Turns,      \* turns of a slice (100 in the code)
    Quantum,    \* ticks of a turn (100000)
    MaxText,    \* bound: text in the logger's buffer
    Nobody

General == [x0 : Words, x29 : Words, x30 : Words]
Context == [gpr : General, sp : Words, pc : Words, floats : Words]

ASSUME JitAssumption ==
    /\ {0, Entry, Stack} \subseteq Words
    /\ Contexts \subseteq Context
    /\ Turns \in Nat \ {0} /\ Quantum \in Nat \ {0}
    /\ Nobody \notin Threads \cup Calls

VARIABLES
    coreof,     \* desiredcpu of each thread
    arm,        \* jitload.arm_reglist of each thread
    cpu,        \* the registers of each core's dyn64
    tpidr,      \* the thread whose TLS a core's jit has; Nobody before Initialize
    ticksleft,  \* of each core's callbacks
    locked,     \* the spin lock of each core's callbacks
    where,      \* what the host thread is doing
    running,    \* the thread whose slice it is
    turn,       \* turns of the slice so far
    halt,       \* the guest touched memory that is not mapped: the turn is to end
    call,       \* the system call
    logger,
    early       \* lines the start logged since one that filled the first logger's buffer

threadVars == <<coreof, arm>>
coreVars == <<cpu, tpidr, ticksleft, locked>>
sliceVars == <<where, running, turn, halt, call>>
vars == <<threadVars, coreVars, sliceVars, logger, early>>

Fresh == [gpr |-> [x0 |-> 0, x29 |-> 0, x30 |-> 0], sp |-> 0, pc |-> 0, floats |-> 0]

Init ==
    /\ coreof \in [Threads -> Cores]
    /\ arm = [t \in Threads |-> Fresh] /\ cpu = [c \in Cores |-> Fresh]
    /\ tpidr = [c \in Cores |-> Nobody]
    /\ ticksleft = [c \in Cores |-> 0] /\ locked = [c \in Cores |-> FALSE]
    /\ where = "main" /\ running = Nobody /\ turn = 0 /\ halt = FALSE /\ call = Nobody
    /\ logger = NewLogger(TRUE) /\ early = 0

Core == coreof[running]

-----------------------------------------------------------------------------
(* The start of the program and the loading of the game, as the logger sees *)
(* them. The files of the processes that run are read at the start: one     *)
(* that ended meanwhile cannot be opened.                                   *)

\* One more line at the start.
Past(lines) == IF lines + 1 = StreamThreshold THEN 0 ELSE lines + 1
LogEarly == logger' = Log(logger) /\ early' = Past(early)

\* main: the features of the host, where they are known.
LogFeatures ==
    /\ where = "main"
    /\ LogEarly \/ UNCHANGED <<logger, early>>
    /\ where' = "application"
    /\ UNCHANGED <<threadVars, coreVars, running, turn, halt, call>>

\* The two lines of Application's constructor.
LogApplication ==
    /\ where = "application"
    /\ logger' = Log(Log(logger)) /\ early' = Past(Past(early))
    /\ where' = "procs"
    /\ UNCHANGED <<threadVars, coreVars, running, turn, halt, call>>

LogFailedOpen ==
    /\ where = "procs"
    /\ LogEarly
    /\ UNCHANGED <<threadVars, coreVars, sliceVars>>

\* Assets and Assets::Initialize: with a debugger, or in a debug build, to the stream.
LogAssets ==
    /\ where = "procs"
    /\ \E onstream \in BOOLEAN : logger' = BuildAsyncLogger(Log(logger), onstream)
    /\ early' = Past(early)
    /\ where' = "loading"
    /\ UNCHANGED <<threadVars, coreVars, running, turn, halt, call>>

\* The ways the loaders log: lines with a type, the files of a partition, a module's
\* sections, the topics of its strings.
LogFiles(log) == Puts(Puts(log, <<Msg, NL>>), <<Msg, NL>>)
LogSections(log) == Puts(Puts(Puts(log, <<Msg>>), <<Msg>>), <<NL>>)
LogTopics(log, found) ==
    LET searched == Puts(log, <<Msg>>)
    IN  IF found THEN Puts(Puts(searched, <<Msg>>), <<NL>>) ELSE ClearLine(searched)
Loaded(log) ==
    {Log(log), LogFiles(log), LogSections(log), LogTopics(log, TRUE), LogTopics(log, FALSE)}

LogLoading ==
    /\ where = "loading" /\ Len(logger.fmtlists) < MaxText
    /\ logger' \in Loaded(logger)
    /\ UNCHANGED <<threadVars, coreVars, sliceVars, early>>

\* The process starts.
Start ==
    /\ where = "loading"
    /\ where' = "out"
    /\ UNCHANGED <<threadVars, coreVars, running, turn, halt, call, logger, early>>

-----------------------------------------------------------------------------
(* DynarmicJit.                                                             *)

\* GetContext: x29 and x30 serve as SP and PC. (Mistake: vectors are left out.)
GetContextNoVectors(jit) ==
    [gpr |-> jit.gpr, sp |-> jit.gpr.x29, pc |-> jit.gpr.x30, floats |-> 0]
GetContext(jit) ==
    [gpr |-> jit.gpr, sp |-> jit.gpr.x29, pc |-> jit.gpr.x30, floats |-> jit.floats]

\* SetContext: vectors that are all zero are not set.
\* (Mistake: general registers that are all zero are not either.)
SetContextNonzero(jit, reglist) ==
    [reglist EXCEPT !.floats = IF @ = 0 THEN jit.floats ELSE @,
                    !.gpr = IF @ = Fresh.gpr THEN jit.gpr ELSE @]
SetContext(jit, reglist) ==
    [reglist EXCEPT !.floats = IF @ = 0 THEN jit.floats ELSE @]

\* Run: without a stack the thread begins at its entry point.
StartContext(jit) == IF jit.sp = 0 THEN [jit EXCEPT !.sp = Stack, !.pc = Entry] ELSE jit

\* ResumeThread's slice: Initialize for a core's first thread, then Run.
BeginSlice(t) ==
    LET c == coreof[t]
        reset == IF tpidr[c] = Nobody THEN Fresh ELSE cpu[c]
    IN  /\ where = "out"
        /\ tpidr' = [tpidr EXCEPT ![c] = IF @ = Nobody THEN t ELSE @]
        /\ cpu' = [cpu EXCEPT ![c] = StartContext(SetContext(reset, arm[t]))]
        /\ where' = "turn" /\ running' = t /\ turn' = 0
        /\ UNCHANGED <<threadVars, ticksleft, locked, halt, call, logger, early>>

BeginTurn ==
    /\ where = "turn" /\ turn < Turns /\ ~halt
    /\ ticksleft' = [ticksleft EXCEPT ![Core] = IF @ = 0 THEN @ + Quantum ELSE @]
    /\ where' = "guest" /\ turn' = turn + 1
    /\ UNCHANGED <<threadVars, cpu, tpidr, locked, running, halt, call, logger, early>>

\* PrintArm: all registers on a line.
PrintArm(log) == Puts(Puts(log, <<Msg>>), <<NL>>)

\* GetContext, after the last turn or one that an access to memory ended.
\* (Mistake: the registers are left in the jit.)
LeaveInJit(t, c) == arm[t]
SaveFrom(t, c) == GetContext(cpu[c])

EndSlice ==
    /\ where = "turn" /\ (turn = Turns \/ halt)
    /\ arm' = [arm EXCEPT ![running] = SaveFrom(running, Core)]
    /\ logger' = IF halt THEN PrintArm(logger) ELSE logger
    /\ where' = "out" /\ running' = Nobody /\ turn' = 0 /\ halt' = FALSE
    /\ UNCHANGED <<coreof, coreVars, call, early>>

-----------------------------------------------------------------------------
(* The guest, in dynarmic's Run, and DynarmicCallbacks.                     *)

\* AddTicks. (Mistakes: a block longer than what is left takes off too much, or
\* nothing.)
AddTicksAll(left, ticks) == left - ticks
AddTicksKept(left, ticks) == IF ticks > left THEN left ELSE left - ticks
AddTicks(left, ticks) == IF ticks > left THEN 0 ELSE left - ticks

\* Guest code up to the end of a block: a block may take more ticks than are left.
GuestRuns(jit, ticks) ==
    /\ where = "guest" /\ ticksleft[Core] > 0
    /\ cpu' = [cpu EXCEPT ![Core] = jit]
    /\ ticksleft' = [ticksleft EXCEPT ![Core] = AddTicks(@, ticks)]
    /\ UNCHANGED <<threadVars, tpidr, locked, running, turn, logger, early>>

\* ValidateMemoryAccess may fail; the guest runs on to the end of its block.
GuestWorks(jit, ticks, aborts) ==
    /\ GuestRuns(jit, ticks)
    /\ ~halt /\ (aborts => Len(logger.fmtlists) < MaxText)
    /\ halt' = aborts
    /\ UNCHANGED <<where, call>>

GuestCalls(jit, ticks, n) ==
    /\ GuestRuns(jit, ticks)
    /\ ~halt
    /\ where' = "call" /\ call' = n
    /\ UNCHANGED halt

\* Run returns.
EndTurn ==
    /\ where = "guest" /\ (ticksleft[Core] = 0 \/ halt)
    /\ where' = "turn"
    /\ UNCHANGED <<threadVars, coreVars, running, turn, halt, call, logger, early>>

\* CallSVC: the lock, without which nobody passes, and the line.
EnterCall ==
    /\ where = "call"
    /\ IF locked[Core] THEN where' = "spin" /\ UNCHANGED <<locked, logger>>
       ELSE /\ where' = "dispatch"
            /\ locked' = [locked EXCEPT ![Core] = TRUE]
            /\ logger' = Log(logger)
    /\ UNCHANGED <<threadVars, cpu, tpidr, ticksleft, running, turn, halt, call, early>>

\* QueryMemory: the result is in X0.
QueryMemory(reglist) == [reglist EXCEPT !.gpr.x0 = 0]

\* Syscall64 knows the call.
ServeCall ==
    /\ where = "dispatch" /\ call \in Supported
    /\ cpu' = [cpu EXCEPT ![Core] = SetContext(@, QueryMemory(GetContext(@)))]
    /\ locked' = [locked EXCEPT ![Core] = FALSE]
    /\ logger' = FlushBuffers(logger)
    /\ where' = "guest" /\ call' = Nobody
    /\ UNCHANGED <<threadVars, tpidr, ticksleft, running, turn, halt, early>>

\* It does not: the loop locks the lock it holds, and spins.
RejectCall ==
    /\ where = "dispatch" /\ call \notin Supported
    /\ logger' = FlushBuffers(logger)
    /\ where' = "spin"
    /\ UNCHANGED <<threadVars, coreVars, running, turn, halt, call, early>>

Logging == LogFeatures \/ LogApplication \/ LogFailedOpen \/ LogAssets \/ LogLoading \/ Start
Slices == (\E t \in Threads : BeginSlice(t)) \/ BeginTurn \/ EndTurn \/ EndSlice
Guest == \E jit \in Contexts, ticks \in 1 .. Quantum + 1 :
    \/ \E aborts \in BOOLEAN : GuestWorks(jit, ticks, aborts)
    \/ \E n \in Calls : GuestCalls(jit, ticks, n)
CallSVC == EnterCall \/ ServeCall \/ RejectCall

Next == Logging \/ Slices \/ Guest \/ CallSVC

\* The host thread goes on; guest code that runs uses ticks up.
Spec == Init /\ [][Next]_vars /\ WF_vars(Next)
-----------------------------------------------------------------------------
(* Properties.                                                              *)

Outside == {"main", "application", "procs", "loading", "out"}
TypeOK ==
    /\ coreof \in [Threads -> Cores]
    /\ arm \in [Threads -> Context] /\ cpu \in [Cores -> Context]
    /\ tpidr \in [Cores -> Threads \cup {Nobody}]
    /\ ticksleft \in [Cores -> 0 .. Quantum] /\ locked \in [Cores -> BOOLEAN]
    /\ where \in Outside \cup {"turn", "guest", "call", "dispatch", "spin"}
    /\ running \in Threads \cup {Nobody}
    /\ running = Nobody <=> where \in Outside
    /\ turn \in 0 .. Turns /\ halt \in BOOLEAN
    /\ call \in Calls \cup {Nobody}
    /\ logger \in Loggers /\ early \in 0 .. StreamThreshold - 1

\* A thread's general registers are its own, whichever core it shares and whoever ran
\* there since: only its own guest code and its own calls change them
\* (GetContext and SetContext around each slice and each call).
GeneralOf(t) == IF running = t THEN cpu[coreof[t]].gpr ELSE arm[t].gpr
Registers == INSTANCE OwnRegisters WITH
    GuestThreads <- Threads, Registers <- General, Nobody <- Nobody,
    regs <- [t \in Threads |-> GeneralOf(t)], active <- running
ImplementsOwnRegisters == Registers!Spec

\* A thread that is alone on its core also goes on with the vectors it stopped with,
\* zero or not, and with its own TLS. (Threads that share a core do not:
\* zero vectors are not set, and Initialize runs once for a core.)
Alone(t) == \A u \in Threads : coreof[u] = coreof[t] => u = t
AloneKeepsState ==
    where = "turn" /\ turn = 0 /\ Alone(running) =>
        /\ cpu[Core].floats = arm[running].floats
        /\ tpidr[Core] = running

\* The count of lines is that of the buffer, so that a flush leaves nothing, however
\* lines were begun, finished, taken back and flushed. Lines are lost only
\* when the first logger is replaced between two flushes, or written over in a file.
LinesReachBacking ==
    /\ logger.count = Lines(logger.fmtlists)
    /\ logger.lost => early # 0 \/ ~logger.stream

\* Each slice ends: its turns are counted, and each uses up its ticks. Only a call
\* that the table lacks holds the thread for ever, and then all is logged.
Rejected == where = "spin" /\ call \notin Supported /\ logger.fmtlists = <<>>
SliceEnds == \A t \in Threads : running = t ~> running # t \/ Rejected
=============================================================================
