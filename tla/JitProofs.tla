------------------------------ MODULE JitProofs ------------------------------
(***************************************************************************)
(* Proofs about Jit for any threads and cores, any contents of registers,  *)
(* any number of turns and ticks.                                          *)
(***************************************************************************)
EXTENDS Jit, LoggerProofs

\* What an alone thread left is what its core has, if the core has started.
Kept(t) == arm[t].floats = IF tpidr[coreof[t]] = Nobody THEN 0 ELSE cpu[coreof[t]].floats
CoreInv ==
    /\ running # Nobody => tpidr[Core] # Nobody
    /\ where \in {"guest", "call", "dispatch"} => turn > 0
    /\ \A t \in Threads : Alone(t) => /\ tpidr[coreof[t]] \in {Nobody, t}
                                      /\ running # t => Kept(t)
    /\ AloneKeepsState

\* Until the first logger is replaced, its count is that of the lines past a flush.
LoggerInv ==
    /\ Counted(logger)
    /\ logger.stream => ~logger.wrote
    /\ logger.lost => early # 0 \/ ~logger.stream
    /\ where = "dispatch" => Whole(logger.fmtlists)
    /\ where \in {"main", "application", "procs"} =>
         /\ Whole(logger.fmtlists) /\ logger.count = early
         /\ logger.stream /\ ~logger.lost

IInv == TypeOK /\ CoreInv /\ LoggerInv

-----------------------------------------------------------------------------
(* Saving and restoring registers.                                         *)

\* All registers of a thread before its first slice are words.
LEMMA FreshType == Fresh \in Context
BY JitAssumption DEF Fresh, Context, General

\* GetContext returns register contents, with the general registers of the jit.
LEMMA GetContextType ==
    ASSUME NEW jit \in Context
    PROVE  GetContext(jit) \in Context /\ GetContext(jit).gpr = jit.gpr
BY DEF GetContext, Context, General

\* SetContext leaves the general registers as they were saved.
LEMMA SetContextType ==
    ASSUME NEW jit \in Context, NEW reglist \in Context
    PROVE  SetContext(jit, reglist) \in Context /\ SetContext(jit, reglist).gpr = reglist.gpr
<1>1. SetContext(jit, reglist) = [gpr |-> reglist.gpr, sp |-> reglist.sp, pc |-> reglist.pc,
            floats |-> IF reglist.floats = 0 THEN jit.floats ELSE reglist.floats]
  BY DEF SetContext, Context
<1>2. QED BY <1>1 DEF Context

\* Beginning at the entry point changes no general register.
LEMMA StartContextType ==
    ASSUME NEW jit \in Context
    PROVE  StartContext(jit) \in Context /\ StartContext(jit).gpr = jit.gpr
BY JitAssumption DEF StartContext, Context

\* QueryMemory changes no more than X0.
LEMMA QueryMemoryType ==
    ASSUME NEW reglist \in Context
    PROVE  QueryMemory(reglist) \in Context
BY JitAssumption DEF QueryMemory, Context, General

-----------------------------------------------------------------------------
(* The logger.                                                             *)

\* The lines of the start are those the first logger counts.
LEMMA LogEarlyCounts ==
    ASSUME NEW log \in Loggers, Counted(log), Whole(log.fmtlists), log.stream, ~log.lost, ~log.wrote,
           NEW lines \in 0 .. StreamThreshold - 1, log.count = lines
    PROVE  /\ Log(log) \in Loggers /\ Counted(Log(log)) /\ Whole(Log(log).fmtlists)
           /\ Log(log).stream /\ ~Log(log).lost /\ ~Log(log).wrote
           /\ Past(lines) \in 0 .. StreamThreshold - 1 /\ Log(log).count = Past(lines)
<1>1. StreamThreshold \in Nat \ {0} /\ Threshold(log) = StreamThreshold
  BY LoggerAssumption DEF Threshold
<1>2. log.count + 1 = Threshold(log) <=> lines + 1 = StreamThreshold
  BY <1>1
<1>3. Past(lines) \in 0 .. StreamThreshold - 1
  BY <1>1 DEF Past
<1>4. Log(log).count = Past(lines)
  BY <1>2, LogCounts DEF Past
<1>5. QED BY <1>3, <1>4, LogCounts

\* Whatever loading logs is counted, and lost only in a file.
LEMMA LoadingCounts ==
    ASSUME NEW log \in Loggers, Counted(log), log.stream => ~log.wrote,
           NEW logged \in Loaded(log)
    PROVE  /\ logged \in Loggers /\ Counted(logged) /\ logged.stream = log.stream
           /\ logged.stream => ~logged.wrote
           /\ logged.stream => logged.lost = log.lost
<1> DEFINE Fine(l) == /\ l \in Loggers /\ Counted(l) /\ l.stream = log.stream
                      /\ l.wrote = log.wrote /\ l.lost = log.lost
           texts == {<<Msg>>, <<NL>>, <<Msg, NL>>}
<1>1. Fine(log)
  OBVIOUS
<1>2. ASSUME NEW l, Fine(l), NEW text \in texts PROVE Fine(Puts(l, text))
  BY <1>2, PutsCounts
<1>3. ASSUME NEW l, Fine(l) PROVE Fine(ClearLine(l))
  BY <1>3, ClearLineCounts
<1>4. <<Msg>> \in texts /\ <<NL>> \in texts /\ <<Msg, NL>> \in texts
  OBVIOUS
<1> HIDE DEF Fine, texts
<1>5. Fine(LogFiles(log)) /\ Fine(LogSections(log))
  BY <1>1, <1>2, <1>4 DEF LogFiles, LogSections
<1>6. Fine(LogTopics(log, TRUE)) /\ Fine(LogTopics(log, FALSE))
  BY <1>1, <1>2, <1>3, <1>4 DEF LogTopics
<1>7. CASE logged = Log(log)
  BY <1>7, LogCounts DEF Loggers
<1>8. CASE logged # Log(log)
  <2>1. Fine(logged)
    BY <1>5, <1>6, <1>8 DEF Loaded
  <2>2. QED BY <2>1 DEF Fine
<1>9. QED BY <1>7, <1>8

\* So is the line of registers.
LEMMA PrintArmCounts ==
    ASSUME NEW log \in Loggers, Counted(log)
    PROVE  LET logged == PrintArm(log) IN
           /\ logged \in Loggers /\ Counted(logged)
           /\ logged.stream = log.stream /\ logged.wrote = log.wrote /\ logged.lost = log.lost
<1>1. <<Msg>> \in {<<Msg>>, <<NL>>, <<Msg, NL>>} /\ <<NL>> \in {<<Msg>>, <<NL>>, <<Msg, NL>>}
  OBVIOUS
<1>2. QED BY <1>1, PutsCounts DEF PrintArm

-----------------------------------------------------------------------------
(* The invariant.                                                          *)

LEMMA InitInv == Init => IInv
<1> SUFFICES ASSUME Init PROVE IInv
  OBVIOUS
<1>1. logger = [fmtlists |-> <<>>, count |-> 0, stream |-> TRUE, wrote |-> FALSE, lost |-> FALSE]
  BY DEF Init, NewLogger
<1>2. logger \in Loggers /\ LoggerInv
  <2>1. logger.fmtlists = <<>> /\ logger.count = 0 /\ logger.stream = TRUE
        /\ logger.wrote = FALSE /\ logger.lost = FALSE
    BY <1>1
  <2>2. logger \in Loggers
    BY <1>1, EmptyText DEF Loggers, Texts
  <2>3. LoggerInv
    BY <2>1, EmptyText DEF Init, LoggerInv, Counted
  <2>4. QED BY <2>2, <2>3
<1>3. TypeOK
  <2>1. coreof \in [Threads -> Cores] /\ arm \in [Threads -> Context] /\ cpu \in [Cores -> Context]
    BY FreshType DEF Init
  <2>2. tpidr \in [Cores -> Threads \cup {Nobody}] /\ locked \in [Cores -> BOOLEAN]
    BY DEF Init
  <2>3. ticksleft \in [Cores -> 0 .. Quantum] /\ turn \in 0 .. Turns /\ early \in 0 .. StreamThreshold - 1
    BY JitAssumption, LoggerAssumption DEF Init
  <2>4. QED BY <1>2, <2>1, <2>2, <2>3 DEF Init, TypeOK, Outside
<1>4. CoreInv
  BY DEF Init, CoreInv, Kept, AloneKeepsState, Fresh
<1>5. QED BY <1>2, <1>3, <1>4 DEF IInv

LEMMA StepType == IInv /\ [Next]_vars => TypeOK'
<1> SUFFICES ASSUME IInv, [Next]_vars PROVE TypeOK'
  OBVIOUS
<1> USE LoggerAssumption DEF IInv, TypeOK
<1>1. CASE Logging
  <2>1. CASE LogFeatures
    BY <2>1, LogEarlyCounts DEF LogFeatures, LogEarly, LoggerInv, threadVars, coreVars, Outside
  <2>2. CASE LogApplication
    <3>1. logger' \in Loggers /\ early' \in 0 .. StreamThreshold - 1
      BY <2>2, LogEarlyCounts DEF LogApplication, LoggerInv
    <3>2. QED BY <2>2, <3>1 DEF LogApplication, threadVars, coreVars, Outside
  <2>3. CASE LogFailedOpen
    BY <2>3, LogEarlyCounts DEF LogFailedOpen, LogEarly, LoggerInv, threadVars, coreVars, sliceVars
  <2>4. CASE LogAssets
    <3>1. logger' \in Loggers /\ early' \in 0 .. StreamThreshold - 1
      BY <2>4, LogEarlyCounts, BuildCounts DEF LogAssets, LoggerInv
    <3>2. QED BY <2>4, <3>1 DEF LogAssets, threadVars, coreVars, Outside
  <2>5. CASE LogLoading
    <3>1. logger' \in Loggers
      BY <2>5, LoadingCounts DEF LogLoading, LoggerInv
    <3>2. QED BY <2>5, <3>1 DEF LogLoading, threadVars, coreVars, sliceVars
  <2>6. CASE Start
    BY <2>6 DEF Start, threadVars, coreVars, Outside
  <2>7. QED BY <1>1, <2>1, <2>2, <2>3, <2>4, <2>5, <2>6 DEF Logging
<1>2. ASSUME NEW t \in Threads, BeginSlice(t) PROVE TypeOK'
  <2> DEFINE c == coreof[t]
             reset == IF tpidr[c] = Nobody THEN Fresh ELSE cpu[c]
             jit == StartContext(SetContext(reset, arm[t]))
  <2>1. reset \in Context
    BY FreshType
  <2>2. jit \in Context
    BY <2>1, SetContextType, StartContextType
  <2>3. cpu' = [cpu EXCEPT ![c] = jit]
    BY <1>2 DEF BeginSlice
  <2>4. cpu' \in [Cores -> Context]
    <3> HIDE DEF jit
    <3>1. QED BY <2>2, <2>3
  <2>5. tpidr' \in [Cores -> Threads \cup {Nobody}] /\ turn' \in 0 .. Turns
    BY <1>2, JitAssumption DEF BeginSlice
  <2>6. QED BY <1>2, <2>4, <2>5, JitAssumption DEF BeginSlice, threadVars, Outside
<1>3. CASE BeginTurn
  <2>1. running \in Threads /\ Core \in Cores
    BY <1>3 DEF BeginTurn, Outside, Core
  <2>2. ticksleft' \in [Cores -> 0 .. Quantum] /\ turn' \in 0 .. Turns
    BY <1>3, <2>1, JitAssumption DEF BeginTurn
  <2>3. QED BY <1>3, <2>2 DEF BeginTurn, threadVars, Outside
<1>4. CASE EndTurn
  BY <1>4 DEF EndTurn, threadVars, coreVars, Outside
<1>5. CASE EndSlice
  <2>1. running \in Threads
    BY <1>5 DEF EndSlice, Outside
  <2>2. SaveFrom(running, Core) \in Context
    BY <2>1, GetContextType DEF SaveFrom, Core
  <2>3. logger' \in Loggers
    BY <1>5, PrintArmCounts DEF EndSlice, LoggerInv
  <2>4. turn' \in 0 .. Turns
    BY <1>5, JitAssumption DEF EndSlice
  <2>5. QED BY <1>5, <2>2, <2>3, <2>4 DEF EndSlice, coreVars, Outside
<1>6. CASE Guest
  <2>1. PICK jit \in Contexts, ticks \in 1 .. Quantum + 1 : GuestRuns(jit, ticks)
                /\ where' \in {"guest", "call"} /\ halt' \in BOOLEAN
                /\ call' \in Calls \cup {Nobody}
    BY <1>6 DEF Guest, GuestWorks, GuestCalls, GuestRuns
  <2>2. jit \in Context /\ where = "guest"
    BY <2>1, JitAssumption DEF GuestRuns
  <2>3. Core \in Cores
    BY <2>2 DEF Outside, Core
  <2>4. ticksleft' \in [Cores -> 0 .. Quantum]
    BY <2>1, <2>3, JitAssumption DEF GuestRuns, AddTicks
  <2>5. QED BY <2>1, <2>2, <2>4 DEF GuestRuns, threadVars, Outside
<1>7. CASE EnterCall
  <2>1. logger' \in Loggers
    BY <1>7, LogCounts DEF EnterCall, LoggerInv
  <2>2. QED BY <1>7, <2>1 DEF EnterCall, threadVars, Outside
<1>8. CASE ServeCall
  <2>1. running \in Threads /\ Core \in Cores
    BY <1>8 DEF ServeCall, Outside, Core
  <2>2. SetContext(cpu[Core], QueryMemory(GetContext(cpu[Core]))) \in Context
    BY <2>1, GetContextType, QueryMemoryType, SetContextType
  <2>3. logger' \in Loggers
    BY <1>8, FlushAll DEF ServeCall, LoggerInv
  <2>4. QED BY <1>8, <2>2, <2>3 DEF ServeCall, threadVars, Outside
<1>9. CASE RejectCall
  <2>1. logger' \in Loggers
    BY <1>9, FlushAll DEF RejectCall, LoggerInv
  <2>2. QED BY <1>9, <2>1 DEF RejectCall, threadVars, coreVars, Outside
<1>10. CASE UNCHANGED vars
  BY <1>10 DEF vars, threadVars, coreVars, sliceVars
<1>11. QED BY <1>1, <1>2, <1>3, <1>4, <1>5, <1>6, <1>7, <1>8, <1>9, <1>10 DEF Next, Slices, CallSVC

LEMMA StepLogger == IInv /\ [Next]_vars => LoggerInv'
<1> SUFFICES ASSUME IInv, [Next]_vars PROVE LoggerInv'
  OBVIOUS
<1>0. logger \in Loggers /\ early \in 0 .. StreamThreshold - 1 /\ LoggerInv
  BY DEF IInv, TypeOK
<1>1. CASE LogFeatures
  BY <1>0, <1>1, LogEarlyCounts DEF LogFeatures, LogEarly, LoggerInv
<1>2. CASE LogApplication
  <2>1. Log(logger) \in Loggers /\ Counted(Log(logger)) /\ Whole(Log(logger).fmtlists)
        /\ Log(logger).stream /\ ~Log(logger).lost /\ ~Log(logger).wrote
        /\ Past(early) \in 0 .. StreamThreshold - 1 /\ Log(logger).count = Past(early)
    BY <1>0, <1>2, LogEarlyCounts DEF LogApplication, LoggerInv
  <2>2. QED BY <1>2, <2>1, LogEarlyCounts DEF LogApplication, LoggerInv
<1>3. CASE LogFailedOpen
  BY <1>0, <1>3, LogEarlyCounts DEF LogFailedOpen, LogEarly, LoggerInv, sliceVars
<1>4. CASE LogAssets
  <2>1. Log(logger) \in Loggers /\ Counted(Log(logger)) /\ Whole(Log(logger).fmtlists)
        /\ ~Log(logger).lost /\ Log(logger).count = Past(early)
    BY <1>0, <1>4, LogEarlyCounts DEF LogAssets, LoggerInv
  <2>2. PICK onstream \in BOOLEAN : logger' = BuildAsyncLogger(Log(logger), onstream)
    BY <1>4 DEF LogAssets
  <2>3. Counted(logger') /\ ~logger'.wrote /\ (logger'.lost => Past(early) # 0)
    BY <2>1, <2>2, BuildCounts
  <2>4. early' = Past(early) /\ where' = "loading"
    BY <1>4 DEF LogAssets
  <2>5. QED BY <2>3, <2>4 DEF LoggerInv, Counted
<1>5. CASE LogLoading
  <2>1. where' = "loading" /\ early' = early
    BY <1>5 DEF LogLoading, sliceVars
  <2>2. PICK logged \in Loaded(logger) : logger' = logged
    BY <1>5 DEF LogLoading
  <2>3. Counted(logger) /\ (logger.stream => ~logger.wrote)
    BY <1>0 DEF LoggerInv
  <2>4. Counted(logged) /\ logged.stream = logger.stream /\ (logged.stream => ~logged.wrote)
        /\ (logged.stream => logged.lost = logger.lost)
    BY <1>0, <2>2, <2>3, LoadingCounts
  <2>5. QED BY <1>0, <2>1, <2>2, <2>4 DEF LoggerInv, Counted
<1>6. CASE EndSlice
  BY <1>0, <1>6, PrintArmCounts DEF EndSlice, LoggerInv
<1>7. CASE EnterCall
  BY <1>0, <1>7, LogCounts DEF EnterCall, LoggerInv, Loggers
<1>8. CASE ServeCall \/ RejectCall
  BY <1>0, <1>8, FlushAll DEF ServeCall, RejectCall, LoggerInv, Loggers
<1>9. CASE Start \/ BeginTurn \/ EndTurn \/ Guest \/ (\E t \in Threads : BeginSlice(t))
  BY <1>0, <1>9 DEF Start, BeginTurn, EndTurn, Guest, GuestWorks, GuestCalls, GuestRuns,
       BeginSlice, LoggerInv
<1>10. CASE UNCHANGED vars
  BY <1>0, <1>10 DEF vars, sliceVars, LoggerInv
<1>11. QED BY <1>1, <1>2, <1>3, <1>4, <1>5, <1>6, <1>7, <1>8, <1>9, <1>10
         DEF Next, Logging, Slices, CallSVC

\* A step that changes the registers of the core that runs, of no other.
LEMMA OnlyCoreRuns ==
    ASSUME IInv, running \in Threads, NEW jit, coreof' = coreof, arm' = arm, running' = running,
           tpidr' = tpidr, cpu' = [cpu EXCEPT ![Core] = jit], turn' = turn,
           where' = "turn" => turn > 0, where' \in {"guest", "call", "dispatch"} => turn > 0
    PROVE  CoreInv'
<1>1. Core' = Core
  BY DEF Core
<1>2. ASSUME NEW t \in Threads, Alone(t)'
      PROVE  tpidr'[coreof'[t]] \in {Nobody, t} /\ (running' # t => Kept(t)')
  <2>1. Alone(t)
    BY <1>2 DEF Alone
  <2>2. CASE running = t
    BY <2>1, <2>2 DEF IInv, CoreInv
  <2>3. CASE running # t
    <3>1. coreof[t] # Core /\ coreof[t] \in Cores
      BY <2>1, <2>3 DEF Alone, Core, IInv, TypeOK
    <3>2. QED BY <2>1, <2>3, <3>1 DEF IInv, TypeOK, CoreInv, Kept
  <2>4. QED BY <2>2, <2>3
<1>3. QED BY <1>1, <1>2 DEF IInv, TypeOK, CoreInv, AloneKeepsState

LEMMA StepCore == IInv /\ [Next]_vars => CoreInv'
<1> SUFFICES ASSUME IInv, [Next]_vars PROVE CoreInv'
  OBVIOUS
<1>0. TypeOK /\ CoreInv
  BY DEF IInv
<1>1. CASE Logging
  <2>1. coreof' = coreof /\ arm' = arm /\ cpu' = cpu /\ tpidr' = tpidr /\ running' = running
        /\ where' \notin {"turn", "guest", "call", "dispatch"}
    BY <1>1 DEF Logging, LogFeatures, LogApplication, LogFailedOpen, LogAssets, LogLoading, Start,
         threadVars, coreVars, sliceVars
  <2>2. QED BY <1>0, <2>1 DEF CoreInv, Kept, Alone, AloneKeepsState, Core
<1>2. ASSUME NEW t \in Threads, BeginSlice(t) PROVE CoreInv'
  <2> DEFINE c == coreof[t]
             reset == IF tpidr[c] = Nobody THEN Fresh ELSE cpu[c]
             restored == SetContext(reset, arm[t])
             jit == StartContext(restored)
  <2>1. running = Nobody /\ t # Nobody /\ c \in Cores /\ arm[t] \in Context /\ reset \in Context
    BY <1>0, <1>2, FreshType, JitAssumption DEF BeginSlice, TypeOK, Outside
  <2>2. restored \in Context /\ restored.floats = IF arm[t].floats = 0 THEN reset.floats ELSE arm[t].floats
    <3>1. restored.floats = IF arm[t].floats = 0 THEN reset.floats ELSE arm[t].floats
      BY <2>1 DEF SetContext, Context
    <3>2. QED BY <2>1, <3>1, SetContextType
  <2>3. jit.floats = restored.floats
    BY <2>2 DEF StartContext, Context
  <2>4. /\ running' = t /\ coreof' = coreof /\ arm' = arm /\ where' = "turn" /\ turn' = 0
        /\ cpu'[c] = jit /\ \A d \in Cores : d # c => cpu'[d] = cpu[d] /\ tpidr'[d] = tpidr[d]
        /\ tpidr'[c] = IF tpidr[c] = Nobody THEN t ELSE tpidr[c]
    BY <1>0, <1>2, <2>1 DEF BeginSlice, threadVars, TypeOK
  <2>5. Core' = c
    BY <2>4 DEF Core
  <2>6. ASSUME NEW u \in Threads, Alone(u)'
        PROVE  /\ tpidr'[coreof'[u]] \in {Nobody, u}
               /\ running' # u => Kept(u)'
    <3>1. Alone(u) /\ Kept(u) /\ coreof[u] \in Cores
      BY <1>0, <2>1, <2>4, <2>6, JitAssumption DEF Alone, CoreInv, TypeOK
    <3>2. CASE u = t
      BY <1>0, <2>1, <2>4, <3>1, <3>2 DEF CoreInv
    <3>3. CASE u # t
      <4>1. coreof[u] # c
        BY <3>1, <3>3 DEF Alone
      <4>2. QED BY <1>0, <2>4, <3>1, <4>1 DEF CoreInv, Kept
    <3>4. QED BY <3>2, <3>3
  <2>7. AloneKeepsState'
    <3>1. ASSUME Alone(t)' PROVE jit.floats = arm[t].floats /\ tpidr'[c] = t
      <4>1. Alone(t) /\ Kept(t) /\ tpidr[c] \in {Nobody, t}
        BY <1>0, <2>1, <2>4, <3>1, JitAssumption DEF Alone, CoreInv
      <4>2. reset.floats = arm[t].floats
        BY <4>1 DEF Kept, Fresh
      <4>3. QED BY <2>2, <2>3, <2>4, <4>1, <4>2
    <3>2. QED BY <2>4, <2>5, <3>1 DEF AloneKeepsState
  <2>8. running' # Nobody => tpidr'[Core'] # Nobody
    BY <2>1, <2>4, <2>5
  <2>9. QED BY <2>4, <2>6, <2>7, <2>8 DEF CoreInv
<1>3. CASE BeginTurn
  BY <1>0, <1>3 DEF BeginTurn, threadVars, CoreInv, Kept, Alone, AloneKeepsState, Core, TypeOK
<1>4. CASE EndTurn
  BY <1>0, <1>4 DEF EndTurn, threadVars, coreVars, CoreInv, Kept, Alone, AloneKeepsState, Core, TypeOK
<1>5. CASE EndSlice
  <2>1. running \in Threads /\ running # Nobody /\ Core \in Cores
    BY <1>0, <1>5, JitAssumption DEF EndSlice, TypeOK, Outside, Core
  <2>2. arm' = [arm EXCEPT ![running] = GetContext(cpu[Core])] /\ running' = Nobody
        /\ where' = "out" /\ coreof' = coreof /\ cpu' = cpu /\ tpidr' = tpidr
    BY <1>5 DEF EndSlice, SaveFrom, coreVars
  <2>3. GetContext(cpu[Core]).floats = cpu[Core].floats
    BY DEF GetContext
  <2>4. ASSUME NEW u \in Threads, Alone(u)'
        PROVE  tpidr'[coreof'[u]] \in {Nobody, u} /\ Kept(u)'
    <3>1. Alone(u)
      BY <2>2, <2>4 DEF Alone
    <3>2. CASE u = running
      BY <1>0, <2>1, <2>2, <2>3, <3>1, <3>2 DEF CoreInv, Kept, Core, TypeOK
    <3>3. CASE u # running
      BY <1>0, <2>1, <2>2, <3>1, <3>3 DEF CoreInv, Kept, TypeOK
    <3>4. QED BY <3>2, <3>3
  <2>5. QED BY <2>2, <2>4 DEF CoreInv, AloneKeepsState
<1>6. CASE Guest
  <2>1. PICK jit \in Contexts, ticks \in 1 .. Quantum + 1 : GuestRuns(jit, ticks)
                /\ where' \in {"guest", "call"}
    BY <1>6 DEF Guest, GuestWorks, GuestCalls, GuestRuns
  <2>2. running \in Threads /\ turn > 0
    BY <1>0, <2>1 DEF GuestRuns, TypeOK, Outside, CoreInv
  <2>3. QED BY <2>1, <2>2, OnlyCoreRuns DEF GuestRuns, threadVars
<1>7. CASE EnterCall
  BY <1>0, <1>7 DEF EnterCall, threadVars, CoreInv, Kept, Alone, AloneKeepsState, Core, TypeOK
<1>8. CASE ServeCall
  <2>1. running \in Threads /\ turn > 0
    BY <1>0, <1>8 DEF ServeCall, TypeOK, Outside, CoreInv
  <2>2. QED BY <1>8, <2>1, OnlyCoreRuns DEF ServeCall, threadVars
<1>9. CASE RejectCall
  BY <1>0, <1>9 DEF RejectCall, threadVars, coreVars, CoreInv, Kept, Alone, AloneKeepsState, Core, TypeOK
<1>10. CASE UNCHANGED vars
  BY <1>0, <1>10 DEF vars, threadVars, coreVars, sliceVars, CoreInv, Kept, Alone, AloneKeepsState, Core
<1>11. QED BY <1>1, <1>2, <1>3, <1>4, <1>5, <1>6, <1>7, <1>8, <1>9, <1>10 DEF Next, Slices, CallSVC

\* The types, what cores keep of threads and what the logger counts, together.
THEOREM JitInvariance == Spec => []IInv
<1>1. IInv /\ [Next]_vars => IInv'
  BY StepType, StepLogger, StepCore DEF IInv
<1>2. QED BY <1>1, InitInv, PTL DEF Spec

\* Every variable keeps its type; the ticks in particular never fall below zero.
THEOREM JitTypes == Spec => []TypeOK
<1>1. IInv => TypeOK
  BY DEF IInv
<1>2. QED BY <1>1, JitInvariance, PTL

\* A thread that is alone on its core goes on with its vectors and its TLS.
THEOREM Alones == Spec => []AloneKeepsState
<1>1. IInv => AloneKeepsState
  BY DEF IInv, CoreInv
<1>2. QED BY <1>1, JitInvariance, PTL

\* No line is lost but at the start or in a file, and the count is right.
THEOREM LinesKept == Spec => []LinesReachBacking
<1>1. IInv => LinesReachBacking
  BY DEF IInv, LoggerInv, LinesReachBacking, Counted
<1>2. QED BY <1>1, JitInvariance, PTL

-----------------------------------------------------------------------------
(* Each thread has registers of its own.                                   *)

LEMMA InitOwn == Init => Registers!Init
BY FreshType DEF Init, Registers!Init, GeneralOf, Context

\* The registers as the abstract specification sees them.
Seen == [t \in Threads |-> GeneralOf(t)]

\* A step that leaves alone what the mapping reads is a stutter.
LEMMA SeenUnchanged ==
    ASSUME coreof' = coreof, arm' = arm, cpu' = cpu, running' = running
    PROVE  Seen' = Seen /\ running' = running
BY DEF Seen, GeneralOf

\* One that changes the registers of the core that runs changes its thread's.
LEMMA SeenExecuted ==
    ASSUME IInv, running \in Threads, NEW jit \in Context,
           coreof' = coreof, arm' = arm, running' = running,
           cpu' = [cpu EXCEPT ![Core] = jit]
    PROVE  Registers!Execute(running)
<1>1. Core \in Cores /\ running # Nobody
  BY JitAssumption DEF IInv, TypeOK, Core
<1>2. jit.gpr \in General
  BY DEF Context
<1>3. ASSUME NEW t \in Threads
      PROVE  GeneralOf(t)' = IF t = running THEN jit.gpr ELSE GeneralOf(t)
  BY <1>1 DEF GeneralOf, Core, IInv, TypeOK
<1>4. Seen' = [Seen EXCEPT ![running] = jit.gpr]
  BY <1>3 DEF Seen
<1>5. QED BY <1>1, <1>2, <1>4 DEF Registers!Execute, Seen

LEMMA StepOwn == IInv /\ [Next]_vars => [Registers!Next]_(Registers!registerVars)
<1> SUFFICES ASSUME IInv, [Next]_vars
             PROVE  Registers!Next \/ (Seen' = Seen /\ running' = running)
  BY DEF Registers!registerVars, Seen
<1>1. CASE Logging
  BY <1>1, SeenUnchanged DEF Logging, LogFeatures, LogApplication, LogFailedOpen, LogAssets, LogLoading,
       Start,
       threadVars, coreVars, sliceVars
<1>2. ASSUME NEW t \in Threads, BeginSlice(t) PROVE Registers!Resume(t)
  <2> DEFINE c == coreof[t]
             reset == IF tpidr[c] = Nobody THEN Fresh ELSE cpu[c]
             jit == StartContext(SetContext(reset, arm[t]))
  <2>1. running = Nobody /\ c \in Cores /\ arm[t] \in Context /\ reset \in Context
    BY <1>2, FreshType DEF BeginSlice, IInv, TypeOK, Outside
  <2>2. jit.gpr = arm[t].gpr
    BY <2>1, SetContextType, StartContextType
  <2>3. running' = t /\ coreof' = coreof /\ arm' = arm /\ cpu'[c] = jit
    BY <1>2, <2>1 DEF BeginSlice, threadVars, IInv, TypeOK
  <2>4. ASSUME NEW u \in Threads PROVE GeneralOf(u)' = GeneralOf(u)
    <3>1. u # Nobody /\ GeneralOf(u) = arm[u].gpr
      BY <2>1, JitAssumption DEF GeneralOf
    <3>2. CASE u = t
      BY <2>2, <2>3, <3>1, <3>2 DEF GeneralOf
    <3>3. CASE u # t
      BY <2>3, <3>1, <3>3 DEF GeneralOf
    <3>4. QED BY <3>2, <3>3
  <2>5. Seen' = Seen
    BY <2>4 DEF Seen
  <2>6. QED BY <2>1, <2>3, <2>5 DEF Registers!Resume, Seen
<1>3. CASE BeginTurn
  BY <1>3, SeenUnchanged DEF BeginTurn, threadVars
<1>4. CASE EndTurn
  BY <1>4, SeenUnchanged DEF EndTurn, threadVars, coreVars
<1>5. CASE EndSlice
  <2>1. running \in Threads /\ running # Nobody /\ Core \in Cores
    BY <1>5, JitAssumption DEF EndSlice, IInv, TypeOK, Outside, Core
  <2>2. arm' = [arm EXCEPT ![running] = GetContext(cpu[Core])] /\ running' = Nobody
    BY <1>5 DEF EndSlice, SaveFrom
  <2>3. GetContext(cpu[Core]).gpr = cpu[Core].gpr
    BY <2>1, GetContextType DEF IInv, TypeOK
  <2>4. ASSUME NEW u \in Threads PROVE GeneralOf(u)' = GeneralOf(u)
    BY <2>1, <2>2, <2>3, JitAssumption DEF GeneralOf, IInv, TypeOK, Core
  <2>5. Seen' = Seen
    BY <2>4 DEF Seen
  <2>6. QED BY <2>1, <2>2, <2>5 DEF Registers!Next, Registers!Suspend, Seen
<1>6. CASE Guest
  <2>1. PICK jit \in Contexts, ticks \in 1 .. Quantum + 1 : GuestRuns(jit, ticks)
    BY <1>6 DEF Guest, GuestWorks, GuestCalls
  <2>2. jit \in Context /\ running \in Threads
    BY <2>1, JitAssumption DEF GuestRuns, IInv, TypeOK, Outside
  <2>3. Registers!Execute(running)
    BY <2>1, <2>2, SeenExecuted DEF GuestRuns, threadVars
  <2>4. QED BY <2>2, <2>3 DEF Registers!Next
<1>7. CASE EnterCall
  BY <1>7, SeenUnchanged DEF EnterCall, threadVars
<1>8. CASE ServeCall
  <2> DEFINE jit == SetContext(cpu[Core], QueryMemory(GetContext(cpu[Core])))
  <2>1. running \in Threads /\ Core \in Cores
    BY <1>8 DEF ServeCall, Outside, Core, IInv, TypeOK
  <2>2. jit \in Context
    BY <2>1, GetContextType, QueryMemoryType, SetContextType DEF IInv, TypeOK
  <2>3. cpu' = [cpu EXCEPT ![Core] = jit] /\ coreof' = coreof /\ arm' = arm /\ running' = running
    BY <1>8 DEF ServeCall, threadVars
  <2>4. Registers!Execute(running)
    BY <2>1, <2>2, <2>3, SeenExecuted
  <2>5. QED BY <2>1, <2>4 DEF Registers!Next
<1>9. CASE RejectCall
  BY <1>9, SeenUnchanged DEF RejectCall, threadVars, coreVars
<1>10. CASE UNCHANGED vars
  BY <1>10, SeenUnchanged DEF vars, threadVars, coreVars, sliceVars
<1>11. QED BY <1>1, <1>2, <1>3, <1>4, <1>5, <1>6, <1>7, <1>8, <1>9, <1>10
         DEF Next, Slices, CallSVC, Registers!Next

\* The JITs implement registers of its own for each thread: slices of other threads on
\* its core, saving, restoring and system calls change none that is not its own.
THEOREM Refinement == Spec => ImplementsOwnRegisters
<1>1. Init => Registers!Init
  BY InitOwn
<1>2. QED BY <1>1, StepOwn, JitInvariance, PTL DEF Spec, ImplementsOwnRegisters, Registers!Spec
=============================================================================
