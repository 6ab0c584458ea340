----------------------------- MODULE AsyncLogger -----------------------------
(***************************************************************************)
(* AsyncLogger (common/async_logger.cpp): text is collected in a buffer    *)
(* and written line by line when the logger flushes. How many lines the    *)
(* buffer holds is a count of its own, kept by each way to add text, and   *)
(* the flush writes as many lines as the count says.                       *)
(*                                                                         *)
(* Text is a sequence of messages and newlines; what a message says is     *)
(* left out. The operators take the logger before a call to the one after. *)
(***************************************************************************)
EXTENDS Integers, Sequences, SequencesExt, FiniteSets

CONSTANTS
    StreamThreshold,  \* lines until a flush: to std::cout (4 in the code)
    FileThreshold     \* and to a log file (32)

ASSUME LoggerAssumption == {StreamThreshold, FileThreshold} \subseteq Nat \ {0}

Msg == "msg"
NL == "newline"

Loggers == [fmtlists : Seq({Msg, NL}), count : Nat,
            stream : BOOLEAN, wrote : BOOLEAN, lost : BOOLEAN]

Ends(text) == {i \in DOMAIN text : text[i] = NL}
Lines(text) == Cardinality(Ends(text))

\* stream: it writes to std::cout; else to a file, where each flush begins at offset 0
\* again. wrote: the file has text of a flush. lost: text went that no flush wrote and no one
\* took back, or a later flush wrote over it.
NewLogger(onstream) ==
    [fmtlists |-> <<>>, count |-> 0, stream |-> onstream, wrote |-> FALSE, lost |-> FALSE]
Threshold(log) == IF log.stream THEN StreamThreshold ELSE FileThreshold

\* The first n lines of the buffer, all if it has fewer.
FirstLines(text, n) ==
    LET within == {i \in Ends(text) : Cardinality({j \in Ends(text) : j <= i}) <= n}
    IN  IF within = {} THEN <<>> ELSE SubSeq(text, 1, CHOOSE i \in within : \A j \in within : j <= i)

\* FlushBuffers: count lines are written; then the buffer is cleared, whatever is left.
FlushBuffers(log) ==
    LET written == FirstLines(log.fmtlists, log.count)
    IN  [log EXCEPT !.fmtlists = <<>>,
                    !.count = @ - Lines(written),
                    !.wrote = @ \/ (~log.stream /\ written # <<>>),
                    !.lost = \/ @
                             \/ written # log.fmtlists
                             \/ (log.wrote /\ written # <<>>)]

\* Log of a plain string, which Puts calls. It never flushes.
\* (Mistake: the line is not counted.)
PutsUncounted(log, text) == [log EXCEPT !.fmtlists = @ \o text]
Puts(log, text) ==
    LET added == log.fmtlists \o text
        ends == added # <<>> /\ Last(added) = NL
    IN  [log EXCEPT !.fmtlists = added, !.count = IF ends THEN @ + 1 ELSE @]

\* Log of a line with its type. It flushes at the threshold and only there: a buffer
\* that Puts took past it grows on. (Mistake: one line later.)
LogFlushesLate(log) ==
    LET logged == [log EXCEPT !.fmtlists = @ \o <<Msg, NL>>, !.count = @ + 1]
    IN  IF log.count = Threshold(log) THEN FlushBuffers(logged) ELSE logged
Log(log) ==
    LET logged == [log EXCEPT !.fmtlists = @ \o <<Msg, NL>>, !.count = @ + 1]
    IN  IF logged.count = Threshold(log) THEN FlushBuffers(logged) ELSE logged

\* ClearLine: an unfinished line is taken back, if there is a line before it.
\* (Mistake: the line before it goes too.)
ClearLineAndNewline(log) ==
    IF Ends(log.fmtlists) = {} THEN log
    ELSE [log EXCEPT !.fmtlists = SubSeq(@, 1, Len(FirstLines(@, Lines(@))) - 1)]
ClearLine(log) ==
    [log EXCEPT !.fmtlists = IF Ends(@) = {} THEN @ ELSE FirstLines(@, Lines(@))]

\* BuildAsyncLogger replaces the logger; nobody flushes the one before.
BuildAsyncLogger(log, onstream) ==
    [NewLogger(onstream) EXCEPT !.lost = log.lost \/ log.fmtlists # <<>>]
=============================================================================
