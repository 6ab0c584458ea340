----------------------------- MODULE LoggerProofs -----------------------------
(***************************************************************************)
(* What the logger's calls do to its buffer and its count of lines, for    *)
(* any buffer and any thresholds.                                          *)
(***************************************************************************)
EXTENDS AsyncLogger, FiniteSetTheorems, WellFoundedInduction, TLAPS

Texts == Seq({Msg, NL})

\* The text ends with its last line.
Whole(text) == text # <<>> => text[Len(text)] = NL

\* The count is that of the lines in the buffer.
Counted(log) == log.count = Lines(log.fmtlists)

-----------------------------------------------------------------------------
(* Lines of a text.                                                        *)

LEMMA EndsType ==
    ASSUME NEW text \in Texts
    PROVE  /\ Ends(text) \subseteq 1 .. Len(text) /\ IsFiniteSet(Ends(text))
           /\ Lines(text) \in Nat /\ (Lines(text) = 0 <=> Ends(text) = {})
<1>1. Ends(text) \subseteq 1 .. Len(text)
  BY DEF Ends, Texts
<1>2. IsFiniteSet(1 .. Len(text))
  BY FS_Interval DEF Texts
<1>3. IsFiniteSet(Ends(text))
  BY <1>1, <1>2, FS_Subset
<1>4. QED BY <1>1, <1>3, FS_CardinalityType, FS_EmptySet DEF Lines

\* No text, no line.
LEMMA EmptyText == <<>> \in Texts /\ Lines(<<>>) = 0 /\ Whole(<<>>)
<1>1. <<>> \in Texts /\ Len(<<>>) = 0
  BY DEF Texts
<1>2. Ends(<<>>) = {}
  BY <1>1, EndsType
<1>3. QED BY <1>1, <1>2, EndsType DEF Whole

\* A message adds no line.
LEMMA MessageAdded ==
    ASSUME NEW text \in Texts
    PROVE  text \o <<Msg>> \in Texts /\ Lines(text \o <<Msg>>) = Lines(text)
<1>1. text \o <<Msg>> \in Texts /\ Len(text \o <<Msg>>) = Len(text) + 1
  BY DEF Texts
<1>2. \A i \in 1 .. Len(text) : (text \o <<Msg>>)[i] = text[i]
  BY DEF Texts
<1>3. (text \o <<Msg>>)[Len(text) + 1] = Msg
  BY DEF Texts
<1>4. Ends(text \o <<Msg>>) = Ends(text)
  BY <1>1, <1>2, <1>3 DEF Ends, Texts, Msg, NL
<1>5. QED BY <1>1, <1>4 DEF Lines

\* A newline adds one, and ends the text.
LEMMA NewlineAdded ==
    ASSUME NEW text \in Texts
    PROVE  /\ text \o <<NL>> \in Texts /\ text \o <<NL>> # <<>>
           /\ Lines(text \o <<NL>>) = Lines(text) + 1
           /\ Whole(text \o <<NL>>)
<1>1. text \o <<NL>> \in Texts /\ Len(text \o <<NL>>) = Len(text) + 1 /\ Len(text) \in Nat
  BY DEF Texts
<1>2. \A i \in 1 .. Len(text) : (text \o <<NL>>)[i] = text[i]
  BY DEF Texts
<1>3. (text \o <<NL>>)[Len(text) + 1] = NL
  BY DEF Texts
<1>4. Ends(text \o <<NL>>) = Ends(text) \cup {Len(text) + 1}
  BY <1>1, <1>2, <1>3 DEF Ends, Texts
<1>5. Len(text) + 1 \notin Ends(text)
  BY <1>1, EndsType
<1>6. Lines(text \o <<NL>>) = Lines(text) + 1
  BY <1>4, <1>5, EndsType, FS_AddElement DEF Lines
<1>7. QED BY <1>1, <1>3, <1>6 DEF Whole

\* Both add a line.
LEMMA LineAdded ==
    ASSUME NEW text \in Texts
    PROVE  /\ text \o <<Msg, NL>> \in Texts /\ text \o <<Msg, NL>> # <<>>
           /\ Lines(text \o <<Msg, NL>>) = Lines(text) + 1
           /\ Whole(text \o <<Msg, NL>>)
<1> DEFINE added == text \o <<Msg, NL>>
<1>1. added \in Texts /\ Len(added) = Len(text) + 2 /\ Len(text) \in Nat
  BY DEF Texts
<1>2. \A i \in 1 .. Len(text) : added[i] = text[i]
  BY DEF Texts
<1>3. added[Len(text) + 1] = Msg /\ added[Len(text) + 2] = NL
  BY DEF Texts
<1>4. Ends(added) = Ends(text) \cup {Len(text) + 2}
  BY <1>1, <1>2, <1>3 DEF Ends, Texts, Msg, NL
<1>5. Len(text) + 2 \notin Ends(text)
  BY <1>1, EndsType
<1>6. Lines(added) = Lines(text) + 1
  BY <1>4, <1>5, EndsType, FS_AddElement DEF Lines
<1>7. QED BY <1>1, <1>3, <1>6 DEF Whole

\* A text with a newline has a last one.
LEMMA LastEnd ==
    ASSUME NEW text \in Texts, Ends(text) # {}
    PROVE  \E i \in Ends(text) : \A j \in Ends(text) : j <= i
<1> DEFINE Behind == {Len(text) - i : i \in Ends(text)}
<1>1. Ends(text) \subseteq 1 .. Len(text) /\ Len(text) \in Nat
  BY EndsType DEF Texts
<1>2. Behind \subseteq Nat /\ Behind # {}
  BY <1>1
<1>3. PICK b \in Behind : \A y \in Behind : <<y, b>> \notin OpToRel(<, Nat)
  <2> HIDE DEF Behind
  <2>1. QED BY <1>2, NatLessThanWellFounded, WFMin
<1>4. \A y \in Behind : b <= y
  <2> HIDE DEF Behind
  <2>1. ASSUME NEW y \in Behind PROVE ~(y < b)
    <3>1. <<y, b>> \in Nat \X Nat /\ <<y, b>>[1] = y /\ <<y, b>>[2] = b
      BY <1>2
    <3>2. y < b => <<y, b>>[1] < <<y, b>>[2]
      BY <3>1
    <3>3. <<y, b>>[1] < <<y, b>>[2] => <<y, b>> \in OpToRel(<, Nat)
      BY <3>1, Zenon DEF OpToRel
    <3>4. QED BY <1>3, <3>2, <3>3
  <2>2. QED BY <1>2, <2>1
<1>5. PICK i \in Ends(text) : b = Len(text) - i
  OBVIOUS
<1>6. ASSUME NEW j \in Ends(text) PROVE j <= i
  <2>1. Len(text) - j \in Behind
    OBVIOUS
  <2>2. b <= Len(text) - j
    BY <1>4, <2>1
  <2>3. QED BY <1>1, <1>5, <2>2
<1>7. QED BY <1>6

\* Asked for all its lines, a text gives everything up to its last newline.
LEMMA AllLines ==
    ASSUME NEW text \in Texts, Ends(text) # {}
    PROVE  \E i \in Ends(text) :
              /\ \A j \in Ends(text) : j <= i
              /\ FirstLines(text, Lines(text)) = SubSeq(text, 1, i)
<1> DEFINE within == {i \in Ends(text) : Cardinality({j \in Ends(text) : j <= i}) <= Lines(text)}
           last == CHOOSE i \in within : \A j \in within : j <= i
<1>1. within = Ends(text)
  <2>1. ASSUME NEW i \in Ends(text) PROVE Cardinality({j \in Ends(text) : j <= i}) <= Lines(text)
    BY EndsType, FS_Subset DEF Lines
  <2>2. QED BY <2>1
<1>2. FirstLines(text, Lines(text)) = SubSeq(text, 1, last)
  BY <1>1 DEF FirstLines
<1>3. last \in Ends(text) /\ \A j \in Ends(text) : j <= last
  <2> HIDE DEF within
  <2>1. \E i \in within : \A j \in within : j <= i
    BY <1>1, LastEnd
  <2>2. QED BY <1>1, <2>1
<1>4. QED BY <1>2, <1>3

\* A text that ends with its last line is given whole.
LEMMA WholeLines ==
    ASSUME NEW text \in Texts, Whole(text)
    PROVE  FirstLines(text, Lines(text)) = text
<1>1. CASE text = <<>>
  <2>1. Ends(text) = {}
    BY <1>1, EndsType
  <2>2. QED BY <1>1, <2>1 DEF FirstLines
<1>2. CASE text # <<>>
  <2>1. Len(text) \in Ends(text) /\ Len(text) \in Nat
    BY <1>2 DEF Whole, Ends, Texts
  <2>2. PICK i \in Ends(text) : /\ \A j \in Ends(text) : j <= i
                                /\ FirstLines(text, Lines(text)) = SubSeq(text, 1, i)
    BY <2>1, AllLines
  <2>3. i = Len(text)
    BY <2>1, <2>2, EndsType
  <2>4. QED BY <2>2, <2>3 DEF Texts
<1>3. QED BY <1>1, <1>2

\* Without its unfinished line a text keeps its lines.
LEMMA UnfinishedCleared ==
    ASSUME NEW text \in Texts, Ends(text) # {}
    PROVE  /\ FirstLines(text, Lines(text)) \in Texts
           /\ Lines(FirstLines(text, Lines(text))) = Lines(text)
<1>1. PICK i \in Ends(text) : /\ \A j \in Ends(text) : j <= i
                              /\ FirstLines(text, Lines(text)) = SubSeq(text, 1, i)
  BY AllLines
<1> DEFINE kept == SubSeq(text, 1, i)
<1>2. i \in 1 .. Len(text) /\ Len(text) \in Nat
  BY EndsType DEF Texts
<1>3. kept \in Texts /\ Len(kept) = i /\ \A j \in 1 .. i : kept[j] = text[j]
  BY <1>2 DEF Texts
<1>4. Ends(kept) = Ends(text)
  BY <1>1, <1>2, <1>3, EndsType DEF Ends, Texts
<1>5. QED BY <1>1, <1>3, <1>4 DEF Lines

-----------------------------------------------------------------------------
(* The calls.                                                              *)

\* Records that differ in some fields, written out.
LEMMA TextChanged ==
    ASSUME NEW log \in Loggers, NEW text
    PROVE  [log EXCEPT !.fmtlists = text] =
             [fmtlists |-> text, count |-> log.count, stream |-> log.stream,
              wrote |-> log.wrote, lost |-> log.lost]
BY DEF Loggers

LEMMA TextAndCountChanged ==
    ASSUME NEW log \in Loggers, NEW text, NEW count
    PROVE  [log EXCEPT !.fmtlists = text, !.count = count] =
             [fmtlists |-> text, count |-> count, stream |-> log.stream,
              wrote |-> log.wrote, lost |-> log.lost]
<1> DEFINE changed == [log EXCEPT !.fmtlists = text]
<1>1. changed = [fmtlists |-> text, count |-> log.count, stream |-> log.stream,
                 wrote |-> log.wrote, lost |-> log.lost]
  BY TextChanged
<1>2. [log EXCEPT !.fmtlists = text, !.count = count] = [changed EXCEPT !.count = count]
  OBVIOUS
<1> HIDE DEF changed
<1>3. QED BY <1>1, <1>2

LEMMA AllChanged ==
    ASSUME NEW log \in Loggers, NEW text, NEW count, NEW wrote, NEW lost
    PROVE  [log EXCEPT !.fmtlists = text, !.count = count, !.wrote = wrote, !.lost = lost] =
             [fmtlists |-> text, count |-> count, stream |-> log.stream,
              wrote |-> wrote, lost |-> lost]
<1> DEFINE changed == [log EXCEPT !.fmtlists = text, !.count = count]
           flushed == [changed EXCEPT !.wrote = wrote]
<1>1. changed = [fmtlists |-> text, count |-> count, stream |-> log.stream,
                 wrote |-> log.wrote, lost |-> log.lost]
  BY TextAndCountChanged
<1>2. [log EXCEPT !.fmtlists = text, !.count = count, !.wrote = wrote, !.lost = lost]
        = [flushed EXCEPT !.lost = lost]
  OBVIOUS
<1>3. flushed = [fmtlists |-> text, count |-> count, stream |-> log.stream,
                 wrote |-> wrote, lost |-> log.lost]
  <2> HIDE DEF changed
  <2>1. QED BY <1>1
<1> HIDE DEF flushed
<1>4. QED BY <1>2, <1>3

\* A flush of a counted buffer that ends with a line writes all of it.
LEMMA FlushAll ==
    ASSUME NEW log \in Loggers, Counted(log), Whole(log.fmtlists)
    PROVE  LET flushed == FlushBuffers(log) IN
           /\ flushed \in Loggers /\ Counted(flushed)
           /\ flushed.fmtlists = <<>> /\ flushed.count = 0
           /\ flushed.stream = log.stream /\ flushed.wrote = (log.wrote \/ (~log.stream /\ log.fmtlists # <<>>))
           /\ flushed.lost = (log.lost \/ (log.wrote /\ log.fmtlists # <<>>))
<1>1. log.fmtlists \in Texts
  BY DEF Loggers, Texts
<1>2. FirstLines(log.fmtlists, log.count) = log.fmtlists
  BY <1>1, WholeLines DEF Counted
<1>3. log.count - Lines(log.fmtlists) = 0
  BY <1>1, EndsType DEF Counted
<1> DEFINE wrote == log.wrote \/ (~log.stream /\ log.fmtlists # <<>>)
           lost == \/ log.lost
                   \/ log.fmtlists # log.fmtlists
                   \/ (log.wrote /\ log.fmtlists # <<>>)
<1>5. FlushBuffers(log) =
        [fmtlists |-> <<>>, count |-> 0, stream |-> log.stream, wrote |-> wrote, lost |-> lost]
  <2>1. FlushBuffers(log) =
          [log EXCEPT !.fmtlists = <<>>, !.count = log.count - Lines(log.fmtlists),
                      !.wrote = wrote, !.lost = lost]
    BY <1>2, Zenon DEF FlushBuffers
  <2> HIDE DEF wrote, lost
  <2>2. QED BY <1>3, <2>1, AllChanged
<1>6. log.stream \in BOOLEAN /\ wrote \in BOOLEAN /\ lost \in BOOLEAN
  BY DEF Loggers
<1>7. lost = (log.lost \/ (log.wrote /\ log.fmtlists # <<>>))
  BY DEF Loggers
<1> HIDE DEF wrote, lost
<1>8. FlushBuffers(log) \in Loggers /\ Counted(FlushBuffers(log))
  BY <1>5, <1>6, EmptyText DEF Loggers, Counted, Texts
<1>9. FlushBuffers(log).wrote = wrote /\ FlushBuffers(log).lost = lost
  BY <1>5
<1>10. QED BY <1>5, <1>7, <1>8, <1>9 DEF wrote

\* A line with its type is counted; what is then in the buffer ends with a line.
LEMMA LogCounts ==
    ASSUME NEW log \in Loggers, Counted(log)
    PROVE  LET logged == Log(log) IN
           /\ logged \in Loggers /\ Counted(logged) /\ Whole(logged.fmtlists)
           /\ logged.stream = log.stream
           /\ logged.count = IF log.count + 1 = Threshold(log) THEN 0 ELSE log.count + 1
           /\ ~log.wrote => logged.lost = log.lost
           /\ log.stream => logged.wrote = log.wrote
<1> DEFINE added == log.fmtlists \o <<Msg, NL>>
           line == [log EXCEPT !.fmtlists = added, !.count = @ + 1]
<1>1. log.fmtlists \in Texts /\ log.count \in Nat
  BY DEF Loggers, Texts
<1>2. added \in Texts /\ Lines(added) = Lines(log.fmtlists) + 1 /\ Whole(added)
  BY <1>1, LineAdded
<1>3. line = [fmtlists |-> added, count |-> log.count + 1, stream |-> log.stream,
              wrote |-> log.wrote, lost |-> log.lost]
  BY TextAndCountChanged
<1>4. line \in Loggers /\ Counted(line) /\ Whole(line.fmtlists)
  <2> HIDE DEF line, added
  <2>1. QED BY <1>1, <1>2, <1>3 DEF Loggers, Counted, Texts
<1>5. Log(log) = IF log.count + 1 = Threshold(log) THEN FlushBuffers(line) ELSE line
  BY <1>3 DEF Log
<1>6. CASE log.count + 1 = Threshold(log)
  <2>1. Log(log) = FlushBuffers(line)
    BY <1>5, <1>6
  <2>2. QED BY <1>3, <1>4, <1>6, <2>1, FlushAll DEF Whole, Loggers
<1>7. CASE log.count + 1 # Threshold(log)
  BY <1>3, <1>4, <1>5, <1>7
<1>8. QED BY <1>6, <1>7

\* What Puts is given keeps the count right: a message, a newline, or a line.
LEMMA PutsCounts ==
    ASSUME NEW log \in Loggers, Counted(log), NEW text \in {<<Msg>>, <<NL>>, <<Msg, NL>>}
    PROVE  LET put == Puts(log, text) IN
           /\ put \in Loggers /\ Counted(put)
           /\ put.stream = log.stream /\ put.wrote = log.wrote /\ put.lost = log.lost
<1> DEFINE added == log.fmtlists \o text
           ends == added # <<>> /\ Last(added) = NL
<1>1. log.fmtlists \in Texts /\ log.count \in Nat /\ log.count = Lines(log.fmtlists)
  BY DEF Loggers, Texts, Counted
<1>2. added \in Texts
  BY <1>1, MessageAdded, NewlineAdded, LineAdded
<1>3. Lines(added) = IF ends THEN log.count + 1 ELSE log.count
  <2>1. CASE text = <<Msg>>
    <3>1. Len(added) = Len(log.fmtlists) + 1 /\ added[Len(added)] = Msg
      BY <1>1, <2>1 DEF Texts
    <3>2. QED BY <1>1, <2>1, <3>1, MessageAdded DEF Last, Msg, NL
  <2>2. CASE text = <<NL>>
    BY <1>1, <2>2, NewlineAdded DEF Whole, Last
  <2>3. CASE text = <<Msg, NL>>
    BY <1>1, <2>3, LineAdded DEF Whole, Last
  <2>4. QED BY <2>1, <2>2, <2>3
<1>4. Puts(log, text) =
        [fmtlists |-> added, count |-> IF ends THEN log.count + 1 ELSE log.count,
         stream |-> log.stream, wrote |-> log.wrote, lost |-> log.lost]
  BY TextAndCountChanged DEF Puts
<1>5. QED BY <1>1, <1>2, <1>3, <1>4 DEF Loggers, Counted, Texts

\* Taking an unfinished line back keeps the count right.
LEMMA ClearLineCounts ==
    ASSUME NEW log \in Loggers, Counted(log)
    PROVE  LET cleared == ClearLine(log) IN
           /\ cleared \in Loggers /\ Counted(cleared)
           /\ cleared.stream = log.stream /\ cleared.wrote = log.wrote /\ cleared.lost = log.lost
<1> DEFINE kept == IF Ends(log.fmtlists) = {} THEN log.fmtlists
                   ELSE FirstLines(log.fmtlists, Lines(log.fmtlists))
<1>1. log.fmtlists \in Texts
  BY DEF Loggers, Texts
<1>2. kept \in Texts /\ Lines(kept) = Lines(log.fmtlists)
  BY <1>1, UnfinishedCleared
<1>3. ClearLine(log) = [fmtlists |-> kept, count |-> log.count, stream |-> log.stream,
                        wrote |-> log.wrote, lost |-> log.lost]
  BY TextChanged DEF ClearLine
<1>4. QED BY <1>2, <1>3 DEF Loggers, Counted, Texts

\* A new logger counts nothing, and the one before is lost if it was not flushed.
LEMMA BuildCounts ==
    ASSUME NEW log \in Loggers, Counted(log), Whole(log.fmtlists), NEW onstream \in BOOLEAN
    PROVE  LET built == BuildAsyncLogger(log, onstream) IN
           /\ built \in Loggers /\ Counted(built) /\ built.stream = onstream
           /\ ~built.wrote
           /\ built.lost = (log.lost \/ log.count # 0)
<1>1. log.fmtlists \in Texts
  BY DEF Loggers, Texts
<1>2. Lines(<<>>) = 0 /\ <<>> \in Texts
  BY EmptyText
<1>3. log.fmtlists # <<>> <=> log.count # 0
  <2>1. ASSUME log.fmtlists # <<>> PROVE Ends(log.fmtlists) # {}
    BY <1>1, <2>1 DEF Whole, Ends, Texts
  <2>2. QED BY <1>1, <1>2, <2>1, EndsType DEF Counted
<1> DEFINE lost == log.lost \/ log.fmtlists # <<>>
<1>4. BuildAsyncLogger(log, onstream) =
        [fmtlists |-> <<>>, count |-> 0, stream |-> onstream, wrote |-> FALSE, lost |-> lost]
  <2>1. BuildAsyncLogger(log, onstream) =
          [[fmtlists |-> <<>>, count |-> 0, stream |-> onstream, wrote |-> FALSE, lost |-> FALSE]
             EXCEPT !.lost = lost]
    BY Zenon DEF BuildAsyncLogger, NewLogger
  <2> HIDE DEF lost
  <2>2. QED BY <2>1
<1>5. lost \in BOOLEAN /\ lost = (log.lost \/ log.count # 0)
  BY <1>3 DEF Loggers
<1> HIDE DEF lost
<1>6. QED BY <1>2, <1>4, <1>5 DEF Loggers, Counted, Texts
=============================================================================
