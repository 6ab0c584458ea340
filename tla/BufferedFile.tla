----------------------------- MODULE BufferedFile -----------------------------
(***************************************************************************)
(* BufferedFile (fs_sys/refs/buffered_file.cpp), opened for reading and    *)
(* writing, and the lines VfsBackingFile reads from it (fs_sys/fsio.cpp).  *)
(*                                                                         *)
(* A buffer is kept between calls with the window it is meant to hold:     *)
(* valid bytes from start on. Reads, writes and SetSize change buffer and  *)
(* window by rules of their own, and the file below.                       *)
(***************************************************************************)
EXTENDS Integers, Sequences, SequencesExt, FiniteSetsExt

CONSTANTS
    Bytes,       \* what is written; 0 is what the system fills holes with
    Newline,
    MaxFile,     \* bound: length of the file
    MaxRead,     \* bound: size of a read
    MaxWrite,    \* bound: size of a write
    Chunk,       \* 64 KB: the size the buffer grows to for a read
    LineBuffer   \* BufferSize of ReadLine (32 in the code)

ASSUME FileAssumption ==
    /\ Bytes \subseteq Nat \ {0} /\ Newline \in Bytes
    /\ {MaxFile, MaxRead, MaxWrite, Chunk, LineBuffer} \subseteq Nat \ {0}
    /\ Chunk % LineBuffer = 0

VARIABLES
    file,    \* what the descriptor reads
    buffer,  \* the buffer, with start and valid
    start,
    valid,
    answer   \* what the last call returned, forgotten when the file changes

vars == <<file, buffer, start, valid, answer>>

Nothing == [kind |-> "none"]
Unset == -1   \* a byte the call did not write

Init ==
    /\ file \in UNION {[1 .. n -> Bytes] : n \in 0 .. MaxFile}
    /\ buffer = <<>> /\ start = 0 /\ valid = 0
    /\ answer = Nothing

Least(a, b) == IF a < b THEN a ELSE b
Resized(seq, n) == [i \in 1 .. n |-> IF i <= Len(seq) THEN seq[i] ELSE 0]

\* pread64: what there is of size bytes at the offset.
PRead(size, offset) == SubSeq(file, offset + 1, Least(offset + size, Len(file)))

\* bytes over the first bytes of into.
Over(bytes, into) == [i \in DOMAIN into |-> IF i <= Len(bytes) THEN bytes[i] ELSE into[i]]
-----------------------------------------------------------------------------
(* ReadTypeImpl. A read in progress is a record of the object's buffer and     *)
(* window and the caller's dest, copied bytes of which it counts.              *)

Object == [buffer |-> buffer, start |-> start, valid |-> valid]

\* Bytes of the window are copied first, from the wrong end of it: from start - offset
\* on, which may lie outside the buffer. They are not an answer: dest never is the
\* buffer, so that the read goes on. (The code lets the compiler assume start >= offset:
\* what is copied when it does not hold is not counted either.)
Hit(obj, size, offset) ==
    obj.buffer # <<>> /\ obj.start >= offset /\ obj.start + obj.valid >= offset + size
FromWindow(obj, size, offset) ==
    [i \in 1 .. size |-> LET at == obj.start - offset + i
                         IN  IF Hit(obj, size, offset) /\ at <= Len(obj.buffer)
                             THEN obj.buffer[at] ELSE Unset]

\* One turn of the loop. Every turn reads from the same offset to the start of dest.
ReadTurn(r, size, offset) ==
    LET iosize == Least(Len(r.buffer), size - r.copied)
        grown == IF Len(r.buffer) < r.copied THEN Resized(r.buffer, r.copied) ELSE r.buffer
        bytes == PRead(iosize, offset)
    IN  [buffer |-> Over(bytes, grown),
         start |-> offset + r.copied,
         dest |-> Over(bytes, r.dest),
         copied |-> r.copied + Len(bytes),
         more |-> Len(bytes) = iosize /\ r.copied + Len(bytes) < size]

ReadThrough(obj, size, offset) ==
    LET room == Least(size, Chunk)
        before == [buffer |-> IF Len(obj.buffer) < room THEN Resized(obj.buffer, room) ELSE obj.buffer,
                   start |-> obj.start, dest |-> FromWindow(obj, size, offset),
                   copied |-> 0, more |-> TRUE]
        after[turn \in 0 .. size] ==
            IF turn = 0 THEN before
            ELSE LET r == after[turn - 1]
                 IN  IF r.more THEN ReadTurn(r, size, offset) ELSE r
        last == after[size]
    IN  [buffer |-> last.buffer, start |-> last.start, valid |-> last.copied,
         dest |-> last.dest, copied |-> last.copied]

\* (Mistake: bytes of the window are the answer.)
ReadOfWindow(obj, size, offset) ==
    IF Hit(obj, size, offset)
    THEN [buffer |-> obj.buffer, start |-> obj.start, valid |-> obj.valid,
          dest |-> FromWindow(obj, size, offset), copied |-> size]
    ELSE ReadThrough(obj, size, offset)
Read(obj, size, offset) == ReadThrough(obj, size, offset)

Keeps(obj) == buffer' = obj.buffer /\ start' = obj.start /\ valid' = obj.valid

ReadType(size, offset) ==
    \E r \in {Read(Object, size, offset)} :
        /\ Keeps(r)
        /\ answer' = [kind |-> "read", size |-> size, offset |-> offset,
                      count |-> r.copied, dest |-> r.dest]
        /\ UNCHANGED file

-----------------------------------------------------------------------------
(* WriteTypeImpl and SetSize.                                               *)

\* pwrite64: the system fills a hole with zeros. (Mistake: it is written at the end.)
PWriteAppends(bytes, offset) == file \o bytes
PWrite(bytes, offset) ==
    [i \in 1 .. (IF offset + Len(bytes) > Len(file) THEN offset + Len(bytes) ELSE Len(file)) |->
        IF i \in offset + 1 .. offset + Len(bytes) THEN bytes[i - offset]
        ELSE IF i <= Len(file) THEN file[i] ELSE 0]

\* The window is given up if the bytes lie beyond it, and is then the bytes written;
\* otherwise it stays, although the buffer takes the bytes. (A debug build zeroes the
\* buffer when it gives the window up.)
WriteType(bytes, offset) ==
    LET leaves == offset >= valid /\ start + valid < offset + Len(bytes)
        size == Len(bytes)
    IN  /\ offset + size <= MaxFile
        /\ \E zeroed \in IF leaves THEN BOOLEAN ELSE {FALSE} :
               LET kept == IF zeroed THEN Resized(<<>>, Len(buffer)) ELSE buffer
               IN  buffer' = Over(bytes, IF size > Len(kept) THEN Resized(kept, size) ELSE kept)
        /\ file' = PWrite(bytes, offset)
        /\ IF leaves \/ valid = 0 THEN start' = offset /\ valid' = size
                                  ELSE UNCHANGED <<start, valid>>
        /\ answer' = Nothing

SetSize(newsize) ==
    /\ buffer' = IF Len(buffer) > newsize THEN Resized(buffer, newsize) ELSE buffer
    /\ file' = Resized(file, newsize)
    /\ answer' = Nothing
    /\ UNCHANGED <<start, valid>>

-----------------------------------------------------------------------------
(* ReadLine and GetAllLines.                                                *)

\* One turn of ReadLine: the line so far is read again with LineBuffer bytes more;
\* it is complete with a newline or when the file ends.
\* (Mistake: what fits the first buffer is taken for the line.)
LineEndsAtOnce(content, linesize) == TRUE
LineEnds(content, linesize) == Contains(content, Newline) \/ Len(content) < linesize

LineTurn(l, offset) ==
    LET linesize == l.linesize + LineBuffer
        r == Read(l.obj, linesize, offset)
        content == SubSeq(r.dest, 1, r.copied)
    IN  [obj |-> r, linesize |-> linesize, content |-> content,
         more |-> ~LineEnds(content, linesize)]

UpToNewline(content) ==
    IF Contains(content, Newline)
    THEN SubSeq(content, 1, Min({i \in DOMAIN content : content[i] = Newline}) - 1)
    ELSE content

ReadLine(obj, offset) ==
    LET before == [obj |-> obj, linesize |-> 0, content |-> <<>>, more |-> TRUE]
        after[turn \in 0 .. MaxFile + 1] ==
            IF turn = 0 THEN before
            ELSE LET l == after[turn - 1]
                 IN  IF l.more THEN LineTurn(l, offset) ELSE l
        last == after[MaxFile + 1]
    IN  [obj |-> last.obj, line |-> UpToNewline(last.content)]

\* The first empty line ends the lines. (Mistake: the newline is not passed.)
NextOffsetAtNewline(offset, line) == offset + Len(line)
NextOffset(offset, line) == offset + Len(line) + 1

LinesTurn(s) ==
    LET next == ReadLine(s.obj, s.offset)
    IN  IF next.line = <<>> THEN [s EXCEPT !.obj = next.obj, !.more = FALSE]
        ELSE [obj |-> next.obj, offset |-> NextOffset(s.offset, next.line),
              lines |-> Append(s.lines, next.line), more |-> TRUE]

\* Bound: every line, and the end of the file, is found within Chunk bytes. Beyond it
\* the read repeats itself and ReadLine may not end.
LinesFit ==
    \A at \in 0 .. Len(file) :
        at + Chunk <= Len(file) => \E i \in at + 1 .. at + Chunk : file[i] = Newline

AllLines(obj) ==
    LET before == [obj |-> obj, offset |-> 0, lines |-> <<>>, more |-> TRUE]
        after[turn \in 0 .. MaxFile + 1] ==
            IF turn = 0 THEN before
            ELSE LET s == after[turn - 1]
                 IN  IF s.more THEN LinesTurn(s) ELSE s
    IN  after[MaxFile + 1]

GetAllLines ==
    /\ LinesFit
    /\ \E all \in {AllLines(Object)} :
           Keeps(all.obj) /\ answer' = [kind |-> "lines", lines |-> all.lines]
    /\ UNCHANGED file

Next ==
    \/ \E size \in 1 .. MaxRead, offset \in 0 .. MaxFile : ReadType(size, offset)
    \/ \E size \in 1 .. MaxWrite, offset \in 0 .. MaxFile - 1 :
           \E bytes \in [1 .. size -> Bytes] : WriteType(bytes, offset)
    \/ \E newsize \in 0 .. MaxFile : SetSize(newsize)
    \/ GetAllLines

Spec == Init /\ [][Next]_vars
-----------------------------------------------------------------------------

\* The type of every variable.
TypeOK ==
    /\ file \in Seq(Bytes \cup {0}) /\ Len(file) <= MaxFile
    /\ buffer \in Seq(Bytes \cup {0})
    /\ start \in Nat /\ valid \in Nat
    /\ answer.kind \in {"none", "read", "lines"}

\* What a read counts are the file's bytes at the offset, as many as the file has of
\* them, whatever the window says.
ReturnsFile(r) ==
    /\ r.count = Len(PRead(r.size, r.offset))
    /\ SubSeq(r.dest, 1, r.count) = PRead(r.size, r.offset)

\* Reads that fit the buffer return the file's bytes, after any reads, writes and
\* changes of size: no byte of an outdated window is ever counted.
SmallReadsReturnFile ==
    answer.kind = "read" /\ answer.size <= Chunk => ReturnsFile(answer)

\* ReadSome takes the count for the bytes that were read, of any size:
\* "NX_ASSERT(ReadTypeImpl(...) == size); return content" in types.h.
ReadsReturnFile == answer.kind = "read" => ReturnsFile(answer)

\* The lines of the file up to the first empty one: a line begins after a newline or at
\* the start, and holds none.
LineAt(from, to) ==
    /\ from = 1 \/ file[from - 1] = Newline
    /\ to = Len(file) \/ file[to + 1] = Newline
    /\ \A i \in from .. to : file[i] # Newline
LinesReturnFile ==
    answer.kind = "lines" =>
        \E ends \in [1 .. Len(answer.lines) -> 1 .. Len(file)] :
            LET begin(n) == IF n = 1 THEN 1 ELSE ends[n - 1] + 2
                rest == begin(Len(answer.lines) + 1)
            IN  /\ \A n \in DOMAIN ends : /\ LineAt(begin(n), ends[n])
                                          /\ begin(n) <= ends[n]
                                          /\ answer.lines[n] = SubSeq(file, begin(n), ends[n])
                /\ rest > Len(file) \/ file[rest] = Newline
=============================================================================
