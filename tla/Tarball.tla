------------------------------ MODULE Tarball ------------------------------
(***************************************************************************)
(* Tarball (core/tarball.cpp): an archive of files, written cell by cell   *)
(* over whatever fastnx.tar held before. A cell stands for a part of a     *)
(* block, TarBlockSize cells for a block.                                  *)
(***************************************************************************)
EXTENDS Integers, Sequences, SequencesExt

CONSTANTS
    TarBlockSize,  \* 512 bytes in the code
    CopySize       \* the buffer of CopyToFile, 2 MB in the code

ASSUME TarAssumption == TarBlockSize \in Nat \ {0} /\ CopySize \in Nat \ {0}

Zero == [is |-> "zero"]
Data == [is |-> "data"]
Old == [is |-> "old"]    \* what an earlier archive left: anything
Header(file, size) == [is |-> "header", file |-> file, size |-> size]

Repeat(cell, n) == [i \in 1 .. n |-> cell]

\* The first cell of a Tapefile stands for it; an empty one is all zeros.
Tapefile(file, size) == <<Header(file, size)>> \o Repeat(Data, TarBlockSize - 1)
Padding == Repeat(Zero, TarBlockSize)

\* pwrite: what is not written keeps its bytes, and a hole has zeros.
WriteAt(tape, offset, cells) ==
    LET end == offset + Len(cells)
    IN  [i \in 1 .. (IF end > Len(tape) THEN end ELSE Len(tape)) |->
            IF i > offset /\ i <= end THEN cells[i - offset]
            ELSE IF i <= Len(tape) THEN tape[i] ELSE Zero]

\* CopyToFile copies as much as its buffer holds in each turn, behind what it has copied.
\* (Mistake: at the start of the file in each turn.)
Turn(done, size) == IF size - done < CopySize THEN size - done ELSE CopySize
CopyAtStart(offset, done) == offset
CopyAt(offset, done) == offset + done

\* The zeros behind a file, a whole block of them where it fills its last block.
\* (Mistake: no zeros.)
NoZeros(end) == 0
ZerosBehind(end) == TarBlockSize - (end % TarBlockSize)

\* Finish: two blocks of zeros, each after the offset moved on.
Finish(tape, offset) ==
    LET first == offset + TarBlockSize
    IN  WriteAt(WriteAt(tape, first, Padding), first + TarBlockSize, Padding)

\* What a tar reader finds that passes over blocks of zeros: the files whose header and
\* content are there, one behind the other, up to anything that is not a file. (A reader
\* that takes the first block of zeros for the end finds less.)
Blocks(size) == TarBlockSize * ((size + TarBlockSize - 1) \div TarBlockSize)
IsZeros(tape, offset) == \A i \in 1 .. TarBlockSize : tape[offset + i] = Zero
IsFile(tape, offset) ==
    LET cell == tape[offset + 1]
    IN  /\ cell.is = "header"
        /\ offset + TarBlockSize + cell.size <= Len(tape)
        /\ \A i \in 1 .. cell.size : tape[offset + TarBlockSize + i] = Data
Entries(tape) ==
    LET from[offset \in Nat] ==
            IF offset + TarBlockSize > Len(tape) THEN <<>>
            ELSE IF IsZeros(tape, offset) THEN from[offset + TarBlockSize]
            ELSE IF IsFile(tape, offset)
            THEN LET cell == tape[offset + 1]
                 IN  <<[file |-> cell.file, size |-> cell.size]>>
                         \o from[offset + TarBlockSize + Blocks(cell.size)]
            ELSE <<>>
    IN  from[0]
=============================================================================
