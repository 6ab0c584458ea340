------------------------------- MODULE FileStack -------------------------------
(***************************************************************************)
(* The files a game is read through: the mapped package (HugeFile), the    *)
(* files of its partition (PartitionFileSystem, OffsetFile), and in one of *)
(* them, an archive, the header (XtsFile) and a section (CtrFile, XtsFile  *)
(* or OffsetFile).                                                         *)
(*                                                                         *)
(* A byte of the package is its position; what lies behind its end is a    *)
(* zero of the last page. The header and the sections, plain ones aside,   *)
(* are encrypted with the position in the archive: a deciphered byte is    *)
(* the position again if key, cipher and position agreed, and Garbage      *)
(* otherwise. A read returns a sequence of bytes, <<>> where the code      *)
(* returns 0.                                                              *)
(***************************************************************************)
EXTENDS Integers, Sequences

CONSTANTS
    Partitions,     \* packages: the sizes of their files, in order
    HeadSize,       \* sizes of Pfs0Header, PartitionEntry and the table of names
    EntrySize,
    NamesSize,
    MaxEntries,     \* MaxEntriesCount (16 in the code)
    MinCoverage,    \* percent of a valid package that is files (95 in the code)
    PageSize,
    Stride,         \* ReadTypeFaster (4 MB)
    CtrSectorSize,  \* 16
    XtsSectorSize,  \* 0x200
    CipherBlock,    \* block size of the cipher, in bytes of its sector numbers (16)
    HeaderSectors   \* NcaHeader and the FsHeaders (6)

ASSUME StackAssumption ==
    /\ \A sizes \in Partitions : sizes \in Seq(Nat)
    /\ {HeadSize, EntrySize, NamesSize, PageSize, Stride, CtrSectorSize,
        XtsSectorSize, CipherBlock, HeaderSectors} \subseteq Nat \ {0}
    /\ {MaxEntries, MinCoverage} \subseteq Nat
    /\ HeaderSectors <= CipherBlock   \* no sector of the header but the first is a multiple

VARIABLES
    sizes,     \* the package
    entry,     \* the file of it that is open, an OffsetFile [index, begin, size]
    section,   \* the section of it that is open: [kind, starts, size]
    sectorsz,  \* AesCipher::sectorsz of the archive's XtsFile
    got        \* the last read: [of, size, offset, bytes]

vars == <<sizes, entry, section, sectorsz, got>>

Closed == [size |-> 0]
NoRead == [of |-> "none"]
Garbage == -1
Zero == -2

Init ==
    /\ sizes \in Partitions
    /\ entry = Closed /\ section = Closed
    /\ sectorsz = XtsSectorSize
    /\ got = NoRead

Sum(seq) == LET sum[n \in 0 .. Len(seq)] == IF n = 0 THEN 0 ELSE sum[n - 1] + seq[n]
            IN  sum[Len(seq)]
Least(a, b) == IF a < b THEN a ELSE b
Positions(from, size) == [i \in 1 .. size |-> from + i - 1]
\* Where the package has the files: behind all entries, one after another.
FileBegin(k) ==
    HeadSize + Len(sizes) * EntrySize + NamesSize + Sum(SubSeq(sizes, 1, k - 1))

-----------------------------------------------------------------------------
(* HugeFile.                                                                *)

PackageSize == HeadSize + Len(sizes) * EntrySize + NamesSize + Sum(sizes)
MapSize == ((PackageSize + PageSize - 1) \div PageSize) * PageSize

\* ReadTypeImpl of the mapping; beyond it std::bad_alloc is thrown.
Thrown == <<Garbage>>
HugeRead(size, offset) ==
    IF offset + size > MapSize THEN Thrown
    ELSE [i \in 1 .. size |-> IF offset + i <= PackageSize THEN offset + i - 1 ELSE Zero]

\* ReadTypeFaster, a stride at a time. (Mistake: every stride is read at the start.)
StrideAtStart(offset, turn) == offset
StrideAt(offset, turn) == offset + (turn - 1) * Stride
ReadTypeFaster(size, offset) ==
    LET turns == (size + Stride - 1) \div Stride
        after[turn \in 0 .. turns] ==
            IF turn = 0 THEN <<>>
            ELSE LET bytes == after[turn - 1]
                 IN  bytes \o HugeRead(Least(size - Len(bytes), Stride), StrideAt(offset, turn))
    IN  after[turns]

-----------------------------------------------------------------------------
(* PartitionFileSystem over the mapping, and OffsetFile over it.            *)

\* The table is read to one entry after MaxEntries, and the names are looked for
\* behind it. (Mistake: only as many as MaxEntries.)
EntriesReadToMax == Least(Len(sizes), MaxEntries)
EntriesRead == Least(Len(sizes), MaxEntries + 1)
DataOffset == HeadSize + EntriesRead * EntrySize + NamesSize

\* The first empty file ends the list.
Listed == {k \in 1 .. EntriesRead : \A j \in 1 .. k : sizes[j] > 0}

\* IsAValidPfs: the listed files are more than MinCoverage percent of the mapping, in
\* whole percents. With an empty file the constructor returns before it counts.
IsAValidPfs ==
    /\ Listed = 1 .. EntriesRead
    /\ (100 * Sum(SubSeq(sizes, 1, EntriesRead))) \div MapSize > MinCoverage

OpenFile(k) ==
    /\ IsAValidPfs /\ k \in Listed /\ got = NoRead
    /\ entry' = [index |-> k, begin |-> DataOffset + Sum(SubSeq(sizes, 1, k - 1)), size |-> sizes[k]]
    /\ section' = Closed
    /\ sectorsz' = XtsSectorSize
    /\ UNCHANGED <<sizes, got>>

\* OffsetFile::ReadTypeImpl. (Mistake: a read across the end is let through.)
CrossesEndByOne(size, offset) == offset + size > entry.size + 1
CrossesEnd(size, offset) == offset + size > entry.size
EntryRead(size, offset) ==
    IF CrossesEnd(size, offset) THEN <<>> ELSE ReadTypeFaster(size, entry.begin + offset)

Returns(of, size, offset, bytes) ==
    /\ got = NoRead
    /\ got' = [of |-> of, size |-> size, offset |-> offset, bytes |-> bytes]

ReadEntry(size, offset) ==
    /\ entry # Closed
    /\ Returns("entry", size, offset, EntryRead(size, offset))
    /\ UNCHANGED <<sizes, entry, section, sectorsz>>

-----------------------------------------------------------------------------
(* The header: XtsFile::ReadTypeImpl with AesCipher::ProcessXts.            *)

\* What the archive was enciphered with are the positions from its real start.
Archive == FileBegin(entry.index)

\* SetupIv takes the tweak for the size of a sector if it is a multiple of the block
\* size. (Mistake: whatever it is.)
SectorAfterAny(tweak) == IF tweak > 0 THEN tweak ELSE sectorsz
SectorAfter(tweak) ==
    IF tweak > 0 /\ tweak % CipherBlock = 0 THEN tweak ELSE sectorsz

\* Each byte is deciphered with the tweak of its sector, counted on from the first.
XtsDecipher(bytes, tweak, sector) ==
    [i \in DOMAIN bytes |->
        IF sector = XtsSectorSize /\ bytes[i] - Archive = tweak * sector + i - 1
        THEN bytes[i] ELSE Garbage]

\* The constructor reads NcaHeader, two sectors, and LoadAllContent each FsHeader, one.
HeaderParts == {<<0, 2>>} \cup {<<first, 1>> : first \in 2 .. HeaderSectors - 1}
ReadHeader(first, count) ==
    LET size == count * XtsSectorSize
        offset == first * XtsSectorSize
        tweak == offset \div sectorsz
        bytes == EntryRead(size, offset)
    IN  /\ entry # Closed
        /\ IF bytes = <<>> THEN Returns("header", size, offset, bytes) /\ UNCHANGED sectorsz
           ELSE /\ sectorsz' = SectorAfter(tweak)
                /\ Returns("header", size, offset,
                           XtsDecipher(bytes, tweak, SectorAfter(tweak)))
        /\ UNCHANGED <<sizes, entry, section>>

-----------------------------------------------------------------------------
(* A section: a file over an OffsetFile of the archive, by its encryption.  *)

\* ContentArchive::GetFile: AesCtr and AesCtrEx make a CtrFile, AesXts an XtsFile with
\* an empty key, the rest a plain OffsetFile. Sections begin with a sector of the cipher.
Kinds == {"ctr", "xts", "plain"}
OpenSection(kind, starts, size) ==
    /\ entry # Closed /\ section = Closed /\ got = NoRead
    /\ starts % CtrSectorSize = 0 /\ starts + size <= entry.size
    /\ section' = [kind |-> kind, starts |-> starts, size |-> size]
    /\ UNCHANGED <<sizes, entry, sectorsz, got>>

SectionBytes(size, offset) ==
    IF offset + size > section.size THEN <<>> ELSE EntryRead(size, section.starts + offset)

\* UpdateCtr. (Mistake: where the section starts is left out.)
CounterOfSection(offset) == offset \div CtrSectorSize
Counter(offset) == offset \div CtrSectorSize + section.starts \div CtrSectorSize

\* Process: the stream from the counter on, over as many bytes as there are.
Decipher(bytes, counter) ==
    [i \in DOMAIN bytes |->
        IF bytes[i] - Archive = counter * CtrSectorSize + i - 1 THEN bytes[i] ELSE Garbage]

AlignedRead(size, offset) == Decipher(SectionBytes(size, offset), Counter(offset))

\* The sector an unaligned read begins in: the buffer holds zeros if the section ends
\* before the sector does.
SectorAround(offset) ==
    LET startblock == offset - (offset % CtrSectorSize)
        read == SectionBytes(CtrSectorSize, startblock)
    IN  Decipher(IF read = <<>> THEN [i \in 1 .. CtrSectorSize |-> Zero] ELSE read,
                 Counter(startblock))

\* CtrFile::ReadTypeImpl.
CtrRead(size, offset) ==
    LET aligment == offset % CtrSectorSize
        padding == CtrSectorSize - aligment
    IN  IF offset + size > section.size THEN <<>>
        ELSE IF aligment = 0 THEN AlignedRead(size, offset)
        ELSE SubSeq(SectorAround(offset), aligment + 1, aligment + Least(size, padding))
             \o IF size > padding THEN AlignedRead(size - padding, offset + padding) ELSE <<>>

\* The XtsFile of a section, a cipher of its own: the key given is all zeros, whatever
\* key the section was enciphered with.
EmptyKeyRead(size, offset) == [i \in DOMAIN SectionBytes(size, offset) |-> Garbage]

SectionRead(size, offset) ==
    CASE section.kind = "ctr" -> CtrRead(size, offset)
      [] section.kind = "xts" -> EmptyKeyRead(size, offset)
      [] section.kind = "plain" -> SectionBytes(size, offset)

ReadSection(size, offset) ==
    /\ section # Closed
    /\ Returns("section", size, offset, SectionRead(size, offset))
    /\ UNCHANGED <<sizes, entry, section, sectorsz>>

\* The caller is done with what it read.
Consume ==
    /\ got # NoRead /\ got' = NoRead
    /\ UNCHANGED <<sizes, entry, section, sectorsz>>

Next ==
    \/ Consume
    \/ \E k \in DOMAIN sizes : OpenFile(k)
    \/ \E part \in HeaderParts : ReadHeader(part[1], part[2])
    \/ \E kind \in Kinds, starts, size \in 1 .. entry.size : OpenSection(kind, starts, size)
    \/ \E size \in 1 .. entry.size + 1, offset \in 0 .. entry.size : ReadEntry(size, offset)
    \/ \E size \in 1 .. section.size + 1, offset \in 0 .. section.size : ReadSection(size, offset)

Spec == Init /\ [][Next]_vars
-----------------------------------------------------------------------------

\* An open file of a partition is the file of its name: its offset fits the table as it
\* was read. (A package with more files than the table is read for is not valid, or
\* its files begin too early.) A read returns nothing of its neighbours: all bytes
\* asked for, or none when one of them is behind the end, whatever strides it is read in.
TableRead == Len(sizes) <= MaxEntries + 1
EntryIsItsFile ==
    /\ entry # Closed /\ TableRead =>
           entry.begin = FileBegin(entry.index) /\ entry.size = sizes[entry.index]
    /\ got.of = "entry" =>
           got.bytes = IF got.offset + got.size <= entry.size
                       THEN Positions(entry.begin + got.offset, got.size) ELSE <<>>

\* The sectors of an archive's header decipher in any order, however often they are read:
\* none of them is a multiple of the cipher's block, which would change the sector's size.
\* A read of a section returns the deciphered bytes: any of a plain one, and of one in
\* counter mode any that begins with a sector of the cipher or in one the section has the
\* end of, across any number of sectors. Nothing is said of AesXts sections: with the
\* empty key they are given (content_archive.cpp:197) no read of one is deciphered.
SectorIsWhole(offset) == offset - (offset % CtrSectorSize) + CtrSectorSize <= section.size
Decipherable(offset) ==
    \/ section.kind = "plain"
    \/ section.kind = "ctr" /\ (offset % CtrSectorSize = 0 \/ SectorIsWhole(offset))
ArchiveDeciphered ==
    TableRead =>
        /\ got.of = "header" /\ got.bytes # <<>>
           => got.bytes = Positions(Archive + got.offset, got.size)
        /\ got.of = "section" /\ got.offset + got.size <= section.size /\ Decipherable(got.offset)
           => got.bytes = Positions(Archive + section.starts + got.offset, got.size)
=============================================================================
