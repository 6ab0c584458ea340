-------------------------- MODULE BufferedFileProofs --------------------------
(***************************************************************************)
(* Of BufferedFile, for files, chunks and line buffers of any size: the    *)
(* types, that reads within a chunk return the file, and that the lines    *)
(* are the lines of the file.                                              *)
(***************************************************************************)
EXTENDS BufferedFile, TLAPS, NaturalsInduction, WellFoundedInduction

-----------------------------------------------------------------------------
(* Induction over the natural numbers, the statement as a set, and loops:   *)
(* functions of the number of turns, the turn as a function.                *)

LEMMA Smallest ==
    ASSUME NEW S, S \subseteq Nat, S # {}
    PROVE  \E s \in S : \A t \in S : s <= t
<1>1. PICK s \in S : \A y \in S : <<y, s>> \notin OpToRel(<, Nat)
  BY NatLessThanWellFounded, WFMin
<1>2. ASSUME NEW y \in S PROVE ~(y < s)
  <2>1. <<y, s>> \in Nat \X Nat /\ <<y, s>>[1] = y /\ <<y, s>>[2] = s
    OBVIOUS
  <2>2. y < s => <<y, s>>[1] < <<y, s>>[2]
    BY <2>1
  <2>3. <<y, s>>[1] < <<y, s>>[2] => <<y, s>> \in OpToRel(<, Nat)
    BY <2>1, Zenon DEF OpToRel
  <2>4. QED BY <1>1, <2>2, <2>3
<1>3. QED BY <1>2

\* Induction with the statement as a set: one that has 0 and with every number the next has them all.
LEMMA Induction ==
    ASSUME NEW T, 0 \in T, \A n \in Nat : n \in T => n + 1 \in T
    PROVE  \A n \in Nat : n \in T
<1> DEFINE left == {n \in Nat : n \notin T}
<1>1. SUFFICES ASSUME left # {} PROVE FALSE
  OBVIOUS
<1>2. PICK s \in left : \A t \in left : s <= t
  BY <1>1, Smallest
<1>3. s \in Nat \ {0} /\ s - 1 \in Nat
  OBVIOUS
<1>4. s - 1 \notin left
  BY <1>2, <1>3
<1>5. s - 1 \in T
  BY <1>3, <1>4
<1>6. (s - 1) + 1 \in T
  BY <1>3, <1>5
<1>7. (s - 1) + 1 = s
  BY <1>3
<1>8. QED BY <1>6, <1>7


Turns(g, S, base, step, n) ==
    g \in [0 .. n -> S] /\ g[0] = base /\ \A t \in 1 .. n : g[t] = step[g[t - 1]]

LEMMA Loop ==
    ASSUME NEW S, NEW base, NEW step, NEW turns \in Nat, base \in S, step \in [S -> S]
    PROVE  \E g : Turns(g, S, base, step, turns)
<1> DEFINE From(h, n) == Turns(h, S, base, step, n)
           T == {n \in Nat : \E h : From(h, n)}
<1>1. 0 \in T
  <2>1. From([k \in 0 .. 0 |-> base], 0)
    BY DEF Turns
  <2> HIDE DEF From
  <2>2. QED BY <2>1
<1>2. ASSUME NEW n \in Nat, n \in T PROVE n + 1 \in T
  <2>1. PICK h : From(h, n)
    BY <1>2
  <2> DEFINE new == step[h[n]]
             next == [k \in 0 .. n + 1 |-> IF k <= n THEN h[k] ELSE new]
  <2>2. h \in [0 .. n -> S] /\ h[0] = base
    BY <2>1 DEF Turns
  <2>3. ASSUME NEW k \in 1 .. n PROVE h[k] = step[h[k - 1]]
    BY <2>1 DEF Turns
  <2>4. new \in S
    <3>1. h[n] \in S
      BY <2>2
    <3>2. QED BY <3>1
  <2>5. next \in [0 .. n + 1 -> S] /\ next[0] = base
    <3> HIDE DEF new
    <3>1. QED BY <2>2, <2>4
  <2>6. ASSUME NEW k \in 1 .. n + 1 PROVE next[k] = step[next[k - 1]]
    <3> HIDE DEF new
    <3>1. CASE k <= n
      <4>1. k \in 1 .. n /\ k \in 0 .. n + 1 /\ k - 1 \in 0 .. n + 1 /\ k - 1 <= n
        BY <3>1
      <4>2. next[k] = h[k] /\ next[k - 1] = h[k - 1]
        BY <4>1
      <4>3. QED BY <4>1, <4>2, <2>3
    <3>2. CASE k = n + 1
      <4>1. next[n + 1] = new /\ next[n] = h[n] /\ k - 1 = n
        BY <3>2
      <4>2. QED BY <4>1, <3>2 DEF new
    <3>3. QED BY <3>1, <3>2
  <2> HIDE DEF next
  <2>7. From(next, n + 1)
    BY <2>5, <2>6 DEF Turns
  <2> HIDE DEF From
  <2>8. QED BY <2>7
<1>3. turns \in T
  <2> HIDE DEF T
  <2>1. QED BY <1>1, <1>2, Induction
<1>4. QED BY <1>3

-----------------------------------------------------------------------------
(* Sequences of bytes.                                                      *)

Stored == Bytes \cup {0}
Cells == Stored \cup {Unset}

LEMMA Parameters ==
    /\ MaxFile \in Nat \ {0} /\ MaxRead \in Nat \ {0} /\ MaxWrite \in Nat \ {0}
    /\ Chunk \in Nat \ {0} /\ LineBuffer \in Nat \ {0} /\ Chunk % LineBuffer = 0
    /\ Bytes \subseteq Nat \ {0} /\ Newline \in Bytes
BY FileAssumption DEF FileAssumption

FileType == file \in Seq(Stored) /\ Len(file) <= MaxFile

LEMMA ResizedType ==
    ASSUME NEW seq \in Seq(Stored), NEW n \in Nat
    PROVE  Resized(seq, n) \in Seq(Stored) /\ Len(Resized(seq, n)) = n
<1>1. \A i \in 1 .. n : (IF i <= Len(seq) THEN seq[i] ELSE 0) \in Stored
  BY DEF Stored
<1>2. QED BY <1>1 DEF Resized

LEMMA OverType ==
    ASSUME NEW X, NEW bytes \in Seq(X), NEW into \in Seq(X)
    PROVE  /\ Over(bytes, into) \in Seq(X) /\ Len(Over(bytes, into)) = Len(into)
           /\ \A i \in 1 .. Len(into) :
                Over(bytes, into)[i] = IF i <= Len(bytes) THEN bytes[i] ELSE into[i]
<1>1. \A i \in DOMAIN into : (IF i <= Len(bytes) THEN bytes[i] ELSE into[i]) \in X
  OBVIOUS
<1>2. DOMAIN into = 1 .. Len(into)
  OBVIOUS
<1>3. QED BY <1>1, <1>2 DEF Over

LEMMA PReadIs ==
    ASSUME FileType, NEW size \in Int, NEW offset \in Nat
    PROVE  /\ PRead(size, offset) \in Seq(Stored)
           /\ size >= 0 => Len(PRead(size, offset)) <= size
           /\ size < 0 => Len(PRead(size, offset)) = 0
           /\ offset + Len(PRead(size, offset)) <= Len(file) \/ Len(PRead(size, offset)) = 0
           /\ Len(PRead(size, offset)) < size => offset + Len(PRead(size, offset)) >= Len(file)
           /\ \A i \in 1 .. Len(PRead(size, offset)) : PRead(size, offset)[i] = file[offset + i]
<1> DEFINE first == offset + 1
           last == Least(offset + size, Len(file))
           bytes == SubSeq(file, first, last)
<1>1. file \in Seq(Stored) /\ Len(file) \in Nat
  BY DEF FileType
<1>2. first \in Nat /\ last \in Int /\ last <= Len(file) /\ last <= offset + size
      /\ (last = offset + size \/ last = Len(file))
  BY <1>1 DEF Least
<1> HIDE DEF last
<1>3. CASE first <= last
  <2>1. /\ bytes \in Seq(Stored) /\ Len(bytes) = last - offset
        /\ \A i \in 1 .. Len(bytes) : bytes[i] = file[offset + i]
    BY <1>1, <1>2, <1>3
  <2>2. PRead(size, offset) = bytes
    BY DEF PRead, last
  <2> HIDE DEF bytes
  <2>3. QED BY <1>1, <1>2, <1>3, <2>1, <2>2
<1>4. CASE first > last
  <2>1. bytes = <<>>
    BY <1>1, <1>2, <1>4
  <2>2. PRead(size, offset) = <<>>
    BY <2>1 DEF PRead, last
  <2>3. QED BY <1>1, <1>2, <1>4, <2>2
<1>5. QED BY <1>1, <1>2, <1>3, <1>4

-----------------------------------------------------------------------------
(* A read.                                                                  *)

\* The buffer and the window of an object, or of the result of a read.
Typed(obj) == obj.buffer \in Seq(Stored) /\ obj.start \in Nat /\ obj.valid \in Nat

Dests(size) == {dest \in Seq(Cells) : Len(dest) = size}
Reads(size) == [buffer : Seq(Stored), start : Nat, dest : Dests(size), copied : 0 .. size, more : BOOLEAN]

FirstRead(obj, size, offset) ==
    LET room == Least(size, Chunk)
    IN  [buffer |-> IF Len(obj.buffer) < room THEN Resized(obj.buffer, room) ELSE obj.buffer,
         start |-> obj.start, dest |-> FromWindow(obj, size, offset),
         copied |-> 0, more |-> TRUE]
NextRead(r, size, offset) == IF r.more THEN ReadTurn(r, size, offset) ELSE r

LEMMA SeqOfMore ==
    ASSUME NEW X, NEW Y, X \subseteq Y, NEW s \in Seq(X)
    PROVE  s \in Seq(Y)
OBVIOUS

LEMMA FromWindowType ==
    ASSUME NEW obj, Typed(obj), NEW size \in Nat, NEW offset \in Nat
    PROVE  FromWindow(obj, size, offset) \in Dests(size)
<1> DEFINE byte(i) == LET at == obj.start - offset + i
                      IN  IF Hit(obj, size, offset) /\ at <= Len(obj.buffer)
                          THEN obj.buffer[at] ELSE Unset
<1>1. obj.buffer \in Seq(Stored) /\ obj.start \in Nat
  BY DEF Typed
<1>2. ASSUME NEW i \in 1 .. size PROVE byte(i) \in Cells
  <2> DEFINE at == obj.start - offset + i
  <2>1. CASE Hit(obj, size, offset) /\ at <= Len(obj.buffer)
    <3>1. obj.start >= offset
      BY <2>1 DEF Hit
    <3>2. at \in 1 .. Len(obj.buffer)
      BY <1>1, <2>1, <3>1
    <3>3. obj.buffer[at] \in Stored
      BY <1>1, <3>2
    <3>4. byte(i) = obj.buffer[at]
      BY <2>1
    <3>5. QED BY <3>3, <3>4 DEF Cells
  <2>2. CASE ~(Hit(obj, size, offset) /\ at <= Len(obj.buffer))
    <3>1. byte(i) = Unset
      BY <2>2
    <3>2. QED BY <3>1 DEF Cells
  <2>3. QED BY <2>1, <2>2
<1>3. FromWindow(obj, size, offset) = [i \in 1 .. size |-> byte(i)]
  BY DEF FromWindow
<1> HIDE DEF byte
<1>4. [i \in 1 .. size |-> byte(i)] \in Seq(Cells) /\ Len([i \in 1 .. size |-> byte(i)]) = size
  BY <1>2
<1>5. QED BY <1>3, <1>4 DEF Dests

LEMMA FirstReadType ==
    ASSUME NEW obj, Typed(obj), NEW size \in Nat, NEW offset \in Nat
    PROVE  /\ FirstRead(obj, size, offset) \in Reads(size)
           /\ FirstRead(obj, size, offset).copied = 0 /\ FirstRead(obj, size, offset).more
           /\ Len(FirstRead(obj, size, offset).buffer) >= Least(size, Chunk)
<1> DEFINE room == Least(size, Chunk)
           grown == IF Len(obj.buffer) < room THEN Resized(obj.buffer, room) ELSE obj.buffer
<1>1. room \in Nat
  BY Parameters DEF Least
<1>2. obj.buffer \in Seq(Stored) /\ obj.start \in Nat
  BY DEF Typed
<1> HIDE DEF room
<1>3. Resized(obj.buffer, room) \in Seq(Stored) /\ Len(Resized(obj.buffer, room)) = room
  BY <1>1, <1>2, ResizedType
<1>4. grown \in Seq(Stored) /\ Len(grown) >= room
  BY <1>1, <1>2, <1>3
<1>5. FromWindow(obj, size, offset) \in Dests(size)
  BY FromWindowType
<1>6. FirstRead(obj, size, offset) = [buffer |-> grown, start |-> obj.start,
          dest |-> FromWindow(obj, size, offset), copied |-> 0, more |-> TRUE]
  BY DEF FirstRead, room
<1> HIDE DEF grown
<1>7. QED BY <1>2, <1>4, <1>5, <1>6 DEF Reads, room

LEMMA ReadTurnType ==
    ASSUME FileType, NEW size \in Nat, NEW offset \in Nat, NEW r \in Reads(size)
    PROVE  ReadTurn(r, size, offset) \in Reads(size)
<1> DEFINE iosize == Least(Len(r.buffer), size - r.copied)
           grown == IF Len(r.buffer) < r.copied THEN Resized(r.buffer, r.copied) ELSE r.buffer
           bytes == PRead(iosize, offset)
<1>1. /\ r.buffer \in Seq(Stored) /\ r.start \in Nat /\ r.dest \in Seq(Cells) /\ Len(r.dest) = size
      /\ r.copied \in 0 .. size
  BY DEF Reads, Dests
<1>2. iosize \in Nat /\ iosize <= size - r.copied
  BY <1>1 DEF Least
<1> HIDE DEF iosize
<1>3. bytes \in Seq(Stored) /\ Len(bytes) <= iosize
  <2>1. iosize \in Int /\ iosize >= 0
    BY <1>2
  <2>2. bytes \in Seq(Stored) /\ (iosize >= 0 => Len(bytes) <= iosize)
    BY <2>1, PReadIs
  <2>3. QED BY <2>1, <2>2
<1>4. grown \in Seq(Stored)
  BY <1>1, ResizedType
<1>5. bytes \in Seq(Cells)
  BY <1>3, SeqOfMore DEF Cells
<1> HIDE DEF bytes, grown
<1>6. Over(bytes, grown) \in Seq(Stored)
  BY <1>3, <1>4, OverType
<1>7. Over(bytes, r.dest) \in Dests(size)
  BY <1>1, <1>5, OverType DEF Dests
<1>8. r.copied + Len(bytes) \in 0 .. size /\ offset + r.copied \in Nat
  BY <1>1, <1>2, <1>3
<1>9. ReadTurn(r, size, offset) =
        [buffer |-> Over(bytes, grown), start |-> offset + r.copied, dest |-> Over(bytes, r.dest),
         copied |-> r.copied + Len(bytes),
         more |-> Len(bytes) = iosize /\ r.copied + Len(bytes) < size]
  BY DEF ReadTurn, bytes, grown, iosize
<1>10. QED BY <1>6, <1>7, <1>8, <1>9 DEF Reads

\* A read is its turns.
ReadTurns(after, obj, size, offset) ==
    /\ after \in [0 .. size -> Reads(size)]
    /\ after[0] = FirstRead(obj, size, offset)
    /\ \A t \in 1 .. size : after[t] = NextRead(after[t - 1], size, offset)
    /\ ReadThrough(obj, size, offset) =
           [buffer |-> after[size].buffer, start |-> after[size].start,
            valid |-> after[size].copied, dest |-> after[size].dest,
            copied |-> after[size].copied]

LEMMA ReadIsLoop ==
    ASSUME FileType, NEW obj, Typed(obj), NEW size \in Nat, NEW offset \in Nat
    PROVE  \E after : ReadTurns(after, obj, size, offset)
<1> DEFINE base == FirstRead(obj, size, offset)
           loop == CHOOSE after : after =
                       [turn \in 0 .. size |->
                           IF turn = 0 THEN base ELSE NextRead(after[turn - 1], size, offset)]
           step == [r \in Reads(size) |-> NextRead(r, size, offset)]
<1>1. ReadThrough(obj, size, offset) =
          [buffer |-> loop[size].buffer, start |-> loop[size].start, valid |-> loop[size].copied,
           dest |-> loop[size].dest, copied |-> loop[size].copied]
  BY DEF ReadThrough, FirstRead, NextRead
<1>2. base \in Reads(size)
  BY FirstReadType
<1>3. step \in [Reads(size) -> Reads(size)]
  BY ReadTurnType DEF NextRead
<1> HIDE DEF base
<1>4. PICK g : Turns(g, Reads(size), base, step, size)
  <2> HIDE DEF step
  <2>1. QED BY <1>2, <1>3, Loop
<1>5. /\ g \in [0 .. size -> Reads(size)] /\ g[0] = base
      /\ \A t \in 1 .. size : g[t] = NextRead(g[t - 1], size, offset)
  <2>1. g \in [0 .. size -> Reads(size)] /\ g[0] = base
    BY <1>4 DEF Turns
  <2>2. ASSUME NEW t \in 1 .. size PROVE g[t] = NextRead(g[t - 1], size, offset)
    <3>1. g[t - 1] \in Reads(size)
      BY <2>1
    <3>2. g[t] = step[g[t - 1]]
      BY <1>4 DEF Turns
    <3>3. QED BY <3>1, <3>2
  <2>3. QED BY <2>1, <2>2
<1> HIDE DEF step
<1>6. g = [turn \in 0 .. size |-> IF turn = 0 THEN base ELSE NextRead(g[turn - 1], size, offset)]
  <2> DEFINE h == [turn \in 0 .. size |-> IF turn = 0 THEN base ELSE NextRead(g[turn - 1], size, offset)]
  <2>1. ASSUME NEW turn \in 0 .. size PROVE g[turn] = h[turn]
    <3>1. CASE turn = 0
      BY <1>5, <3>1
    <3>2. CASE turn # 0
      BY <1>5, <3>2
    <3>3. QED BY <3>1, <3>2
  <2>2. DOMAIN g = 0 .. size /\ DOMAIN h = 0 .. size
    BY <1>5
  <2>3. QED BY <1>5, <2>1, <2>2
<1>7. loop = [turn \in 0 .. size |-> IF turn = 0 THEN base ELSE NextRead(loop[turn - 1], size, offset)]
  BY <1>6
<1> HIDE DEF loop
<1>8. loop[0] = base /\ \A t \in 1 .. size : loop[t] = NextRead(loop[t - 1], size, offset)
  BY <1>7
<1> DEFINE E == {t \in Nat : t <= size => loop[t] = g[t]}
<1>9. \A t \in Nat : t \in E
  <2>1. 0 \in E
    BY <1>5, <1>8
  <2>2. ASSUME NEW t \in Nat, t \in E PROVE t + 1 \in E
    <3>1. SUFFICES ASSUME t + 1 <= size PROVE loop[t + 1] = g[t + 1]
      OBVIOUS
    <3>2. t + 1 \in 1 .. size /\ (t + 1) - 1 = t /\ loop[t] = g[t]
      BY <2>2, <3>1
    <3>3. QED BY <1>5, <1>8, <3>2
  <2> HIDE DEF E
  <2>3. QED BY <2>1, <2>2, Induction
<1>10. ReadThrough(obj, size, offset) =
          [buffer |-> g[size].buffer, start |-> g[size].start, valid |-> g[size].copied,
           dest |-> g[size].dest, copied |-> g[size].copied]
  <2>1. loop[size] = g[size]
    BY <1>9
  <2>2. QED BY <1>1, <2>1
<1>11. ReadTurns(g, obj, size, offset)
  BY <1>5, <1>10 DEF base, ReadTurns
<1>12. QED BY <1>11

\* What a read leaves.
Results == [buffer : Seq(Stored), start : Nat, valid : Nat, dest : Seq(Cells), copied : Nat]

LEMMA ReadResult ==
    ASSUME FileType, NEW obj, Typed(obj), NEW size \in Nat, NEW offset \in Nat
    PROVE  /\ Read(obj, size, offset) \in Results
           /\ Read(obj, size, offset).copied \in 0 .. size
           /\ Len(Read(obj, size, offset).dest) = size
<1>1. PICK after : ReadTurns(after, obj, size, offset)
  BY ReadIsLoop
<1>2. after[size] \in Reads(size)
  BY <1>1 DEF ReadTurns
<1>3. /\ after[size].buffer \in Seq(Stored) /\ after[size].start \in Nat
      /\ after[size].dest \in Seq(Cells) /\ Len(after[size].dest) = size
      /\ after[size].copied \in 0 .. size
  BY <1>2 DEF Reads, Dests
<1>4. Read(obj, size, offset) =
              [buffer |-> after[size].buffer, start |-> after[size].start, valid |-> after[size].copied,
               dest |-> after[size].dest, copied |-> after[size].copied]
  BY <1>1 DEF ReadTurns, Read
<1>5. QED BY <1>3, <1>4 DEF Results

\* A read that fits the buffer is over with its first turn, which reads all there is.
LEMMA SmallRead ==
    ASSUME FileType, NEW obj, Typed(obj), NEW size \in 1 .. Chunk, NEW offset \in Nat
    PROVE  /\ Read(obj, size, offset).copied = Len(PRead(size, offset))
           /\ SubSeq(Read(obj, size, offset).dest, 1, Read(obj, size, offset).copied)
                  = PRead(size, offset)
<1>1. size \in Nat /\ size <= Chunk /\ Chunk \in Nat
  BY Parameters
<1>2. PICK after : ReadTurns(after, obj, size, offset)
  BY <1>1, ReadIsLoop
<1> USE DEF ReadTurns
<1> DEFINE r == after[0]
           bytes == PRead(size, offset)
<1>3. /\ r \in Reads(size) /\ r.copied = 0 /\ r.more /\ Len(r.buffer) >= size
  <2>1. Least(size, Chunk) = size
    BY <1>1 DEF Least
  <2>2. r = FirstRead(obj, size, offset)
    BY <1>2
  <2>3. QED BY <1>1, <2>1, <2>2, FirstReadType
<1>4. r.dest \in Seq(Cells) /\ Len(r.dest) = size /\ r.buffer \in Seq(Stored)
  BY <1>3 DEF Reads, Dests
<1>5. bytes \in Seq(Stored) /\ Len(bytes) <= size
  <2>1. size \in Int /\ size >= 0
    BY <1>1
  <2>2. bytes \in Seq(Stored) /\ (size >= 0 => Len(bytes) <= size)
    BY <2>1, PReadIs
  <2>3. QED BY <2>1, <2>2
<1>6. /\ after[1].copied = Len(bytes) /\ after[1].dest = Over(bytes, r.dest) /\ ~after[1].more
  <2>1. after[1] = ReadTurn(r, size, offset)
    <3>1. 1 \in 1 .. size /\ 1 - 1 = 0
      BY <1>1
    <3>2. QED BY <1>2, <1>3, <3>1 DEF NextRead
  <2>2. Least(Len(r.buffer), size - r.copied) = size
    BY <1>1, <1>3, <1>4 DEF Least
  <2> HIDE DEF bytes, r
  <2>3. /\ ReadTurn(r, size, offset).copied = r.copied + Len(bytes)
        /\ ReadTurn(r, size, offset).dest = Over(bytes, r.dest)
        /\ ReadTurn(r, size, offset).more = (Len(bytes) = size /\ r.copied + Len(bytes) < size)
    BY <2>2 DEF ReadTurn, bytes
  <2>4. Len(bytes) \in Nat /\ r.copied = 0
    BY <1>3, <1>5
  <2>5. ~(Len(bytes) = size /\ r.copied + Len(bytes) < size)
    BY <1>1, <2>4
  <2>6. after[1].copied = 0 + Len(bytes) /\ after[1].dest = Over(bytes, r.dest)
    BY <2>1, <2>3, <2>4
  <2>7. ~after[1].more
    BY <2>1, <2>3, <2>5
  <2>8. QED BY <2>4, <2>6, <2>7
<1> HIDE DEF r, bytes
<1>7. after[size] = after[1]
  <2> DEFINE E == {t \in Nat : t + 1 <= size => after[t + 1] = after[1]}
  <2>1. 0 \in E
    OBVIOUS
  <2>2. ASSUME NEW t \in Nat, t \in E PROVE t + 1 \in E
    <3>1. SUFFICES ASSUME (t + 1) + 1 <= size PROVE after[(t + 1) + 1] = after[1]
      OBVIOUS
    <3>2. (t + 1) + 1 \in 1 .. size /\ ((t + 1) + 1) - 1 = t + 1 /\ after[t + 1] = after[1]
      BY <1>1, <2>2, <3>1
    <3>3. after[(t + 1) + 1] = NextRead(after[t + 1], size, offset)
      BY <1>2, <3>2
    <3>4. QED BY <1>6, <3>2, <3>3 DEF NextRead
  <2> HIDE DEF E
  <2>3. size - 1 \in Nat /\ (size - 1) + 1 = size
    BY <1>1
  <2>4. size - 1 \in E
    BY <2>1, <2>2, <2>3, Induction
  <2>5. QED BY <1>1, <2>3, <2>4 DEF E
<1>8. Read(obj, size, offset).copied = Len(bytes) /\ Read(obj, size, offset).dest = Over(bytes, r.dest)
  BY <1>2, <1>6, <1>7 DEF Read
<1>9. SubSeq(Over(bytes, r.dest), 1, Len(bytes)) = bytes
  <2> DEFINE over == Over(bytes, r.dest)
             n == Len(bytes)
  <2>1. bytes \in Seq(Cells)
    BY <1>5, SeqOfMore DEF Cells
  <2>2. /\ over \in Seq(Cells) /\ Len(over) = size
        /\ \A i \in 1 .. size : over[i] = IF i <= n THEN bytes[i] ELSE r.dest[i]
    BY <1>4, <2>1, OverType
  <2>3. n \in Nat /\ n <= size /\ \A i \in 1 .. n : over[i] = bytes[i]
    BY <1>1, <1>5, <2>2
  <2> HIDE DEF over
  <2>4. /\ SubSeq(over, 1, n) \in Seq(Cells) /\ Len(SubSeq(over, 1, n)) = n
        /\ \A i \in 1 .. n : SubSeq(over, 1, n)[i] = over[i]
    BY <2>2, <2>3
  <2>5. SubSeq(over, 1, n) = bytes
    BY <2>1, <2>3, <2>4
  <2>6. QED BY <2>5 DEF over
<1>10. QED BY <1>8, <1>9 DEF bytes

-----------------------------------------------------------------------------
(* A line.                                                                  *)

Objects == [buffer : Seq(Stored), start : Nat, valid : Nat] \cup Results
LineStates == [obj : Objects, linesize : Nat, content : Seq(Cells), more : BOOLEAN]
FirstLine(obj) == [obj |-> obj, linesize |-> 0, content |-> <<>>, more |-> TRUE]
NextLine(l, offset) == IF l.more THEN LineTurn(l, offset) ELSE l

LEMMA ObjectsTyped ==
    ASSUME NEW obj \in Objects
    PROVE  Typed(obj)
BY DEF Objects, Results, Typed

LEMMA LineTurnIs ==
    ASSUME FileType, NEW l \in LineStates, NEW offset \in Nat
    PROVE  LET n == l.linesize + LineBuffer
               r == Read(l.obj, n, offset)
           IN  /\ LineTurn(l, offset) \in LineStates
               /\ LineTurn(l, offset).linesize = n
               /\ LineTurn(l, offset).content = SubSeq(r.dest, 1, r.copied)
               /\ LineTurn(l, offset).more = ~LineEnds(SubSeq(r.dest, 1, r.copied), n)
<1> DEFINE n == l.linesize + LineBuffer
           r == Read(l.obj, n, offset)
           content == SubSeq(r.dest, 1, r.copied)
<1>1. l.obj \in Objects /\ n \in Nat
  BY Parameters DEF LineStates
<1> HIDE DEF n
<1>2. Typed(l.obj)
  BY <1>1, ObjectsTyped
<1>3. r \in Results /\ r.copied \in 0 .. n /\ Len(r.dest) = n
  BY <1>1, <1>2, ReadResult
<1>4. r.dest \in Seq(Cells) /\ r \in Objects
  BY <1>3 DEF Results, Objects
<1> HIDE DEF r
<1>5. content \in Seq(Cells)
  BY <1>1, <1>3, <1>4
<1>6. LineTurn(l, offset) = [obj |-> r, linesize |-> n, content |-> content, more |-> ~LineEnds(content, n)]
  BY DEF LineTurn, r, n
<1>7. (~LineEnds(content, n)) \in BOOLEAN
  BY DEF LineEnds
<1> HIDE DEF content
<1>8. LineTurn(l, offset) \in LineStates
  BY <1>1, <1>4, <1>5, <1>6, <1>7 DEF LineStates
<1>9. /\ LineTurn(l, offset).linesize = n /\ LineTurn(l, offset).content = content
      /\ LineTurn(l, offset).more = ~LineEnds(content, n)
  BY <1>6
<1> HIDE DEF LineStates
<1>10. QED BY <1>8, <1>9 DEF content, r, n

LineTurns(after, obj, offset) ==
    /\ after \in [0 .. MaxFile + 1 -> LineStates]
    /\ after[0] = FirstLine(obj)
    /\ \A t \in 1 .. MaxFile + 1 : after[t] = NextLine(after[t - 1], offset)
    /\ ReadLine(obj, offset) = [obj |-> after[MaxFile + 1].obj,
                                line |-> UpToNewline(after[MaxFile + 1].content)]

LEMMA LineIsLoop ==
    ASSUME FileType, NEW obj \in Objects, NEW offset \in Nat
    PROVE  \E after : LineTurns(after, obj, offset)
<1> DEFINE turns == MaxFile + 1
           base == FirstLine(obj)
           loop == CHOOSE after : after =
                       [turn \in 0 .. turns |-> IF turn = 0 THEN base ELSE NextLine(after[turn - 1], offset)]
           step == [l \in LineStates |-> NextLine(l, offset)]
<1>1. ReadLine(obj, offset) = [obj |-> loop[turns].obj, line |-> UpToNewline(loop[turns].content)]
  BY DEF ReadLine, FirstLine, NextLine
<1>2. base \in LineStates /\ turns \in Nat
  BY Parameters DEF FirstLine, LineStates
<1>3. step \in [LineStates -> LineStates]
  <2>1. ASSUME NEW l \in LineStates PROVE NextLine(l, offset) \in LineStates
    BY LineTurnIs DEF NextLine
  <2>2. QED BY <2>1
<1> HIDE DEF base, turns
<1>4. PICK g : Turns(g, LineStates, base, step, turns)
  <2> HIDE DEF step
  <2>1. QED BY <1>2, <1>3, Loop
<1>5. /\ g \in [0 .. turns -> LineStates] /\ g[0] = base
      /\ \A t \in 1 .. turns : g[t] = NextLine(g[t - 1], offset)
  <2>1. g \in [0 .. turns -> LineStates] /\ g[0] = base
    BY <1>4 DEF Turns
  <2>2. ASSUME NEW t \in 1 .. turns PROVE g[t] = NextLine(g[t - 1], offset)
    <3>1. t - 1 \in 0 .. turns
      BY <1>2
    <3>2. g[t - 1] \in LineStates
      BY <2>1, <3>1
    <3>3. g[t] = step[g[t - 1]]
      BY <1>4 DEF Turns
    <3>4. QED BY <3>2, <3>3
  <2>3. QED BY <2>1, <2>2
<1> HIDE DEF step
<1>6. g = [turn \in 0 .. turns |-> IF turn = 0 THEN base ELSE NextLine(g[turn - 1], offset)]
  <2> DEFINE h == [turn \in 0 .. turns |-> IF turn = 0 THEN base ELSE NextLine(g[turn - 1], offset)]
  <2>1. ASSUME NEW turn \in 0 .. turns PROVE g[turn] = h[turn]
    <3>1. CASE turn = 0
      BY <1>5, <3>1
    <3>2. CASE turn # 0
      BY <1>2, <1>5, <3>2
    <3>3. QED BY <3>1, <3>2
  <2>2. DOMAIN g = 0 .. turns /\ DOMAIN h = 0 .. turns
    BY <1>5
  <2>3. QED BY <1>5, <2>1, <2>2
<1>7. loop = [turn \in 0 .. turns |-> IF turn = 0 THEN base ELSE NextLine(loop[turn - 1], offset)]
  BY <1>6
<1> HIDE DEF loop
<1>8. loop[0] = base /\ \A t \in 1 .. turns : loop[t] = NextLine(loop[t - 1], offset)
  BY <1>2, <1>7
<1> DEFINE E == {t \in Nat : t <= turns => loop[t] = g[t]}
<1>9. \A t \in Nat : t \in E
  <2>1. 0 \in E
    BY <1>5, <1>8
  <2>2. ASSUME NEW t \in Nat, t \in E PROVE t + 1 \in E
    <3>1. SUFFICES ASSUME t + 1 <= turns PROVE loop[t + 1] = g[t + 1]
      OBVIOUS
    <3>2. t + 1 \in 1 .. turns /\ (t + 1) - 1 = t /\ loop[t] = g[t]
      BY <1>2, <2>2, <3>1
    <3>3. QED BY <1>5, <1>8, <3>2
  <2> HIDE DEF E
  <2>3. QED BY <2>1, <2>2, Induction
<1>10. loop[turns] = g[turns]
  BY <1>2, <1>9
<1>11. LineTurns(g, obj, offset)
  BY <1>1, <1>5, <1>10 DEF base, turns, LineTurns
<1>12. QED BY <1>11

LEMMA SmallestIs ==
    ASSUME NEW S, S \subseteq Nat, S # {}
    PROVE  Min(S) \in S /\ \A i \in S : Min(S) <= i
BY Smallest DEF Min

LEMMA UpToNewlineIs ==
    ASSUME NEW content \in Seq(Cells)
    PROVE  /\ UpToNewline(content) \in Seq(Cells) /\ Len(UpToNewline(content)) <= Len(content)
           /\ \A i \in 1 .. Len(UpToNewline(content)) :
                UpToNewline(content)[i] = content[i] /\ content[i] # Newline
           /\ \/ Len(UpToNewline(content)) = Len(content)
              \/ content[Len(UpToNewline(content)) + 1] = Newline
           /\ Contains(content, Newline) => Len(UpToNewline(content)) < Len(content)
<1> DEFINE S == {i \in DOMAIN content : content[i] = Newline}
           m == Min(S)
<1>1. CASE Contains(content, Newline)
  <2>1. S \subseteq Nat /\ S # {} /\ S \subseteq 1 .. Len(content)
    BY <1>1 DEF Contains
  <2>2. m \in S /\ \A i \in S : m <= i
    <3> HIDE DEF S
    <3>1. QED BY <2>1, SmallestIs
  <2>3. m \in 1 .. Len(content) /\ content[m] = Newline
    BY <2>1, <2>2
  <2>4. ASSUME NEW i \in 1 .. m - 1 PROVE content[i] # Newline
    <3>1. i \in DOMAIN content /\ ~(m <= i)
      BY <2>3
    <3>2. QED BY <2>2, <3>1
  <2>5. UpToNewline(content) = SubSeq(content, 1, m - 1)
    BY <1>1 DEF UpToNewline
  <2> HIDE DEF m
  <2>6. /\ SubSeq(content, 1, m - 1) \in Seq(Cells) /\ Len(SubSeq(content, 1, m - 1)) = m - 1
        /\ \A i \in 1 .. m - 1 : SubSeq(content, 1, m - 1)[i] = content[i]
    BY <2>3
  <2>7. Len(UpToNewline(content)) = m - 1 /\ (m - 1) + 1 = m /\ m - 1 < Len(content)
    BY <2>3, <2>5, <2>6
  <2>8. QED BY <2>3, <2>4, <2>5, <2>6, <2>7
<1>2. CASE ~Contains(content, Newline)
  <2>1. UpToNewline(content) = content
    BY <1>2 DEF UpToNewline
  <2>2. QED BY <1>2, <2>1 DEF Contains
<1>3. QED BY <1>1, <1>2

\* What ReadLine returns at an offset: bytes of the file up to a newline or the end.
IsLine(line, offset) ==
    /\ line \in Seq(Cells) /\ (line = <<>> \/ offset + Len(line) <= Len(file))
    /\ line = SubSeq(file, offset + 1, offset + Len(line))
    /\ \A i \in offset + 1 .. offset + Len(line) : file[i] # Newline
    /\ offset + Len(line) >= Len(file) \/ file[offset + Len(line) + 1] = Newline

LEMMA LineOfContent ==
    ASSUME FileType, NEW offset \in Nat, NEW n \in Nat \ {0},
           LineEnds(PRead(n, offset), n)
    PROVE  IsLine(UpToNewline(PRead(n, offset)), offset)
<1> DEFINE content == PRead(n, offset)
           line == UpToNewline(content)
<1>1. file \in Seq(Stored) /\ Len(file) \in Nat
  BY DEF FileType
<1>2. content \in Seq(Stored)
  BY PReadIs
<1>3. /\ offset + Len(content) <= Len(file) \/ Len(content) = 0
      /\ Len(content) < n => offset + Len(content) >= Len(file)
  BY PReadIs
<1>4. \A i \in 1 .. Len(content) : content[i] = file[offset + i]
  BY PReadIs
<1>5. content \in Seq(Cells)
  BY <1>2, SeqOfMore DEF Cells
<1>6. Contains(content, Newline) \/ Len(content) < n
  BY DEF LineEnds
<1> HIDE DEF content
<1>7. line \in Seq(Cells) /\ Len(line) <= Len(content) /\ Len(line) \in Nat
  BY <1>5, UpToNewlineIs
<1>8. \A i \in 1 .. Len(line) : line[i] = content[i] /\ content[i] # Newline
  BY <1>5, UpToNewlineIs
<1>9. /\ Len(line) = Len(content) \/ content[Len(line) + 1] = Newline
      /\ Contains(content, Newline) => Len(line) < Len(content)
  BY <1>5, UpToNewlineIs
<1> HIDE DEF line
<1>10. offset + Len(line) <= Len(file) \/ Len(line) = 0
  BY <1>1, <1>2, <1>3, <1>7
<1>11. ASSUME NEW i \in 1 .. Len(line) PROVE line[i] = file[offset + i] /\ file[offset + i] # Newline
  <2>1. i \in 1 .. Len(content)
    BY <1>2, <1>7
  <2>2. QED BY <1>4, <1>8, <2>1
<1>12. ASSUME NEW i \in offset + 1 .. offset + Len(line) PROVE file[i] # Newline
  <2>1. i - offset \in 1 .. Len(line) /\ offset + (i - offset) = i
    BY <1>7
  <2>2. QED BY <1>11, <2>1
<1>13. offset + Len(line) >= Len(file) \/ file[offset + Len(line) + 1] = Newline
  <2>1. CASE Len(line) = Len(content)
    BY <1>1, <1>2, <1>3, <1>6, <1>9, <2>1
  <2>2. CASE Len(line) # Len(content)
    <3>1. Len(line) + 1 \in 1 .. Len(content) /\ offset + (Len(line) + 1) = offset + Len(line) + 1
      BY <1>2, <1>7, <2>2
    <3>2. content[Len(line) + 1] = Newline
      BY <1>9, <2>2
    <3>3. file[offset + (Len(line) + 1)] = Newline
      BY <1>4, <3>1, <3>2
    <3>4. QED BY <3>1, <3>3
  <2>3. QED BY <2>1, <2>2
<1>14. line = SubSeq(file, offset + 1, offset + Len(line))
  <2> DEFINE part == SubSeq(file, offset + 1, offset + Len(line))
  <2>1. CASE Len(line) = 0
    <3>1. line = <<>>
      BY <1>7, <2>1
    <3>2. part = <<>>
      BY <1>1, <2>1
    <3>3. QED BY <3>1, <3>2
  <2>2. CASE Len(line) # 0
    <3>1. offset + Len(line) <= Len(file) /\ Len(line) >= 1
      BY <1>7, <1>10, <2>2
    <3>2. /\ part \in Seq(Stored) /\ Len(part) = Len(line)
          /\ \A i \in 1 .. Len(line) : part[i] = file[offset + i]
      BY <1>1, <1>7, <3>1
    <3> HIDE DEF part
    <3>3. part \in Seq(Cells)
      BY <3>2, SeqOfMore DEF Cells
    <3>4. QED BY <1>7, <1>11, <3>2, <3>3 DEF part
  <2>3. QED BY <2>1, <2>2
<1>15. line = <<>> \/ offset + Len(line) <= Len(file)
  BY <1>7, <1>10
<1>16. IsLine(line, offset)
  BY <1>7, <1>12, <1>13, <1>14, <1>15 DEF IsLine
<1>17. QED BY <1>16 DEF line, content

LEMMA Division ==
    ASSUME NEW a \in Nat, NEW d \in Nat \ {0}, a % d = 0
    PROVE  \E q \in Nat : a = q * d
<1>1. a \div d \in Nat /\ a = (a \div d) * d + (a % d)
  OBVIOUS
<1>2. QED BY <1>1

LEMMA MultiplesGrow ==
    ASSUME NEW p \in Nat, NEW q \in Nat, NEW d \in Nat, p <= q
    PROVE  p * d <= q * d
OBVIOUS

\* After t turns: the line goes on, and what was read of it fits a chunk with the next
\* turn; or it is over.
LineInv(t, l, offset) ==
    \/ /\ l.more /\ l.linesize = t * LineBuffer /\ l.linesize + LineBuffer <= Chunk
       /\ t = 0 \/ offset + l.linesize <= Len(file)
    \/ /\ ~l.more
       /\ \E n \in 1 .. Chunk : l.content = PRead(n, offset) /\ LineEnds(PRead(n, offset), n)

LEMMA LineStep ==
    ASSUME FileType, LinesFit, NEW offset \in Nat, NEW t \in Nat, NEW l \in LineStates,
           LineInv(t, l, offset)
    PROVE  LineInv(t + 1, NextLine(l, offset), offset)
<1>1. CASE ~l.more
  BY <1>1 DEF LineInv, NextLine
<1>2. CASE l.more
  <2> DEFINE n == l.linesize + LineBuffer
             r == Read(l.obj, n, offset)
             bytes == PRead(n, offset)
             next == LineTurn(l, offset)
  <2>1. /\ l.linesize = t * LineBuffer /\ n <= Chunk /\ LineBuffer \in Nat \ {0} /\ Chunk \in Nat \ {0}
        /\ l.linesize \in Nat
    BY <1>2, Parameters DEF LineInv, LineStates
  <2>2. n \in 1 .. Chunk /\ n = (t + 1) * LineBuffer
    BY <2>1
  <2>3. Typed(l.obj)
    BY ObjectsTyped DEF LineStates
  <2>4. /\ next.linesize = n /\ next.content = SubSeq(r.dest, 1, r.copied)
        /\ next.more = ~LineEnds(SubSeq(r.dest, 1, r.copied), n)
    BY LineTurnIs
  <2> HIDE DEF n, next
  <2>5. SubSeq(r.dest, 1, r.copied) = bytes
    BY <2>2, <2>3, SmallRead
  <2>6. NextLine(l, offset) = next
    BY <1>2 DEF NextLine, next
  <2> HIDE DEF r
  <2>7. CASE LineEnds(bytes, n)
    BY <2>2, <2>4, <2>5, <2>6, <2>7 DEF LineInv
  <2>8. CASE ~LineEnds(bytes, n)
    <3>1. n \in Int /\ n >= 0 /\ n >= 1
      BY <2>1, <2>2
    <3>2. bytes \in Seq(Stored) /\ Len(bytes) <= n /\ (offset + Len(bytes) <= Len(file) \/ Len(bytes) = 0)
      <4>1. /\ bytes \in Seq(Stored) /\ (n >= 0 => Len(bytes) <= n)
            /\ (offset + Len(bytes) <= Len(file) \/ Len(bytes) = 0)
        BY <3>1, PReadIs
      <4>2. QED BY <3>1, <4>1
    <3>3. \A i \in 1 .. Len(bytes) : bytes[i] = file[offset + i]
      BY <3>1, PReadIs
    <3> HIDE DEF bytes
    <3>4. Len(bytes) = n /\ ~Contains(bytes, Newline)
      BY <2>8, <3>1, <3>2 DEF LineEnds
    <3>5. offset + n <= Len(file)
      BY <3>1, <3>2, <3>4
    <3>6. n # Chunk
      <4>1. SUFFICES ASSUME n = Chunk PROVE FALSE
        OBVIOUS
      <4>2. offset \in 0 .. Len(file) /\ Len(file) \in Nat
        BY <2>1, <3>5, <4>1 DEF FileType
      <4>3. PICK i \in offset + 1 .. offset + Chunk : file[i] = Newline
        BY <3>5, <4>1, <4>2 DEF LinesFit
      <4>4. i - offset \in 1 .. Len(bytes) /\ offset + (i - offset) = i
        BY <2>1, <3>4, <4>1
      <4>5. bytes[i - offset] = Newline
        BY <3>3, <4>3, <4>4
      <4>6. QED BY <3>4, <4>4, <4>5 DEF Contains
    <3>7. n + LineBuffer <= Chunk
      <4>1. PICK q \in Nat : Chunk = q * LineBuffer
        BY <2>1, Parameters, Division
      <4>2. t + 1 < q
        <5>1. SUFFICES ASSUME q <= t + 1 PROVE FALSE
          BY <4>1
        <5>2. q * LineBuffer <= (t + 1) * LineBuffer
          BY <2>1, <4>1, <5>1, MultiplesGrow
        <5>3. QED BY <2>1, <2>2, <3>6, <4>1, <5>2
      <4>3. ((t + 1) + 1) * LineBuffer <= q * LineBuffer
        BY <2>1, <4>1, <4>2, MultiplesGrow
      <4>4. ((t + 1) + 1) * LineBuffer = (t + 1) * LineBuffer + LineBuffer
        BY <2>1
      <4>5. QED BY <2>2, <4>1, <4>3, <4>4
    <3>8. next.more /\ next.linesize = n
      BY <2>4, <2>5, <2>8
    <3>9. QED BY <2>2, <2>6, <3>5, <3>7, <3>8 DEF LineInv
  <2>9. QED BY <2>7, <2>8
<1>3. QED BY <1>1, <1>2

\* Every line of a file whose lines fit a chunk is read to its end.
LEMMA LineIs ==
    ASSUME FileType, LinesFit, NEW obj \in Objects, NEW offset \in Nat
    PROVE  ReadLine(obj, offset).obj \in Objects /\ IsLine(ReadLine(obj, offset).line, offset)
<1>1. PICK after : LineTurns(after, obj, offset)
  BY LineIsLoop
<1> DEFINE turns == MaxFile + 1
<1>2. turns \in Nat /\ turns > MaxFile
  BY Parameters
<1>3. /\ after \in [0 .. turns -> LineStates] /\ after[0] = FirstLine(obj)
      /\ \A t \in 1 .. turns : after[t] = NextLine(after[t - 1], offset)
      /\ ReadLine(obj, offset).obj = after[turns].obj
      /\ ReadLine(obj, offset).line = UpToNewline(after[turns].content)
  BY <1>1 DEF LineTurns
<1> DEFINE E == {t \in Nat : t <= turns => LineInv(t, after[t], offset)}
<1> HIDE DEF turns
<1>4. 0 \in E
  <2>1. LineBuffer <= Chunk /\ LineBuffer \in Nat
    <3>1. PICK q \in Nat : Chunk = q * LineBuffer
      BY Parameters, Division
    <3>2. q >= 1
      BY <3>1, Parameters
    <3>3. 1 * LineBuffer <= q * LineBuffer
      BY <3>2, Parameters, MultiplesGrow
    <3>4. QED BY <3>1, <3>3, Parameters
  <2>2. after[0].more /\ after[0].linesize = 0
    BY <1>3 DEF FirstLine
  <2>3. QED BY <2>1, <2>2 DEF LineInv
<1>5. ASSUME NEW t \in Nat, t \in E PROVE t + 1 \in E
  <2>1. SUFFICES ASSUME t + 1 <= turns PROVE LineInv(t + 1, after[t + 1], offset)
    OBVIOUS
  <2>2. t + 1 \in 1 .. turns /\ t \in 0 .. turns /\ (t + 1) - 1 = t /\ LineInv(t, after[t], offset)
    BY <1>2, <1>5, <2>1
  <2>3. after[t] \in LineStates /\ after[t + 1] = NextLine(after[t], offset)
    BY <1>3, <2>2
  <2>4. QED BY <2>2, <2>3, LineStep
<1>6. LineInv(turns, after[turns], offset)
  <2> HIDE DEF E
  <2>1. turns \in E
    BY <1>2, <1>4, <1>5, Induction
  <2>2. QED BY <1>2, <2>1 DEF E
<1>7. ~after[turns].more
  <2>1. SUFFICES ASSUME after[turns].more PROVE FALSE
    OBVIOUS
  <2>2. offset + turns * LineBuffer <= Len(file) /\ Len(file) <= MaxFile /\ Len(file) \in Nat
    BY <1>2, <1>6, <2>1, Parameters DEF LineInv, FileType
  <2>3. turns * 1 <= turns * LineBuffer /\ turns * LineBuffer \in Nat
    BY <1>2, Parameters
  <2>4. QED BY <1>2, <2>2, <2>3, Parameters
<1>8. PICK n \in 1 .. Chunk : after[turns].content = PRead(n, offset) /\ LineEnds(PRead(n, offset), n)
  BY <1>6, <1>7 DEF LineInv
<1>9. n \in Nat \ {0}
  BY Parameters
<1>10. IsLine(UpToNewline(PRead(n, offset)), offset)
  BY <1>8, <1>9, LineOfContent
<1>11. after[turns] \in LineStates
  BY <1>2, <1>3
<1>12. after[turns].obj \in Objects
  BY <1>11 DEF LineStates
<1>13. QED BY <1>3, <1>8, <1>10, <1>12

-----------------------------------------------------------------------------
(* All lines.                                                               *)

FileStates == [obj : Objects, offset : Nat, lines : Seq(Seq(Cells)), more : BOOLEAN]
FirstLines(obj) == [obj |-> obj, offset |-> 0, lines |-> <<>>, more |-> TRUE]
NextLines(s) == IF s.more THEN LinesTurn(s) ELSE s

LEMMA LinesTurnIs ==
    ASSUME FileType, LinesFit, NEW s \in FileStates
    PROVE  LET next == ReadLine(s.obj, s.offset)
           IN  /\ LinesTurn(s) \in FileStates
               /\ IsLine(next.line, s.offset)
               /\ next.line = <<>> => /\ LinesTurn(s).offset = s.offset
                                      /\ LinesTurn(s).lines = s.lines /\ ~LinesTurn(s).more
               /\ next.line # <<>> => /\ LinesTurn(s).offset = s.offset + Len(next.line) + 1
                                      /\ LinesTurn(s).lines = Append(s.lines, next.line)
                                      /\ LinesTurn(s).more
<1> DEFINE next == ReadLine(s.obj, s.offset)
<1>1. s.obj \in Objects /\ s.offset \in Nat /\ s.lines \in Seq(Seq(Cells))
  BY DEF FileStates
<1>2. next.obj \in Objects /\ IsLine(next.line, s.offset)
  BY <1>1, LineIs
<1>3. next.line \in Seq(Cells)
  BY <1>2 DEF IsLine
<1>4. CASE next.line = <<>>
  <2>1. LinesTurn(s) = [s EXCEPT !.obj = next.obj, !.more = FALSE]
    BY <1>4 DEF LinesTurn
  <2> HIDE DEF next
  <2>2. LinesTurn(s) \in FileStates
    BY <1>2, <2>1 DEF FileStates
  <2>3. LinesTurn(s).offset = s.offset /\ LinesTurn(s).lines = s.lines /\ ~LinesTurn(s).more
    BY <2>1 DEF FileStates
  <2>4. QED BY <1>2, <1>4, <2>2, <2>3 DEF next
<1>5. CASE next.line # <<>>
  <2>1. LinesTurn(s) = [obj |-> next.obj, offset |-> NextOffset(s.offset, next.line),
                        lines |-> Append(s.lines, next.line), more |-> TRUE]
    BY <1>5 DEF LinesTurn
  <2> HIDE DEF next
  <2>2. NextOffset(s.offset, next.line) = s.offset + Len(next.line) + 1
        /\ NextOffset(s.offset, next.line) \in Nat
    BY <1>1, <1>3 DEF NextOffset
  <2>3. Append(s.lines, next.line) \in Seq(Seq(Cells))
    BY <1>1, <1>3
  <2>4. LinesTurn(s) \in FileStates
    BY <1>2, <2>1, <2>2, <2>3 DEF FileStates
  <2>5. /\ LinesTurn(s).offset = s.offset + Len(next.line) + 1
        /\ LinesTurn(s).lines = Append(s.lines, next.line) /\ LinesTurn(s).more
    BY <2>1, <2>2
  <2>6. QED BY <1>2, <1>5, <2>4, <2>5 DEF next
<1>6. QED BY <1>4, <1>5

FileTurns(after, obj) ==
    /\ after \in [0 .. MaxFile + 1 -> FileStates]
    /\ after[0] = FirstLines(obj)
    /\ \A t \in 1 .. MaxFile + 1 : after[t] = NextLines(after[t - 1])
    /\ AllLines(obj) = after[MaxFile + 1]

LEMMA AllLinesIsLoop ==
    ASSUME FileType, LinesFit, NEW obj \in Objects
    PROVE  \E after : FileTurns(after, obj)
<1> DEFINE turns == MaxFile + 1
           base == FirstLines(obj)
           loop == CHOOSE after : after =
                       [turn \in 0 .. turns |-> IF turn = 0 THEN base ELSE NextLines(after[turn - 1])]
           step == [s \in FileStates |-> NextLines(s)]
<1>1. AllLines(obj) = loop[turns]
  BY DEF AllLines, FirstLines, NextLines
<1>2. base \in FileStates /\ turns \in Nat
  BY Parameters DEF FirstLines, FileStates
<1>3. step \in [FileStates -> FileStates]
  <2>1. ASSUME NEW s \in FileStates PROVE NextLines(s) \in FileStates
    BY LinesTurnIs DEF NextLines
  <2>2. QED BY <2>1
<1> HIDE DEF base, turns
<1>4. PICK g : Turns(g, FileStates, base, step, turns)
  <2> HIDE DEF step
  <2>1. QED BY <1>2, <1>3, Loop
<1>5. /\ g \in [0 .. turns -> FileStates] /\ g[0] = base
      /\ \A t \in 1 .. turns : g[t] = NextLines(g[t - 1])
  <2>1. g \in [0 .. turns -> FileStates] /\ g[0] = base
    BY <1>4 DEF Turns
  <2>2. ASSUME NEW t \in 1 .. turns PROVE g[t] = NextLines(g[t - 1])
    <3>1. t - 1 \in 0 .. turns
      BY <1>2
    <3>2. g[t - 1] \in FileStates
      BY <2>1, <3>1
    <3>3. g[t] = step[g[t - 1]]
      BY <1>4 DEF Turns
    <3>4. QED BY <3>2, <3>3
  <2>3. QED BY <2>1, <2>2
<1> HIDE DEF step
<1>6. g = [turn \in 0 .. turns |-> IF turn = 0 THEN base ELSE NextLines(g[turn - 1])]
  <2> DEFINE h == [turn \in 0 .. turns |-> IF turn = 0 THEN base ELSE NextLines(g[turn - 1])]
  <2>1. ASSUME NEW turn \in 0 .. turns PROVE g[turn] = h[turn]
    <3>1. CASE turn = 0
      BY <1>5, <3>1
    <3>2. CASE turn # 0
      BY <1>2, <1>5, <3>2
    <3>3. QED BY <3>1, <3>2
  <2>2. DOMAIN g = 0 .. turns /\ DOMAIN h = 0 .. turns
    BY <1>5
  <2>3. QED BY <1>5, <2>1, <2>2
<1>7. loop = [turn \in 0 .. turns |-> IF turn = 0 THEN base ELSE NextLines(loop[turn - 1])]
  BY <1>6
<1> HIDE DEF loop
<1>8. loop[0] = base /\ \A t \in 1 .. turns : loop[t] = NextLines(loop[t - 1])
  BY <1>2, <1>7
<1> DEFINE E == {t \in Nat : t <= turns => loop[t] = g[t]}
<1>9. \A t \in Nat : t \in E
  <2>1. 0 \in E
    BY <1>5, <1>8
  <2>2. ASSUME NEW t \in Nat, t \in E PROVE t + 1 \in E
    <3>1. SUFFICES ASSUME t + 1 <= turns PROVE loop[t + 1] = g[t + 1]
      OBVIOUS
    <3>2. t + 1 \in 1 .. turns /\ (t + 1) - 1 = t /\ loop[t] = g[t]
      BY <1>2, <2>2, <3>1
    <3>3. QED BY <1>5, <1>8, <3>2
  <2> HIDE DEF E
  <2>3. QED BY <2>1, <2>2, Induction
<1>10. loop[turns] = g[turns]
  BY <1>2, <1>9
<1>11. FileTurns(g, obj)
  BY <1>1, <1>5, <1>10 DEF base, turns, FileTurns
<1>12. QED BY <1>11

\* Where the n-th line begins if the lines before it end at ends.
Begin(ends, n) == IF n = 1 THEN 1 ELSE ends[n - 1] + 2
\* The lines read so far.
AreLines(lines, ends) ==
    /\ ends \in [1 .. Len(lines) -> 1 .. Len(file)]
    /\ \A n \in 1 .. Len(lines) : /\ LineAt(Begin(ends, n), ends[n])
                                  /\ Begin(ends, n) <= ends[n]
                                  /\ lines[n] = SubSeq(file, Begin(ends, n), ends[n])
LinesInv(t, s) ==
    /\ \E ends : AreLines(s.lines, ends) /\ s.offset + 1 = Begin(ends, Len(s.lines) + 1)
    /\ s.more => s.offset >= 2 * t /\ (t = 0 \/ s.offset <= Len(file) + 1)
    /\ ~s.more => s.offset + 1 > Len(file) \/ file[s.offset + 1] = Newline

LEMMA LinesStep ==
    ASSUME FileType, LinesFit, NEW t \in Nat, NEW s \in FileStates, LinesInv(t, s)
    PROVE  LinesInv(t + 1, NextLines(s))
<1>1. CASE ~s.more
  BY <1>1 DEF LinesInv, NextLines
<1>2. CASE s.more
  <2> DEFINE line == ReadLine(s.obj, s.offset).line
             next == LinesTurn(s)
             n == Len(s.lines)
  <2>1. PICK ends : AreLines(s.lines, ends) /\ s.offset + 1 = Begin(ends, n + 1)
    BY DEF LinesInv
  <2>2. s.offset \in Nat /\ s.lines \in Seq(Seq(Cells)) /\ n \in Nat /\ Len(file) \in Nat
    BY DEF FileStates, FileType
  <2>3. IsLine(line, s.offset)
    BY LinesTurnIs
  <2>4. line = <<>> => next.offset = s.offset /\ next.lines = s.lines /\ ~next.more
    BY LinesTurnIs
  <2>5. line # <<>> => /\ next.offset = s.offset + Len(line) + 1
                       /\ next.lines = Append(s.lines, line) /\ next.more
    BY LinesTurnIs
  <2> HIDE DEF line, next
  <2>6. NextLines(s) = next
    BY <1>2 DEF NextLines, next
  <2>7. CASE line = <<>>
    <3>1. Len(line) = 0
      BY <2>7
    <3>2. s.offset >= Len(file) \/ file[s.offset + 1] = Newline
      <4>1. s.offset + Len(line) >= Len(file) \/ file[s.offset + Len(line) + 1] = Newline
        BY <2>3 DEF IsLine
      <4>2. s.offset + Len(line) = s.offset /\ s.offset + Len(line) + 1 = s.offset + 1
        BY <2>2, <3>1
      <4>3. QED BY <4>1, <4>2
    <3>3. s.offset + 1 > Len(file) \/ file[s.offset + 1] = Newline
      BY <2>2, <3>2
    <3>4. LinesInv(t + 1, next)
      BY <2>1, <2>4, <2>7, <3>3 DEF LinesInv
    <3>5. QED BY <2>6, <3>4
  <2>8. CASE line # <<>>
    <3> DEFINE to == s.offset + Len(line)
               ends2 == [k \in 1 .. n + 1 |-> IF k <= n THEN ends[k] ELSE to]
    <3>1. /\ line \in Seq(Cells) /\ to <= Len(file) /\ line = SubSeq(file, s.offset + 1, to)
          /\ \A i \in s.offset + 1 .. to : file[i] # Newline
          /\ to >= Len(file) \/ file[to + 1] = Newline
      BY <2>3, <2>8 DEF IsLine
    <3>2. Len(line) \in Nat /\ Len(line) >= 1
      BY <2>8, <3>1
    <3>3. to \in 1 .. Len(file) /\ s.offset + 1 <= to
      BY <2>2, <3>1, <3>2
    <3>4. /\ next.offset = to + 1 /\ next.lines = Append(s.lines, line) /\ next.more
      BY <2>5, <2>8
    <3>5. /\ Len(next.lines) = n + 1 /\ next.lines[n + 1] = line
          /\ \A k \in 1 .. n : next.lines[k] = s.lines[k]
      BY <2>2, <3>1, <3>4
    <3>6. ends \in [1 .. n -> 1 .. Len(file)]
      BY <2>1 DEF AreLines
    <3> HIDE DEF to
    <3>7. ends2 \in [1 .. n + 1 -> 1 .. Len(file)]
      BY <2>2, <3>3, <3>6
    <3>8. \A k \in 1 .. n : ends2[k] = ends[k] /\ Begin(ends2, k) = Begin(ends, k)
      BY <2>2 DEF Begin
    <3>9. Begin(ends2, n + 1) = s.offset + 1
      BY <2>1, <2>2 DEF Begin
    <3>10. ends2[n + 1] = to
      BY <2>2
    <3> HIDE DEF ends2
    <3>11. LineAt(s.offset + 1, to)
      <4>1. s.offset + 1 = 1 \/ file[(s.offset + 1) - 1] = Newline
        <5>1. CASE n = 0
          BY <2>1, <5>1 DEF Begin
        <5>2. CASE n # 0
          <6>1. n \in 1 .. n /\ (n + 1) - 1 = n
            BY <2>2, <5>2
          <6>2. s.offset + 1 = ends[n] + 2 /\ ends[n] \in 1 .. Len(file)
            <7>1. n + 1 # 1
              BY <2>2, <5>2
            <7>2. Begin(ends, n + 1) = ends[n] + 2
              BY <6>1, <7>1 DEF Begin
            <7>3. ends[n] \in 1 .. Len(file)
              BY <3>6, <6>1
            <7>4. QED BY <2>1, <7>2, <7>3
          <6>3. LineAt(Begin(ends, n), ends[n])
            BY <2>1, <6>1 DEF AreLines
          <6>4. ends[n] = Len(file) \/ file[ends[n] + 1] = Newline
            BY <6>3 DEF LineAt
          <6>5. ends[n] # Len(file) /\ (s.offset + 1) - 1 = ends[n] + 1
            BY <2>2, <3>3, <6>2
          <6>6. QED BY <6>4, <6>5
        <5>3. QED BY <5>1, <5>2
      <4>2. to = Len(file) \/ file[to + 1] = Newline
        BY <2>2, <3>1, <3>3
      <4>3. QED BY <3>1, <4>1, <4>2 DEF LineAt
    <3>12. ASSUME NEW k \in 1 .. n + 1
           PROVE  /\ LineAt(Begin(ends2, k), ends2[k]) /\ Begin(ends2, k) <= ends2[k]
                  /\ next.lines[k] = SubSeq(file, Begin(ends2, k), ends2[k])
      <4>1. CASE k = n + 1
        <5>1. Begin(ends2, k) = s.offset + 1 /\ ends2[k] = to /\ next.lines[k] = line
          BY <3>5, <3>9, <3>10, <4>1
        <5>2. QED BY <3>1, <3>3, <3>11, <5>1
      <4>2. CASE k # n + 1
        <5>1. k \in 1 .. n
          BY <2>2, <4>2
        <5>2. /\ LineAt(Begin(ends, k), ends[k]) /\ Begin(ends, k) <= ends[k]
              /\ s.lines[k] = SubSeq(file, Begin(ends, k), ends[k])
          BY <2>1, <5>1 DEF AreLines
        <5>3. ends2[k] = ends[k] /\ Begin(ends2, k) = Begin(ends, k) /\ next.lines[k] = s.lines[k]
          BY <3>5, <3>8, <5>1
        <5>4. QED BY <5>2, <5>3
      <4>3. QED BY <4>1, <4>2
    <3>13. AreLines(next.lines, ends2)
      BY <3>5, <3>7, <3>12 DEF AreLines
    <3>14. next.offset + 1 = Begin(ends2, Len(next.lines) + 1)
      <4>1. Len(next.lines) + 1 # 1 /\ (Len(next.lines) + 1) - 1 = n + 1
        BY <2>2, <3>5
      <4>2. Begin(ends2, Len(next.lines) + 1) = to + 2
        BY <3>10, <4>1 DEF Begin
      <4>3. QED BY <3>3, <3>4, <4>2
    <3>15. next.offset >= 2 * (t + 1) /\ next.offset <= Len(file) + 1
      <4>1. s.offset >= 2 * t
        BY <1>2 DEF LinesInv
      <4>2. to >= s.offset + 1
        BY <3>3
      <4>3. QED BY <2>2, <3>3, <3>4, <4>1, <4>2
    <3>16. LinesInv(t + 1, next)
      BY <3>4, <3>13, <3>14, <3>15 DEF LinesInv
    <3>17. QED BY <2>6, <3>16
  <2>9. QED BY <2>7, <2>8
<1>3. QED BY <1>1, <1>2

LEMMA AllLinesAre ==
    ASSUME FileType, LinesFit, NEW obj \in Objects
    PROVE  LET all == AllLines(obj)
           IN  /\ all.obj \in Objects
               /\ \E ends : /\ AreLines(all.lines, ends)
                            /\ LET rest == Begin(ends, Len(all.lines) + 1)
                               IN  rest > Len(file) \/ file[rest] = Newline
<1>1. PICK after : FileTurns(after, obj)
  BY AllLinesIsLoop
<1> DEFINE turns == MaxFile + 1
           all == AllLines(obj)
<1>2. turns \in Nat /\ Len(file) \in Nat /\ Len(file) < turns /\ turns >= 2
  BY Parameters DEF FileType
<1>3. /\ after \in [0 .. turns -> FileStates] /\ after[0] = FirstLines(obj)
      /\ \A t \in 1 .. turns : after[t] = NextLines(after[t - 1])
      /\ all = after[turns]
  BY <1>1 DEF FileTurns
<1> DEFINE E == {t \in Nat : t <= turns => LinesInv(t, after[t])}
<1> HIDE DEF turns, all
<1>4. 0 \in E
  <2>1. after[0].lines = <<>> /\ after[0].offset = 0 /\ after[0].more
    BY <1>3 DEF FirstLines
  <2> DEFINE none == [k \in 1 .. 0 |-> 1]
  <2>2. none \in [1 .. Len(after[0].lines) -> 1 .. Len(file)]
    BY <2>1
  <2>3. AreLines(after[0].lines, none)
    <3>1. 1 .. Len(after[0].lines) = {}
      BY <2>1
    <3> HIDE DEF none
    <3>2. QED BY <2>2, <3>1 DEF AreLines
  <2>4. after[0].offset + 1 = Begin(none, Len(after[0].lines) + 1)
    BY <2>1 DEF Begin
  <2> HIDE DEF none
  <2>5. LinesInv(0, after[0])
    BY <2>1, <2>3, <2>4 DEF LinesInv
  <2>6. QED BY <2>5
<1>5. ASSUME NEW t \in Nat, t \in E PROVE t + 1 \in E
  <2>1. SUFFICES ASSUME t + 1 <= turns PROVE LinesInv(t + 1, after[t + 1])
    OBVIOUS
  <2>2. t + 1 \in 1 .. turns /\ t \in 0 .. turns /\ (t + 1) - 1 = t /\ LinesInv(t, after[t])
    BY <1>2, <1>5, <2>1
  <2>3. after[t] \in FileStates /\ after[t + 1] = NextLines(after[t])
    BY <1>3, <2>2
  <2>4. QED BY <2>2, <2>3, LinesStep
<1>6. LinesInv(turns, all)
  <2> HIDE DEF E
  <2>1. turns \in E
    BY <1>2, <1>4, <1>5, Induction
  <2>2. QED BY <1>2, <1>3, <2>1 DEF E
<1>7. all \in FileStates
  BY <1>2, <1>3
<1>8. ~all.more
  <2>1. SUFFICES ASSUME all.more PROVE FALSE
    OBVIOUS
  <2>2. all.offset >= 2 * turns /\ all.offset <= Len(file) + 1 /\ all.offset \in Nat
    BY <1>2, <1>6, <1>7, <2>1 DEF LinesInv, FileStates
  <2>3. QED BY <1>2, <2>2
<1>9. PICK ends : AreLines(all.lines, ends) /\ all.offset + 1 = Begin(ends, Len(all.lines) + 1)
  BY <1>6 DEF LinesInv
<1>10. all.offset + 1 > Len(file) \/ file[all.offset + 1] = Newline
  BY <1>6, <1>8 DEF LinesInv
<1>11. all.obj \in Objects
  BY <1>7 DEF FileStates
<1>12. QED BY <1>9, <1>10, <1>11 DEF all

-----------------------------------------------------------------------------
(* The invariant.                                                           *)

IInv == TypeOK /\ SmallReadsReturnFile /\ LinesReturnFile

LEMMA Types ==
    ASSUME TypeOK
    PROVE  FileType /\ Typed(Object) /\ Object \in Objects
<1>1. FileType /\ buffer \in Seq(Stored) /\ start \in Nat /\ valid \in Nat
  BY DEF TypeOK, FileType, Stored
<1>2. QED BY <1>1 DEF Typed, Object, Objects

LEMMA InitInv == Init => IInv
<1>1. SUFFICES ASSUME Init PROVE IInv
  OBVIOUS
<1>2. PICK n \in 0 .. MaxFile : file \in [1 .. n -> Bytes]
  BY <1>1 DEF Init
<1>3. n \in Nat /\ n <= MaxFile
  BY <1>2, Parameters
<1>4. \A i \in 1 .. n : file[i] \in Bytes \cup {0}
  BY <1>2
<1>5. file \in Seq(Bytes \cup {0}) /\ Len(file) = n
  BY <1>2, <1>3, <1>4
<1>6. answer.kind = "none"
  BY <1>1 DEF Init, Nothing
<1>7. TypeOK
  BY <1>1, <1>3, <1>5, <1>6 DEF Init, TypeOK
<1>8. QED BY <1>6, <1>7 DEF IInv, SmallReadsReturnFile, LinesReturnFile

\* A call that changes the file leaves no answer.
LEMMA NoAnswer ==
    ASSUME answer' = Nothing
    PROVE  SmallReadsReturnFile' /\ LinesReturnFile' /\ answer'.kind = "none"
BY DEF Nothing, SmallReadsReturnFile, LinesReturnFile

LEMMA ReadStep ==
    ASSUME IInv, NEW size \in 1 .. MaxRead, NEW offset \in 0 .. MaxFile, ReadType(size, offset)
    PROVE  IInv'
<1> DEFINE r == Read(Object, size, offset)
<1>1. FileType /\ Typed(Object) /\ size \in Nat /\ size >= 1 /\ offset \in Nat
  BY Types, Parameters DEF IInv
<1>2. /\ buffer' = r.buffer /\ start' = r.start /\ valid' = r.valid /\ file' = file
      /\ answer' = [kind |-> "read", size |-> size, offset |-> offset,
                    count |-> r.copied, dest |-> r.dest]
  BY DEF ReadType, Keeps
<1>3. r \in Results
  BY <1>1, ReadResult
<1>4. size <= Chunk => /\ r.copied = Len(PRead(size, offset))
                       /\ SubSeq(r.dest, 1, r.copied) = PRead(size, offset)
  <2>1. SUFFICES ASSUME size <= Chunk
                 PROVE  /\ r.copied = Len(PRead(size, offset))
                        /\ SubSeq(r.dest, 1, r.copied) = PRead(size, offset)
    OBVIOUS
  <2>2. size \in 1 .. Chunk
    BY <1>1, <2>1, Parameters
  <2>3. QED BY <1>1, <2>2, SmallRead
<1> HIDE DEF r
<1>5. TypeOK'
  <2>1. buffer' \in Seq(Bytes \cup {0}) /\ start' \in Nat /\ valid' \in Nat
    BY <1>2, <1>3 DEF Results, Stored
  <2>2. file' \in Seq(Bytes \cup {0}) /\ Len(file') <= MaxFile
    BY <1>2 DEF IInv, TypeOK
  <2>3. answer'.kind = "read"
    BY <1>2
  <2>4. QED BY <2>1, <2>2, <2>3 DEF TypeOK
<1>6. SmallReadsReturnFile'
  BY <1>2, <1>4 DEF SmallReadsReturnFile, ReturnsFile, PRead
<1>7. LinesReturnFile'
  BY <1>2 DEF LinesReturnFile
<1>8. QED BY <1>5, <1>6, <1>7 DEF IInv

LEMMA PWriteType ==
    ASSUME FileType, NEW bytes \in Seq(Stored), NEW offset \in Nat, offset + Len(bytes) <= MaxFile
    PROVE  PWrite(bytes, offset) \in Seq(Stored) /\ Len(PWrite(bytes, offset)) <= MaxFile
<1> DEFINE size == IF offset + Len(bytes) > Len(file) THEN offset + Len(bytes) ELSE Len(file)
           byte(i) == IF i \in offset + 1 .. offset + Len(bytes) THEN bytes[i - offset]
                      ELSE IF i <= Len(file) THEN file[i] ELSE 0
<1>1. file \in Seq(Stored) /\ Len(file) \in Nat /\ Len(file) <= MaxFile /\ Len(bytes) \in Nat
  BY DEF FileType
<1>2. size \in Nat /\ size <= MaxFile
  BY <1>1
<1> HIDE DEF size
<1>3. ASSUME NEW i \in 1 .. size PROVE byte(i) \in Stored
  <2>1. i \in Nat /\ i >= 1
    BY <1>2
  <2>2. CASE i \in offset + 1 .. offset + Len(bytes)
    <3>1. i - offset \in 1 .. Len(bytes)
      BY <1>1, <2>2
    <3>2. bytes[i - offset] \in Stored
      BY <3>1
    <3>3. QED BY <2>2, <3>2
  <2>3. CASE ~(i \in offset + 1 .. offset + Len(bytes))
    <3>1. byte(i) = IF i <= Len(file) THEN file[i] ELSE 0
      BY <2>3
    <3> HIDE DEF byte
    <3>2. QED BY <1>1, <2>1, <3>1 DEF Stored
  <2>4. QED BY <2>2, <2>3
<1>4. PWrite(bytes, offset) = [i \in 1 .. size |-> byte(i)]
  BY DEF PWrite, size
<1> HIDE DEF byte
<1>5. [i \in 1 .. size |-> byte(i)] \in Seq(Stored) /\ Len([i \in 1 .. size |-> byte(i)]) = size
  BY <1>2, <1>3
<1>6. QED BY <1>2, <1>4, <1>5

LEMMA WriteStep ==
    ASSUME IInv, NEW size \in 1 .. MaxWrite, NEW offset \in 0 .. MaxFile - 1,
           NEW bytes \in [1 .. size -> Bytes], WriteType(bytes, offset)
    PROVE  IInv'
<1>1. /\ FileType /\ buffer \in Seq(Stored) /\ start \in Nat /\ valid \in Nat /\ offset \in Nat
      /\ size \in Nat
  BY Types, Parameters DEF IInv, TypeOK, Stored
<1>2. bytes \in Seq(Stored) /\ Len(bytes) = size
  BY <1>1 DEF Stored
<1>3. /\ offset + Len(bytes) <= MaxFile /\ file' = PWrite(bytes, offset) /\ answer' = Nothing
      /\ \/ start' = offset /\ valid' = Len(bytes)
         \/ start' = start /\ valid' = valid
  BY DEF WriteType
<1>4. \E kept \in {Resized(<<>>, Len(buffer)), buffer} :
          buffer' = Over(bytes, IF Len(bytes) > Len(kept) THEN Resized(kept, Len(bytes)) ELSE kept)
  BY DEF WriteType
<1>5. buffer' \in Seq(Stored)
  <2>1. PICK kept \in {Resized(<<>>, Len(buffer)), buffer} :
            buffer' = Over(bytes, IF Len(bytes) > Len(kept) THEN Resized(kept, Len(bytes)) ELSE kept)
    BY <1>4
  <2>2. Len(buffer) \in Nat /\ <<>> \in Seq(Stored)
    BY <1>1
  <2>3. Resized(<<>>, Len(buffer)) \in Seq(Stored)
    BY <2>2, ResizedType
  <2>4. kept \in Seq(Stored)
    BY <1>1, <2>1, <2>3
  <2>5. Resized(kept, Len(bytes)) \in Seq(Stored)
    BY <1>1, <1>2, <2>4, ResizedType
  <2> DEFINE into == IF Len(bytes) > Len(kept) THEN Resized(kept, Len(bytes)) ELSE kept
  <2>6. into \in Seq(Stored)
    BY <2>4, <2>5
  <2>7. buffer' = Over(bytes, into)
    BY <2>1
  <2> HIDE DEF into
  <2>8. QED BY <1>2, <2>6, <2>7, OverType
<1>6. file' \in Seq(Stored) /\ Len(file') <= MaxFile
  BY <1>1, <1>2, <1>3, PWriteType
<1>7. start' \in Nat /\ valid' \in Nat
  BY <1>1, <1>2, <1>3
<1>8. SmallReadsReturnFile' /\ LinesReturnFile' /\ answer'.kind = "none"
  BY <1>3, NoAnswer
<1>9. TypeOK'
  BY <1>5, <1>6, <1>7, <1>8 DEF TypeOK, Stored
<1>10. QED BY <1>8, <1>9 DEF IInv

LEMMA SetSizeStep ==
    ASSUME IInv, NEW newsize \in 0 .. MaxFile, SetSize(newsize)
    PROVE  IInv'
<1>1. /\ file \in Seq(Stored) /\ buffer \in Seq(Stored) /\ start \in Nat /\ valid \in Nat
      /\ newsize \in Nat /\ newsize <= MaxFile
  BY Parameters DEF IInv, TypeOK, Stored
<1>2. /\ buffer' = (IF Len(buffer) > newsize THEN Resized(buffer, newsize) ELSE buffer)
      /\ file' = Resized(file, newsize) /\ answer' = Nothing /\ start' = start /\ valid' = valid
  BY DEF SetSize
<1>3. Resized(buffer, newsize) \in Seq(Stored)
  BY <1>1, ResizedType
<1>4. Resized(file, newsize) \in Seq(Stored) /\ Len(Resized(file, newsize)) = newsize
  BY <1>1, ResizedType
<1>5. SmallReadsReturnFile' /\ LinesReturnFile' /\ answer'.kind = "none"
  BY <1>2, NoAnswer
<1>6. buffer' \in Seq(Stored)
  BY <1>1, <1>2, <1>3
<1>7. TypeOK'
  BY <1>1, <1>2, <1>4, <1>5, <1>6 DEF TypeOK, Stored
<1>8. QED BY <1>5, <1>7 DEF IInv

LEMMA LinesStepInv ==
    ASSUME IInv, GetAllLines
    PROVE  IInv'
<1> DEFINE all == AllLines(Object)
<1>1. FileType /\ LinesFit /\ Object \in Objects
  BY Types DEF IInv, GetAllLines
<1>2. /\ buffer' = all.obj.buffer /\ start' = all.obj.start /\ valid' = all.obj.valid
      /\ file' = file /\ answer' = [kind |-> "lines", lines |-> all.lines]
  BY DEF GetAllLines, Keeps
<1>3. /\ all.obj \in Objects
      /\ \E ends : /\ AreLines(all.lines, ends)
                   /\ LET rest == Begin(ends, Len(all.lines) + 1)
                      IN  rest > Len(file) \/ file[rest] = Newline
  BY <1>1, AllLinesAre
<1> HIDE DEF all
<1>4. TypeOK'
  <2>1. Typed(all.obj)
    BY <1>3, ObjectsTyped
  <2>2. buffer' \in Seq(Bytes \cup {0}) /\ start' \in Nat /\ valid' \in Nat
    BY <1>2, <2>1 DEF Typed, Stored
  <2>3. file' \in Seq(Bytes \cup {0}) /\ Len(file') <= MaxFile
    BY <1>2 DEF IInv, TypeOK
  <2>4. answer'.kind = "lines"
    BY <1>2
  <2>5. QED BY <2>2, <2>3, <2>4 DEF TypeOK
<1>5. SmallReadsReturnFile'
  BY <1>2 DEF SmallReadsReturnFile
<1>6. LinesReturnFile'
  <2>1. PICK ends : /\ AreLines(all.lines, ends)
                    /\ LET rest == Begin(ends, Len(all.lines) + 1)
                       IN  rest > Len(file) \/ file[rest] = Newline
    BY <1>3
  <2>2. answer'.lines = all.lines /\ file' = file
    BY <1>2
  <2>3. /\ ends \in [1 .. Len(answer'.lines) -> 1 .. Len(file')]
        /\ DOMAIN ends = 1 .. Len(all.lines)
    BY <2>1, <2>2 DEF AreLines
  <2>4. \A n \in DOMAIN ends : /\ LineAt(Begin(ends, n), ends[n])
                               /\ Begin(ends, n) <= ends[n]
                               /\ all.lines[n] = SubSeq(file, Begin(ends, n), ends[n])
    BY <2>1, <2>3 DEF AreLines
  <2>5. \A from, to : LineAt(from, to)' <=> LineAt(from, to)
    BY <2>2 DEF LineAt
  <2>6. QED BY <2>1, <2>2, <2>3, <2>4, <2>5 DEF LinesReturnFile, Begin
<1>7. QED BY <1>4, <1>5, <1>6 DEF IInv

LEMMA NextInv == IInv /\ [Next]_vars => IInv'
<1>1. SUFFICES ASSUME IInv, [Next]_vars PROVE IInv'
  OBVIOUS
<1>2. ASSUME NEW size \in 1 .. MaxRead, NEW offset \in 0 .. MaxFile, ReadType(size, offset)
      PROVE  IInv'
  BY <1>1, <1>2, ReadStep
<1>3. ASSUME NEW size \in 1 .. MaxWrite, NEW offset \in 0 .. MaxFile - 1,
             NEW bytes \in [1 .. size -> Bytes], WriteType(bytes, offset)
      PROVE  IInv'
  BY <1>1, <1>3, WriteStep
<1>4. ASSUME NEW newsize \in 0 .. MaxFile, SetSize(newsize) PROVE IInv'
  BY <1>1, <1>4, SetSizeStep
<1>5. CASE GetAllLines
  BY <1>1, <1>5, LinesStepInv
<1>6. CASE UNCHANGED vars
  <2>1. file' = file /\ buffer' = buffer /\ start' = start /\ valid' = valid /\ answer' = answer
    BY <1>6 DEF vars
  <2>2. TypeOK'
    BY <1>1, <2>1 DEF IInv, TypeOK
  <2>3. SmallReadsReturnFile'
    BY <1>1, <2>1 DEF IInv, SmallReadsReturnFile, ReturnsFile, PRead
  <2>4. LinesReturnFile'
    BY <1>1, <2>1 DEF IInv, LinesReturnFile, LineAt
  <2>5. QED BY <2>2, <2>3, <2>4 DEF IInv
<1>7. QED BY <1>1, <1>2, <1>3, <1>4, <1>5, <1>6 DEF Next

LEMMA AlwaysIInv == Spec => []IInv
<1>1. Init => IInv
  BY InitInv
<1>2. IInv /\ [Next]_vars => IInv'
  BY NextInv
<1>3. QED BY <1>1, <1>2, PTL DEF Spec

\* The file never exceeds its bound, and file, buffer and window keep their types
\* whatever is read, written and cut off: a read that grows the buffer, a write beyond
\* the end of the file and SetSize put nothing else into them.
THEOREM TypeCorrect == Spec => []TypeOK
<1>1. IInv => TypeOK
  BY DEF IInv
<1>2. QED BY <1>1, AlwaysIInv, PTL

\* ReadTypeImpl within a chunk returns the bytes of the file at the offset, as many as
\* it has of them, after any calls: what the outdated window puts into dest never counts.
THEOREM SmallReadsAreFile == Spec => []SmallReadsReturnFile
<1>1. IInv => SmallReadsReturnFile
  BY DEF IInv
<1>2. QED BY <1>1, AlwaysIInv, PTL

\* GetAllLines returns the lines of the file up to the first empty one, each from after
\* a newline to before the next, when a newline or the end is within a chunk of every
\* byte.
THEOREM LinesAreFile == Spec => []LinesReturnFile
<1>1. IInv => LinesReturnFile
  BY DEF IInv
<1>2. QED BY <1>1, AlwaysIInv, PTL
=============================================================================
