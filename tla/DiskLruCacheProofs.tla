------------------------- MODULE DiskLruCacheProofs -------------------------
(***************************************************************************)
(* Theorems of DiskLruCache.  The inductive invariant relates the table in *)
(* memory and the value files to every table that the journal may be read  *)
(* as, should the process be killed now with part of the writer's buffer   *)
(* written.                                                                *)
(***************************************************************************)
EXTENDS DiskLruCacheTables

FileType == [exists : BOOLEAN, table : TableType, torn : BOOLEAN, corrupt : BOOLEAN]
EditType == [value : LengthType, failed : BOOLEAN]

Types ==
  /\ open \in BOOLEAN /\ lru \in TableType /\ buf \in Seq(LineType)
  /\ journal \in FileType /\ bkp \in FileType /\ wiped \in BOOLEAN
  /\ edits \in [Keys -> EditType] /\ last \in [Keys -> LengthType]
  /\ clean \in [Keys -> LengthType] /\ dirty \in [Keys -> LengthType]

Shape ==
  /\ open => journal.exists /\ bkp = NoFile
  /\ ~open => lru = Empty /\ buf = <<>> /\ holder = "nobody"
  /\ ~journal.exists => journal = NoFile
  /\ ~bkp.exists => bkp = NoFile

(* Lines may be appended to it. *)
Sound(f) == ~f.torn /\ ~f.corrupt

(* The tables that a journal may be read as, of whose lines the last are in a
   buffer that a crash cuts anywhere. *)
Survivors(f, lines) ==
  IF f.corrupt THEN {}
  ELSE IF f.torn THEN {f.table}
  ELSE {Replay(f.table, SubSeq(lines, 1, n)) : n \in 0..Len(lines)}

(* The files of k are those of an entry of these lengths, whose values were
   committed together. *)
Committed(k, lengths) ==
  \A i \in Index : clean[k][i] # 0 => /\ lengths[i] = clean[k][i]
                                      /\ OpenMayFail \/ last[k][i] = clean[k][i]

(* What the files and the memory owe to a table that may be read. *)
Fine(t)    == Known(t) = t.readable \cup t.edited
Kept(t)    == \A k \in t.readable \ t.edited :
                Committed(k, t.lengths[k]) /\ \A i \in Index : dirty[k][i] = 0
Covered(t) == wiped \/ \A k \in Keys \ Known(t), i \in Index : clean[k][i] = 0 /\ dirty[k][i] = 0
Good(t)    == Fine(t) /\ lru.edited \subseteq t.edited /\ Kept(t) /\ Covered(t)

(* The table in memory. *)
Memory ==
  /\ Fine(lru)
  /\ \A k \in lru.readable : Committed(k, lru.lengths[k])
  /\ \A k \in lru.readable \ lru.edited, i \in Index : dirty[k][i] = 0
  /\ \A k \in Keys \ lru.edited, i \in Index : edits[k].value[i] = 0

(* No files but those of its entries. *)
NoLeak ==
  open /\ ~wiped =>
    /\ \A k \in Keys \ lru.readable, i \in Index : clean[k][i] = 0
    /\ \A k \in Keys \ lru.edited, i \in Index : dirty[k][i] = 0

(* An editor's files hold what it wrote. *)
Writing ==
  OpenMayFail \/ \A k \in lru.edited, i \in Index :
    k \in lru.readable \/ edits[k].value[i] # 0 => dirty[k][i] = edits[k].value[i]

(* All lines replayed, the journal's table is that in memory. *)
Follows(t) ==
  /\ t.readable \ t.edited = lru.readable \ lru.edited
  /\ \A k \in lru.readable \ lru.edited : Exists(clean, k) => t.lengths[k] = lru.lengths[k]
Tracks == open /\ Sound(journal) => Follows(Replay(journal.table, buf))

AllGood == \A t \in Survivors(OnDisk, buf) : Good(t)

IInv == Types /\ Shape /\ Memory /\ NoLeak /\ Writing /\ Tracks /\ AllGood

-----------------------------------------------------------------------------
(* Journal files. *)

(* The files that the code makes are files. *)
LEMMA FilesAre ==
  /\ NoFile \in FileType /\ Corrupt \in FileType
  /\ ~NoFile.exists /\ ~NoFile.corrupt /\ ~NoFile.torn /\ NoFile.table = Empty
  /\ Corrupt.exists /\ Corrupt.corrupt
  /\ \A t \in TableType : /\ Holds(t) \in FileType /\ Holds(t).exists /\ Holds(t).table = t
                          /\ Sound(Holds(t))
BY EmptyIs DEF NoFile, Corrupt, Holds, FileType, Sound

(* A table that is read is one of the right type; without lines there is one,
   the file's own. *)
LEMMA SurvivorsAre ==
  ASSUME NEW f \in FileType, NEW lines \in Seq(LineType)
  PROVE  /\ Survivors(f, lines) \subseteq TableType
         /\ Survivors(f, NoLines) = IF f.corrupt THEN {} ELSE {f.table}
         /\ Sound(f) => /\ Replay(f.table, lines) \in Survivors(f, lines)
                        /\ Replay(f.table, lines) \in TableType
<1>1. f.table \in TableType /\ Len(lines) \in Nat
  BY LenProperties DEF FileType
<1>2. \A n \in 0..Len(lines) : Replay(f.table, SubSeq(lines, 1, n)) \in TableType
  BY <1>1, ReplayType
<1>3. Survivors(f, lines) \subseteq TableType
  BY <1>1, <1>2 DEF Survivors
<1>4. Survivors(f, NoLines) = IF f.corrupt THEN {} ELSE {f.table}
  <2>1. SubSeq(NoLines, 1, 0) = NoLines /\ Len(NoLines) = 0
    BY PrefixIs, NoLinesIs
  <2>2. Replay(f.table, NoLines) = f.table
    BY ReplayNothing
  <2> DEFINE after(n) == Replay(f.table, SubSeq(NoLines, 1, n))
  <2>3. 0..Len(NoLines) = {0} /\ after(0) = f.table
    <3> DEFINE p == SubSeq(NoLines, 1, 0)
    <3>1. p = NoLines
      BY <2>1
    <3> HIDE DEF p
    <3>2. Replay(f.table, p) = f.table
      BY <2>2, <3>1
    <3>3. after(0) = f.table
      BY <3>2 DEF p
    <3> HIDE DEF after
    <3> QED BY <2>1, <3>3
  <2>4. {after(n) : n \in 0..Len(NoLines)} = {f.table}
    <3> HIDE DEF after
    <3> QED BY <2>3
  <2> QED BY <2>4 DEF Survivors
<1>5. ASSUME Sound(f)
      PROVE  Replay(f.table, lines) \in Survivors(f, lines)
  <2> DEFINE p == SubSeq(lines, 1, Len(lines))
  <2>1. p = lines
    BY PrefixIs
  <2>2. Replay(f.table, p) \in Survivors(f, lines)
    BY <1>1, <1>5 DEF Survivors, Sound
  <2> HIDE DEF p
  <2> QED BY <2>1, <2>2
<1> QED BY <1>3, <1>4, <1>5

(* Some lines of the buffer are written: the file was a survivor's already. *)
LEMMA AppendedIs ==
  ASSUME NEW f \in FileType, NEW lines \in Seq(LineType), NEW n \in 0..Len(lines),
         NEW g, g = Appended(f, SubSeq(lines, 1, n))
  PROVE  /\ g \in FileType /\ (f.exists => g.exists)
         /\ ~g.corrupt => g.table \in Survivors(f, lines)
         /\ Sound(g) => Sound(f) /\ g.table = Replay(f.table, SubSeq(lines, 1, n))
<1> DEFINE p == SubSeq(lines, 1, n)
<1>1. p \in Seq(LineType) /\ f.table \in TableType
  BY PrefixIs DEF FileType
<1>2. Replay(f.table, p) \in TableType
  BY <1>1, ReplayType
<1>3. f.corrupt \/ f.torn \/ Replay(f.table, p) \in Survivors(f, lines)
  BY DEF Survivors
<1>4. f.corrupt \/ ~f.torn \/ f.table \in Survivors(f, lines)
  BY DEF Survivors
<1>5. Replay(f.table, NoLines) = f.table
  BY ReplayNothing
<1> HIDE DEF p
<1>6. CASE p = NoLines
  <2>1. g = f
    BY <1>6 DEF Appended, p, NoLines
  <2>2. Replay(f.table, p) = f.table
    BY <1>5, <1>6
  <2> QED BY <1>3, <1>4, <2>1, <2>2 DEF p, Sound
<1>7. CASE p # NoLines /\ ~Sound(f)
  <2>1. g = Corrupt
    BY <1>7 DEF Appended, p, Sound, NoLines
  <2> QED BY <2>1, FilesAre DEF Sound
<1>8. CASE p # NoLines /\ Sound(f)
  <2>1. g = Holds(Replay(f.table, p))
    BY <1>8 DEF Appended, p, Sound, NoLines
  <2>2. g \in FileType /\ g.exists /\ g.table = Replay(f.table, p)
    BY <1>2, <2>1, FilesAre
  <2> QED BY <1>3, <1>8, <2>2 DEF p, Sound
<1> QED BY <1>6, <1>7, <1>8

(* A line more. *)
Longer(lines, x) == Append(lines, x)

(* A line is buffered: what may be read is what could be before, or all the
   lines and this one. *)
LEMMA BufferedIs ==
  ASSUME NEW f \in FileType, NEW lines \in Seq(LineType), NEW x \in LineType,
         NEW more, more = Longer(lines, x)
  PROVE  /\ more \in Seq(LineType)
         /\ Replay(f.table, more) = readJournalLine(Replay(f.table, lines), x)
         /\ \A t \in Survivors(f, more) :
              \/ t \in Survivors(f, lines)
              \/ Sound(f) /\ t = readJournalLine(Replay(f.table, lines), x)
<1> DEFINE N == Len(lines)
<1>1. /\ N \in Nat /\ more \in Seq(LineType) /\ Len(more) = N + 1
      /\ \A i \in 1..N : more[i] = lines[i]
  BY LenProperties, AppendProperties DEF Longer
<1>2. Replay(f.table, more) = readJournalLine(Replay(f.table, lines), x)
  BY ReplayAppend DEF Longer
<1>3. ASSUME NEW n \in 0..N
      PROVE  SubSeq(more, 1, n) = SubSeq(lines, 1, n)
  <2> DEFINE p == SubSeq(more, 1, n)
             q == SubSeq(lines, 1, n)
  <2>1. n \in 0..Len(more) /\ \A i \in 1..n : i \in 1..N
    BY <1>1
  <2>2. p \in Seq(LineType) /\ Len(p) = n /\ \A i \in 1..n : p[i] = more[i]
    BY <1>1, <2>1, PrefixIs
  <2>3. q \in Seq(LineType) /\ Len(q) = n /\ \A i \in 1..n : q[i] = lines[i]
    BY PrefixIs
  <2> HIDE DEF p, q
  <2>4. \A i \in 1..n : p[i] = q[i]
    BY <1>1, <2>1, <2>2, <2>3
  <2>5. p = q
    BY <2>2, <2>3, <2>4, SeqEqual
  <2> QED BY <2>5 DEF p, q
<1>4. SubSeq(more, 1, N + 1) = more
  BY <1>1, PrefixIs
<1>5. ASSUME NEW t \in Survivors(f, more)
      PROVE  \/ t \in Survivors(f, lines)
             \/ Sound(f) /\ t = readJournalLine(Replay(f.table, lines), x)
  <2>1. CASE ~Sound(f)
    BY <2>1 DEF Survivors, Sound
  <2>2. CASE Sound(f)
    <3>1. PICK n \in 0..Len(more) : t = Replay(f.table, SubSeq(more, 1, n))
      BY <2>2 DEF Survivors, Sound
    <3>2. n \in 0..N \/ n = N + 1
      BY <1>1
    <3>3. CASE n \in 0..N
      <4>1. t = Replay(f.table, SubSeq(lines, 1, n))
        BY <1>3, <3>1, <3>3
      <4> QED BY <2>2, <3>3, <4>1 DEF Survivors, Sound
    <3>4. CASE n = N + 1
      <4>1. t = Replay(f.table, more)
        BY <1>4, <3>1, <3>4
      <4> QED BY <1>2, <2>2, <4>1
    <3> QED BY <3>2, <3>3, <3>4
  <2> QED BY <2>1, <2>2
<1> QED BY <1>1, <1>2, <1>5

(* All lines are written: what may be read is what they replay to. *)
LEMMA WrittenIs ==
  ASSUME NEW f \in FileType, NEW lines \in Seq(LineType), NEW g, g = Appended(f, lines)
  PROVE  /\ g \in FileType /\ (f.exists => g.exists)
         /\ Survivors(g, NoLines) \subseteq Survivors(f, lines)
         /\ Sound(g) => Sound(f)
         /\ Sound(f) => /\ Replay(g.table, NoLines) = Replay(f.table, lines)
                        /\ Survivors(g, NoLines) \subseteq {Replay(f.table, lines)}
         /\ ~Sound(f) /\ lines # NoLines => Survivors(g, NoLines) = {}
<1> DEFINE n == Len(lines)
<1>1. SubSeq(lines, 1, n) = lines /\ n \in 0..Len(lines)
  BY PrefixIs, LenProperties
<1>2. g = Appended(f, SubSeq(lines, 1, n))
  BY <1>1
<1> HIDE DEF n
<1>3. /\ g \in FileType /\ (f.exists => g.exists)
      /\ ~g.corrupt => g.table \in Survivors(f, lines)
      /\ Sound(g) => Sound(f) /\ g.table = Replay(f.table, SubSeq(lines, 1, n))
  BY <1>1, <1>2, AppendedIs
<1>4. Survivors(g, NoLines) = IF g.corrupt THEN {} ELSE {g.table}
  BY <1>3, NoLinesIs, SurvivorsAre
<1>5. Replay(g.table, NoLines) = g.table /\ Replay(f.table, NoLines) = f.table
  BY ReplayNothing
<1>7. ASSUME Sound(f)
      PROVE  g.table = Replay(f.table, lines)
  <2>1. CASE lines = NoLines
    <3>1. g = f
      BY <2>1 DEF Appended, NoLines
    <3> QED BY <1>5, <2>1, <3>1
  <2>2. CASE lines # NoLines
    <3>1. g = Holds(Replay(f.table, lines))
      BY <1>7, <2>2 DEF Appended, Sound, NoLines
    <3> QED BY <3>1 DEF Holds
  <2> QED BY <2>1, <2>2
<1>8. ASSUME ~Sound(f), lines # NoLines
      PROVE  Survivors(g, NoLines) = {}
  <2>1. g = Corrupt
    BY <1>8 DEF Appended, Sound, NoLines
  <2> QED BY <1>4, <2>1, FilesAre
<1> QED BY <1>3, <1>4, <1>5, <1>7, <1>8

(* What a step does to the journal: nothing new, a line more, or a line more
   and all lines written. *)
Unlogged ==
  /\ buf' \in Seq(LineType) /\ journal' \in FileType /\ journal'.exists
  /\ Survivors(journal', buf') \subseteq Survivors(journal, buf)
  /\ Sound(journal') => Sound(journal) /\ Replay(journal'.table, buf') = Replay(journal.table, buf)
Logged(x) ==
  /\ buf' \in Seq(LineType) /\ journal' \in FileType /\ journal'.exists
  /\ \A t \in Survivors(journal', buf') :
       \/ t \in Survivors(journal, buf)
       \/ Sound(journal) /\ t = readJournalLine(Replay(journal.table, buf), x)
  /\ Sound(journal') => Sound(journal) /\ Replay(journal'.table, buf') = readJournalLine(Replay(journal.table, buf), x)
Flushed(x) ==
  /\ buf' \in Seq(LineType) /\ journal' \in FileType /\ journal'.exists
  /\ \A t \in Survivors(journal', buf') : Sound(journal) /\ t = readJournalLine(Replay(journal.table, buf), x)
  /\ Sound(journal') => Sound(journal) /\ Replay(journal'.table, buf') = readJournalLine(Replay(journal.table, buf), x)

(* A flush tells the journal nothing new. *)
LEMMA UnloggedIs ==
  ASSUME Types, journal.exists, WriteNothing \/ Flush(<<>>)
  PROVE  Unlogged
<1>1. buf \in Seq(LineType) /\ journal \in FileType
  BY DEF Types
<1>2. CASE WriteNothing
  BY <1>1, <1>2 DEF WriteNothing, Unlogged
<1>3. CASE Flush(<<>>)
  <2>1. buf \o <<>> = buf
    BY <1>1, ConcatEmptySeq
  <2>2. buf' = NoLines /\ journal' = Appended(journal, buf)
    BY <1>3, <2>1 DEF Flush, NoLines
  <2>3. /\ journal' \in FileType /\ (journal.exists => journal'.exists)
        /\ Survivors(journal', buf') \subseteq Survivors(journal, buf)
        /\ Sound(journal') => Sound(journal)
        /\ Sound(journal) => Replay(journal'.table, buf') = Replay(journal.table, buf)
    BY <1>1, <2>2, WrittenIs
  <2> QED BY <2>2, <2>3, NoLinesIs DEF Unlogged
<1> QED BY <1>2, <1>3

(* journalWriter.write tells it the line. *)
LEMMA LoggedIs ==
  ASSUME Types, journal.exists, NEW x \in LineType, Write(x)
  PROVE  Logged(x)
<1>1. buf \in Seq(LineType) /\ journal \in FileType
  BY DEF Types
<1>2. CASE Len(buf) < MaxBuffer
  <2>1. buf' = Longer(buf, x) /\ journal' = journal
    BY <1>2 DEF Write, Longer
  <2>2. /\ buf' \in Seq(LineType)
        /\ Replay(journal.table, buf') = readJournalLine(Replay(journal.table, buf), x)
        /\ \A t \in Survivors(journal, buf') :
              \/ t \in Survivors(journal, buf)
              \/ Sound(journal) /\ t = readJournalLine(Replay(journal.table, buf), x)
    BY <1>1, <2>1, BufferedIs
  <2> QED BY <1>1, <2>1, <2>2 DEF Logged
<1>3. CASE ~(Len(buf) < MaxBuffer)
  <2> DEFINE g == Appended(journal, buf)
  <2>1. buf' = Longer(NoLines, x) /\ journal' = g
    <3>1. Append(NoLines, x) = <<x>>
      BY DEF NoLines
    <3> QED BY <1>3, <3>1 DEF Write, Longer
  <2>2. buf # NoLines
    BY <1>1, <1>3, NoLinesIs, SizeAssumption
  <2> HIDE DEF g
  <2>3. /\ g \in FileType /\ (journal.exists => g.exists)
        /\ Survivors(g, NoLines) \subseteq Survivors(journal, buf)
        /\ Sound(g) => Sound(journal)
        /\ Sound(journal) => Replay(g.table, NoLines) = Replay(journal.table, buf)
    BY <1>1, WrittenIs DEF g
  <2>4. /\ buf' \in Seq(LineType)
        /\ Replay(g.table, buf') = readJournalLine(Replay(g.table, NoLines), x)
        /\ \A t \in Survivors(g, buf') :
              \/ t \in Survivors(g, NoLines)
              \/ Sound(g) /\ t = readJournalLine(Replay(g.table, NoLines), x)
    BY <2>1, <2>3, NoLinesIs, BufferedIs
  <2> QED BY <2>1, <2>3, <2>4 DEF Logged
<1> QED BY <1>2, <1>3

(* A line and a flush put it in the file. *)
LEMMA FlushedIs ==
  ASSUME Types, journal.exists, NEW x \in LineType, Flush(<<x>>)
  PROVE  Flushed(x)
<1> DEFINE more == Longer(buf, x)
<1>1. buf \in Seq(LineType) /\ journal \in FileType
  BY DEF Types
<1>2. buf \o <<x>> = more
  BY <1>1, AppendIsConcat DEF Longer
<1>3. buf' = NoLines /\ journal' = Appended(journal, more)
  BY <1>2 DEF Flush, NoLines
<1>4. more # NoLines
  BY <1>1, AppendProperties DEF NoLines, Longer
<1>5. /\ more \in Seq(LineType)
      /\ Replay(journal.table, more) = readJournalLine(Replay(journal.table, buf), x)
  BY <1>1, BufferedIs
<1> HIDE DEF more
<1>6. /\ journal' \in FileType /\ (journal.exists => journal'.exists)
      /\ Sound(journal') => Sound(journal)
      /\ Sound(journal) => /\ Replay(journal'.table, buf') = Replay(journal.table, more)
                           /\ Survivors(journal', buf') \subseteq {Replay(journal.table, more)}
      /\ ~Sound(journal) /\ more # NoLines => Survivors(journal', buf') = {}
  BY <1>1, <1>3, <1>5, WrittenIs
<1> QED BY <1>3, <1>4, <1>5, <1>6, NoLinesIs DEF Flushed

-----------------------------------------------------------------------------
(* What the invariant says of tables. *)

(* A table that may be read is good, and the one that all lines replay to
   follows that in memory. *)
LEMMA GoodSurvivors ==
  ASSUME IInv, open
  PROVE  /\ journal.exists /\ bkp = NoFile /\ journal \in FileType /\ lru \in TableType
         /\ \A t \in Survivors(journal, buf) : t \in TableType /\ Good(t)
         /\ Sound(journal) => LET t == Replay(journal.table, buf)
                              IN  t \in TableType /\ Good(t) /\ Follows(t)
<1>1. journal.exists /\ bkp = NoFile /\ journal \in FileType /\ lru \in TableType /\ buf \in Seq(LineType)
  BY DEF IInv, Types, Shape
<1>2. OnDisk = journal
  BY <1>1 DEF OnDisk, Readable
<1>3. /\ Survivors(journal, buf) \subseteq TableType
      /\ Sound(journal) => /\ Replay(journal.table, buf) \in Survivors(journal, buf)
                           /\ Replay(journal.table, buf) \in TableType
  BY <1>1, SurvivorsAre
<1>4. \A t \in Survivors(journal, buf) : Good(t)
  BY <1>2 DEF IInv, AllGood
<1>5. Sound(journal) => Follows(Replay(journal.table, buf))
  BY DEF IInv, Tracks
<1> QED BY <1>1, <1>3, <1>4, <1>5

(* A step that leaves the process alive. *)
LEMMA AliveStep ==
  ASSUME IInv, open, open', Types', bkp' = bkp, journal'.exists, Memory', NoLeak', Writing',
         Sound(journal') => \E t : t = Replay(journal'.table, buf') /\ Follows(t)',
         \A t \in Survivors(journal', buf') : Good(t)'
  PROVE  IInv'
<1>1. bkp' = NoFile
  BY GoodSurvivors
<1>2. Shape'
  BY <1>1 DEF Shape
<1>3. OnDisk' = journal'
  BY DEF OnDisk, Readable
<1>4. AllGood'
  BY <1>3 DEF AllGood
<1>5. Tracks'
  BY DEF Tracks, Follows
<1> QED BY <1>2, <1>4, <1>5 DEF IInv

(* The files of entries that are not being edited are left, or deleted. *)
Spared ==
  \A k \in Keys \ lru.edited, i \in Index :
    /\ dirty'[k][i] \in {0, dirty[k][i]}
    /\ clean'[k][i] = 0 \/ (clean'[k][i] = clean[k][i] /\ last'[k] = last[k])

(* A table stays good while nothing but files of entries being edited is made. *)
LEMMA StaysGood ==
  ASSUME Types, NEW t \in TableType, Good(t), Spared, lru'.edited \subseteq t.edited,
         wiped => wiped'
  PROVE  Good(t)'
<1>1. lru.edited \subseteq t.edited /\ t.readable \subseteq Keys /\ t.edited \subseteq Keys
  BY DEF Good, TableType
<1>2. Fine(t)'
  BY DEF Good, Fine
<1>3. ASSUME NEW k \in t.readable \ t.edited
      PROVE  Committed(k, t.lengths[k])' /\ \A i \in Index : dirty'[k][i] = 0
  <2>1. k \in Keys \ lru.edited
    BY <1>1
  <2>2. Committed(k, t.lengths[k]) /\ \A i \in Index : dirty[k][i] = 0
    BY DEF Good, Kept
  <2>3. \A i \in Index : dirty'[k][i] = 0
    BY <2>1, <2>2 DEF Spared
  <2>4. Committed(k, t.lengths[k])'
    BY <2>1, <2>2 DEF Spared, Committed
  <2> QED BY <2>3, <2>4
<1>4. Kept(t)'
  BY <1>3 DEF Kept
<1>5. ASSUME ~wiped'
      PROVE  \A k \in Keys \ Known(t), i \in Index : clean'[k][i] = 0 /\ dirty'[k][i] = 0
  <2>1. \A k \in Keys \ Known(t), i \in Index : clean[k][i] = 0 /\ dirty[k][i] = 0
    BY <1>5 DEF Good, Covered
  <2>2. Known(t) = t.readable \cup t.edited
    BY DEF Good, Fine
  <2> QED BY <1>1, <2>1, <2>2 DEF Spared
<1>6. Covered(t)'
  BY <1>5 DEF Covered
<1> QED BY <1>2, <1>4, <1>6 DEF Good

-----------------------------------------------------------------------------
(* Looking entries up. *)

(* An entry that is looked up is the youngest, and that is all. *)
LEMMA VisitIs ==
  ASSUME NEW t \in TableType, NEW k, NEW v, v = Visit(t, k)
  PROVE  /\ v \in TableType /\ Known(v) = Known(t) /\ v.readable = t.readable
         /\ v.edited = t.edited /\ v.lengths = t.lengths
<1>1. CASE Has(t, k)
  <2>1. v = Touch(t, k)
    BY <1>1 DEF Visit
  <2>2. Known(t) \subseteq Keys /\ k \in Known(t)
    BY <1>1, ToSetIs DEF Has, Known, TableType
  <2>3. k \in Keys /\ Known(t) \cup {k} = Known(t)
    BY <2>2
  <2> DEFINE w == Touch(t, k)
  <2>4. /\ w \in TableType /\ Known(w) = Known(t) \cup {k}
        /\ w.readable = t.readable /\ w.edited = t.edited /\ w.lengths = t.lengths
    BY <2>3, TouchIs
  <2> HIDE DEF w
  <2>5. v = w
    BY <2>1 DEF w
  <2> QED BY <2>3, <2>4, <2>5
<1>2. CASE ~Has(t, k)
  BY <1>2 DEF Visit
<1> QED BY <1>1, <1>2

(* A key is used, and the journal may be told: nothing but the order of the
   tables changes. *)
LEMMA UseStep ==
  ASSUME IInv, open, open', Types', UNCHANGED <<edits, clean, dirty, last, wiped, bkp>>,
         lru'.readable = lru.readable, lru'.edited = lru.edited, lru'.lengths = lru.lengths,
         Known(lru') = Known(lru),
         Unlogged \/ \E k \in lru.readable : Logged(READ(k))
  PROVE  IInv'
<1>1. /\ journal.exists /\ lru \in TableType
      /\ \A t \in Survivors(journal, buf) : t \in TableType /\ Good(t)
      /\ Sound(journal) => LET t == Replay(journal.table, buf)
                           IN  t \in TableType /\ Good(t) /\ Follows(t)
  BY GoodSurvivors
<1>2. Memory /\ NoLeak /\ Writing
  BY DEF IInv
<1>3. Memory'
  BY <1>2 DEF Memory, Fine, Committed
<1>4. NoLeak'
  BY <1>2 DEF NoLeak
<1>5. Writing'
  BY <1>2 DEF Writing
<1>6. ASSUME NEW t, Good(t) PROVE Good(t)'
  BY <1>6 DEF Good, Fine, Kept, Covered, Committed
<1>7. ASSUME NEW t, Follows(t) PROVE Follows(t)'
  BY <1>7 DEF Follows, Exists
<1>8. CASE Unlogged
  <2>1. \A t \in Survivors(journal', buf') : Good(t)'
    BY <1>1, <1>6, <1>8 DEF Unlogged
  <2>2. Sound(journal') => \E t : t = Replay(journal'.table, buf') /\ Follows(t)'
    BY <1>1, <1>7, <1>8 DEF Unlogged
  <2> QED BY <1>3, <1>4, <1>5, <1>8, <2>1, <2>2, AliveStep DEF Unlogged
<1>9. ASSUME NEW k \in lru.readable, Logged(READ(k))
      PROVE  IInv'
  <2> DEFINE T == Replay(journal.table, buf)
             x == READ(k)
             u == readJournalLine(T, x)
  <2>1. k \in Keys /\ x \in LineType /\ x.op = "READ" /\ x.key = k
    BY <1>1, EmptyIs DEF TableType, READ, LineType
  <2>2. /\ journal'.exists
        /\ \A t \in Survivors(journal', buf') :
             t \in Survivors(journal, buf) \/ (Sound(journal) /\ t = u)
        /\ Sound(journal') => Sound(journal) /\ Replay(journal'.table, buf') = u
    BY <1>9 DEF Logged
  <2>3. Sound(journal) => T \in TableType /\ Good(T) /\ Follows(T)
    BY <1>1
  <2> HIDE DEF T, x, u
  <2>4. ASSUME Sound(journal)
        PROVE  Good(u) /\ Follows(u)
    <3>1. T \in TableType /\ Good(T) /\ Follows(T)
      BY <2>3, <2>4
    <3>2. u = Touch(T, k)
      BY <2>1, <3>1, LineIs DEF u
    <3>3. Known(u) = Known(T) \cup {k} /\ u.readable = T.readable /\ u.edited = T.edited
          /\ u.lengths = T.lengths
      BY <2>1, <3>1, <3>2, TouchIs
    <3>4. k \in T.readable \cup T.edited
      BY <3>1 DEF Follows, Good
    <3>5. Known(u) = Known(T)
      BY <3>1, <3>3, <3>4 DEF Good, Fine
    <3> QED BY <3>1, <3>3, <3>5 DEF Good, Fine, Kept, Covered, Follows
  <2>5. \A t \in Survivors(journal', buf') : Good(t)'
    BY <1>1, <1>6, <2>2, <2>4
  <2>6. Sound(journal') => \E t : t = Replay(journal'.table, buf') /\ Follows(t)'
    BY <1>7, <2>2, <2>4
  <2> QED BY <1>3, <1>4, <1>5, <2>2, <2>5, <2>6, AliveStep
<1> QED BY <1>8, <1>9

-----------------------------------------------------------------------------
(* Editing. *)

(* The lines that are written are lines. *)
LEMMA LinesAre ==
  ASSUME NEW k \in Keys, NEW lengths \in LengthType
  PROVE  /\ DIRTY(k) \in LineType /\ DIRTY(k).op = "DIRTY" /\ DIRTY(k).key = k
         /\ READ(k) \in LineType /\ READ(k).op = "READ" /\ READ(k).key = k
         /\ REMOVE(k) \in LineType /\ REMOVE(k).op = "REMOVE" /\ REMOVE(k).key = k
         /\ CLEAN(k, lengths) \in LineType /\ CLEAN(k, lengths).op = "CLEAN"
         /\ CLEAN(k, lengths).key = k /\ CLEAN(k, lengths).lengths = lengths
BY EmptyIs DEF DIRTY, READ, REMOVE, CLEAN, LineType

(* An edit begins, with its DIRTY line in the file. *)
LEMMA EditStep ==
  ASSUME IInv, NEW k \in Keys, edit(k)
  PROVE  IInv'
<1> DEFINE T == Replay(journal.table, buf)
           x == DIRTY(k)
           u == readJournalLine(T, x)
<1>1. /\ journal.exists /\ lru \in TableType
      /\ Sound(journal) => T \in TableType /\ Good(T) /\ Follows(T)
  BY GoodSurvivors DEF edit, Free
<1>2. Types /\ Memory /\ NoLeak /\ Writing /\ open /\ open' /\ bkp' = bkp /\ k \notin lru.edited
  BY DEF IInv, edit, Free
<1>3. UNCHANGED <<edits, clean, dirty, last, wiped>>
  BY DEF edit, files, history
<1>4. x \in LineType /\ x.op = "DIRTY" /\ x.key = k
  BY EmptyIs, LinesAre
<1>5. Flush(<<x>>)
  BY DEF edit
<1> HIDE DEF x
<1>6. Flushed(x)
  BY <1>1, <1>2, <1>4, <1>5, FlushedIs
<1>7. /\ lru' \in TableType /\ Known(lru') = Known(lru) \cup {k}
      /\ lru'.readable = lru.readable /\ lru'.edited = lru.edited \cup {k}
      /\ lru'.lengths = lru.lengths
  <2> DEFINE v == Touch(lru, k)
  <2>1. /\ v \in TableType /\ Known(v) = Known(lru) \cup {k}
        /\ v.readable = lru.readable /\ v.edited = lru.edited /\ v.lengths = lru.lengths
    BY <1>1, TouchIs
  <2>2. lru' = Begin(v, k)
    BY DEF edit
  <2> HIDE DEF v
  <2> QED BY <2>1, <2>2, BeginIs
<1>8. /\ journal'.exists
      /\ \A t \in Survivors(journal', buf') : Sound(journal) /\ t = u
      /\ Sound(journal') => Sound(journal) /\ Replay(journal'.table, buf') = u
  BY <1>6 DEF Flushed
<1>9. Types'
  BY <1>2, <1>3, <1>6, <1>7, FilesAre DEF Types, Flushed
<1>10. Memory'
  BY <1>2, <1>3, <1>7 DEF Memory, Fine, Committed
<1>11. NoLeak'
  BY <1>2, <1>3, <1>7 DEF NoLeak
<1>12. Writing'
  BY <1>2, <1>3, <1>7 DEF Writing, Memory
<1> HIDE DEF T
<1>13. ASSUME Sound(journal), NEW t, t = u
       PROVE  Good(t)' /\ Follows(t)'
  <2>1. T \in TableType /\ Good(T) /\ Follows(T)
    BY <1>1, <1>13
  <2>2. /\ Known(t) = Known(T) \cup {k} /\ t.readable = T.readable
        /\ t.edited = T.edited \cup {k} /\ t.lengths = T.lengths
    BY <1>4, <1>13, <2>1, LineIs
  <2>3. Good(t)'
    BY <1>3, <1>7, <2>1, <2>2 DEF Good, Fine, Kept, Covered, Committed
  <2>4. Follows(t)'
    BY <1>3, <1>7, <2>1, <2>2 DEF Follows, Exists
  <2> QED BY <2>3, <2>4
<1>14. \A t \in Survivors(journal', buf') : Good(t)'
  BY <1>8, <1>13
<1>15. Sound(journal') => \E t : t = Replay(journal'.table, buf') /\ Follows(t)'
  BY <1>8, <1>13
<1> QED BY <1>2, <1>8, <1>9, <1>10, <1>11, <1>12, <1>14, <1>15, AliveStep

(* A value is written. *)
LEMMA OutputStep ==
  ASSUME IInv, NEW k \in Keys, NEW i \in Index, NEW v \in Values, newOutputStream(k, i, v)
  PROVE  IInv'
<1> DEFINE T == Replay(journal.table, buf)
<1>1. /\ journal.exists /\ lru \in TableType
      /\ \A t \in Survivors(journal, buf) : t \in TableType /\ Good(t)
      /\ Sound(journal) => T \in TableType /\ Good(T) /\ Follows(T)
  BY GoodSurvivors DEF newOutputStream, Free
<1>2. Types /\ Memory /\ NoLeak /\ Writing /\ open /\ open' /\ bkp' = bkp /\ k \in lru.edited
  BY DEF IInv, newOutputStream, Free
<1>3. UNCHANGED <<lru, clean, last, wiped, buf, journal>>
  BY DEF newOutputStream, history
<1>4. edits \in [Keys -> EditType] /\ dirty \in [Keys -> LengthType] /\ v # 0
  BY <1>2, ValueAssumption DEF Types
<1>5. /\ edits' \in [Keys -> EditType] /\ dirty' \in [Keys -> LengthType]
      /\ \A j \in Keys \ {k} : edits'[j] = edits[j] /\ dirty'[j] = dirty[j]
      /\ \A m \in Index : m # i => edits'[k].value[m] = edits[k].value[m] /\ dirty'[k][m] = dirty[k][m]
      /\ edits'[k].value[i] = v /\ (OpenMayFail \/ dirty'[k][i] = v)
  <2>1. CASE /\ \E failed \in BOOLEAN :
                  edits' = [edits EXCEPT ![k].value[i] = v, ![k].failed = @ \/ failed]
             /\ dirty' = [dirty EXCEPT ![k][i] = v]
    <3>1. PICK failed \in BOOLEAN :
            edits' = [edits EXCEPT ![k].value[i] = v, ![k].failed = @ \/ failed]
      BY <2>1
    <3>2. (edits[k].failed \/ failed) \in BOOLEAN
      OBVIOUS
    <3>3. edits' \in [Keys -> EditType]
      BY <1>4, <3>1, <3>2 DEF EditType, LengthType
    <3>4. /\ \A j \in Keys \ {k} : edits'[j] = edits[j]
          /\ \A m \in Index : m # i => edits'[k].value[m] = edits[k].value[m]
          /\ edits'[k].value[i] = v
      BY <1>4, <3>1 DEF EditType, LengthType
    <3>5. /\ dirty' \in [Keys -> LengthType]
          /\ \A j \in Keys \ {k} : dirty'[j] = dirty[j]
          /\ \A m \in Index : m # i => dirty'[k][m] = dirty[k][m]
          /\ dirty'[k][i] = v
      BY <1>4, <2>1 DEF LengthType
    <3> QED BY <3>3, <3>4, <3>5
  <2>2. CASE OpenMayFail /\ edits' = [edits EXCEPT ![k].value[i] = v] /\ dirty' = dirty
    BY <1>4, <2>2 DEF EditType, LengthType
  <2> QED BY <2>1, <2>2 DEF newOutputStream
<1>6. Types'
  BY <1>2, <1>3, <1>5, FilesAre DEF Types
<1>7. Memory'
  <2>1. Fine(lru)' /\ \A j \in lru.readable : Committed(j, lru.lengths[j])'
    BY <1>2, <1>3 DEF Memory, Fine, Committed
  <2>2. lru.readable \subseteq Keys /\ lru.edited \subseteq Keys
    BY <1>1 DEF TableType
  <2>3. \A j \in Keys \ lru.edited : edits'[j] = edits[j] /\ dirty'[j] = dirty[j]
    BY <1>2, <1>5
  <2> QED BY <1>2, <1>3, <2>1, <2>2, <2>3 DEF Memory
<1>8. NoLeak'
  BY <1>2, <1>3, <1>5 DEF NoLeak
<1>9. Writing'
  <2>1. ASSUME ~OpenMayFail, NEW j \in lru.edited, NEW m \in Index,
               j \in lru.readable \/ edits'[j].value[m] # 0
        PROVE  dirty'[j][m] = edits'[j].value[m]
    <3>1. CASE j = k /\ m = i
      BY <1>5, <2>1, <3>1
    <3>2. CASE ~(j = k /\ m = i)
      <4>1. edits'[j].value[m] = edits[j].value[m] /\ dirty'[j][m] = dirty[j][m]
        BY <1>1, <1>5, <3>2 DEF TableType
      <4> QED BY <1>2, <2>1, <4>1 DEF Writing
    <3> QED BY <3>1, <3>2
  <2> QED BY <1>3, <2>1 DEF Writing
<1>10. Spared
  BY <1>2, <1>3, <1>5 DEF Spared
<1>11. \A t \in Survivors(journal', buf') : Good(t)'
  <2>1. ASSUME NEW t \in TableType, Good(t) PROVE Good(t)'
    <3>1. lru'.edited \subseteq t.edited
      BY <1>3, <2>1 DEF Good
    <3> QED BY <1>2, <1>3, <1>10, <2>1, <3>1, StaysGood
  <2> QED BY <1>1, <1>3, <2>1
<1>12. Sound(journal') => \E t : t = Replay(journal'.table, buf') /\ Follows(t)'
  <2>1. ASSUME NEW t, Follows(t) PROVE Follows(t)'
    BY <1>3, <2>1 DEF Follows, Exists
  <2> QED BY <1>1, <1>3, <2>1
<1> QED BY <1>1, <1>2, <1>3, <1>6, <1>7, <1>8, <1>9, <1>11, <1>12, AliveStep

-----------------------------------------------------------------------------
(* The end of an edit. *)

(* A step that ends the edit of k, or touches no other entry, and logs it. *)
LEMMA LoggedStep ==
  ASSUME IInv, open, open', Types', bkp' = bkp, Memory', NoLeak', Writing', Spared,
         wiped' = wiped, lru'.edited \subseteq lru.edited, NEW x \in LineType, Logged(x),
         NEW T, T = Replay(journal.table, buf),
         \A t : /\ T \in TableType /\ Good(T) /\ Follows(T) /\ t = readJournalLine(T, x)
                => Good(t)' /\ Follows(t)'
  PROVE  IInv'
<1>1. /\ \A t \in Survivors(journal, buf) : t \in TableType /\ Good(t)
      /\ Sound(journal) => T \in TableType /\ Good(T) /\ Follows(T)
  BY GoodSurvivors
<1>2. /\ journal'.exists
      /\ \A t \in Survivors(journal', buf') :
           t \in Survivors(journal, buf) \/ (Sound(journal) /\ t = readJournalLine(T, x))
      /\ Sound(journal') => Sound(journal) /\ Replay(journal'.table, buf') = readJournalLine(T, x)
  BY DEF Logged
<1>3. ASSUME NEW t \in TableType, Good(t) PROVE Good(t)'
  <2>1. lru'.edited \subseteq t.edited
    BY <1>3 DEF Good
  <2>2. Types
    BY DEF IInv
  <2> QED BY <1>3, <2>1, <2>2, StaysGood
<1>4. \A t \in Survivors(journal', buf') : Good(t)'
  BY <1>1, <1>2, <1>3
<1>5. Sound(journal') => \E t : t = Replay(journal'.table, buf') /\ Follows(t)'
  BY <1>1, <1>2
<1> QED BY <1>2, <1>4, <1>5, AliveStep

(* The values before are kept. *)
LEMMA DiscardKeeps ==
  ASSUME IInv, open, NEW k \in lru.edited, k \in lru.readable, Discard(k)
  PROVE  IInv'
<1> DEFINE T == Replay(journal.table, buf)
           l == lru.lengths[k]
           x == CLEAN(k, l)
<1>1. /\ journal.exists /\ lru \in TableType /\ k \in Keys /\ l \in LengthType
      /\ lru.edited \subseteq Keys /\ lru.readable \subseteq Keys
  BY GoodSurvivors DEF TableType
<1>2. Types /\ Memory /\ NoLeak /\ Writing /\ open' /\ bkp' = bkp
  BY DEF IInv, Discard
<1>3. UNCHANGED <<clean, last, wiped>>
  BY DEF Discard
<1>4. x \in LineType /\ x.op = "CLEAN" /\ x.key = k /\ x.lengths = l
  BY <1>1, LinesAre
<1>5. Write(x) /\ lru' = Publish(lru, k, l)
  BY DEF Discard
<1> HIDE DEF x
<1>6. Logged(x)
  BY <1>1, <1>2, <1>4, <1>5, LoggedIs
<1>7. /\ lru' \in TableType /\ Known(lru') = Known(lru)
      /\ lru'.readable = lru.readable /\ lru'.edited = lru.edited \ {k}
      /\ \A j \in Keys : lru'.lengths[j] = lru.lengths[j]
  <2> HIDE DEF l
  <2>1. /\ lru' \in TableType /\ Known(lru') = Known(lru)
        /\ lru'.readable = lru.readable \cup {k} /\ lru'.edited = lru.edited \ {k}
        /\ \A j \in Keys : lru'.lengths[j] = IF j = k THEN l ELSE lru.lengths[j]
    BY <1>1, <1>5, PublishIs
  <2> QED BY <2>1 DEF l
<1>8. /\ dirty' \in [Keys -> LengthType] /\ edits' \in [Keys -> EditType]
      /\ \A j \in Keys \ {k} : dirty'[j] = dirty[j] /\ edits'[j] = edits[j]
      /\ \A i \in Index : dirty'[k][i] = 0 /\ edits'[k].value[i] = 0
  <2>1. dirty' = [dirty EXCEPT ![k] = None] /\ edits' = [edits EXCEPT ![k] = NoEdit]
    BY DEF Discard
  <2>2. NoEdit \in EditType /\ \A i \in Index : None[i] = 0 /\ NoEdit.value[i] = 0
    BY EmptyIs DEF NoEdit, EditType, None
  <2>3. edits \in [Keys -> EditType] /\ dirty \in [Keys -> LengthType]
    BY <1>2 DEF Types
  <2> QED BY <1>1, <2>1, <2>2, <2>3, EmptyIs
<1>9. Types'
  BY <1>2, <1>3, <1>6, <1>7, <1>8, FilesAre DEF Types, Logged
<1>10. Memory'
  <2>1. Fine(lru)'
    BY <1>2, <1>7 DEF Memory, Fine
  <2>2. \A j \in lru'.readable : Committed(j, lru.lengths[j])'
    BY <1>1, <1>2, <1>3, <1>7 DEF Memory, Committed
  <2>3. \A j \in lru'.readable \ lru'.edited, i \in Index : dirty'[j][i] = 0
    BY <1>1, <1>2, <1>7, <1>8 DEF Memory
  <2>4. \A j \in Keys \ lru'.edited, i \in Index : edits'[j].value[i] = 0
    BY <1>2, <1>7, <1>8 DEF Memory
  <2> QED BY <2>1, <2>2, <2>3, <2>4 DEF Memory
<1>11. NoLeak'
  BY <1>1, <1>2, <1>3, <1>7, <1>8 DEF NoLeak
<1>12. Writing'
  BY <1>1, <1>2, <1>7, <1>8 DEF Writing
<1>13. Spared
  BY <1>3, <1>8 DEF Spared
<1>14. ASSUME NEW t, T \in TableType, Good(T), Follows(T), t = readJournalLine(T, x)
       PROVE  Good(t)' /\ Follows(t)'
  <2> HIDE DEF T, l
  <2>1. /\ Known(t) = Known(T) \cup {k} /\ t.readable = T.readable \cup {k}
        /\ t.edited = T.edited \ {k}
        /\ \A j \in Keys : t.lengths[j] = IF j = k THEN l ELSE T.lengths[j]
    BY <1>4, <1>14, LineIs
  <2>2. T.readable \subseteq Keys /\ T.edited \subseteq Keys /\ lru.edited \subseteq T.edited
    BY <1>14 DEF TableType, Good
  <2>3. Fine(t)
    BY <1>14, <2>1, <2>2 DEF Good, Fine
  <2>4. ASSUME NEW j \in t.readable \ t.edited
        PROVE  Committed(j, t.lengths[j])' /\ \A i \in Index : dirty'[j][i] = 0
    <3>1. CASE j = k
      <4>1. Committed(k, l)
        BY <1>2 DEF Memory, l
      <4> QED BY <1>1, <1>3, <1>8, <2>1, <3>1, <4>1 DEF Committed
    <3>2. CASE j # k
      <4>1. j \in T.readable \ T.edited /\ j \in Keys
        BY <2>1, <2>2, <3>2
      <4> QED BY <1>3, <1>8, <1>14, <2>1, <3>2, <4>1 DEF Good, Kept, Committed
    <3> QED BY <3>1, <3>2
  <2>5. Covered(t)'
    BY <1>3, <1>8, <1>14, <2>1 DEF Good, Covered
  <2>6. Good(t)'
    BY <1>7, <2>1, <2>2, <2>3, <2>4, <2>5 DEF Good, Fine, Kept
  <2>7. Follows(t)'
    BY <1>1, <1>3, <1>7, <1>14, <2>1, <2>2 DEF Follows, Exists, l
  <2> QED BY <2>6, <2>7
<1> QED BY <1>2, <1>3, <1>4, <1>6, <1>7, <1>9, <1>10, <1>11, <1>12, <1>13, <1>14, LoggedStep

(* A new entry is forgotten. *)
LEMMA DiscardForgets ==
  ASSUME IInv, open, NEW k \in lru.edited, k \notin lru.readable, Discard(k)
  PROVE  IInv'
<1> DEFINE T == Replay(journal.table, buf)
           x == REMOVE(k)
<1>1. /\ journal.exists /\ lru \in TableType /\ k \in Keys
      /\ lru.edited \subseteq Keys /\ lru.readable \subseteq Keys
  BY GoodSurvivors DEF TableType
<1>2. Types /\ Memory /\ NoLeak /\ Writing /\ open' /\ bkp' = bkp
  BY DEF IInv, Discard
<1>3. UNCHANGED <<clean, wiped>>
  BY DEF Discard
<1>4. x \in LineType /\ x.op = "REMOVE" /\ x.key = k
  BY <1>1, EmptyIs, LinesAre
<1>5. Write(x) /\ lru' = Forget(lru, k)
  BY DEF Discard
<1> HIDE DEF x
<1>6. Logged(x)
  BY <1>1, <1>2, <1>4, <1>5, LoggedIs
<1>7. /\ lru' \in TableType /\ Known(lru') = Known(lru) \ {k}
      /\ lru'.readable = lru.readable /\ lru'.edited = lru.edited \ {k}
      /\ \A j \in Keys \ {k} : lru'.lengths[j] = lru.lengths[j]
  <2>1. /\ lru' \in TableType /\ Known(lru') = Known(lru) \ {k}
        /\ lru'.readable = lru.readable \ {k} /\ lru'.edited = lru.edited \ {k}
        /\ \A j \in Keys : lru'.lengths[j] = IF j = k THEN None ELSE lru.lengths[j]
    BY <1>1, <1>5, ForgetIs
  <2> QED BY <2>1
<1>8. /\ dirty' \in [Keys -> LengthType] /\ edits' \in [Keys -> EditType]
      /\ last' \in [Keys -> LengthType]
      /\ \A j \in Keys \ {k} : dirty'[j] = dirty[j] /\ edits'[j] = edits[j] /\ last'[j] = last[j]
      /\ \A i \in Index : dirty'[k][i] = 0 /\ edits'[k].value[i] = 0
  <2>1. /\ dirty' = [dirty EXCEPT ![k] = None] /\ edits' = [edits EXCEPT ![k] = NoEdit]
        /\ last' = [last EXCEPT ![k] = None]
    BY DEF Discard
  <2>2. NoEdit \in EditType /\ \A i \in Index : None[i] = 0 /\ NoEdit.value[i] = 0
    BY EmptyIs DEF NoEdit, EditType, None
  <2>3. /\ edits \in [Keys -> EditType] /\ dirty \in [Keys -> LengthType]
        /\ last \in [Keys -> LengthType]
    BY <1>2 DEF Types
  <2> QED BY <1>1, <2>1, <2>2, <2>3, EmptyIs
<1>9. Types'
  BY <1>2, <1>3, <1>6, <1>7, <1>8, FilesAre DEF Types, Logged
<1>10. Memory'
  <2>1. Fine(lru)'
    BY <1>2, <1>7 DEF Memory, Fine
  <2>2. \A j \in lru'.readable : Committed(j, lru.lengths[j])'
    BY <1>1, <1>2, <1>3, <1>7, <1>8 DEF Memory, Committed
  <2>3. \A j \in lru'.readable \ lru'.edited, i \in Index : dirty'[j][i] = 0
    BY <1>1, <1>2, <1>7, <1>8 DEF Memory
  <2>4. \A j \in Keys \ lru'.edited, i \in Index : edits'[j].value[i] = 0
    BY <1>2, <1>7, <1>8 DEF Memory
  <2> QED BY <2>1, <2>2, <2>3, <2>4 DEF Memory
<1>11. NoLeak'
  BY <1>1, <1>2, <1>3, <1>7, <1>8 DEF NoLeak
<1>12. Writing'
  BY <1>1, <1>2, <1>7, <1>8 DEF Writing
<1>13. Spared
  BY <1>3, <1>8 DEF Spared
<1>14. ASSUME NEW t, T \in TableType, Good(T), Follows(T), t = readJournalLine(T, x)
       PROVE  Good(t)' /\ Follows(t)'
  <2> HIDE DEF T
  <2>1. t = Forget(T, k)
    BY <1>4, <1>14, LineIs
  <2>2. /\ Known(t) = Known(T) \ {k} /\ t.readable = T.readable \ {k}
        /\ t.edited = T.edited \ {k}
        /\ \A j \in Keys : t.lengths[j] = IF j = k THEN None ELSE T.lengths[j]
    BY <1>14, <2>1, ForgetIs
  <2>3. T.readable \subseteq Keys /\ T.edited \subseteq Keys /\ lru.edited \subseteq T.edited
    BY <1>14 DEF TableType, Good
  <2>4. Fine(t)
    BY <1>14, <2>2 DEF Good, Fine
  <2>5. Kept(t)'
    BY <1>3, <1>8, <1>14, <2>2, <2>3 DEF Good, Kept, Committed
  <2>6. ASSUME ~wiped' PROVE \A i \in Index : clean'[k][i] = 0
    BY <1>1, <1>2, <1>3, <2>6 DEF NoLeak
  <2>7. Covered(t)'
    BY <1>3, <1>8, <1>14, <2>2, <2>6 DEF Good, Covered
  <2>8. Good(t)'
    BY <1>7, <2>2, <2>3, <2>4, <2>5, <2>7 DEF Good, Fine
  <2>9. Follows(t)'
    BY <1>1, <1>3, <1>7, <1>14, <2>2, <2>3 DEF Follows, Exists
  <2> QED BY <2>8, <2>9
<1> QED BY <1>2, <1>3, <1>4, <1>6, <1>7, <1>9, <1>10, <1>11, <1>12, <1>13, <1>14, LoggedStep

(* The new values are published. *)
LEMMA CommitStep ==
  ASSUME IInv, NEW k \in Keys, commit(k)
  PROVE  IInv'
<1> DEFINE T == Replay(journal.table, buf)
           l == NewLengths(k)
           x == CLEAN(k, l)
<1>1. /\ journal.exists /\ lru \in TableType
      /\ lru.edited \subseteq Keys /\ lru.readable \subseteq Keys
  BY GoodSurvivors DEF commit, MayPublish, Free, TableType
<1>2. Types /\ Memory /\ NoLeak /\ Writing /\ open /\ open' /\ bkp' = bkp /\ k \in lru.edited
  BY DEF IInv, commit, MayPublish, Free
<1>3. wiped' = wiped
  BY DEF commit
<1>4. /\ edits \in [Keys -> EditType] /\ dirty \in [Keys -> LengthType]
      /\ clean \in [Keys -> LengthType] /\ last \in [Keys -> LengthType]
      /\ lru.lengths \in [Keys -> LengthType]
  BY <1>1, <1>2 DEF Types, TableType
<1>5. /\ l \in LengthType
      /\ \A i \in Index : l[i] = IF dirty[k][i] # 0 THEN dirty[k][i] ELSE lru.lengths[k][i]
  BY <1>4 DEF NewLengths, LengthType
<1>6. Write(x) /\ lru' = Publish(lru, k, l)
  BY DEF commit
<1> HIDE DEF l
<1>7. x \in LineType /\ x.op = "CLEAN" /\ x.key = k /\ x.lengths = l
  BY <1>5, LinesAre
<1> HIDE DEF x
<1>8. Logged(x)
  BY <1>1, <1>2, <1>6, <1>7, LoggedIs
<1>9. /\ lru' \in TableType /\ Known(lru') = Known(lru)
      /\ lru'.readable = lru.readable \cup {k} /\ lru'.edited = lru.edited \ {k}
      /\ \A j \in Keys : lru'.lengths[j] = IF j = k THEN l ELSE lru.lengths[j]
  BY <1>1, <1>5, <1>6, PublishIs
<1>10. /\ dirty' \in [Keys -> LengthType] /\ edits' \in [Keys -> EditType]
       /\ \A j \in Keys \ {k} : dirty'[j] = dirty[j] /\ edits'[j] = edits[j]
       /\ \A i \in Index : dirty'[k][i] = 0 /\ edits'[k].value[i] = 0
  <2>1. dirty' = [dirty EXCEPT ![k] = None] /\ edits' = [edits EXCEPT ![k] = NoEdit]
    BY DEF commit
  <2>2. NoEdit \in EditType /\ \A i \in Index : None[i] = 0 /\ NoEdit.value[i] = 0
    BY EmptyIs DEF NoEdit, EditType, None
  <2> QED BY <1>4, <2>1, <2>2, EmptyIs
<1>11. /\ clean' \in [Keys -> LengthType]
       /\ \A j \in Keys \ {k} : clean'[j] = clean[j]
       /\ \A i \in Index : clean'[k][i] = IF dirty[k][i] # 0 THEN dirty[k][i] ELSE clean[k][i]
  <2> DEFINE r == Renamed(k, ValueCount)
  <2>1. clean' = [clean EXCEPT ![k] = r]
    BY DEF commit
  <2>2. \A i \in Index : i < ValueCount
    BY ValueAssumption DEF Index
  <2>3. /\ r \in LengthType
        /\ \A i \in Index : r[i] = IF dirty[k][i] # 0 THEN dirty[k][i] ELSE clean[k][i]
    BY <1>4, <2>2 DEF Renamed, LengthType
  <2> HIDE DEF r
  <2> QED BY <1>4, <2>1, <2>3
<1>12. /\ last' \in [Keys -> LengthType]
       /\ \A j \in Keys \ {k} : last'[j] = last[j]
       /\ \/ last' = last /\ \A i \in Index : dirty[k][i] = 0
          \/ \A i \in Index : last'[k][i] = IF edits[k].value[i] # 0 THEN edits[k].value[i]
                                            ELSE last[k][i]
  <2>1. CASE dirty[k] = None
    <3>1. last' = last
      BY <2>1 DEF commit
    <3>2. \A i \in Index : dirty[k][i] = 0
      BY <2>1 DEF None
    <3> QED BY <1>4, <3>1, <3>2
  <2>2. CASE dirty[k] # None
    <3> DEFINE new == [i \in Index |-> IF edits[k].value[i] # 0 THEN edits[k].value[i] ELSE last[k][i]]
    <3>1. last' = [last EXCEPT ![k] = new]
      BY <2>2 DEF commit
    <3>2. new \in LengthType
      BY <1>4 DEF LengthType, EditType
    <3> QED BY <1>4, <3>1, <3>2
  <2> QED BY <2>1, <2>2
<1>13. k \in lru.readable \/ \A i \in Index : edits[k].value[i] # 0 /\ dirty[k][i] # 0
  BY DEF commit, MayPublish, Incomplete
<1>14. ASSUME NEW i \in Index, clean'[k][i] # 0
       PROVE  l[i] = clean'[k][i] /\ (OpenMayFail \/ last'[k][i] = clean'[k][i])
  <2>1. k \in lru.readable /\ clean[k][i] # 0 =>
          lru.lengths[k][i] = clean[k][i] /\ (OpenMayFail \/ last[k][i] = clean[k][i])
    BY <1>2 DEF Memory, Committed
  <2>2. l[i] = clean'[k][i]
    BY <1>5, <1>11, <1>13, <1>14, <2>1
  <2>3. OpenMayFail \/ dirty[k][i] = edits[k].value[i]
    BY <1>2, <1>13 DEF Writing
  <2>4. OpenMayFail \/ last'[k][i] = clean'[k][i]
    BY <1>11, <1>12, <1>13, <1>14, <2>1, <2>3
  <2> QED BY <2>2, <2>4
<1>15. Types'
  BY <1>2, <1>3, <1>8, <1>9, <1>10, <1>11, <1>12, FilesAre DEF Types, Logged
<1>16. Memory'
  <2>1. Fine(lru)'
    BY <1>2, <1>9 DEF Memory, Fine
  <2>2. ASSUME NEW j \in lru'.readable PROVE Committed(j, lru.lengths[j])'
    <3>1. CASE j = k
      BY <1>9, <1>14, <3>1 DEF Committed
    <3>2. CASE j # k
      <4>1. j \in Keys /\ Committed(j, lru.lengths[j])
        BY <1>1, <1>2, <1>9, <3>2 DEF Memory
      <4> QED BY <1>9, <1>11, <1>12, <3>2, <4>1 DEF Committed
    <3> QED BY <3>1, <3>2
  <2>3. \A j \in lru'.readable \ lru'.edited, i \in Index : dirty'[j][i] = 0
    BY <1>1, <1>2, <1>9, <1>10 DEF Memory
  <2>4. \A j \in Keys \ lru'.edited, i \in Index : edits'[j].value[i] = 0
    BY <1>2, <1>9, <1>10 DEF Memory
  <2> QED BY <2>1, <2>2, <2>3, <2>4 DEF Memory
<1>17. NoLeak'
  BY <1>1, <1>2, <1>3, <1>9, <1>10, <1>11 DEF NoLeak
<1>18. Writing'
  BY <1>1, <1>2, <1>9, <1>10 DEF Writing
<1>19. Spared
  BY <1>2, <1>10, <1>11, <1>12 DEF Spared
<1>20. ASSUME NEW t, T \in TableType, Good(T), Follows(T), t = readJournalLine(T, x)
       PROVE  Good(t)' /\ Follows(t)'
  <2> HIDE DEF T
  <2>1. /\ Known(t) = Known(T) \cup {k} /\ t.readable = T.readable \cup {k}
        /\ t.edited = T.edited \ {k}
        /\ \A j \in Keys : t.lengths[j] = IF j = k THEN l ELSE T.lengths[j]
    BY <1>7, <1>20, LineIs
  <2>2. T.readable \subseteq Keys /\ T.edited \subseteq Keys /\ lru.edited \subseteq T.edited
    BY <1>20 DEF TableType, Good
  <2>3. Fine(t)
    BY <1>20, <2>1 DEF Good, Fine
  <2>4. ASSUME NEW j \in t.readable \ t.edited
        PROVE  Committed(j, t.lengths[j])' /\ \A i \in Index : dirty'[j][i] = 0
    <3>1. CASE j = k
      BY <1>10, <1>14, <2>1, <3>1 DEF Committed
    <3>2. CASE j # k
      <4>1. j \in T.readable \ T.edited /\ j \in Keys
        BY <2>1, <2>2, <3>2
      <4> QED BY <1>10, <1>11, <1>12, <1>20, <2>1, <3>2, <4>1 DEF Good, Kept, Committed
    <3> QED BY <3>1, <3>2
  <2>5. Covered(t)'
    BY <1>3, <1>10, <1>11, <1>20, <2>1 DEF Good, Covered
  <2>6. Good(t)'
    BY <1>9, <2>1, <2>2, <2>3, <2>4, <2>5 DEF Good, Fine, Kept
  <2>7. Follows(t)'
    BY <1>1, <1>9, <1>11, <1>20, <2>1, <2>2 DEF Follows, Exists
  <2> QED BY <2>6, <2>7
<1> QED BY <1>2, <1>3, <1>7, <1>8, <1>9, <1>15, <1>16, <1>17, <1>18, <1>19, <1>20, LoggedStep

-----------------------------------------------------------------------------
(* Removing. *)

(* The entry is only looked up. *)
LEMMA BusyStep ==
  ASSUME IInv, open, open', UNCHANGED <<edits, dirty, bkp>>, NEW k, remove_Busy(k)
  PROVE  IInv'
<1>1. Types /\ journal.exists /\ lru \in TableType
  BY GoodSurvivors DEF IInv
<1>2. lru' = Visit(lru, k) /\ UNCHANGED <<buf, journal, clean, last, wiped>>
  BY DEF remove_Busy, history
<1>3. Unlogged
  BY <1>1, <1>2, UnloggedIs DEF WriteNothing
<1>4. /\ lru' \in TableType /\ Known(lru') = Known(lru) /\ lru'.readable = lru.readable
      /\ lru'.edited = lru.edited /\ lru'.lengths = lru.lengths
  BY <1>1, <1>2, VisitIs
<1>5. Types'
  BY <1>1, <1>2, <1>4, FilesAre DEF Types
<1> QED BY <1>2, <1>3, <1>4, <1>5, UseStep

(* The entry and its files are gone. *)
LEMMA DoneStep ==
  ASSUME IInv, open, open', UNCHANGED <<edits, dirty, bkp>>, NEW k, remove_Done(k)
  PROVE  IInv'
<1> DEFINE T == Replay(journal.table, buf)
           x == REMOVE(k)
<1>1. /\ journal.exists /\ lru \in TableType
      /\ lru.edited \subseteq Keys /\ lru.readable \subseteq Keys
  BY GoodSurvivors DEF TableType
<1>2. Types /\ Memory /\ NoLeak /\ Writing
  BY DEF IInv
<1>3. wiped' = wiped /\ k \in Keys /\ k \notin lru.edited
  BY <1>1, ToSetIs DEF remove_Done, Has, TableType
<1>4. x \in LineType /\ x.op = "REMOVE" /\ x.key = k
  BY <1>3, EmptyIs, LinesAre
<1>5. Write(x) /\ lru' = Forget(lru, k)
  BY DEF remove_Done
<1> HIDE DEF x
<1>6. Logged(x)
  BY <1>1, <1>2, <1>4, <1>5, LoggedIs
<1>7. /\ lru' \in TableType /\ Known(lru') = Known(lru) \ {k}
      /\ lru'.readable = lru.readable \ {k} /\ lru'.edited = lru.edited
      /\ \A j \in Keys \ {k} : lru'.lengths[j] = lru.lengths[j]
  <2>1. /\ lru' \in TableType /\ Known(lru') = Known(lru) \ {k}
        /\ lru'.readable = lru.readable \ {k} /\ lru'.edited = lru.edited \ {k}
        /\ \A j \in Keys : lru'.lengths[j] = IF j = k THEN None ELSE lru.lengths[j]
    BY <1>1, <1>5, ForgetIs
  <2> QED BY <1>3, <2>1
<1>8. /\ clean' \in [Keys -> LengthType] /\ last' \in [Keys -> LengthType]
      /\ \A j \in Keys \ {k} : clean'[j] = clean[j] /\ last'[j] = last[j]
      /\ \A i \in Index : clean'[k][i] = 0
  <2>1. clean' = [clean EXCEPT ![k] = None] /\ last' = [last EXCEPT ![k] = None]
    BY DEF remove_Done
  <2>2. \A i \in Index : None[i] = 0
    BY DEF None
  <2>3. clean \in [Keys -> LengthType] /\ last \in [Keys -> LengthType]
    BY <1>2 DEF Types
  <2> QED BY <1>3, <2>1, <2>2, <2>3, EmptyIs
<1>9. Types'
  BY <1>2, <1>3, <1>6, <1>7, <1>8, FilesAre DEF Types, Logged
<1>10. k \in lru.readable
  BY <1>2, <1>3 DEF remove_Done, Has, Memory, Fine, Known
<1>11. Memory'
  <2>1. Fine(lru)'
    BY <1>2, <1>3, <1>7 DEF Memory, Fine
  <2>2. \A j \in lru'.readable : Committed(j, lru.lengths[j])'
    BY <1>1, <1>2, <1>7, <1>8 DEF Memory, Committed
  <2>3. \A j \in lru'.readable \ lru'.edited, i \in Index : dirty'[j][i] = 0
    BY <1>2, <1>7 DEF Memory
  <2>4. \A j \in Keys \ lru'.edited, i \in Index : edits'[j].value[i] = 0
    BY <1>2, <1>7 DEF Memory
  <2> QED BY <2>1, <2>2, <2>3, <2>4 DEF Memory
<1>12. NoLeak'
  BY <1>1, <1>2, <1>3, <1>7, <1>8 DEF NoLeak
<1>13. Writing'
  BY <1>1, <1>2, <1>3, <1>7 DEF Writing
<1>14. Spared
  BY <1>8 DEF Spared
<1>15. \A i \in Index : dirty[k][i] = 0
  BY <1>2, <1>3, <1>10 DEF Memory
<1>16. ASSUME NEW t, T \in TableType, Good(T), Follows(T), t = readJournalLine(T, x)
       PROVE  Good(t)' /\ Follows(t)'
  <2> HIDE DEF T
  <2>1. t = Forget(T, k)
    BY <1>4, <1>16, LineIs
  <2>2. /\ Known(t) = Known(T) \ {k} /\ t.readable = T.readable \ {k}
        /\ t.edited = T.edited \ {k}
        /\ \A j \in Keys : t.lengths[j] = IF j = k THEN None ELSE T.lengths[j]
    BY <1>16, <2>1, ForgetIs
  <2>3. T.readable \subseteq Keys /\ T.edited \subseteq Keys /\ lru.edited \subseteq T.edited
    BY <1>16 DEF TableType, Good
  <2>4. Fine(t)
    BY <1>16, <2>2 DEF Good, Fine
  <2>5. Kept(t)'
    BY <1>8, <1>16, <2>2, <2>3 DEF Good, Kept, Committed
  <2>6. Covered(t)'
    BY <1>3, <1>8, <1>15, <1>16, <2>2 DEF Good, Covered
  <2>7. Good(t)'
    BY <1>3, <1>7, <2>2, <2>3, <2>4, <2>5, <2>6 DEF Good, Fine
  <2>8. Follows(t)'
    BY <1>1, <1>7, <1>8, <1>16, <2>2, <2>3 DEF Follows, Exists
  <2> QED BY <2>7, <2>8
<1> QED BY <1>3, <1>4, <1>6, <1>7, <1>9, <1>11, <1>12, <1>13, <1>14, <1>16, LoggedStep

(* Some files are gone, and the entry stays. *)
LEMMA ThrowsStep ==
  ASSUME IInv, open, open', UNCHANGED <<edits, dirty, bkp>>, NEW k, remove_Throws(k)
  PROVE  IInv'
<1> DEFINE m == FirstMissing(k)
           v == Touch(lru, k)
<1>1. /\ journal.exists /\ lru \in TableType
      /\ lru.edited \subseteq Keys /\ lru.readable \subseteq Keys
      /\ \A t \in Survivors(journal, buf) : t \in TableType /\ Good(t)
      /\ Sound(journal) => Follows(Replay(journal.table, buf))
  BY GoodSurvivors DEF TableType
<1>2. Types /\ Memory /\ NoLeak /\ Writing
  BY DEF IInv
<1>3. UNCHANGED <<buf, journal, last, wiped>> /\ k \in Keys /\ k \notin lru.edited
  BY <1>1, ToSetIs DEF remove_Throws, Has, TableType, history
<1>4. clean \in [Keys -> LengthType] /\ lru.lengths \in [Keys -> LengthType]
  BY <1>1, <1>2 DEF Types, TableType
<1>5. /\ v \in TableType /\ Known(v) = Known(lru) \cup {k}
      /\ v.readable = lru.readable /\ v.edited = lru.edited /\ v.lengths = lru.lengths
  BY <1>1, <1>3, TouchIs
<1>6. /\ clean' = Deleted(clean, k, m)
      /\ lru' = [v EXCEPT !.lengths = Deleted(lru.lengths, k, m)]
  BY DEF remove_Throws
<1> HIDE DEF m, v
<1>7. /\ clean' \in [Keys -> LengthType]
      /\ \A j \in Keys \ {k} : clean'[j] = clean[j]
      /\ \A i \in Index : clean'[k][i] = IF i < m THEN 0 ELSE clean[k][i]
  BY <1>3, <1>4, <1>6 DEF Deleted, LengthType
<1>8. /\ Deleted(lru.lengths, k, m) \in [Keys -> LengthType]
      /\ \A j \in Keys \ {k} : Deleted(lru.lengths, k, m)[j] = lru.lengths[j]
      /\ \A i \in Index : Deleted(lru.lengths, k, m)[k][i] = IF i < m THEN 0 ELSE lru.lengths[k][i]
  BY <1>3, <1>4 DEF Deleted, LengthType
<1>9. Known(lru') = Known(lru) /\ k \in lru.readable
  <2>1. k \in Known(lru)
    BY DEF remove_Throws, Has, Known
  <2>2. Known(lru') = Known(v)
    BY <1>5, <1>6 DEF Known, TableType
  <2> QED BY <1>2, <1>3, <1>5, <2>1, <2>2 DEF Memory, Fine
<1>10. /\ lru' \in TableType
       /\ lru'.readable = lru.readable /\ lru'.edited = lru.edited
       /\ lru'.lengths = Deleted(lru.lengths, k, m)
  <2> DEFINE l == Deleted(lru.lengths, k, m)
  <2>1. /\ lru' = [v EXCEPT !.lengths = l] /\ l \in [Keys -> LengthType]
        /\ \A j \in Keys \ lru.readable : l[j] = lru.lengths[j]
    BY <1>6, <1>8, <1>9
  <2> HIDE DEF l
  <2>2. lru' \in TableType /\ lru'.readable = v.readable /\ lru'.edited = v.edited /\ lru'.lengths = l
    BY <1>5, <2>1 DEF TableType
  <2> QED BY <1>5, <2>2 DEF l
<1>11. /\ \A j \in Keys \ {k} : lru'.lengths[j] = lru.lengths[j]
       /\ \A i \in Index : lru'.lengths[k][i] = IF i < m THEN 0 ELSE lru.lengths[k][i]
  BY <1>8, <1>10
<1>12. Types'
  BY <1>2, <1>3, <1>7, <1>10, FilesAre DEF Types
<1>13. Memory'
  <2>1. Fine(lru)'
    BY <1>2, <1>9, <1>10 DEF Memory, Fine
  <2>2. ASSUME NEW j \in lru'.readable PROVE Committed(j, lru.lengths[j])'
    <3>1. j \in Keys /\ Committed(j, lru.lengths[j])
      BY <1>1, <1>2, <1>10 DEF Memory
    <3>2. CASE j = k
      BY <1>3, <1>7, <1>11, <3>1, <3>2 DEF Committed
    <3>3. CASE j # k
      BY <1>3, <1>7, <1>11, <3>1, <3>3 DEF Committed
    <3> QED BY <3>2, <3>3
  <2>3. \A j \in lru'.readable \ lru'.edited, i \in Index : dirty'[j][i] = 0
    BY <1>2, <1>10 DEF Memory
  <2>4. \A j \in Keys \ lru'.edited, i \in Index : edits'[j].value[i] = 0
    BY <1>2, <1>10 DEF Memory
  <2> QED BY <2>1, <2>2, <2>3, <2>4 DEF Memory
<1>14. NoLeak'
  BY <1>1, <1>2, <1>3, <1>7, <1>9, <1>10 DEF NoLeak
<1>15. Writing'
  BY <1>2, <1>10 DEF Writing
<1>16. Spared
  BY <1>3, <1>7 DEF Spared
<1>17. \A t \in Survivors(journal', buf') : Good(t)'
  <2>1. ASSUME NEW t \in TableType, Good(t) PROVE Good(t)'
    <3>1. lru'.edited \subseteq t.edited
      BY <1>10, <2>1 DEF Good
    <3> QED BY <1>2, <1>3, <1>16, <2>1, <3>1, StaysGood
  <2> QED BY <1>1, <1>3, <2>1
<1>18. ASSUME NEW t, Follows(t) PROVE Follows(t)'
  <2>1. ~Exists(clean, k) /\ ~Exists(clean', k)
    <3>1. ~Exists(clean, k)
      BY DEF remove_Throws
    <3> QED BY <1>7, <3>1 DEF Exists
  <2>2. ASSUME NEW j \in lru.readable \ lru.edited, Exists(clean', j)
        PROVE  t.lengths[j] = lru'.lengths[j]
    <3>1. j \in Keys \ {k}
      BY <1>1, <2>1, <2>2
    <3>2. Exists(clean, j)
      BY <1>7, <2>2, <3>1 DEF Exists
    <3> QED BY <1>11, <1>18, <3>1, <3>2 DEF Follows
  <2> QED BY <1>10, <1>18, <2>2 DEF Follows
<1>19. Sound(journal') => \E t : t = Replay(journal'.table, buf') /\ Follows(t)'
  BY <1>1, <1>3, <1>18
<1> QED BY <1>1, <1>3, <1>12, <1>13, <1>14, <1>15, <1>17, <1>19, AliveStep

-----------------------------------------------------------------------------
(* The process ends. *)

(* The files' types. *)
FileTypes ==
  /\ journal \in FileType /\ bkp \in FileType /\ wiped \in BOOLEAN
  /\ last \in [Keys -> LengthType]
  /\ clean \in [Keys -> LengthType] /\ dirty \in [Keys -> LengthType]
  /\ (~journal.exists => journal = NoFile) /\ (~bkp.exists => bkp = NoFile)

(* A step to no cache: the table in the journal must be good. *)
LEMMA ClosedStep ==
  ASSUME open' = FALSE, lru' = Empty, buf' = NoLines, holder' = "nobody",
         edits' \in [Keys -> EditType], \A k \in Keys, i \in Index : edits'[k].value[i] = 0,
         FileTypes', NEW g, g = Readable(journal', bkp'),
         ~g.corrupt => \A t : t = g.table => Good(t)'
  PROVE  IInv'
<1>1. /\ Empty \in TableType /\ Known(Empty) = {} /\ Empty.readable = {} /\ Empty.edited = {}
  BY EmptyIs
<1>2. Types'
  BY <1>1, NoLinesIs DEF Types, FileTypes
<1>3. Shape'
  BY DEF Shape, FileTypes, NoLines
<1>4. Memory'
  BY <1>1 DEF Memory, Fine
<1>5. NoLeak' /\ Writing' /\ Tracks'
  BY <1>1 DEF NoLeak, Writing, Tracks
<1>6. g \in FileType
  BY DEF Readable, FileTypes
<1>7. Survivors(g, NoLines) = IF g.corrupt THEN {} ELSE {g.table}
  BY <1>6, NoLinesIs, SurvivorsAre
<1>8. \A t \in Survivors(g, NoLines) : Good(t)'
  BY <1>7
<1>9. OnDisk' = g
  BY DEF OnDisk
<1>10. AllGood'
  BY <1>8, <1>9 DEF AllGood
<1> QED BY <1>2, <1>3, <1>4, <1>5, <1>10 DEF IInv

(* ... because the memory is lost. *)
LEMMA DownStep ==
  ASSUME Off, FileTypes', NEW g, g = Readable(journal', bkp'),
         ~g.corrupt => \A t : t = g.table => Good(t)'
  PROVE  IInv'
<1>1. /\ open' = FALSE /\ lru' = Empty /\ buf' = NoLines /\ holder' = "nobody"
      /\ edits' = [k \in Keys |-> NoEdit]
  BY DEF Off, NoLines
<1>2. /\ NoEdit \in EditType /\ \A i \in Index : NoEdit.value[i] = 0
  BY EmptyIs DEF NoEdit, EditType, None
<1> QED BY <1>1, <1>2, ClosedStep

(* Part of the buffer is written. *)
LEMMA WriteOut ==
  ASSUME IInv, open, NEW n \in 0..Len(buf), NEW g, g = Appended(journal, SubSeq(buf, 1, n))
  PROVE  /\ g \in FileType /\ g.exists
         /\ ~g.corrupt => g.table \in TableType /\ Good(g.table)
<1>1. /\ journal.exists /\ journal \in FileType /\ buf \in Seq(LineType)
      /\ \A t \in Survivors(journal, buf) : t \in TableType /\ Good(t)
  BY GoodSurvivors DEF IInv, Types
<1>2. /\ g \in FileType /\ (journal.exists => g.exists)
      /\ ~g.corrupt => g.table \in Survivors(journal, buf)
  BY <1>1, AppendedIs
<1> QED BY <1>1, <1>2

(* The process is killed, with some of the buffer written and some files gone. *)
LEMMA KillStep ==
  ASSUME IInv, open, Killed, Spared, UNCHANGED <<bkp, last, wiped>>,
         clean' \in [Keys -> LengthType], dirty' \in [Keys -> LengthType]
  PROVE  IInv'
<1>1. PICK n \in 0..Len(buf) : LET f == Appended(journal, SubSeq(buf, 1, n))
                               IN  journal' \in {f, Torn(f)}
  BY DEF Killed
<1> DEFINE f == Appended(journal, SubSeq(buf, 1, n))
<1>2. /\ f \in FileType /\ f.exists /\ (~f.corrupt => f.table \in TableType /\ Good(f.table))
  BY WriteOut
<1>3. journal' \in {f, Torn(f)}
  BY <1>1
<1> HIDE DEF f
<1>4. /\ journal' \in FileType /\ journal'.exists /\ journal'.table = f.table
      /\ journal'.corrupt = f.corrupt
  BY <1>2, <1>3 DEF Torn, FileType
<1>5. Types /\ Shape /\ Off
  BY DEF IInv, Killed
<1>6. FileTypes'
  BY <1>4, <1>5 DEF FileTypes, Types, Shape
<1>7. Readable(journal', bkp') = journal'
  BY <1>4 DEF Readable
<1>8. lru'.edited = {}
  BY <1>5, EmptyIs DEF Off
<1>9. ASSUME ~journal'.corrupt, NEW t, t = journal'.table
      PROVE  Good(t)'
  <2>1. t \in TableType /\ Good(t)
    BY <1>2, <1>4, <1>9
  <2> QED BY <1>5, <1>8, <2>1, StaysGood
<1> QED BY <1>5, <1>6, <1>7, <1>9, DownStep

(* Files named in an action that deletes some of them. *)
LEMMA FilesLeft ==
  ASSUME Types, NEW k \in Keys, NEW n
  PROVE  /\ Renamed(k, n) \in LengthType /\ Unrenamed(k, n) \in LengthType
         /\ Deleted(clean, k, n) \in [Keys -> LengthType]
         /\ \A i \in Index : /\ Unrenamed(k, n)[i] \in {0, dirty[k][i]}
                             /\ Deleted(clean, k, n)[k][i] \in {0, clean[k][i]}
         /\ \A j \in Keys \ {k} : Deleted(clean, k, n)[j] = clean[j]
<1>1. clean \in [Keys -> LengthType] /\ dirty \in [Keys -> LengthType]
  BY DEF Types
<1>2. Renamed(k, n) \in LengthType
  BY <1>1 DEF Renamed, LengthType
<1>3. Unrenamed(k, n) \in LengthType /\ \A i \in Index : Unrenamed(k, n)[i] \in {0, dirty[k][i]}
  BY <1>1 DEF Unrenamed, LengthType
<1>4. /\ Deleted(clean, k, n) \in [Keys -> LengthType]
      /\ \A i \in Index : Deleted(clean, k, n)[k][i] \in {0, clean[k][i]}
      /\ \A j \in Keys \ {k} : Deleted(clean, k, n)[j] = clean[j]
  BY <1>1 DEF Deleted, LengthType
<1> QED BY <1>2, <1>3, <1>4

(* ... in a call, or between two. *)
LEMMA CrashStep ==
  ASSUME IInv, Crash \/ \E k \in Keys : CrashInCommit(k) \/ CrashInDiscard(k) \/ CrashInRemove(k)
  PROVE  IInv'
<1>1. Types /\ clean \in [Keys -> LengthType] /\ dirty \in [Keys -> LengthType]
  BY DEF IInv, Types
<1>2. CASE Crash
  <2>1. open /\ Killed /\ UNCHANGED <<bkp, clean, dirty, last, wiped>>
    BY <1>2 DEF Crash, files, history
  <2>2. Spared
    BY <2>1 DEF Spared
  <2> QED BY <1>1, <2>1, <2>2, KillStep
<1>3. ASSUME NEW k \in Keys, CrashInCommit(k)
      PROVE  IInv'
  <2>1. open /\ k \in lru.edited /\ Killed /\ UNCHANGED <<bkp, last, wiped>>
    BY <1>3 DEF CrashInCommit, MayPublish, Free, history
  <2>2. PICK n \in 1..ValueCount : /\ clean' = [clean EXCEPT ![k] = Renamed(k, n)]
                                   /\ dirty' = [dirty EXCEPT ![k] = Unrenamed(k, n)]
    BY <1>3 DEF CrashInCommit
  <2>3. /\ clean' \in [Keys -> LengthType] /\ dirty' \in [Keys -> LengthType]
        /\ \A j \in Keys \ {k} : clean'[j] = clean[j] /\ dirty'[j] = dirty[j]
    BY <1>1, <2>2, FilesLeft
  <2>4. Spared
    BY <2>1, <2>3 DEF Spared
  <2> QED BY <2>1, <2>3, <2>4, KillStep
<1>4. ASSUME NEW k \in Keys, CrashInDiscard(k)
      PROVE  IInv'
  <2>1. open /\ k \in lru.edited /\ Killed /\ UNCHANGED <<bkp, clean, last, wiped>>
    BY <1>4 DEF CrashInDiscard, history
  <2>2. PICK n \in 1..ValueCount : dirty' = [dirty EXCEPT ![k] = Unrenamed(k, n)]
    BY <1>4 DEF CrashInDiscard
  <2>3. /\ dirty' \in [Keys -> LengthType]
        /\ \A j \in Keys \ {k} : dirty'[j] = dirty[j]
    BY <1>1, <2>2, FilesLeft
  <2>4. Spared
    BY <2>1, <2>3 DEF Spared
  <2> QED BY <1>1, <2>1, <2>3, <2>4, KillStep
<1>5. ASSUME NEW k \in Keys, CrashInRemove(k)
      PROVE  IInv'
  <2>1. open /\ Killed /\ UNCHANGED <<bkp, dirty, last, wiped>>
    BY <1>5 DEF CrashInRemove, history
  <2>2. PICK n \in 1..FirstMissing(k) : clean' = Deleted(clean, k, n)
    BY <1>5 DEF CrashInRemove
  <2>3. /\ clean' \in [Keys -> LengthType]
        /\ \A j \in Keys, i \in Index : clean'[j][i] \in {0, clean[j][i]}
    BY <1>1, <2>2, FilesLeft
  <2>4. Spared
    BY <2>1, <2>3 DEF Spared
  <2> QED BY <1>1, <2>1, <2>3, <2>4, KillStep
<1> QED BY <1>2, <1>3, <1>4, <1>5

-----------------------------------------------------------------------------
(* The ends of a trim. *)

(* A journal made of the table in memory is as good, and follows it. *)
LEMMA RebuiltGood ==
  ASSUME IInv, open, NEW v, v = Rebuilt(lru).table
  PROVE  /\ Rebuilt(lru) \in FileType /\ Rebuilt(lru).exists /\ Sound(Rebuilt(lru))
         /\ v \in TableType /\ Good(v) /\ Follows(v)
<1>1. /\ lru \in TableType /\ lru.readable \subseteq Keys /\ lru.edited \subseteq Keys
  BY GoodSurvivors DEF TableType
<1>2. Memory /\ NoLeak
  BY DEF IInv
<1>3. RebuiltAs(v, lru, Known(lru)) /\ Rebuilt(lru) = Holds(v)
  BY <1>1, RebuiltIs
<1>4. v \in TableType /\ Known(v) = Known(lru) /\ v.edited = Known(lru) \cap lru.edited
      /\ v.readable = Known(lru) \ lru.edited
      /\ \A k \in v.readable : v.lengths[k] = lru.lengths[k]
  BY <1>3 DEF RebuiltAs
<1>5. Known(lru) = lru.readable \cup lru.edited
  BY <1>2 DEF Memory, Fine
<1>6. v.edited = lru.edited /\ v.readable = lru.readable \ lru.edited
  BY <1>4, <1>5
<1>7. Fine(v)
  BY <1>4, <1>5, <1>6 DEF Fine
<1>8. Kept(v)
  BY <1>2, <1>4, <1>6 DEF Kept, Memory
<1>9. Covered(v)
  BY <1>2, <1>4, <1>5 DEF Covered, NoLeak
<1>10. Follows(v)
  BY <1>4, <1>6 DEF Follows
<1>11. Rebuilt(lru) \in FileType /\ Rebuilt(lru).exists /\ Sound(Rebuilt(lru))
  BY <1>3, <1>4, FilesAre
<1> QED BY <1>4, <1>6, <1>7, <1>8, <1>9, <1>10, <1>11 DEF Good

(* The rebuilt journal stands for the old one and its buffer. *)
LEMMA RebuildStep ==
  ASSUME IInv, rebuildJournal
  PROVE  IInv'
<1> DEFINE v == Rebuilt(lru).table
<1>1. open /\ open' /\ Types /\ Memory /\ NoLeak /\ Writing
  BY DEF IInv, Shape, rebuildJournal
<1>2. /\ UNCHANGED <<open, lru, edits, clean, dirty, last, wiped>> /\ bkp' = NoFile
      /\ journal' = Rebuilt(lru) /\ buf' = NoLines
  BY DEF rebuildJournal, files, history, NoLines
<1>3. bkp' = bkp
  BY <1>1, <1>2, GoodSurvivors
<1>4. /\ journal' \in FileType /\ journal'.exists /\ Sound(journal') /\ journal'.table = v
      /\ v \in TableType /\ Good(v) /\ Follows(v)
  BY <1>1, <1>2, RebuiltGood
<1>5. Survivors(journal', buf') = {v} /\ Replay(journal'.table, buf') = v
  <2>1. Survivors(journal', NoLines) = IF journal'.corrupt THEN {} ELSE {journal'.table}
    BY <1>4, NoLinesIs, SurvivorsAre
  <2>2. Replay(v, NoLines) = v
    BY ReplayNothing
  <2> QED BY <1>2, <1>4, <2>1, <2>2 DEF Sound
<1> HIDE DEF v
<1>6. ASSUME NEW t, Good(t) PROVE Good(t)'
  BY <1>2, <1>6 DEF Good, Fine, Kept, Covered, Committed
<1>7. ASSUME NEW t, Follows(t) PROVE Follows(t)'
  BY <1>2, <1>7 DEF Follows, Exists
<1>8. Types'
  BY <1>1, <1>2, <1>3, <1>4, NoLinesIs DEF Types
<1>9. Memory' /\ NoLeak' /\ Writing'
  BY <1>1, <1>2 DEF Memory, Fine, Committed, NoLeak, Writing
<1>10. \A t \in Survivors(journal', buf') : Good(t)'
  BY <1>4, <1>5, <1>6
<1>11. \E t : t = Replay(journal'.table, buf') /\ Follows(t)'
  BY <1>4, <1>5, <1>7
<1> QED BY <1>1, <1>3, <1>4, <1>8, <1>9, <1>10, <1>11, AliveStep

(* After what is in the buffer is written, with some files deleted. *)
LEMMA WrittenDown ==
  ASSUME IInv, open, Off, FileTypes', Spared, wiped => wiped',
         Readable(journal', bkp') = Appended(journal, buf)
  PROVE  IInv'
<1> DEFINE g == Appended(journal, buf)
<1>1. Types /\ buf \in Seq(LineType)
  BY DEF IInv, Types
<1>2. SubSeq(buf, 1, Len(buf)) = buf /\ Len(buf) \in 0..Len(buf)
  BY <1>1, PrefixIs, LenProperties
<1>3. g = Appended(journal, SubSeq(buf, 1, Len(buf)))
  BY <1>2
<1> HIDE DEF g
<1>4. g \in FileType /\ (~g.corrupt => g.table \in TableType /\ Good(g.table))
  BY <1>2, <1>3, WriteOut
<1>5. lru'.edited = {}
  BY EmptyIs DEF Off
<1>6. ASSUME ~g.corrupt, NEW t, t = g.table
      PROVE  Good(t)'
  BY <1>1, <1>4, <1>5, <1>6, StaysGood
<1> QED BY <1>6, DownStep DEF g

(* The file that the buffer has been written to. *)
LEMMA WrittenFile ==
  ASSUME IInv, open
  PROVE  Appended(journal, buf) \in FileType /\ Appended(journal, buf).exists
<1> DEFINE n == Len(buf)
<1>1. SubSeq(buf, 1, n) = buf /\ n \in 0..Len(buf)
  BY PrefixIs, LenProperties DEF IInv, Types
<1> HIDE DEF n
<1>2. Appended(journal, SubSeq(buf, 1, n)) = Appended(journal, buf)
  BY <1>1
<1> DEFINE g == Appended(journal, SubSeq(buf, 1, n))
<1>3. g \in FileType /\ g.exists
  <2>1. g = Appended(journal, SubSeq(buf, 1, n))
    OBVIOUS
  <2> HIDE DEF g
  <2> QED BY <1>1, <2>1, WriteOut
<1> QED BY <1>2, <1>3

(* No entries: a good table, when there are no files, or files were left by a
   deletion that was cut short. *)
LEMMA EmptyGood ==
  ASSUME lru'.edited = {}, NEW t, t.readable = {}, t.edited = {}, Known(t) = {},
         wiped' \/ \A k \in Keys, i \in Index : clean'[k][i] = 0 /\ dirty'[k][i] = 0
  PROVE  Good(t)'
BY DEF Good, Fine, Kept, Covered

(* Files are deleted and none is made. *)
LEMMA KeepSomeIs ==
  ASSUME Types, NEW ks, KeepSome(ks)
  PROVE  /\ clean' \in [Keys -> LengthType] /\ dirty' \in [Keys -> LengthType]
         /\ \A k \in Keys, i \in Index : /\ clean'[k][i] \in {0, clean[k][i]}
                                         /\ dirty'[k][i] \in {0, dirty[k][i]}
<1>1. clean \in [Keys -> LengthType] /\ dirty \in [Keys -> LengthType]
  BY DEF Types
<1>2. PICK gone, gone_tmp \in SUBSET (ks \X Index) :
        /\ clean' = [k \in Keys |-> [i \in Index |-> IF <<k, i>> \in gone THEN 0 ELSE clean[k][i]]]
        /\ dirty' = [k \in Keys |-> [i \in Index |-> IF <<k, i>> \in gone_tmp THEN 0 ELSE dirty[k][i]]]
  BY DEF KeepSome
<1>3. /\ clean' \in [Keys -> LengthType]
      /\ \A k \in Keys, i \in Index : clean'[k][i] \in {0, clean[k][i]}
  BY <1>1, <1>2 DEF LengthType
<1>4. /\ dirty' \in [Keys -> LengthType]
      /\ \A k \in Keys, i \in Index : dirty'[k][i] \in {0, dirty[k][i]}
  BY <1>1, <1>2 DEF LengthType
<1> QED BY <1>3, <1>4

(* One of the two is left when rebuilding is cut short. *)
LEMMA RebuildCrashStep ==
  ASSUME IInv, CrashInRebuild
  PROVE  IInv'
<1>1. open /\ Types /\ Shape /\ Off
  BY DEF IInv, Shape, CrashInRebuild
<1>2. UNCHANGED <<clean, dirty, last, wiped>> /\ bkp' = Appended(journal, buf)
      /\ journal' \in {NoFile, Rebuilt(lru)}
  BY DEF CrashInRebuild, files, history
<1>3. bkp' \in FileType /\ bkp'.exists
  BY <1>1, <1>2, WrittenFile
<1>4. CASE journal' = NoFile
  <2>1. FileTypes'
    BY <1>1, <1>2, <1>3, <1>4, FilesAre DEF FileTypes, Types
  <2>2. Readable(journal', bkp') = Appended(journal, buf)
    BY <1>2, <1>4, FilesAre DEF Readable
  <2>3. Spared
    BY <1>2 DEF Spared
  <2> QED BY <1>1, <1>2, <2>1, <2>2, <2>3, WrittenDown
<1>5. CASE journal' = Rebuilt(lru)
  <2> DEFINE v == Rebuilt(lru).table
  <2>1. /\ journal' \in FileType /\ journal'.exists /\ journal'.table = v
        /\ v \in TableType /\ Good(v)
    BY <1>1, <1>5, RebuiltGood
  <2>2. FileTypes'
    BY <1>1, <1>2, <1>3, <2>1 DEF FileTypes, Types
  <2>3. Readable(journal', bkp') = journal'
    BY <2>1 DEF Readable
  <2>4. Spared /\ lru'.edited = {}
    BY <1>1, <1>2, EmptyIs DEF Spared, Off
  <2> HIDE DEF v
  <2>5. ASSUME NEW t, t = journal'.table PROVE Good(t)'
    <3>1. t \in TableType /\ Good(t)
      BY <2>1, <2>5
    <3> QED BY <1>1, <1>2, <2>4, <3>1, StaysGood
  <2> QED BY <1>1, <2>2, <2>3, <2>5, DownStep
<1> QED BY <1>2, <1>4, <1>5

(* A closed cache has all its lines in the file. *)
LEMMA CloseStep ==
  ASSUME IInv, EndClose
  PROVE  IInv'
<1>1. open /\ Types /\ Shape /\ Off
  BY DEF IInv, Shape, EndClose
<1>2. UNCHANGED <<bkp, clean, dirty, last, wiped>> /\ journal' = Appended(journal, buf)
  BY DEF EndClose, files, history
<1>3. journal' \in FileType /\ journal'.exists
  BY <1>1, <1>2, WrittenFile
<1>4. FileTypes'
  BY <1>1, <1>2, <1>3 DEF FileTypes, Types, Shape
<1>5. Readable(journal', bkp') = Appended(journal, buf)
  BY <1>2, <1>3 DEF Readable
<1>6. Spared
  BY <1>2 DEF Spared
<1> QED BY <1>1, <1>2, <1>4, <1>5, <1>6, WrittenDown

(* A deleted cache has nothing, or what a crash left. *)
LEMMA DeleteStep ==
  ASSUME IInv, EndDelete \/ CrashInDelete
  PROVE  IInv'
<1>1. open /\ Types /\ Shape /\ Off
  BY DEF IInv, Shape, EndDelete, CrashInDelete
<1>2. lru'.edited = {} /\ Readable(NoFile, NoFile) = NoFile
  BY <1>1, EmptyIs DEF Off, Readable
<1>3. CASE EndDelete
  <2>1. /\ journal' = NoFile /\ bkp' = NoFile /\ clean' = NoKeys /\ dirty' = NoKeys
        /\ last' = NoKeys /\ wiped' = wiped
    BY <1>3 DEF EndDelete
  <2>2. NoKeys \in [Keys -> LengthType] /\ \A k \in Keys, i \in Index : NoKeys[k][i] = 0
    BY EmptyIs DEF NoKeys, None
  <2>3. FileTypes'
    BY <1>1, <2>1, <2>2, FilesAre DEF FileTypes, Types
  <2>4. \A t : t = NoFile.table => Good(t)'
    BY <1>2, <2>1, <2>2, FilesAre, EmptyIs, EmptyGood
  <2> QED BY <1>1, <1>2, <2>1, <2>3, <2>4, DownStep
<1>4. CASE CrashInDelete
  <2>1. /\ journal' \in {Appended(journal, buf), NoFile} /\ bkp' = NoFile /\ KeepSome(Keys)
        /\ wiped' = (wiped \/ journal' = NoFile) /\ last' = last
    BY <1>4 DEF CrashInDelete
  <2>2. /\ clean' \in [Keys -> LengthType] /\ dirty' \in [Keys -> LengthType]
        /\ \A k \in Keys, i \in Index : /\ clean'[k][i] \in {0, clean[k][i]}
                                        /\ dirty'[k][i] \in {0, dirty[k][i]}
    BY <1>1, <2>1, KeepSomeIs
  <2>3. Appended(journal, buf) \in FileType /\ Appended(journal, buf).exists
    BY <1>1, WrittenFile
  <2>4. FileTypes'
    BY <1>1, <2>1, <2>2, <2>3, FilesAre DEF FileTypes, Types
  <2>5. CASE journal' = NoFile
    <3>1. \A t : t = NoFile.table => Good(t)'
      BY <1>2, <2>1, <2>5, FilesAre, EmptyIs, EmptyGood
    <3> QED BY <1>1, <1>2, <2>1, <2>4, <2>5, <3>1, DownStep
  <2>6. CASE journal' = Appended(journal, buf)
    <3>1. Readable(journal', bkp') = Appended(journal, buf)
      BY <2>3, <2>6 DEF Readable
    <3>2. Spared
      BY <2>1, <2>2 DEF Spared
    <3> QED BY <1>1, <2>1, <2>4, <3>1, <3>2, WrittenDown
  <2> QED BY <2>1, <2>5, <2>6
<1> QED BY <1>3, <1>4

-----------------------------------------------------------------------------
(* Opening. *)

(* What there is to open. *)
LEMMA OnDiskGood ==
  ASSUME IInv, ~open
  PROVE  /\ Types /\ lru = Empty /\ lru.edited = {} /\ buf = NoLines /\ holder = "nobody"
         /\ \A k \in Keys, i \in Index : edits[k].value[i] = 0
         /\ OnDisk \in FileType /\ (~OnDisk.exists => OnDisk = NoFile)
         /\ ~OnDisk.corrupt => OnDisk.table \in TableType /\ Good(OnDisk.table)
<1>1. Types /\ Shape /\ Memory /\ AllGood
  BY DEF IInv
<1>2. lru = Empty /\ lru.edited = {} /\ buf = NoLines /\ holder = "nobody"
  BY <1>1, EmptyIs DEF Shape, NoLines
<1>3. \A k \in Keys, i \in Index : edits[k].value[i] = 0
  BY <1>1, <1>2 DEF Memory
<1>4. OnDisk \in FileType /\ (~OnDisk.exists => OnDisk = NoFile)
  BY <1>1 DEF Types, Shape, OnDisk, Readable
<1>5. Survivors(OnDisk, NoLines) = IF OnDisk.corrupt THEN {} ELSE {OnDisk.table}
  BY <1>4, NoLinesIs, SurvivorsAre
<1>6. ASSUME ~OnDisk.corrupt
      PROVE  OnDisk.table \in TableType /\ Good(OnDisk.table)
  BY <1>1, <1>2, <1>4, <1>5, <1>6 DEF AllGood, FileType
<1> QED BY <1>1, <1>2, <1>3, <1>4, <1>6

(* Opening is cut short with some of the files deleted that it deletes. *)
LEMMA OpenCrashStep ==
  ASSUME IInv, CrashInOpen
  PROVE  IInv'
<1>1. ~open /\ OnDisk.exists /\ bkp' = NoFile /\ last' = last
      /\ UNCHANGED <<open, lru, edits, holder, buf>>
      /\ wiped' = (wiped \/ journal' = NoFile) /\ journal' \in {OnDisk, NoFile}
  BY DEF CrashInOpen, memory
<1>2. /\ Types /\ lru = Empty /\ lru.edited = {} /\ buf = NoLines /\ holder = "nobody"
      /\ \A k \in Keys, i \in Index : edits[k].value[i] = 0
      /\ OnDisk \in FileType
      /\ ~OnDisk.corrupt => OnDisk.table \in TableType /\ Good(OnDisk.table)
  BY <1>1, OnDiskGood
<1>3. PICK ks : KeepSome(ks)
  BY DEF CrashInOpen
<1>4. /\ clean' \in [Keys -> LengthType] /\ dirty' \in [Keys -> LengthType]
      /\ \A k \in Keys, i \in Index : /\ clean'[k][i] \in {0, clean[k][i]}
                                      /\ dirty'[k][i] \in {0, dirty[k][i]}
  BY <1>2, <1>3, KeepSomeIs
<1>5. FileTypes'
  BY <1>1, <1>2, <1>4, FilesAre DEF FileTypes, Types
<1>6. open' = FALSE /\ lru' = Empty /\ buf' = NoLines /\ holder' = "nobody"
      /\ edits' \in [Keys -> EditType] /\ \A k \in Keys, i \in Index : edits'[k].value[i] = 0
  BY <1>1, <1>2 DEF Types
<1>7. CASE journal' = NoFile
  <2>1. \A t : t = NoFile.table => Good(t)'
    BY <1>1, <1>2, <1>7, FilesAre, EmptyIs, EmptyGood
  <2>2. Readable(journal', bkp') = NoFile
    BY <1>1, <1>7 DEF Readable
  <2> QED BY <1>5, <1>6, <2>1, <2>2, ClosedStep
<1>8. CASE journal' = OnDisk
  <2>1. Readable(journal', bkp') = journal'
    BY <1>1, <1>8 DEF Readable
  <2>2. Spared
    BY <1>1, <1>4 DEF Spared
  <2>3. ASSUME ~journal'.corrupt, NEW t, t = journal'.table
        PROVE  Good(t)'
    <3>1. t \in TableType /\ Good(t)
      BY <1>2, <1>8, <2>3
    <3>2. lru'.edited \subseteq t.edited
      BY <1>1, <1>2
    <3> QED BY <1>1, <1>2, <2>2, <3>1, <3>2, StaysGood
  <2> QED BY <1>5, <1>6, <2>1, <2>3, ClosedStep
<1> QED BY <1>1, <1>7, <1>8

(* The cache is open with the table that is in its journal. *)
LEMMA UpStep ==
  ASSUME open', Types', journal'.exists, bkp' = NoFile, buf' = NoLines, lru'.edited = {},
         ~journal'.corrupt, NEW t, t = journal'.table, Good(t)', Follows(t)', Memory', NoLeak'
  PROVE  IInv'
<1>1. Shape'
  BY DEF Shape
<1>2. Writing'
  BY DEF Writing
<1>3. Replay(journal'.table, buf') = t
  BY ReplayNothing
<1>4. Tracks'
  BY <1>3 DEF Tracks, Follows
<1>5. OnDisk' = journal' /\ journal' \in FileType
  BY DEF OnDisk, Readable, Types
<1>6. Survivors(journal', NoLines) = {t}
  BY <1>5, NoLinesIs, SurvivorsAre
<1>7. AllGood'
  BY <1>5, <1>6 DEF AllGood
<1> QED BY <1>1, <1>2, <1>4, <1>7 DEF IInv

(* No journal, or none that can be read. *)
LEMMA OpenEmptyStep ==
  ASSUME IInv, OpenCorrupt \/ OpenEmpty
  PROVE  IInv'
<1>1. /\ ~open /\ open' /\ lru' = Empty /\ journal' = Rebuilt(Empty)
      /\ last' = [k \in Keys |-> IF Has(Empty, k) THEN last[k] ELSE None]
      /\ UNCHANGED <<edits, buf, wiped>>
  BY DEF OpenCorrupt, OpenEmpty, Up
<1>2. /\ Types /\ lru.edited = {} /\ buf = NoLines
      /\ \A k \in Keys, i \in Index : edits[k].value[i] = 0
      /\ OnDisk \in FileType /\ (~OnDisk.exists => OnDisk = NoFile)
      /\ ~OnDisk.corrupt => OnDisk.table \in TableType /\ Good(OnDisk.table)
  BY <1>1, OnDiskGood
<1>3. /\ Empty \in TableType /\ Known(Empty) = {} /\ None \in LengthType
      /\ Empty.readable = {} /\ Empty.edited = {}
  BY EmptyIs
<1>4. /\ clean' \in [Keys -> LengthType] /\ dirty' \in [Keys -> LengthType] /\ bkp' = NoFile
      /\ wiped' \/ \A k \in Keys, i \in Index : clean'[k][i] = 0 /\ dirty'[k][i] = 0
  <2>1. CASE OpenCorrupt
    <3>1. clean' = NoKeys /\ dirty' = NoKeys /\ bkp' = NoFile
      BY <2>1 DEF OpenCorrupt
    <3>2. NoKeys \in [Keys -> LengthType] /\ \A k \in Keys, i \in Index : NoKeys[k][i] = 0
      BY EmptyIs DEF NoKeys, None
    <3> QED BY <3>1, <3>2
  <2>2. CASE OpenEmpty
    <3>1. /\ UNCHANGED <<bkp, clean, dirty>> /\ ~OnDisk.exists
      BY <2>2 DEF OpenEmpty, files
    <3>2. OnDisk = NoFile /\ ~bkp.exists
      BY <1>2, <3>1 DEF OnDisk, Readable
    <3>3. bkp = NoFile
      BY <3>2 DEF IInv, Shape
    <3>4. Covered(Empty)
      BY <1>2, <3>2, FilesAre DEF Good
    <3> QED BY <1>1, <1>2, <1>3, <3>1, <3>3, <3>4 DEF Covered, Types
  <2> QED BY <2>1, <2>2
<1>5. last' \in [Keys -> LengthType]
  BY <1>1, <1>2, <1>3 DEF Types
<1> DEFINE v == Rebuilt(Empty).table
<1>6. RebuiltAs(v, Empty, {}) /\ Rebuilt(Empty) = Holds(v)
  BY <1>3, RebuiltIs
<1>7. v \in TableType /\ Known(v) = {} /\ v.edited = {} /\ v.readable = {}
  BY <1>6 DEF RebuiltAs
<1>8. /\ journal' \in FileType /\ journal'.exists /\ ~journal'.corrupt /\ v = journal'.table
  BY <1>1, <1>6, <1>7, FilesAre DEF Sound
<1> HIDE DEF v
<1>9. Types'
  BY <1>1, <1>2, <1>3, <1>4, <1>5, <1>8, FilesAre DEF Types
<1>10. PICK t : t = v
  OBVIOUS
<1>11. Good(t)'
  BY <1>1, <1>3, <1>4, <1>7, <1>10, EmptyGood
<1>12. Follows(t)'
  BY <1>1, <1>3, <1>7, <1>10 DEF Follows
<1>13. Memory' /\ NoLeak'
  BY <1>1, <1>2, <1>3, <1>4 DEF Memory, NoLeak, Fine
<1> QED BY <1>1, <1>2, <1>3, <1>4, <1>8, <1>9, <1>10, <1>11, <1>12, <1>13, UpStep


(* The entries that were being edited are gone, in memory and from the disk. *)
LEMMA OpenJournalStep ==
  ASSUME IInv, OpenJournal
  PROVE  IInv'
<1> DEFINE t == OnDisk.table
           u == Recovered(t)
<1>1. /\ ~open /\ OnDisk.exists /\ ~OnDisk.corrupt /\ open' /\ lru' = u
      /\ last' = [k \in Keys |-> IF Has(u, k) THEN last[k] ELSE None]
      /\ UNCHANGED <<edits, buf, wiped>>
      /\ clean' = Without(clean, t.edited) /\ dirty' = Without(dirty, t.edited)
      /\ journal' = OnDisk /\ bkp' = NoFile
  BY DEF OpenJournal, Up
<1>2. /\ Types /\ buf = NoLines /\ \A k \in Keys, i \in Index : edits[k].value[i] = 0
      /\ OnDisk \in FileType /\ t \in TableType /\ Good(t)
  BY <1>1, OnDiskGood
<1>3. RecoveredAs(u, t, t.edited)
  BY <1>2, RecoveredIs
<1>4. None \in LengthType /\ \A i \in Index : None[i] = 0
  BY EmptyIs DEF None
<1>5. PICK s : s = t
  OBVIOUS
<1> HIDE DEF t, u
<1>6. /\ s \in TableType /\ Known(s) = s.readable \cup s.edited /\ s.readable \subseteq Keys
      /\ s.edited \subseteq Keys
  BY <1>2, <1>5 DEF Good, Fine, TableType
<1>7. /\ u \in TableType /\ Known(u) = s.readable \ s.edited /\ u.readable = s.readable \ s.edited
      /\ u.edited = {} /\ \A k \in u.readable : u.lengths[k] = s.lengths[k]
  BY <1>3, <1>5, <1>6 DEF RecoveredAs
<1>8. clean \in [Keys -> LengthType] /\ dirty \in [Keys -> LengthType] /\ last \in [Keys -> LengthType]
  BY <1>2 DEF Types
<1>9. /\ last' \in [Keys -> LengthType] /\ clean' \in [Keys -> LengthType]
      /\ dirty' \in [Keys -> LengthType]
      /\ \A k \in s.edited, i \in Index : clean'[k][i] = 0 /\ dirty'[k][i] = 0
      /\ \A k \in Keys \ s.edited : clean'[k] = clean[k] /\ dirty'[k] = dirty[k]
      /\ \A k \in u.readable : last'[k] = last[k]
  <2>1. \A k \in u.readable : k \in Keys /\ Has(u, k)
    BY <1>6, <1>7 DEF Has, Known
  <2>2. last' \in [Keys -> LengthType] /\ \A k \in u.readable : last'[k] = last[k]
    BY <1>1, <1>4, <1>8, <2>1
  <2>3. /\ clean' \in [Keys -> LengthType]
        /\ \A k \in s.edited, i \in Index : clean'[k][i] = 0
        /\ \A k \in Keys \ s.edited : clean'[k] = clean[k]
    BY <1>1, <1>4, <1>5, <1>6, <1>8 DEF Without
  <2>4. /\ dirty' \in [Keys -> LengthType]
        /\ \A k \in s.edited, i \in Index : dirty'[k][i] = 0
        /\ \A k \in Keys \ s.edited : dirty'[k] = dirty[k]
    BY <1>1, <1>4, <1>5, <1>6, <1>8 DEF Without
  <2> QED BY <2>2, <2>3, <2>4
<1>10. \A k \in u.readable : /\ Committed(k, s.lengths[k])
                             /\ \A i \in Index : dirty[k][i] = 0
  BY <1>2, <1>5, <1>7 DEF Good, Kept
<1>11. ASSUME NEW k \in u.readable
       PROVE  Committed(k, s.lengths[k])' /\ \A i \in Index : dirty'[k][i] = 0
  <2>1. k \in Keys \ s.edited
    BY <1>6, <1>7
  <2> QED BY <1>9, <1>10, <2>1 DEF Committed
<1>12. wiped \/ \A k \in Keys \ Known(s), i \in Index : clean[k][i] = 0 /\ dirty[k][i] = 0
  BY <1>2, <1>5 DEF Good, Covered
<1>13. Types'
  BY <1>1, <1>2, <1>7, <1>9, FilesAre DEF Types
<1>14. Good(s)'
  <2>1. Kept(s)'
    BY <1>7, <1>11 DEF Kept
  <2>2. Covered(s)'
    BY <1>1, <1>6, <1>9, <1>12 DEF Covered
  <2> QED BY <1>1, <1>6, <1>7, <2>1, <2>2 DEF Good, Fine
<1>15. Follows(s)'
  BY <1>1, <1>7 DEF Follows
<1>16. Memory'
  <2>1. Fine(lru)'
    BY <1>1, <1>7 DEF Fine
  <2>2. \A k \in lru'.readable : Committed(k, lru.lengths[k])'
    BY <1>1, <1>7, <1>11 DEF Committed
  <2>3. \A k \in lru'.readable, i \in Index : dirty'[k][i] = 0
    BY <1>1, <1>11
  <2> QED BY <1>1, <1>2, <2>1, <2>2, <2>3 DEF Memory
<1>17. NoLeak'
  BY <1>1, <1>6, <1>7, <1>9, <1>11, <1>12 DEF NoLeak
<1> QED BY <1>1, <1>2, <1>5, <1>7, <1>13, <1>14, <1>15, <1>16, <1>17, UpStep DEF t

(* The directory is empty when the cache is first opened. *)
LEMMA InitIInv ==
  ASSUME Init
  PROVE  IInv
<1>1. /\ open = FALSE /\ lru = Empty /\ edits = [k \in Keys |-> NoEdit] /\ holder = "nobody"
      /\ buf = NoLines /\ journal = NoFile /\ bkp = NoFile
      /\ clean = NoKeys /\ dirty = NoKeys /\ last = NoKeys /\ wiped = FALSE
  BY DEF Init, NoLines
<1>2. /\ Empty \in TableType /\ Known(Empty) = {} /\ Empty.readable = {} /\ Empty.edited = {}
      /\ None \in LengthType
  BY EmptyIs
<1>3. NoKeys \in [Keys -> LengthType] /\ \A k \in Keys, i \in Index : NoKeys[k][i] = 0
  BY <1>2 DEF NoKeys, None
<1>4. NoEdit \in EditType /\ \A i \in Index : NoEdit.value[i] = 0
  BY <1>2 DEF NoEdit, EditType, None
<1>5. Types
  BY <1>1, <1>2, <1>3, <1>4, FilesAre, NoLinesIs DEF Types
<1>6. Shape
  BY <1>1 DEF Shape, NoLines
<1>7. Memory
  BY <1>1, <1>2, <1>4 DEF Memory, Fine
<1>8. NoLeak /\ Writing /\ Tracks
  BY <1>1, <1>2 DEF NoLeak, Writing, Tracks
<1>9. OnDisk = NoFile /\ NoFile.table = Empty
  BY <1>1, FilesAre DEF OnDisk, Readable
<1>10. Survivors(OnDisk, NoLines) = {Empty}
  BY <1>9, FilesAre, NoLinesIs, SurvivorsAre
<1>11. Good(Empty)
  BY <1>1, <1>2, <1>3 DEF Good, Fine, Kept, Covered
<1>12. AllGood
  BY <1>1, <1>10, <1>11 DEF AllGood
<1> QED BY <1>5, <1>6, <1>7, <1>8, <1>12 DEF IInv


-----------------------------------------------------------------------------
(* The invariant. *)

(* A key is read, or about to be edited while another edit is in progress. *)
LEMMA VisitStep ==
  ASSUME IInv, NEW k \in Keys, get(k) \/ edit_Refused(k)
  PROVE  IInv'
<1>1. /\ Types /\ open /\ open' /\ UNCHANGED <<edits, clean, dirty, last, wiped, bkp>>
      /\ journal.exists /\ lru \in TableType
  BY GoodSurvivors DEF IInv, get, edit_Refused, Free, files, history
<1>2. lru' = Visit(lru, k)
  BY DEF get, edit_Refused, Visit
<1>3. /\ lru' \in TableType /\ Known(lru') = Known(lru) /\ lru'.readable = lru.readable
      /\ lru'.edited = lru.edited /\ lru'.lengths = lru.lengths
  BY <1>1, <1>2, VisitIs
<1>4. CASE WriteNothing
  <2>1. Unlogged
    BY <1>1, <1>4, UnloggedIs
  <2>2. Types'
    BY <1>1, <1>3, <2>1, FilesAre DEF Types, Unlogged
  <2> QED BY <1>1, <1>3, <2>1, <2>2, UseStep
<1>5. CASE k \in lru.readable /\ Write(READ(k))
  <2>1. READ(k) \in LineType
    BY EmptyIs, LinesAre
  <2>2. Logged(READ(k))
    BY <1>1, <1>5, <2>1, LoggedIs
  <2>3. Types'
    BY <1>1, <1>3, <2>2, FilesAre DEF Types, Logged
  <2> QED BY <1>1, <1>3, <1>5, <2>2, <2>3, UseStep
<1> QED BY <1>4, <1>5 DEF get, edit_Refused, WriteNothing

(* Nothing but who holds the lock, the limit and the writer's buffer. *)
LEMMA IdleStep ==
  ASSUME IInv, open, WriteNothing \/ Flush(<<>>),
         UNCHANGED <<open, lru, edits, bkp, clean, dirty, last, wiped>>
  PROVE  IInv'
<1>1. Types /\ journal.exists
  BY GoodSurvivors DEF IInv
<1>2. Unlogged
  BY <1>1, UnloggedIs
<1>3. Types'
  BY <1>1, <1>2 DEF Types, Unlogged
<1> QED BY <1>2, <1>3, UseStep

(* An edit ends without a value. *)
LEMMA DiscardStep ==
  ASSUME IInv, open, NEW k \in lru.edited, Discard(k)
  PROVE  IInv'
BY DiscardKeeps, DiscardForgets

(* ... those in progress when the cache is closed, the eldest first. *)
LEMMA AbortedIs ==
  ASSUME IInv, AbortEditor
  PROVE  open /\ \E k \in Keys : k \in lru.edited /\ Discard(k)
<1> DEFINE n == SelectInSeq(lru.order, LAMBDA k : k \in lru.edited)
<1>1. Editing /\ Discard(lru.order[n])
  BY DEF AbortEditor
<1>2. open /\ lru \in TableType /\ Fine(lru)
  BY <1>1 DEF IInv, Types, Shape, Memory, Editing
<1>3. PICK k : k \in lru.edited
  BY <1>1 DEF Editing
<1>4. lru.order \in Seq(Keys) /\ k \in ToSet(lru.order)
  BY <1>2, <1>3 DEF TableType, Fine, Known
<1>5. PICK i \in 1..Len(lru.order) : lru.order[i] = k
  BY <1>4, ToSetIs
<1>6. lru.order[n] \in lru.edited
  BY <1>3, <1>4, <1>5, SelectInSeqIs
<1> HIDE DEF n
<1> QED BY <1>1, <1>2, <1>6 DEF TableType

(* An entry is removed, for a client or to trim. *)
LEMMA RemoveStep ==
  ASSUME IInv, open, open', UNCHANGED <<edits, dirty, bkp>>, NEW k,
         remove_Busy(k) \/ remove_Done(k) \/ remove_Throws(k)
  PROVE  IInv'
BY BusyStep, DoneStep, ThrowsStep

(* A client's call. *)
LEMMA ClientStep ==
  ASSUME IInv, NEW k \in Keys, Client(k)
  PROVE  IInv'
<1>1. CASE get(k) \/ edit_Refused(k)
  BY <1>1, VisitStep
<1>2. CASE edit(k)
  BY <1>2, EditStep
<1>3. CASE abort(k) \/ commit_Incomplete(k) \/ commit_Failed(k)
  <2>1. open /\ k \in lru.edited /\ Discard(k)
    BY <1>3 DEF abort, commit_Incomplete, commit_Failed, Free
  <2> QED BY <2>1, DiscardStep
<1>4. CASE remove(k) \/ DropStale(k)
  <2>1. /\ open /\ open' /\ UNCHANGED <<edits, dirty, bkp>>
        /\ (remove_Busy(k) \/ remove_Done(k) \/ remove_Throws(k))
    BY <1>4 DEF remove, DropStale, Free
  <2> QED BY <2>1, RemoveStep
<1>5. CASE commit(k)
  BY <1>5, CommitStep
<1>6. CASE \E i \in Index, v \in Values : newOutputStream(k, i, v)
  BY <1>6, OutputStep
<1> QED BY <1>1, <1>2, <1>3, <1>4, <1>5, <1>6 DEF Client

(* A step of who holds the lock. *)
LEMMA HolderStep ==
  ASSUME IInv, Holder
  PROVE  IInv'
<1>1. CASE AbortEditor
  BY <1>1, AbortedIs, DiscardStep
<1>2. CASE Trim
  <2>1. open /\ open' /\ UNCHANGED <<edits, dirty, bkp>>
    BY <1>2 DEF Trim, Trimming, IInv, Shape
  <2>2. \E k : remove_Busy(k) \/ remove_Done(k) \/ remove_Throws(k)
    BY <1>2 DEF Trim
  <2> QED BY <2>1, <2>2, RemoveStep
<1>3. CASE EndCleanup \/ EndFlush
  <2>1. /\ open /\ (WriteNothing \/ Flush(<<>>))
        /\ UNCHANGED <<open, lru, edits, bkp, clean, dirty, last, wiped>>
    BY <1>3 DEF EndCleanup, EndFlush, WriteNothing, files, history, IInv, Shape
  <2> QED BY <2>1, IdleStep
<1>4. CASE rebuildJournal
  BY <1>4, RebuildStep
<1>5. CASE EndClose
  BY <1>5, CloseStep
<1>6. CASE EndDelete
  BY <1>6, DeleteStep
<1> QED BY <1>1, <1>2, <1>3, <1>4, <1>5, <1>6 DEF Holder

(* The process is killed. *)
LEMMA CrashingStep ==
  ASSUME IInv, Crashing
  PROVE  IInv'
BY CrashStep, OpenCrashStep, RebuildCrashStep, DeleteStep DEF Crashing

(* Every step. *)
LEMMA NextStep ==
  ASSUME IInv, [Next]_vars
  PROVE  IInv'
<1>1. CASE Opening
  BY <1>1, OpenJournalStep, OpenEmptyStep DEF Opening
<1>2. CASE Holder
  BY <1>2, HolderStep
<1>3. CASE Crashing
  BY <1>3, CrashingStep
<1>4. CASE BeginTrim \/ \E n \in MaxSizes : setMaxSize(n)
  <2>1. /\ open /\ WriteNothing
        /\ UNCHANGED <<open, lru, edits, bkp, clean, dirty, last, wiped>>
    BY <1>4 DEF BeginTrim, BeginCleanup, BeginFlush, BeginClose, setMaxSize, Free,
                WriteNothing, files, history
  <2> QED BY <2>1, IdleStep
<1>5. CASE \E k \in Keys : Client(k)
  BY <1>5, ClientStep
<1>6. CASE UNCHANGED vars
  BY <1>6 DEF vars, IInv, Types, Shape, Memory, NoLeak, Writing, Tracks, AllGood, Good, Fine,
              Kept, Covered, Committed, Follows, Exists, OnDisk, Sound
<1> QED BY <1>1, <1>2, <1>3, <1>4, <1>5, <1>6 DEF Next

(* What may be read back, wherever the process is killed, is always a table
   that the files and the memory account for. *)
THEOREM Invariance == Spec => []IInv
<1>1. Init => IInv
  BY InitIInv
<1>2. IInv /\ [Next]_vars => IInv'
  BY NextStep
<1> QED BY <1>1, <1>2, PTL DEF Spec


(* "Committing is atomic: a read observes the full set of values as they were
   before or after the commit, but never a mix of values" (75-76), and so does a
   read after a crash, where every output stream opens its file. *)
THEOREM CommitsAreAtomic ==
  ASSUME ~OpenMayFail
  PROVE  Spec => []AllOrNothing
<1>1. IInv => AllOrNothing
  <2> SUFFICES ASSUME IInv, NEW k \in lru.readable, Exists(clean, k)
               PROVE  clean[k] = last[k]
    BY DEF AllOrNothing
  <2>1. k \in Keys /\ clean[k] \in LengthType /\ last[k] \in LengthType
    BY DEF IInv, Types, TableType
  <2>2. \A i \in Index : clean[k][i] # 0 => last[k][i] = clean[k][i]
    BY DEF IInv, Memory, Committed
  <2>3. \A i \in Index : last[k][i] = clean[k][i]
    BY <2>2 DEF Exists
  <2> QED BY <2>1, <2>3 DEF LengthType
<1> QED BY <1>1, Invariance, PTL

(* What the journal and its writer's buffer hold is what memory does, as far as
   there are files: readJournal would return the table that is in use (243-335). *)
THEOREM JournalIsTable == Spec => []ReplayIsTable
<1>1. IInv => ReplayIsTable
  <2> SUFFICES ASSUME IInv, open, Sound(journal)
               PROVE  LET t == Replay(journal.table, buf)
                      IN  /\ Live(t) = Live(lru)
                          /\ \A k \in Live(t) : t.lengths[k] = lru.lengths[k]
                          /\ lru.edited \subseteq t.edited
    BY DEF ReplayIsTable, Sound
  <2> DEFINE t == Replay(journal.table, buf)
  <2>1. Good(t) /\ Follows(t)
    BY GoodSurvivors
  <2> HIDE DEF t
  <2>2. Live(t) = Live(lru) /\ \A k \in Live(t) : t.lengths[k] = lru.lengths[k]
    BY <2>1 DEF Follows, Live
  <2>3. lru.edited \subseteq t.edited
    BY <2>1 DEF Good
  <2> QED BY <2>2, <2>3 DEF t
<1> QED BY <1>1, Invariance, PTL

(* "flush the journal before creating files to prevent file leaks" (479): no
   file is left that no journal names, unless the deletion of the directory was
   cut short. *)
THEOREM NoFileLeaks == Spec => []FilesAreJournalled
<1>1. IInv => FilesAreJournalled
  <2> SUFFICES ASSUME IInv, ~wiped, NEW k \in Keys, ~OnDisk.corrupt, ~Has(OnDisk.table, k)
               PROVE  clean[k] = None /\ dirty[k] = None
    BY DEF FilesAreJournalled, Leaked
  <2>1. Types /\ AllGood /\ OnDisk \in FileType /\ buf \in Seq(LineType)
    BY DEF IInv, Types, OnDisk, Readable
  <2>2. OnDisk.table \in Survivors(OnDisk, buf)
    <3>1. CASE OnDisk.torn
      BY <3>1 DEF Survivors
    <3>2. CASE ~OnDisk.torn
      <4> DEFINE p == SubSeq(buf, 1, 0)
      <4>1. p = NoLines /\ 0 \in 0..Len(buf)
        BY <2>1, PrefixIs, LenProperties
      <4>2. Replay(OnDisk.table, p) \in Survivors(OnDisk, buf)
        BY <3>2, <4>1 DEF Survivors
      <4> HIDE DEF p
      <4> QED BY <4>1, <4>2, ReplayNothing
    <3> QED BY <3>1, <3>2
  <2>3. k \notin Known(OnDisk.table) /\ Covered(OnDisk.table)
    BY <2>1, <2>2 DEF AllGood, Good, Has, Known
  <2>4. \A i \in Index : clean[k][i] = 0 /\ dirty[k][i] = 0
    BY <2>3 DEF Covered
  <2>5. clean[k] \in LengthType /\ dirty[k] \in LengthType
    BY <2>1 DEF Types
  <2> QED BY <2>4, <2>5 DEF LengthType, None
<1> QED BY <1>1, Invariance, PTL


-----------------------------------------------------------------------------
(* The size. *)

SizeIsTotal == size = Total(lru.lengths)

(* The entry of k has other lengths, and the size changes by the difference. *)
LEMMA ResizedStep ==
  ASSUME lru \in TableType, lru' \in TableType, SizeIsTotal, NEW k \in Keys, NEW l,
         l \in LengthType, lru'.lengths = [lru.lengths EXCEPT ![k] = l],
         size' = size + Sum(l) - Sum(lru.lengths[k])
  PROVE  SizeIsTotal'
<1> DEFINE g == lru.lengths
           h == lru'.lengths
<1>1. /\ g \in [Keys -> LengthType] /\ h \in [Keys -> LengthType] /\ h[k] = l
      /\ \A j \in Keys \ {k} : h[j] = g[j]
  BY DEF TableType
<1> HIDE DEF g, h
<1>2. /\ Total(g) \in Nat /\ Total(h) \in Nat /\ Sum(g[k]) \in Nat /\ Sum(l) \in Nat
      /\ Total(g) + Sum(l) = Total(h) + Sum(g[k])
  BY <1>1, TotalChanges
<1>3. size = Total(g) /\ size' = size + Sum(l) - Sum(g[k])
  BY DEF SizeIsTotal, g
<1>4. size' = Total(h)
  BY <1>2, <1>3
<1> QED BY <1>4 DEF SizeIsTotal, h

(* An edit that ends without a value leaves the lengths alone. *)
LEMMA DiscardedSize ==
  ASSUME IInv, NEW k \in Keys, Discard(k)
  PROVE  lru'.lengths = lru.lengths /\ size' = size
<1>1. lru \in TableType /\ size' = size
  BY DEF IInv, Types, Discard
<1>2. CASE k \in lru.readable
  <2> DEFINE l == lru.lengths[k]
  <2>1. lru' = Publish(lru, k, l)
    BY <1>2 DEF Discard
  <2> HIDE DEF l
  <2>2. lru'.lengths = [lru.lengths EXCEPT ![k] = l]
    BY <1>1, <2>1 DEF Publish, TableType
  <2>3. lru.lengths \in [Keys -> LengthType]
    BY <1>1 DEF TableType
  <2> QED BY <1>1, <2>2, <2>3 DEF l
<1>3. CASE k \notin lru.readable
  <2>1. lru'.lengths = [lru.lengths EXCEPT ![k] = None]
    BY <1>3 DEF Discard, Forget
  <2>2. lru.lengths \in [Keys -> LengthType] /\ lru.lengths[k] = None
    BY <1>1, <1>3 DEF TableType
  <2> QED BY <1>1, <2>1, <2>2
<1> QED BY <1>1, <1>2, <1>3

(* A removal takes the lengths of the files that are gone away. *)
LEMMA RemovedSize ==
  ASSUME IInv, IInv', SizeIsTotal, NEW k, remove_Busy(k) \/ remove_Done(k) \/ remove_Throws(k)
  PROVE  SizeIsTotal'
<1>1. lru \in TableType /\ lru' \in TableType
  BY DEF IInv, Types
<1>2. CASE remove_Busy(k)
  <2>1. lru'.lengths = lru.lengths /\ size' = size
    BY <1>1, <1>2, VisitIs DEF remove_Busy
  <2> QED BY <2>1 DEF SizeIsTotal
<1>3. ASSUME Has(lru, k) PROVE k \in Keys
  BY <1>1, <1>3, ToSetIs DEF Has, TableType
<1>4. CASE remove_Done(k)
  <2>1. k \in Keys
    BY <1>3, <1>4 DEF remove_Done
  <2>2. lru'.lengths = [lru.lengths EXCEPT ![k] = None]
    BY <1>4 DEF remove_Done, Forget
  <2>3. size' = size - Sum(lru.lengths[k])
    BY <1>4 DEF remove_Done
  <2>4. None \in LengthType /\ Sum(None) = 0 /\ lru.lengths[k] \in LengthType
    BY <1>1, <2>1, EmptyIs, SumType DEF TableType
  <2>5. Total(lru.lengths) \in Nat /\ Sum(lru.lengths[k]) \in Nat
    BY <1>1, <2>1, <2>4, SumType, TotalChanges DEF TableType
  <2>6. size' = size + Sum(None) - Sum(lru.lengths[k])
    BY <2>3, <2>4, <2>5 DEF SizeIsTotal
  <2> QED BY <1>1, <2>1, <2>2, <2>4, <2>6, ResizedStep
<1>5. CASE remove_Throws(k)
  <2> DEFINE n == FirstMissing(k)
             lengths == Deleted(lru.lengths, k, n)
  <2>1. k \in Keys
    BY <1>3, <1>5 DEF remove_Throws
  <2>2. /\ lru' = [Touch(lru, k) EXCEPT !.lengths = lengths]
        /\ size' = size + Sum(lengths[k]) - Sum(lru.lengths[k])
    BY <1>5 DEF remove_Throws
  <2>3. Touch(lru, k) \in TableType
    BY <1>1, <2>1, TouchIs
  <2>4. lru'.lengths = lengths
    <3> DEFINE v == Touch(lru, k)
    <3> HIDE DEF v, lengths
    <3> QED BY <2>2, <2>3 DEF TableType, v
  <2> HIDE DEF n
  <2>5. lengths[k] \in LengthType /\ lengths = [lru.lengths EXCEPT ![k] = lengths[k]]
    BY <1>1, <2>1 DEF Deleted, TableType, LengthType
  <2> HIDE DEF lengths
  <2> QED BY <1>1, <2>1, <2>2, <2>4, <2>5, ResizedStep
<1> QED BY <1>2, <1>4, <1>5

(* Without a cache there are no lengths. *)
LEMMA NothingSize ==
  ASSUME lru' = Empty, size' = 0
  PROVE  SizeIsTotal'
<1>1. Empty.lengths \in [Keys -> LengthType] /\ \A k \in Keys : Empty.lengths[k] = None
  BY EmptyIs DEF TableType
<1>2. Total(Empty.lengths) = 0
  BY <1>1, TotalChanges
<1> QED BY <1>2 DEF SizeIsTotal

(* Every step keeps the size. *)
LEMMA SizeStep ==
  ASSUME IInv, IInv', SizeIsTotal, [Next]_vars
  PROVE  SizeIsTotal'
<1>1. ASSUME lru'.lengths = lru.lengths, size' = size
      PROVE  SizeIsTotal'
  BY <1>1 DEF SizeIsTotal
<1>2. lru \in TableType /\ lru' \in TableType
  BY DEF IInv, Types
<1>3. CASE Opening
  BY <1>3 DEF Opening, OpenJournal, OpenCorrupt, OpenEmpty, Up, SizeIsTotal
<1>4. CASE Off
  BY <1>4, NothingSize DEF Off
<1>5. CASE Holder
  <2>1. CASE AbortEditor
    <3>1. PICK k \in Keys : Discard(k)
      BY <2>1, AbortedIs
    <3> QED BY <1>1, <3>1, DiscardedSize
  <2>2. CASE Trim
    BY <2>2, RemovedSize DEF Trim
  <2>3. CASE EndCleanup \/ rebuildJournal \/ EndFlush
    BY <1>1, <2>3 DEF EndCleanup, rebuildJournal, EndFlush
  <2>4. CASE EndClose \/ EndDelete
    BY <1>4, <2>4 DEF EndClose, EndDelete
  <2> QED BY <1>5, <2>1, <2>2, <2>3, <2>4 DEF Holder
<1>6. CASE Crashing
  BY <1>1, <1>4, <1>6 DEF Crashing, Crash, CrashInOpen, CrashInRebuild, CrashInDelete, CrashInCommit,
                          CrashInDiscard, CrashInRemove, Killed, memory
<1>7. CASE BeginTrim \/ (\E n \in MaxSizes : setMaxSize(n)) \/ UNCHANGED vars
  BY <1>1, <1>7 DEF BeginTrim, setMaxSize, vars
<1>8. ASSUME NEW k \in Keys, Client(k)
      PROVE  SizeIsTotal'
  <2>1. CASE get(k) \/ edit_Refused(k)
    <3>1. lru' = Visit(lru, k) /\ size' = size
      BY <2>1 DEF get, edit_Refused, Visit
    <3> QED BY <1>1, <1>2, <3>1, VisitIs
  <2>2. CASE edit(k)
    <3>1. lru' = Begin(Touch(lru, k), k) /\ size' = size
      BY <2>2 DEF edit
    <3>2. lru'.lengths = lru.lengths
      BY <1>2, <3>1, TouchIs, BeginIs
    <3> QED BY <1>1, <3>1, <3>2
  <2>3. CASE abort(k) \/ commit_Incomplete(k) \/ commit_Failed(k)
    BY <1>1, <2>3, DiscardedSize DEF abort, commit_Incomplete, commit_Failed
  <2>4. CASE remove(k) \/ DropStale(k)
    BY <2>4, RemovedSize DEF remove, DropStale
  <2>5. CASE commit(k)
    <3> DEFINE l == NewLengths(k)
    <3>1. lru' = Publish(lru, k, l) /\ size' = size + Sum(l) - Sum(lru.lengths[k])
      BY <2>5 DEF commit
    <3>2. l \in LengthType
      <4>1. dirty[k] \in LengthType /\ lru.lengths[k] \in LengthType
        BY DEF IInv, Types, TableType
      <4> QED BY <4>1 DEF NewLengths, LengthType
    <3> HIDE DEF l
    <3>3. lru'.lengths = [lru.lengths EXCEPT ![k] = l]
      BY <1>2, <3>1 DEF Publish, TableType
    <3> QED BY <1>2, <3>1, <3>2, <3>3, ResizedStep
  <2>6. CASE \E i \in Index, v \in Values : newOutputStream(k, i, v)
    BY <1>1, <2>6 DEF newOutputStream
  <2> QED BY <1>8, <2>1, <2>2, <2>3, <2>4, <2>5, <2>6 DEF Client
<1> QED BY <1>3, <1>5, <1>6, <1>7, <1>8 DEF Next

(* The size the cache trims by, kept by additions and subtractions (326, 547,
   601), is that of the files it has published: the sum of the lengths of its
   entries, each of which is the length of its file as long as that is there. *)
THEOREM SizeIsLengths == Spec => []SizeIsOfFiles
<1>1. Init => SizeIsTotal
  <2> SUFFICES ASSUME Init PROVE SizeIsTotal
    OBVIOUS
  <2>1. Empty.lengths \in [Keys -> LengthType] /\ \A k \in Keys : Empty.lengths[k] = None
    BY EmptyIs DEF TableType
  <2>2. Total(Empty.lengths) = 0
    BY <2>1, TotalChanges
  <2> QED BY <2>2 DEF Init, SizeIsTotal
<1>2. IInv /\ IInv' /\ SizeIsTotal /\ [Next]_vars => SizeIsTotal'
  BY SizeStep
<1>3. IInv /\ SizeIsTotal => SizeIsOfFiles
  BY DEF SizeIsTotal, SizeIsOfFiles, IInv, Memory, Committed
<1> QED BY <1>1, <1>2, <1>3, Invariance, PTL DEF Spec


-----------------------------------------------------------------------------
(* Types. *)

(* What IInv does not say of the rest of the state. *)
Control ==
  /\ maxSize \in MaxSizes /\ queued \in BOOLEAN /\ stale \subseteq Keys
  /\ holder \in {"nobody", "cleanup", "flush", "close"}
  /\ Len(buf) <= MaxBuffer

(* The writer holds no more lines than it has room for. *)
LEMMA BufferFits ==
  ASSUME Types, Len(buf) <= MaxBuffer, NEW x, Write(x) \/ buf' = <<>> \/ buf' = buf
  PROVE  Len(buf') <= MaxBuffer
<1>1. MaxBuffer \in Nat /\ MaxBuffer >= 1 /\ buf \in Seq(LineType) /\ Len(buf) \in Nat
  BY SizeAssumption, LenProperties DEF Types
<1>2. CASE Write(x) /\ Len(buf) < MaxBuffer
  <2>1. buf' = Append(buf, x)
    BY <1>2 DEF Write
  <2>2. Len(Append(buf, x)) = Len(buf) + 1
    <3>1. buf \in Seq({b : b \in LineType \cup {x}}) /\ x \in {b : b \in LineType \cup {x}}
      BY <1>1
    <3> QED BY <3>1, AppendProperties
  <2> QED BY <1>1, <1>2, <2>1, <2>2
<1>3. CASE Write(x) /\ ~(Len(buf) < MaxBuffer)
  <2>1. buf' = <<x>>
    BY <1>3 DEF Write
  <2>2. Len(<<x>>) = 1
    OBVIOUS
  <2> QED BY <1>1, <2>1, <2>2
<1>4. CASE buf' = <<>>
  BY <1>1, <1>4, EmptySeq
<1> QED BY <1>2, <1>3, <1>4

(* The parts of the actions that end an edit and remove an entry. *)
LEMMA PartsFit ==
  ASSUME Types, Len(buf) <= MaxBuffer, queued \in BOOLEAN, NEW k
  PROVE  /\ Discard(k) => Len(buf') <= MaxBuffer /\ queued' \in BOOLEAN /\ maxSize' = maxSize
         /\ remove_Busy(k) \/ remove_Done(k) \/ remove_Throws(k) => Len(buf') <= MaxBuffer
<1>1. Discard(k) => Len(buf') <= MaxBuffer
  BY BufferFits DEF Discard
<1>2. Discard(k) => queued' \in BOOLEAN /\ maxSize' = maxSize
  BY DEF Discard
<1>3. remove_Busy(k) \/ remove_Done(k) \/ remove_Throws(k) => Len(buf') <= MaxBuffer
  BY BufferFits DEF remove_Busy, remove_Done, remove_Throws
<1> QED BY <1>1, <1>2, <1>3

(* Every step keeps the rest of the state in bounds. *)
LEMMA ControlStep ==
  ASSUME IInv, Control, [Next]_vars
  PROVE  Control'
<1> USE DEF Control
<1>1. Types /\ Len(buf) <= MaxBuffer /\ queued \in BOOLEAN
  BY DEF IInv
<1>2. ASSUME Off PROVE Control'
  BY <1>1, <1>2, BufferFits DEF Off
<1>3. CASE Opening
  BY <1>3 DEF Opening, OpenJournal, OpenCorrupt, OpenEmpty, Up
<1>4. CASE Holder
  <2>1. CASE AbortEditor
    <3>1. PICK k \in Keys : Discard(k)
      BY <2>1, AbortedIs
    <3>2. UNCHANGED <<holder, stale>>
      BY <2>1 DEF AbortEditor
    <3> QED BY <1>1, <3>1, <3>2, PartsFit
  <2>2. CASE Trim
    BY <1>1, <2>2, PartsFit DEF Trim
  <2>3. CASE EndCleanup
    BY <2>3 DEF EndCleanup
  <2>4. CASE rebuildJournal \/ EndFlush
    BY <1>1, <2>4, BufferFits DEF rebuildJournal, EndFlush, Flush
  <2>5. CASE EndClose \/ EndDelete
    BY <1>2, <2>5 DEF EndClose, EndDelete
  <2> QED BY <1>4, <2>1, <2>2, <2>3, <2>4, <2>5 DEF Holder
<1>5. CASE Crashing
  BY <1>2, <1>5 DEF Crashing, Crash, CrashInOpen, CrashInRebuild, CrashInDelete, CrashInCommit,
                    CrashInDiscard, CrashInRemove, Killed, memory
<1>6. CASE BeginTrim \/ \E n \in MaxSizes : setMaxSize(n)
  BY <1>6 DEF BeginTrim, BeginCleanup, BeginFlush, BeginClose, setMaxSize
<1>7. ASSUME NEW k \in Keys, Client(k)
      PROVE  Control'
  <2>1. CASE get(k) \/ edit_Refused(k) \/ edit(k) \/ \E i \in Index, v \in Values : newOutputStream(k, i, v)
    <3>1. UNCHANGED <<maxSize, queued, holder, stale>>
      BY <2>1 DEF get, edit_Refused, edit, newOutputStream
    <3>2. Len(buf') <= MaxBuffer
      BY <1>1, <2>1, BufferFits DEF get, edit_Refused, edit, newOutputStream, WriteNothing, Flush
    <3> QED BY <3>1, <3>2
  <2>2. CASE abort(k) \/ commit_Incomplete(k) \/ commit_Failed(k)
    <3>1. Discard(k) /\ holder' = holder /\ stale' \subseteq stale \cup {k}
      BY <2>2 DEF abort, commit_Incomplete, commit_Failed
    <3> QED BY <1>1, <3>1, PartsFit
  <2>3. CASE remove(k) \/ DropStale(k)
    BY <1>1, <2>3, PartsFit DEF remove, DropStale
  <2>4. CASE commit(k)
    <3>1. UNCHANGED <<maxSize, holder, stale>> /\ queued' \in BOOLEAN
      BY <2>4 DEF commit
    <3>2. Len(buf') <= MaxBuffer
      BY <1>1, <2>4, BufferFits DEF commit
    <3> QED BY <3>1, <3>2
  <2> QED BY <1>7, <2>1, <2>2, <2>3, <2>4 DEF Client
<1>8. CASE UNCHANGED vars
  BY <1>8 DEF vars
<1> QED BY <1>3, <1>4, <1>5, <1>6, <1>7, <1>8 DEF Next

(* A key is at one place of the order, so there are no more places than keys. *)
LEMMA TablesAre == TableType \subseteq Tables
<1> SUFFICES ASSUME NEW t \in TableType PROVE t \in Tables
  OBVIOUS
<1> DEFINE o == t.order
           n == Len(o)
<1>1. o \in Seq(Keys) /\ IsInjective(o)
  BY DEF TableType
<1> HIDE DEF o
<1>2. o \in [1..n -> Keys] /\ n \in Nat
  BY <1>1, LenProperties
<1>3. o \in Injection(1..n, Keys)
  BY <1>1, <1>2 DEF Injection
<1>4. Cardinality(1..n) = n
  <2>1. \A m \in Nat : Cardinality(1..m) = m
    BY FS_Interval
  <2> QED BY <1>2, <2>1
<1>5. n <= Cardinality(Keys) /\ Cardinality(Keys) \in Nat
  BY <1>3, <1>4, KeysAssumption, FS_Injection, FS_CardinalityType
<1>6. o \in BoundedSeq(Keys, Cardinality(Keys))
  BY <1>2, <1>5 DEF BoundedSeq, SeqOf
<1> HIDE DEF n
<1> QED BY <1>1, <1>6 DEF TableType, Tables, LengthType, o

(* Every variable has its type; the size is never negative, and the buffer never
   over its bound. *)
THEOREM TypeInvariant == Spec => []TypeOK
<1>1. Init => Control
  <2> SUFFICES ASSUME Init PROVE Control
    OBVIOUS
  <2>1. /\ buf = NoLines /\ maxSize \in MaxSizes /\ queued = FALSE /\ holder = "nobody"
        /\ stale = {}
    BY DEF Init, NoLines
  <2>2. Len(buf) <= MaxBuffer
    BY <2>1, NoLinesIs, SizeAssumption
  <2> QED BY <2>1, <2>2 DEF Control
<1>2. IInv /\ Control /\ [Next]_vars => Control'
  BY ControlStep
<1>3. IInv /\ Control /\ SizeIsOfFiles => TypeOK
  <2> SUFFICES ASSUME IInv, Control, SizeIsOfFiles PROVE TypeOK
    OBVIOUS
  <2>1. Types
    BY DEF IInv
  <2>2. lru \in Tables /\ journal.table \in Tables /\ bkp.table \in Tables
    BY <2>1, TablesAre DEF Types, FileType
  <2>3. size \in Nat
    <3>1. lru.lengths \in [Keys -> LengthType]
      BY <2>1 DEF Types, TableType
    <3>2. Total(lru.lengths) \in Nat
      BY <3>1, TotalChanges
    <3> QED BY <3>2 DEF SizeIsOfFiles
  <2>4. \A n \in 1..Len(buf) : buf[n].key \in Keys
    <3>1. \A n \in 1..Len(buf) : buf[n] \in LineType
      BY <2>1, ElementOfSeq DEF Types
    <3> QED BY <3>1 DEF LineType
  <2> QED BY <2>1, <2>2, <2>3, <2>4 DEF TypeOK, Types, Control, EditType, LengthType
<1> QED BY <1>1, <1>2, <1>3, Invariance, SizeIsLengths, PTL DEF Spec
=============================================================================
