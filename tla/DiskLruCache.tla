---------------------------- MODULE DiskLruCache ----------------------------
(***************************************************************************)
(* The disk cache of java/DiskLruCache: entries of ValueCount files each, a *)
(* table lruEntries of them in memory, and a journal to rebuild the table  *)
(* from.  Public methods are synchronized and so are single actions, but   *)
(* the process may be killed between any two of their file operations, and *)
(* trimToSize keeps the lock over many removals.                           *)
(*                                                                         *)
(* The content of a value file is a number, which is its length too; 0     *)
(* stands for no file.  A journal file is what readJournal makes of its    *)
(* lines: the table they replay to, whether its last line is torn, whether *)
(* it holds a line that readJournalLine refuses.                           *)
(***************************************************************************)
EXTENDS Naturals, Sequences, SequencesExt, FiniteSetsExt

CONSTANTS Keys,
          ValueCount,
          Values,      \* contents of value files
          MaxSizes,    \* limits to open the cache with or to set later
          MaxBuffer,   \* lines journalWriter holds before it writes them out
          OpenMayFail  \* may newOutputStream find no file descriptor or inode?

Index == 0..(ValueCount - 1)

ASSUME KeysAssumption  == IsFiniteSet(Keys)
ASSUME ValueAssumption == ValueCount \in Nat \ {0} /\ Values \subseteq Nat \ {0}
ASSUME SizeAssumption  == MaxSizes \subseteq Nat \ {0} /\ MaxBuffer \in Nat \ {0}
ASSUME FaultAssumption == OpenMayFail \in BOOLEAN

VARIABLES open,          \* journalWriter # null
          lru,           \* lruEntries
          edits,         \* what the editor of each key wrote so far
          size, maxSize,
          queued,        \* cleanupCallable was submitted because of the size
          holder,        \* who holds the lock over several steps
          stale,         \* keys that a failed commit has yet to remove
          buf,           \* lines in journalWriter
          journal, bkp,  \* journal and journal.bkp
          clean, dirty,  \* the value files
          last,          \* history: the values last committed to each key,
          wiped          \* and was a deletion of the directory cut short?

memory == <<open, lru, edits, size, maxSize, queued, holder, stale, buf>>
files  == <<clean, dirty>>
vars   == <<open, lru, edits, size, maxSize, queued, holder, stale, buf,
            journal, bkp, clean, dirty, last, wiped>>
history == <<last, wiped>>

None   == [i \in Index |-> 0]
NoKeys == [k \in Keys |-> None]
NoEdit == [value |-> None, failed |-> FALSE]

Exists(f, k) == \A i \in Index : f[k][i] # 0
Sum(g) == FoldSet(LAMBDA i, n : n + g[i], 0, Index)
Total(g) == FoldSet(LAMBDA k, n : n + Sum(g[k]), 0, Keys)

-----------------------------------------------------------------------------
(* The table of entries, in access order: a LinkedHashMap moves a key to    *)
(* its end on get and put.                                                 *)

Tables == [order : {o \in BoundedSeq(Keys, Cardinality(Keys)) : IsInjective(o)},
           readable : SUBSET Keys, edited : SUBSET Keys,
           lengths : [Keys -> [Index -> Values \cup {0}]]]

Empty == [order |-> <<>>, readable |-> {}, edited |-> {}, lengths |-> NoKeys]

Has(t, k)   == k \in ToSet(t.order)
Touch_Twice(t, k) == [t EXCEPT !.order = Append(@, k)]
Touch_InOrder(t, k) == IF Has(t, k) THEN t ELSE [t EXCEPT !.order = Append(@, k)]
Touch(t, k) == [t EXCEPT !.order = Append(RemoveFirst(@, k), k)]
Visit(t, k) == IF Has(t, k) THEN Touch(t, k) ELSE t
Forget(t, k) == [order    |-> RemoveFirst(t.order, k),
                 readable |-> t.readable \ {k}, edited |-> t.edited \ {k},
                 lengths  |-> [t.lengths EXCEPT ![k] = None]]
Publish(t, k, lengths) ==
  [t EXCEPT !.readable = @ \cup {k}, !.edited = @ \ {k}, !.lengths[k] = lengths]
Begin(t, k) == [t EXCEPT !.edited = @ \cup {k}]

-----------------------------------------------------------------------------
(* The journal.                                                            *)

CLEAN(k, lengths) == [op |-> "CLEAN", key |-> k, lengths |-> lengths]
DIRTY(k)  == [op |-> "DIRTY", key |-> k, lengths |-> None]
REMOVE(k) == [op |-> "REMOVE", key |-> k, lengths |-> None]
READ(k)   == [op |-> "READ", key |-> k, lengths |-> None]

readJournalLine(t, line) ==
  CASE line.op = "REMOVE" -> Forget(t, line.key)
    [] line.op = "CLEAN"  -> Publish(Touch(t, line.key), line.key, line.lengths)
    [] line.op = "DIRTY"  -> Begin(Touch(t, line.key), line.key)
    [] line.op = "READ"   -> Touch(t, line.key)

(* The table after the first n lines, for every n. *)
Replay(t, lines) ==
  LET after[n \in 0..Len(lines)] ==
        IF n = 0 THEN t ELSE readJournalLine(after[n - 1], lines[n])
  IN after[Len(lines)]

NoFile   == [exists |-> FALSE, table |-> Empty, torn |-> FALSE, corrupt |-> FALSE]
Holds(t) == [exists |-> TRUE, table |-> t, torn |-> FALSE, corrupt |-> FALSE]
Corrupt  == [exists |-> TRUE, table |-> Empty, torn |-> FALSE, corrupt |-> TRUE]

(* Lines appended to a torn line make one line of two, which is refused. *)
Appended(f, lines) ==
  IF lines = <<>> THEN f
  ELSE IF f.torn \/ f.corrupt THEN Corrupt
  ELSE Holds(Replay(f.table, lines))

(* The writer was killed in the middle of a line. *)
Torn(f) == IF f.corrupt THEN f ELSE [f EXCEPT !.torn = TRUE]

(* journalWriter.write: its buffer goes to the file when it is full. *)
Write(line) ==
  IF Len(buf) < MaxBuffer
    THEN buf' = Append(buf, line) /\ journal' = journal
    ELSE buf' = <<line>> /\ journal' = Appended(journal, buf)

WriteNothing == UNCHANGED <<buf, journal>>

Flush_Keeps(lines) == buf' = buf \o lines /\ journal' = journal

(* ... and flush(), after the lines given. *)
Flush(lines) == buf' = <<>> /\ journal' = Appended(journal, buf \o lines)

Line_Clean(t, k) == CLEAN(k, t.lengths[k])

(* rebuildJournal's lines. *)
Line(t, k) == IF k \in t.edited THEN DIRTY(k) ELSE CLEAN(k, t.lengths[k])
Rebuilt(t) == Holds(Replay(Empty, [n \in 1..Len(t.order) |-> Line(t, t.order[n])]))

-----------------------------------------------------------------------------
(* Opening and crashing.                                                   *)

Init ==
  /\ open = FALSE /\ lru = Empty /\ edits = [k \in Keys |-> NoEdit]
  /\ size = 0 /\ maxSize \in MaxSizes /\ queued = FALSE /\ holder = "nobody"
  /\ stale = {} /\ buf = <<>> /\ journal = NoFile /\ bkp = NoFile
  /\ clean = NoKeys /\ dirty = NoKeys
  /\ last = NoKeys /\ wiped = FALSE

(* Memory is lost. *)
Off ==
  /\ open' = FALSE /\ lru' = Empty /\ edits' = [k \in Keys |-> NoEdit]
  /\ size' = 0 /\ maxSize' = maxSize /\ queued' = FALSE /\ holder' = "nobody"
  /\ stale' = {} /\ buf' = <<>>

(* The process is killed; of the buffer and a line being written, what comes
   before some point, in or between lines, went to the file. *)
Killed ==
  /\ Off
  /\ \E n \in 0..Len(buf) :
       LET f == Appended(journal, SubSeq(buf, 1, n)) IN journal' \in {f, Torn(f)}

Crash == open /\ Killed /\ UNCHANGED <<bkp, files, history>>

(* A backup counts when there is no journal. *)
Readable(j, b) == IF j.exists THEN j ELSE b
OnDisk == Readable(journal, bkp)

Up(t) ==
  /\ open' = TRUE /\ lru' = t /\ size' = Total(t.lengths) /\ maxSize' \in MaxSizes
  /\ last' = [k \in Keys |-> IF Has(t, k) THEN last[k] ELSE None]
  /\ UNCHANGED <<edits, queued, holder, stale, buf, wiped>>

Without(f, ks) == [k \in Keys |-> IF k \in ks THEN None ELSE f[k]]

(* processJournal: entries with an editor go, as if by a line for each. *)
Recovered(t) == LET ks == SetToSeq(t.edited)
                IN Replay(t, [n \in DOMAIN ks |-> REMOVE(ks[n])])

(* readJournal and processJournal. *)
OpenJournal ==
  /\ ~open /\ OnDisk.exists /\ ~OnDisk.corrupt
  /\ LET t == OnDisk.table
     IN /\ Up(Recovered(t))
        /\ clean' = Without(clean, t.edited) /\ dirty' = Without(dirty, t.edited)
  /\ journal' = OnDisk /\ bkp' = NoFile

(* A journal that cannot be read: the directory is emptied. *)
OpenCorrupt ==
  /\ ~open /\ OnDisk.corrupt
  /\ Up(Empty)
  /\ clean' = NoKeys /\ dirty' = NoKeys
  /\ journal' = Rebuilt(Empty) /\ bkp' = NoFile

OpenEmpty ==
  /\ ~open /\ ~OnDisk.exists
  /\ Up(Empty)
  /\ journal' = Rebuilt(Empty)
  /\ UNCHANGED <<bkp, files>>

(* Some of the files of these keys are deleted. *)
KeepSome(ks) ==
  \E gone, gone_tmp \in SUBSET (ks \X Index) :
    /\ clean' = [k \in Keys |-> [i \in Index |-> IF <<k, i>> \in gone THEN 0 ELSE clean[k][i]]]
    /\ dirty' = [k \in Keys |-> [i \in Index |-> IF <<k, i>> \in gone_tmp THEN 0 ELSE dirty[k][i]]]

(* Killed before open() ends. *)
CrashInOpen ==
  /\ ~open /\ OnDisk.exists
  /\ KeepSome(IF OnDisk.corrupt THEN Keys ELSE OnDisk.table.edited)
  /\ journal' \in (IF OnDisk.corrupt THEN {OnDisk, NoFile} ELSE {OnDisk})
  /\ wiped' = (wiped \/ journal' = NoFile)
  /\ bkp' = NoFile
  /\ UNCHANGED <<memory, last>>

-----------------------------------------------------------------------------
(* Reading and editing.                                                    *)

Free == open /\ holder = "nobody"

get(k) ==
  /\ Free
  /\ lru' = Visit(lru, k)
  /\ IF k \in lru.readable /\ Exists(clean, k) THEN Write(READ(k)) ELSE WriteNothing
  /\ UNCHANGED <<open, edits, size, maxSize, queued, holder, stale, bkp, files, history>>

edit_Unflushed(k) ==
  /\ Free /\ k \notin lru.edited
  /\ lru' = Begin(Touch(lru, k), k)
  /\ Flush_Keeps(<<DIRTY(k)>>)
  /\ UNCHANGED <<open, edits, size, maxSize, queued, holder, stale, bkp, files, history>>

(* The DIRTY line is in the file before the editor has made any file. *)
edit(k) ==
  /\ Free /\ k \notin lru.edited
  /\ lru' = Begin(Touch(lru, k), k)
  /\ Flush(<<DIRTY(k)>>)
  /\ UNCHANGED <<open, edits, size, maxSize, queued, holder, stale, bkp, files, history>>

(* Another edit is in progress, or the snapshot to edit from is stale: the key
   was used all the same. *)
edit_Refused(k) ==
  /\ Free /\ Has(lru, k)
  /\ lru' = Touch(lru, k)
  /\ UNCHANGED <<open, edits, size, maxSize, queued, holder, stale, buf, journal, bkp,
                 files, history>>

(* One value through newOutputStream, once in each edit.  A write that fails
   leaves a file with something in it; a file that does not open, nothing,
   and nobody is told. *)
newOutputStream(k, i, v) ==
  /\ Free /\ k \in lru.edited /\ edits[k].value[i] = 0
  /\ \/ /\ \E failed \in BOOLEAN :
             edits' = [edits EXCEPT ![k].value[i] = v, ![k].failed = @ \/ failed]
        /\ dirty' = [dirty EXCEPT ![k][i] = v]
     \/ /\ OpenMayFail
        /\ edits' = [edits EXCEPT ![k].value[i] = v]
        /\ UNCHANGED dirty
  /\ UNCHANGED <<open, lru, size, maxSize, queued, holder, stale, buf, journal, bkp,
                 clean, history>>

OverLimit_ByOne == size > maxSize + 1

OverLimit == size > maxSize

(* completeEdit(editor, false): back to the values before, or to none. *)
Discard(k) ==
  /\ dirty' = [dirty EXCEPT ![k] = None]
  /\ edits' = [edits EXCEPT ![k] = NoEdit]
  /\ IF k \in lru.readable
       THEN /\ lru' = Publish(lru, k, lru.lengths[k])
            /\ Write(CLEAN(k, lru.lengths[k]))
            /\ last' = last
       ELSE /\ lru' = Forget(lru, k)
            /\ Write(REMOVE(k))
            /\ last' = [last EXCEPT ![k] = None]
  /\ queued' = (queued \/ OverLimit)
  /\ UNCHANGED <<open, size, maxSize, bkp, clean, wiped>>

abort(k) ==
  /\ Free /\ k \in lru.edited
  /\ Discard(k)
  /\ UNCHANGED <<holder, stale>>

(* A new entry without a value for every index is not published. *)
Incomplete(k) == k \notin lru.readable /\ \E i \in Index : edits[k].value[i] = 0 \/ dirty[k][i] = 0

commit_Incomplete(k) ==
  /\ Free /\ k \in lru.edited /\ ~edits[k].failed /\ Incomplete(k)
  /\ Discard(k)
  /\ UNCHANGED <<holder, stale>>

(* hasErrors: what the entry held before is to be removed, in a call of its
   own. *)
commit_Failed(k) ==
  /\ Free /\ k \in lru.edited /\ edits[k].failed
  /\ Discard(k)
  /\ stale' = stale \cup {k}
  /\ UNCHANGED holder

MayPublish(k) == Free /\ k \in lru.edited /\ ~edits[k].failed /\ ~Incomplete(k)

(* The files after the renames of the first n indices. *)
Renamed(k, n) ==
  [i \in Index |-> IF i < n /\ dirty[k][i] # 0 THEN dirty[k][i] ELSE clean[k][i]]
Unrenamed(k, n) == [i \in Index |-> IF i < n THEN 0 ELSE dirty[k][i]]

NewLengths_Sums(k) ==
  [i \in Index |-> IF dirty[k][i] # 0 THEN lru.lengths[k][i] + dirty[k][i] ELSE lru.lengths[k][i]]

(* The lengths of what was renamed. *)
NewLengths(k) == [i \in Index |-> IF dirty[k][i] # 0 THEN dirty[k][i] ELSE lru.lengths[k][i]]

commit(k) ==
  /\ MayPublish(k)
  /\ LET lengths == NewLengths(k)
         total   == size + Sum(lengths) - Sum(lru.lengths[k])
     IN /\ lru' = Publish(lru, k, lengths)
        /\ Write(CLEAN(k, lengths))
        /\ size' = total
        /\ queued' = (queued \/ total > maxSize)
  /\ clean' = [clean EXCEPT ![k] = Renamed(k, ValueCount)]
  /\ dirty' = [dirty EXCEPT ![k] = None]
  /\ edits' = [edits EXCEPT ![k] = NoEdit]
  /\ last'  = IF dirty[k] = None THEN last ELSE [last EXCEPT ![k] =
                 [i \in Index |-> IF edits[k].value[i] # 0 THEN edits[k].value[i] ELSE @[i]]]
  /\ UNCHANGED <<open, maxSize, holder, stale, bkp, wiped>>

CrashInCommit(k) ==
  /\ MayPublish(k)
  /\ \E n \in 1..ValueCount : /\ clean' = [clean EXCEPT ![k] = Renamed(k, n)]
                              /\ dirty' = [dirty EXCEPT ![k] = Unrenamed(k, n)]
  /\ Killed
  /\ UNCHANGED <<bkp, history>>

CrashInDiscard(k) ==
  /\ open /\ k \in lru.edited
  /\ \E n \in 1..ValueCount : dirty' = [dirty EXCEPT ![k] = Unrenamed(k, n)]
  /\ Killed
  /\ UNCHANGED <<bkp, clean, history>>

-----------------------------------------------------------------------------
(* Removing and trimming.                                                  *)

(* The first n files of k are gone, or those before the first that is missing. *)
Deleted(f, k, n) == [f EXCEPT ![k] = [i \in Index |-> IF i < n THEN 0 ELSE f[k][i]]]
FirstMissing(k) == Min({i \in Index : clean[k][i] = 0} \cup {ValueCount})

remove_Busy(k) ==
  /\ ~Has(lru, k) \/ k \in lru.edited
  /\ lru' = Visit(lru, k)
  /\ UNCHANGED <<size, buf, journal, clean, history>>

remove_Done(k) ==
  /\ Has(lru, k) /\ k \notin lru.edited /\ Exists(clean, k)
  /\ lru' = Forget(lru, k)
  /\ size' = size - Sum(lru.lengths[k])
  /\ clean' = [clean EXCEPT ![k] = None]
  /\ last' = [last EXCEPT ![k] = None] /\ wiped' = wiped
  /\ Write(REMOVE(k))

(* file.delete() fails on a file that is not there: an IOException, with the
   files before it gone and the entry still in the table. *)
remove_Throws(k) ==
  /\ Has(lru, k) /\ k \notin lru.edited /\ ~Exists(clean, k)
  /\ LET n == FirstMissing(k)
         lengths == Deleted(lru.lengths, k, n)
     IN /\ clean' = Deleted(clean, k, n)
        /\ lru' = [Touch(lru, k) EXCEPT !.lengths = lengths]
        /\ size' = size + Sum(lengths[k]) - Sum(lru.lengths[k])
  /\ UNCHANGED <<buf, journal, history>>

remove(k) ==
  /\ Free
  /\ remove_Busy(k) \/ remove_Done(k) \/ remove_Throws(k)
  /\ UNCHANGED <<open, edits, maxSize, queued, holder, stale, bkp, dirty>>

(* The second half of a commit with errors. *)
DropStale(k) ==
  /\ Free /\ k \in stale
  /\ stale' = stale \ {k}
  /\ remove_Busy(k) \/ remove_Done(k) \/ remove_Throws(k)
  /\ UNCHANGED <<open, edits, maxSize, queued, holder, bkp, dirty>>

CrashInRemove(k) ==
  /\ open /\ Has(lru, k) /\ k \notin lru.edited
  /\ \E n \in 1..FirstMissing(k) : clean' = Deleted(clean, k, n)
  /\ Killed
  /\ UNCHANGED <<bkp, dirty, history>>

setMaxSize(n) ==
  /\ Free /\ n # maxSize
  /\ maxSize' = n /\ queued' = TRUE
  /\ UNCHANGED <<open, lru, edits, size, holder, stale, buf, journal, bkp, files, history>>

(* The methods that trim.  The cleanup is submitted for the size, or when
   redundantOpCount, which is not modelled, says so: at any time. *)
BeginCleanup == Free /\ holder' = "cleanup" /\ queued' = FALSE
BeginFlush   == Free /\ holder' = "flush" /\ UNCHANGED queued
BeginClose   == Free /\ holder' = "close" /\ UNCHANGED queued

BeginTrim ==
  /\ BeginCleanup \/ BeginFlush \/ BeginClose
  /\ UNCHANGED <<open, lru, edits, size, maxSize, stale, buf, journal, bkp, files, history>>

(* close() aborts the editors first. *)
Editing == holder = "close" /\ lru.edited # {}

AbortEditor ==
  /\ Editing
  /\ Discard(lru.order[SelectInSeq(lru.order, LAMBDA k : k \in lru.edited)])
  /\ UNCHANGED <<holder, stale>>

(* trimToSize removes the eldest entry, again and again; an eldest that is
   being edited stays, and is the youngest for having been looked up. *)
Trimming == holder # "nobody" /\ ~Editing /\ OverLimit

Trim ==
  /\ Trimming
  /\ LET k == Head(lru.order)
     IN \/ (remove_Busy(k) \/ remove_Done(k)) /\ UNCHANGED holder
        \/ remove_Throws(k) /\ holder' = "nobody"
  /\ UNCHANGED <<open, edits, maxSize, queued, stale, bkp, dirty>>

Trimmed == ~Editing /\ ~OverLimit

EndCleanup ==
  /\ holder = "cleanup" /\ Trimmed
  /\ holder' = "nobody"
  /\ UNCHANGED <<open, lru, edits, size, maxSize, queued, stale, buf, journal, bkp, files, history>>

(* rebuildJournal: journal.tmp is written, journal becomes journal.bkp,
   journal.tmp journal, and the backup is deleted. *)
rebuildJournal ==
  /\ holder = "cleanup" /\ Trimmed
  /\ holder' = "nobody"
  /\ journal' = Rebuilt(lru) /\ bkp' = NoFile /\ buf' = <<>>
  /\ UNCHANGED <<open, lru, edits, size, maxSize, queued, stale, files, history>>

CrashInRebuild_NoBackup ==
  /\ holder = "cleanup" /\ Trimmed
  /\ bkp' = NoFile
  /\ journal' \in {NoFile, Rebuilt(lru)}
  /\ Off
  /\ UNCHANGED <<files, history>>

CrashInRebuild ==
  /\ holder = "cleanup" /\ Trimmed
  /\ bkp' = Appended(journal, buf)
  /\ journal' \in {NoFile, Rebuilt(lru)}
  /\ Off
  /\ UNCHANGED <<files, history>>

EndFlush ==
  /\ holder = "flush" /\ Trimmed
  /\ holder' = "nobody"
  /\ Flush(<<>>)
  /\ UNCHANGED <<open, lru, edits, size, maxSize, queued, stale, bkp, files, history>>

EndClose ==
  /\ holder = "close" /\ Trimmed
  /\ journal' = Appended(journal, buf)
  /\ Off
  /\ UNCHANGED <<bkp, files, history>>

(* delete(): closed, and then the directory is emptied.  Between the two it does
   not hold the lock, but a closed cache lets no other method do anything; that
   the directory is opened again meanwhile is left out. *)
EndDelete ==
  /\ holder = "close" /\ Trimmed
  /\ journal' = NoFile /\ bkp' = NoFile /\ clean' = NoKeys /\ dirty' = NoKeys
  /\ last' = NoKeys
  /\ Off
  /\ UNCHANGED wiped

(* The files come in any order. *)
CrashInDelete ==
  /\ holder = "close" /\ Trimmed
  /\ journal' \in {Appended(journal, buf), NoFile} /\ bkp' = NoFile
  /\ KeepSome(Keys)
  /\ wiped' = (wiped \/ journal' = NoFile)
  /\ Off
  /\ UNCHANGED last

-----------------------------------------------------------------------------
Opening == OpenJournal \/ OpenCorrupt \/ OpenEmpty

Client(k) ==
  \/ get(k) \/ edit(k) \/ edit_Refused(k) \/ abort(k) \/ remove(k) \/ DropStale(k)
  \/ commit(k) \/ commit_Incomplete(k) \/ commit_Failed(k)
  \/ \E i \in Index, v \in Values : newOutputStream(k, i, v)

Holder == AbortEditor \/ Trim \/ EndCleanup \/ rebuildJournal \/ EndFlush \/ EndClose \/ EndDelete

Crashing ==
  \/ Crash \/ CrashInOpen \/ CrashInRebuild \/ CrashInDelete
  \/ \E k \in Keys : CrashInCommit(k) \/ CrashInDiscard(k) \/ CrashInRemove(k)

Next == \/ Opening \/ Holder \/ Crashing \/ BeginTrim
        \/ \E k \in Keys : Client(k)
        \/ \E n \in MaxSizes : setMaxSize(n)

(* The executor runs what was submitted and a method that has the lock goes
   on.  No client is obliged to call, nor the process to live. *)
Fairness == WF_vars(Holder) /\ WF_vars(queued /\ BeginTrim)

Spec == Init /\ [][Next]_vars
FairSpec == Spec /\ Fairness

-----------------------------------------------------------------------------
(* Properties *)

TypeOK ==
  /\ open \in BOOLEAN /\ lru \in Tables
  /\ edits \in [Keys -> [value : [Index -> Values \cup {0}], failed : BOOLEAN]]
  /\ size \in Nat /\ maxSize \in MaxSizes /\ queued \in BOOLEAN
  /\ holder \in {"nobody", "cleanup", "flush", "close"}
  /\ stale \subseteq Keys
  /\ Len(buf) <= MaxBuffer /\ \A n \in 1..Len(buf) : buf[n].key \in Keys
  /\ \A f \in {journal, bkp} : f.table \in Tables
  /\ clean \in [Keys -> [Index -> Values \cup {0}]]
  /\ dirty \in [Keys -> [Index -> Values \cup {0}]]
  /\ last \in [Keys -> [Index -> Values \cup {0}]]

(* 75-76: "Committing is atomic: a read observes the full set of values as
   they were before or after the commit, but never a mix of values".  Nor does
   a read after a crash, wherever it struck. *)
AllOrNothing ==
  \A k \in lru.readable : Exists(clean, k) => clean[k] = last[k]

(* size is the sum of the lengths, and these are the lengths of the files
   there are. *)
SizeIsOfFiles ==
  /\ size = Total(lru.lengths)
  /\ \A k \in lru.readable, i \in Index : clean[k][i] # 0 => lru.lengths[k][i] = clean[k][i]

(* Entries with missing files, whose removal stopped half way, aside: *)
Live(t) == {k \in t.readable \ t.edited : Exists(clean, k)}

(* What the journal and the buffer replay to is the table in memory (243-335). *)
ReplayIsTable ==
  open /\ ~journal.torn /\ ~journal.corrupt =>
    LET t == Replay(journal.table, buf)
    IN /\ Live(t) = Live(lru)
       /\ \A k \in Live(t) : t.lengths[k] = lru.lengths[k]
       /\ lru.edited \subseteq t.edited

(* Keys with files that no journal mentions. *)
Leaked == {k \in Keys : /\ clean[k] # None \/ dirty[k] # None
                        /\ ~OnDisk.corrupt /\ ~Has(OnDisk.table, k)}

(* "flush the journal before creating files to prevent file leaks" (479): there
   are none, unless the deletion of a whole directory is cut short.  In
   particular rebuilding never loses the journal. *)
FilesAreJournalled == wiped \/ Leaked = {}

(* Every entry left is being edited: trimToSize spins, and the editors wait for
   the lock. *)
Spinning == Trimming /\ ToSet(lru.order) = lru.edited

(* Who holds the lock to trim (655-660) lets go of it, or spins. *)
LockIsReleased == holder # "nobody" ~> holder = "nobody" \/ Spinning

(* An entry has lost a file: its removal throws. *)
Phantom == \E k \in lru.readable : ~Exists(clean, k)

(* A cleanup that was submitted (as by every call that takes the cache over its
   limit) brings it back to it, unless trimToSize spins or meets a phantom. *)
CleanupMeetsLimit == queued ~> size <= maxSize \/ Spinning \/ Phantom

(* 57-58: "When the number of stored bytes exceeds the limit, the cache will
   remove entries in the background until the limit is satisfied."  Opening a
   cache that is over its limit submits nothing, and refutes it. *)
LimitIsMet == size > maxSize ~> size <= maxSize \/ Spinning \/ Phantom
=============================================================================
