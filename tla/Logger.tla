------------------------------- MODULE Logger -------------------------------
(***************************************************************************)
(* The Android log driver kernel/android/logger.c: one ring buffer, writers *)
(* that lap slow readers and pull them forward, readers that block.        *)
(*                                                                         *)
(* A cell of buf is a unit of bytes.  An entry is a header of two cells    *)
(* (the two bytes of logger_entry.len, which may straddle the end of the   *)
(* ring; the rest of the header rides with them) and its payload.          *)
(* Everything done under log->mutex is one step, except that a write       *)
(* stays visible as its holder: logger_release takes no lock.              *)
(***************************************************************************)
EXTENDS Integers, Sequences, FiniteSets

CONSTANTS Size,          \* bytes of the ring (log->size)
          PayloadSizes,  \* payload lengths writers use, up to the maximum
          Writers, Readers,
          MaxWrites,     \* bound: writes started
          Faults,        \* copy_from_user may fail
          NoOne          \* holder of a free mutex

HeaderLen == 2
Offsets   == 0..(Size - 1)
MaxLen    == HeaderLen + (CHOOSE n \in PayloadSizes : \A m \in PayloadSizes : m <= n)

(* DEFINE_LOGGER_DEVICE: size is a power of two greater than
   LOGGER_ENTRY_MAX_LEN, itself a power of two. *)
ASSUME SizeAssumption == Size \in Nat /\ Size >= 2 * MaxLen
ASSUME PayloadAssumption ==
  PayloadSizes \subseteq Nat \ {0} /\ \E n \in PayloadSizes : \A m \in PayloadSizes : m <= n
ASSUME WritersAssumption ==
  /\ IsFiniteSet(Writers) /\ NoOne \notin Writers
  /\ MaxWrites \in Nat /\ Faults \in BOOLEAN

VARIABLES w_off, head, buf, mutex,
          readers, r_off,          \* log->readers and each reader's r_off
          asleep,                  \* readers on log->wq, not woken
          wpc, orig, msg,          \* per writer: place, local orig, message
          rpc, last,               \* per reader: place, last message read
          sizes, committed         \* entry length of each message, in the
                                   \* order they got the mutex; written ones

log     == <<w_off, head, buf, mutex>>
rstate  == <<readers, r_off, asleep, rpc, last>>
wstate  == <<wpc, orig, msg, sizes, committed>>
vars    == <<log, rstate, wstate>>

Messages == 1..MaxWrites
(* Cell k of message m; message 0 is what the zeroed buffer holds. *)
Cell == [msg : 0..MaxWrites, pos : 0..(MaxLen - 1)]
Blank == [msg |-> 0, pos |-> MaxLen - 1]

logger_offset_NoMask(n) == n
logger_offset(n) == n % Size
Distance(from, to) == (to - from) % Size

Init ==
  /\ w_off = 0 /\ head = 0 /\ mutex = NoOne
  /\ buf = [o \in Offsets |-> Blank]
  /\ readers = {} /\ r_off = [r \in Readers |-> 0] /\ asleep = {}
  /\ wpc = [w \in Writers |-> "idle"] /\ orig = [w \in Writers |-> 0]
  /\ msg = [w \in Writers |-> 0]
  /\ rpc = [r \in Readers |-> "closed"] /\ last = [r \in Readers |-> 0]
  /\ sizes = <<>> /\ committed = {}

-----------------------------------------------------------------------------
(* Helpers, all called with log->mutex held. *)

(* The two bytes of the length are read at off and at the next offset of the
   ring.  Two cells that are not one header decode to no message's length;
   the model then takes the shortest, a bare header. *)
get_entry_len(off) ==
  LET lo == buf[off]
      hi == buf[logger_offset(off + 1)]
  IN IF lo.msg \in DOMAIN sizes /\ hi.msg = lo.msg /\ lo.pos = 0 /\ hi.pos = 1
     THEN sizes[lo.msg] ELSE HeaderLen

(* Whole entries are passed, count bytes of them so far, up to len bytes. *)
get_next_entry(off, len) ==
  LET skip[count \in 0..(len - 1)] ==
        LET nr == get_entry_len(logger_offset(off + count)) IN
        IF count + nr >= len THEN count + nr ELSE skip[count + nr]
  IN logger_offset(off + skip[0])

clock_interval_Open(a, b, c) ==
  IF b < a THEN a < c \/ b > c ELSE a < c /\ b > c

clock_interval_Unwrapped(a, b, c) == a < c /\ b >= c

(* Does the line from a to b, in mod-space, cross c? *)
clock_interval(a, b, c) ==
  IF b < a THEN a < c \/ b >= c ELSE a < c /\ b >= c

Pulled(off, len) ==
  IF clock_interval(w_off, logger_offset(w_off + len), off)
  THEN get_next_entry(off, len) ELSE off

(* buf with cells from..to of message m written at offset off onwards. *)
Written(m, off, from, to) ==
  [o \in Offsets |->
     LET k == Distance(off, o) IN
     IF k <= to - from THEN [msg |-> m, pos |-> from + k] ELSE buf[o]]

-----------------------------------------------------------------------------
(* logger_aio_write *)

(* orig is read before the mutex is taken.  MaxWrites bounds the writes. *)
WriteStart(w) ==
  /\ wpc[w] = "idle"
  /\ Len(sizes) + Cardinality({v \in Writers : wpc[v] = "started"}) < MaxWrites
  /\ orig' = [orig EXCEPT ![w] = w_off]
  /\ wpc' = [wpc EXCEPT ![w] = "started"]
  /\ UNCHANGED <<log, rstate, msg, sizes, committed>>

WriteLock(w) ==
  /\ wpc[w] = "started" /\ mutex = NoOne
  /\ mutex' = w
  /\ \E n \in PayloadSizes : sizes' = Append(sizes, HeaderLen + n)
  /\ msg' = [msg EXCEPT ![w] = Len(sizes')]
  /\ wpc' = [wpc EXCEPT ![w] = "locked"]
  /\ UNCHANGED <<w_off, head, buf, rstate, orig, committed>>

WriteHeader_HeadOnly(w) ==
  /\ wpc[w] = "locked"
  /\ head' = Pulled(head, sizes[msg[w]])
  /\ buf' = Written(msg[w], w_off, 0, HeaderLen - 1)
  /\ w_off' = logger_offset(w_off + HeaderLen)
  /\ wpc' = [wpc EXCEPT ![w] = "header"]
  /\ UNCHANGED <<mutex, rstate, orig, msg, sizes, committed>>

(* fix_up_readers walks the list, then do_write_log writes the header. *)
WriteHeader(w) ==
  LET len == sizes[msg[w]] IN
  /\ wpc[w] = "locked"
  /\ head' = Pulled(head, len)
  /\ r_off' = [r \in Readers |-> IF r \in readers THEN Pulled(r_off[r], len) ELSE r_off[r]]
  /\ buf' = Written(msg[w], w_off, 0, HeaderLen - 1)
  /\ w_off' = logger_offset(w_off + HeaderLen)
  /\ wpc' = [wpc EXCEPT ![w] = "header"]
  /\ UNCHANGED <<mutex, readers, asleep, rpc, last, orig, msg, sizes, committed>>

WritePayload_NoWake(w) ==
  LET len == sizes[msg[w]] IN
  /\ wpc[w] = "header"
  /\ buf' = Written(msg[w], w_off, HeaderLen, len - 1)
  /\ w_off' = logger_offset(w_off + len - HeaderLen)
  /\ mutex' = NoOne
  /\ committed' = committed \cup {msg[w]}
  /\ wpc' = [wpc EXCEPT ![w] = "idle"]
  /\ UNCHANGED <<head, rstate, orig, msg, sizes>>

(* Every segment is copied in. *)
WritePayload(w) ==
  LET len == sizes[msg[w]] IN
  /\ wpc[w] = "header"
  /\ buf' = Written(msg[w], w_off, HeaderLen, len - 1)
  /\ w_off' = logger_offset(w_off + len - HeaderLen)
  /\ mutex' = NoOne
  /\ committed' = committed \cup {msg[w]}
  /\ wpc' = [wpc EXCEPT ![w] = "wake"]
  /\ UNCHANGED <<head, rstate, orig, msg, sizes>>

(* copy_from_user fails at a segment after k bytes: w_off goes back. *)
WriteFault(w) ==
  LET len == sizes[msg[w]] IN
  /\ Faults /\ wpc[w] = "header"
  /\ \E k \in 0..(len - HeaderLen - 1) :
       buf' = IF k = 0 THEN buf ELSE Written(msg[w], w_off, HeaderLen, HeaderLen + k - 1)
  /\ w_off' = orig[w]
  /\ mutex' = NoOne
  /\ wpc' = [wpc EXCEPT ![w] = "idle"]
  /\ UNCHANGED <<head, rstate, orig, msg, sizes, committed>>

WriteWake_Nobody(w) ==
  /\ wpc[w] = "wake"
  /\ wpc' = [wpc EXCEPT ![w] = "idle"]
  /\ UNCHANGED <<log, rstate, orig, msg, sizes, committed>>

(* wake_up_interruptible, after the unlock. *)
WriteWake(w) ==
  /\ wpc[w] = "wake"
  /\ asleep' = {}
  /\ wpc' = [wpc EXCEPT ![w] = "idle"]
  /\ UNCHANGED <<log, readers, r_off, rpc, last, orig, msg, sizes, committed>>

Flush_ToOldHead ==
  /\ mutex = NoOne
  /\ head' = w_off
  /\ r_off' = [r \in Readers |-> IF r \in readers THEN head ELSE r_off[r]]
  /\ UNCHANGED <<w_off, buf, mutex, readers, asleep, rpc, last, wstate>>

(* ioctl LOGGER_FLUSH_LOG *)
Flush ==
  /\ mutex = NoOne
  /\ head' = w_off
  /\ r_off' = [r \in Readers |-> IF r \in readers THEN w_off ELSE r_off[r]]
  /\ UNCHANGED <<w_off, buf, mutex, readers, asleep, rpc, last, wstate>>

-----------------------------------------------------------------------------
(* logger_open, logger_release, logger_read *)

ReaderGoto(r, label) == rpc' = [rpc EXCEPT ![r] = label]

Open(r) ==
  /\ rpc[r] = "closed" /\ mutex = NoOne
  /\ readers' = readers \cup {r}
  /\ r_off' = [r_off EXCEPT ![r] = head]
  /\ last' = [last EXCEPT ![r] = 0]
  /\ ReaderGoto(r, "open")
  /\ UNCHANGED <<log, asleep, wstate>>

(* list_del and kfree without the mutex. *)
Release(r) ==
  /\ rpc[r] = "open"
  /\ readers' = readers \ {r}
  /\ ReaderGoto(r, "closed")
  /\ UNCHANGED <<log, r_off, asleep, last, wstate>>

(* The loop of logger_read: prepare_to_wait comes before the test. *)
ReadPrepare(r) ==
  /\ rpc[r] \in {"open", "resume"}
  /\ asleep' = asleep \cup {r}
  /\ ReaderGoto(r, "check")
  /\ UNCHANGED <<log, readers, r_off, last, wstate>>

ReadNonEmpty(r) ==
  /\ rpc[r] = "check" /\ mutex = NoOne
  /\ w_off # r_off[r]
  /\ asleep' = asleep \ {r}
  /\ ReaderGoto(r, "fetch")
  /\ UNCHANGED <<log, readers, r_off, last, wstate>>

(* EAGAIN for O_NONBLOCK, EINTR for a pending signal, or schedule(). *)
ReadEmpty(r) ==
  /\ rpc[r] = "check" /\ mutex = NoOne
  /\ w_off = r_off[r]
  /\ \/ ReaderGoto(r, "sleep") /\ UNCHANGED asleep
     \/ ReaderGoto(r, "open") /\ asleep' = asleep \ {r}
  /\ UNCHANGED <<log, readers, r_off, last, wstate>>

ReadResume(r) ==
  /\ rpc[r] = "sleep" /\ r \notin asleep
  /\ ReaderGoto(r, "resume")
  /\ UNCHANGED <<log, readers, r_off, asleep, last, wstate>>

Signal(r) ==
  /\ rpc[r] = "sleep" /\ r \in asleep
  /\ asleep' = asleep \ {r}
  /\ UNCHANGED <<log, readers, r_off, rpc, last, wstate>>

(* The log was emptied between the test and the second lock: start again. *)
ReadRaced(r) ==
  /\ rpc[r] = "fetch" /\ mutex = NoOne
  /\ w_off = r_off[r]
  /\ ReaderGoto(r, "resume")
  /\ UNCHANGED <<log, readers, r_off, asleep, last, wstate>>

(* EINVAL for a short buffer or EFAULT: the entry stays. *)
ReadFails(r) ==
  /\ rpc[r] = "fetch" /\ mutex = NoOne
  /\ w_off # r_off[r]
  /\ ReaderGoto(r, "open")
  /\ UNCHANGED <<log, readers, r_off, asleep, last, wstate>>

ReadEntry(r) ==
  /\ rpc[r] = "fetch" /\ mutex = NoOne
  /\ w_off # r_off[r]
  /\ last' = [last EXCEPT ![r] = buf[r_off[r]].msg]
  /\ r_off' = [r_off EXCEPT ![r] = logger_offset(@ + get_entry_len(@))]
  /\ ReaderGoto(r, "open")
  /\ UNCHANGED <<log, readers, asleep, wstate>>

-----------------------------------------------------------------------------
Write(w) == \/ WriteStart(w) \/ WriteLock(w) \/ WriteHeader(w)
            \/ WritePayload(w) \/ WriteFault(w) \/ WriteWake(w)
Read(r)  == \/ ReadNonEmpty(r) \/ ReadEmpty(r) \/ ReadResume(r)
            \/ ReadRaced(r) \/ ReadFails(r) \/ ReadEntry(r)

Next == \/ \E w \in Writers : Write(w)
        \/ \E r \in Readers : Open(r) \/ Release(r) \/ ReadPrepare(r) \/ Read(r) \/ Signal(r)
        \/ Flush

(* A writer inside the driver finishes; a reader that called read() runs
   when it is not asleep, and a mutex it asks for is eventually its own. *)
Fairness ==
  /\ \A w \in Writers : /\ SF_vars(WriteLock(w)) /\ WF_vars(WriteHeader(w))
                        /\ WF_vars(WritePayload(w)) /\ WF_vars(WriteWake(w))
  /\ \A r \in Readers : WF_vars(ReadResume(r))

Spec == Init /\ [][Next]_vars
FairSpec == Spec /\ Fairness

-----------------------------------------------------------------------------
(* Properties *)

TypeOK ==
  /\ w_off \in Offsets /\ head \in Offsets
  /\ buf \in [Offsets -> Cell]
  /\ mutex \in Writers \cup {NoOne}
  /\ readers \subseteq Readers /\ r_off \in [Readers -> Offsets]
  /\ asleep \subseteq Readers
  /\ wpc \in [Writers -> {"idle", "started", "locked", "header", "wake"}]
  /\ orig \in [Writers -> Offsets] /\ msg \in [Writers -> 0..MaxWrites]
  /\ rpc \in [Readers -> {"closed", "open", "resume", "check", "sleep", "fetch"}]
  /\ last \in [Readers -> 0..MaxWrites]
  /\ sizes \in Seq({HeaderLen + n : n \in PayloadSizes})
  /\ committed \subseteq DOMAIN sizes

(* From off to the offset end the ring is a run of whole entries, all of them
   written successfully, in the order they were written: each cell lies in an
   entry that lies in the run. *)
EntriesBetween(off, end) ==
  LET length  == Distance(off, end)
      cell(d) == buf[logger_offset(off + d)]
  IN /\ \A d \in 0..(length - 1) :
          LET m     == cell(d).msg
              start == d - cell(d).pos
          IN /\ m \in committed
             /\ 0 <= start /\ d < start + sizes[m] /\ start + sizes[m] <= length
             /\ \A k \in 0..(sizes[m] - 1) : cell(start + k) = [msg |-> m, pos |-> k]
     /\ \A d, e \in 0..(length - 1) : d < e =>
          \/ cell(d).msg < cell(e).msg
          \/ cell(d).msg = cell(e).msg /\ cell(d).pos < cell(e).pos
EntriesFrom(off) == EntriesBetween(off, w_off)

(* Whatever writers overwrite, every reader and the start for new readers
   stand at an entry boundary with only intact entries ahead, so a read
   returns exactly one entry (logger.c:152, 252-259 and 347-352). *)
ReadersSeeEntries ==
  mutex = NoOne => /\ EntriesFrom(head)
                   /\ \A r \in readers : EntriesFrom(r_off[r])

(* A read hands out an entry newer than every entry the open file got
   before, across laps, flushes and failed writes. *)
ReadsMoveForward ==
  [][\A r \in Readers : rpc[r] = "fetch" /\ r_off'[r] # r_off[r] /\ rpc'[r] = "open"
        => last'[r] > last[r]]_vars

(* w_off = r_off means that there is nothing to read, never that a write came
   round to the reader: after a write the readers and the next to open can
   read (the b >= c of logger.c:241-247 against the test of 170). *)
WriteIsReadable ==
  [][\A w \in Writers : wpc[w] = "header" /\ wpc'[w] = "wake" =>
       \A off \in {head'} \cup {r_off'[r] : r \in readers'} : off # w_off']_vars

(* No reader sleeps on a log it could read, unless the writer that made it
   readable is about to wake it (logger.c:167-185 and 376-379). *)
NoMissedWakeup ==
  mutex = NoOne =>
    \A r \in Readers : rpc[r] = "sleep" /\ r \in asleep /\ w_off # r_off[r] =>
                         \E w \in Writers : wpc[w] = "wake"

(* A blocked reader with something to read leaves its sleep. *)
BlockedReaderReturns ==
  \A r \in Readers :
    rpc[r] = "sleep" /\ mutex = NoOne /\ w_off # r_off[r] ~> rpc[r] # "sleep"

(* logger.c:53-55: a reader's entry in the list "is protected by
   log->mutex": it does not leave the list while a writer walks it. *)
ReaderListProtected ==
  [][mutex # NoOne => readers \subseteq readers']_vars
=============================================================================
