---------------------------- MODULE LoggerProofs ----------------------------
(***************************************************************************)
(* Proofs about Logger for every size of the ring, set of payload lengths,  *)
(* number of writers and readers.  Between two writes each reader, and the  *)
(* head, stands at the start of a run of whole entries that ends at w_off;  *)
(* during a write the run ends where the write began, and the write does    *)
(* not reach round to it.                                                   *)
(***************************************************************************)
EXTENDS Logger, SequenceTheorems, FiniteSetTheorems, TLAPS

Lengths == {HeaderLen + n : n \in PayloadSizes}

(* A run of n cells from off, of a buffer b, with c the messages written and z
   their lengths: EntriesBetween with its variables as parameters. *)
At(b, off, d) == b[logger_offset(off + d)]
EntryIn(b, c, z, off, n, m, start, d) ==
  /\ m \in c
  /\ 0 <= start /\ d < start + z[m] /\ start + z[m] <= n
  /\ \A k \in 0..(z[m] - 1) : At(b, off, start + k) = [msg |-> m, pos |-> k]
Whole(b, c, z, off, n) ==
  \A d \in 0..(n - 1) :
    EntryIn(b, c, z, off, n, At(b, off, d).msg, d - At(b, off, d).pos, d)
Ordered(b, off, n) ==
  \A d, e \in 0..(n - 1) : d < e =>
    \/ At(b, off, d).msg < At(b, off, e).msg
    \/ At(b, off, d).msg = At(b, off, e).msg /\ At(b, off, d).pos < At(b, off, e).pos
Run(b, c, z, off, n) == Whole(b, c, z, off, n) /\ Ordered(b, off, n)

(* EntriesBetween of the model is a run up to end. *)
LEMMA EntriesAreRun ==
  \A off, end : EntriesBetween(off, end) <=>
                  Run(buf, committed, sizes, off, Distance(off, end))
BY DEF EntriesBetween, Run, Whole, EntryIn, Ordered, At

-----------------------------------------------------------------------------
(* Arithmetic of the ring. *)

(* The sizes that the other lemmas compute with. *)
LEMMA SizeFacts ==
  /\ MaxLen \in Nat /\ MaxLen >= 3 /\ Size \in Nat /\ Size >= 2 * MaxLen
  /\ Lengths \subseteq 3..MaxLen
<1> DEFINE P(n) == \A m \in PayloadSizes : m <= n
           longest == CHOOSE n \in PayloadSizes : P(n)
<1>1. longest \in PayloadSizes /\ P(longest)
  BY PayloadAssumption
<1>2. MaxLen = 2 + longest /\ HeaderLen = 2
  BY DEF MaxLen, HeaderLen
<1> HIDE DEF longest
<1> QED BY <1>1, <1>2, SizeAssumption, PayloadAssumption DEF Lengths

(* logger_offset, in either direction, without the remainder. *)
LEMMA OffsetIs ==
  ASSUME NEW o \in Offsets, NEW k \in 0..Size
  PROVE  /\ logger_offset(o + k) = IF o + k < Size THEN o + k ELSE o + k - Size
         /\ logger_offset(o + k) \in Offsets
<1>1. Size \in Nat /\ Size > 0 /\ o \in 0..(Size - 1)
  BY SizeFacts DEF Offsets
<1>2. CASE o + k < Size
  BY <1>1, <1>2 DEF logger_offset, Offsets
<1>3. CASE ~(o + k < Size)
  BY <1>1, <1>3 DEF logger_offset, Offsets
<1> QED BY <1>2, <1>3

(* ... and backwards. *)
LEMMA BackIs ==
  ASSUME NEW o \in Offsets, NEW k \in 0..Size
  PROVE  /\ logger_offset(o - k) = IF o - k < 0 THEN o - k + Size ELSE o - k
         /\ logger_offset(o - k) \in Offsets
<1>1. Size \in Nat /\ Size > 0 /\ o \in 0..(Size - 1)
  BY SizeFacts DEF Offsets
<1>2. CASE o - k < 0
  BY <1>1, <1>2 DEF logger_offset, Offsets
<1>3. CASE ~(o - k < 0)
  BY <1>1, <1>3 DEF logger_offset, Offsets
<1> QED BY <1>2, <1>3

(* Distance without the remainder. *)
LEMMA DistanceIs ==
  ASSUME NEW a \in Offsets, NEW b \in Offsets
  PROVE  /\ Distance(a, b) = IF a <= b THEN b - a ELSE b - a + Size
         /\ Distance(a, b) \in 0..(Size - 1)
<1>1. Size \in Nat /\ Size > 0 /\ a \in 0..(Size - 1) /\ b \in 0..(Size - 1)
  BY SizeFacts DEF Offsets
<1>2. CASE a <= b
  BY <1>1, <1>2 DEF Distance
<1>3. CASE ~(a <= b)
  BY <1>1, <1>3 DEF Distance
<1> QED BY <1>2, <1>3

(* Steps from an offset add up, and lead back to it after the whole ring. *)
LEMMA Steps ==
  ASSUME NEW o \in Offsets, NEW j \in Nat, NEW k \in Nat, j + k <= Size
  PROVE  logger_offset(logger_offset(o + j) + k) = logger_offset(o + (j + k))
<1>1. Size \in Nat /\ Size > 0 /\ o \in 0..(Size - 1)
  BY SizeFacts DEF Offsets
<1>2. logger_offset(o + j) = IF o + j < Size THEN o + j ELSE o + j - Size
  BY <1>1, OffsetIs
<1>3. logger_offset(o + (j + k)) = IF o + (j + k) < Size THEN o + (j + k) ELSE o + (j + k) - Size
  BY <1>1, OffsetIs
<1>4. logger_offset(o + j) \in Offsets /\ k \in 0..Size
  BY <1>1, OffsetIs
<1>5. logger_offset(logger_offset(o + j) + k) =
        IF logger_offset(o + j) + k < Size
        THEN logger_offset(o + j) + k ELSE logger_offset(o + j) + k - Size
  BY <1>4, OffsetIs
<1> QED BY <1>1, <1>2, <1>3, <1>5

(* Different steps from one place lead to different places. *)
LEMMA StepsDiffer ==
  ASSUME NEW o \in Offsets, NEW j \in 0..(Size - 1), NEW k \in 0..(Size - 1),
         logger_offset(o + j) = logger_offset(o + k)
  PROVE  j = k
<1>1. Size \in Nat /\ Size > 0 /\ o \in 0..(Size - 1) /\ j \in 0..Size /\ k \in 0..Size
  BY SizeFacts DEF Offsets
<1>2. /\ logger_offset(o + j) = IF o + j < Size THEN o + j ELSE o + j - Size
      /\ logger_offset(o + k) = IF o + k < Size THEN o + k ELSE o + k - Size
  BY <1>1, OffsetIs
<1> QED BY <1>1, <1>2

(* Distance undoes a step, and a step covers the distance. *)
LEMMA StepAndDistance ==
  /\ \A o \in Offsets, k \in 0..(Size - 1) : Distance(o, logger_offset(o + k)) = k
  /\ \A a, b \in Offsets : logger_offset(a + Distance(a, b)) = b
  /\ \A a, b \in Offsets : Distance(a, b) = 0 <=> a = b
  /\ \A a, b \in Offsets : a # b => Distance(b, a) = Size - Distance(a, b)
<1>1. ASSUME NEW o \in Offsets, NEW k \in 0..(Size - 1)
      PROVE  Distance(o, logger_offset(o + k)) = k
  <2> DEFINE e == logger_offset(o + k)
  <2>1. Size \in Nat /\ Size > 0 /\ o \in 0..(Size - 1) /\ k \in 0..Size
    BY SizeFacts DEF Offsets
  <2>2. e = (IF o + k < Size THEN o + k ELSE o + k - Size) /\ e \in Offsets
    BY <2>1, OffsetIs
  <2> HIDE DEF e
  <2>3. Distance(o, e) = IF o <= e THEN e - o ELSE e - o + Size
    BY <2>2, DistanceIs
  <2> QED BY <2>1, <2>2, <2>3 DEF e
<1>2. ASSUME NEW a \in Offsets, NEW b \in Offsets
      PROVE  /\ logger_offset(a + Distance(a, b)) = b
             /\ Distance(a, b) = 0 <=> a = b
             /\ a # b => Distance(b, a) = Size - Distance(a, b)
  <2> DEFINE n == Distance(a, b)
  <2>1. Size \in Nat /\ Size > 0 /\ a \in 0..(Size - 1) /\ b \in 0..(Size - 1)
    BY SizeFacts DEF Offsets
  <2>2. n = (IF a <= b THEN b - a ELSE b - a + Size) /\ n \in 0..(Size - 1)
    BY DistanceIs
  <2>3. Distance(b, a) = IF b <= a THEN a - b ELSE a - b + Size
    BY DistanceIs
  <2> HIDE DEF n
  <2>4. logger_offset(a + n) = IF a + n < Size THEN a + n ELSE a + n - Size
    BY <2>1, <2>2, OffsetIs
  <2>5. logger_offset(a + n) = b /\ (n = 0 <=> a = b) /\ (a # b => Distance(b, a) = Size - n)
    BY <2>1, <2>2, <2>3, <2>4
  <2> QED BY <2>5 DEF n
<1> QED BY <1>1, <1>2

(* A step at either end shortens or lengthens the distance. *)
LEMMA DistanceAfterStep ==
  ASSUME NEW a \in Offsets, NEW b \in Offsets
  PROVE  /\ \A t \in 0..Distance(a, b) : Distance(logger_offset(a + t), b) = Distance(a, b) - t
         /\ \A n \in Nat : Distance(a, b) + n < Size =>
              Distance(a, logger_offset(b + n)) = Distance(a, b) + n
<1> DEFINE l == Distance(a, b)
<1>1. Size \in Nat /\ Size > 0 /\ a \in 0..(Size - 1) /\ b \in 0..(Size - 1)
  BY SizeFacts DEF Offsets
<1>2. l = (IF a <= b THEN b - a ELSE b - a + Size) /\ l \in 0..(Size - 1)
  BY DistanceIs
<1> HIDE DEF l
<1>3. ASSUME NEW t \in 0..l
      PROVE  Distance(logger_offset(a + t), b) = l - t
  <2> DEFINE e == logger_offset(a + t)
  <2>1. e = (IF a + t < Size THEN a + t ELSE a + t - Size) /\ e \in Offsets
    BY <1>1, <1>2, OffsetIs
  <2> HIDE DEF e
  <2>2. Distance(e, b) = IF e <= b THEN b - e ELSE b - e + Size
    BY <2>1, DistanceIs
  <2> QED BY <1>1, <1>2, <2>1, <2>2 DEF e
<1>4. ASSUME NEW n \in Nat, l + n < Size
      PROVE  Distance(a, logger_offset(b + n)) = l + n
  <2> DEFINE e == logger_offset(b + n)
  <2>1. e = (IF b + n < Size THEN b + n ELSE b + n - Size) /\ e \in Offsets
    BY <1>1, <1>2, <1>4, OffsetIs
  <2> HIDE DEF e
  <2>2. Distance(a, e) = IF a <= e THEN e - a ELSE e - a + Size
    BY <2>1, DistanceIs
  <2> QED BY <1>1, <1>2, <1>4, <2>1, <2>2 DEF e
<1> QED BY <1>3, <1>4 DEF l

(* clock_interval tells whether c is among the len offsets after a. *)
LEMMA ClockInterval ==
  ASSUME NEW a \in Offsets, NEW c \in Offsets, NEW len \in 1..(Size - 1)
  PROVE  clock_interval(a, logger_offset(a + len), c) <=> Distance(a, c) \in 1..len
<1> DEFINE b == logger_offset(a + len)
           n == Distance(a, c)
<1>1. Size \in Nat /\ Size > 0 /\ a \in 0..(Size - 1) /\ c \in 0..(Size - 1)
  BY SizeFacts DEF Offsets
<1>2. b = IF a + len < Size THEN a + len ELSE a + len - Size
  BY <1>1, OffsetIs
<1>3. n = (IF a <= c THEN c - a ELSE c - a + Size) /\ n \in 0..(Size - 1)
  BY DistanceIs
<1> HIDE DEF b, n
<1>4. clock_interval(a, b, c) <=> n \in 1..len
  BY <1>1, <1>2, <1>3 DEF clock_interval
<1> QED BY <1>4 DEF b, n

-----------------------------------------------------------------------------
(* Runs of entries. *)

Ring(b, c, z) == /\ b \in [Offsets -> [msg : 0..MaxWrites, pos : 0..(MaxLen - 1)]]
                 /\ z \in Seq(Lengths) /\ c \subseteq DOMAIN z

(* What a cell holds. *)
LEMMA CellAt ==
  ASSUME NEW b, NEW c, NEW z, Ring(b, c, z), NEW off \in Offsets, NEW d \in 0..Size
  PROVE  /\ At(b, off, d).msg \in Nat /\ At(b, off, d).pos \in Nat
         /\ At(b, off, d).pos < MaxLen
<1>1. logger_offset(off + d) \in Offsets
  BY OffsetIs
<1>2. b[logger_offset(off + d)] \in [msg : 0..MaxWrites, pos : 0..(MaxLen - 1)]
  BY <1>1 DEF Ring
<1> QED BY <1>2, SizeFacts, WritersAssumption DEF At

(* A step along the ring moves the view of it. *)
LEMMA AtStep ==
  ASSUME NEW b, NEW off \in Offsets, NEW t \in Nat, NEW d \in Nat, t + d <= Size
  PROVE  At(b, logger_offset(off + t), d) = At(b, off, t + d)
BY Steps DEF At

(* A committed message has the length of a payload and a header. *)
LEMMA LengthOf ==
  ASSUME NEW b, NEW c, NEW z, Ring(b, c, z), NEW m \in c
  PROVE  z[m] \in 3..MaxLen
<1>1. m \in 1..Len(z) /\ z \in Seq(Lengths)
  BY LenProperties DEF Ring
<1>2. z[m] \in Lengths
  BY <1>1, ElementOfSeq
<1> QED BY <1>2, SizeFacts

(* The entry in which a cell of the run lies. *)
LEMMA EntryAround ==
  ASSUME NEW b, NEW c, NEW z, Ring(b, c, z), NEW off \in Offsets, NEW n \in 0..Size,
         Whole(b, c, z, off, n), NEW d \in 0..(n - 1)
  PROVE  \E m \in c, start \in 0..d :
           /\ m = At(b, off, d).msg /\ start = d - At(b, off, d).pos
           /\ d < start + z[m] /\ start + z[m] <= n /\ z[m] \in 3..MaxLen
           /\ \A k \in 0..(z[m] - 1) : At(b, off, start + k) = [msg |-> m, pos |-> k]
<1> DEFINE m     == At(b, off, d).msg
           start == d - At(b, off, d).pos
<1>1. d \in 0..Size /\ d \in Nat
  BY SizeFacts
<1>2. At(b, off, d).pos \in Nat
  BY <1>1, CellAt
<1>3. /\ m \in c
      /\ 0 <= start /\ d < start + z[m] /\ start + z[m] <= n
      /\ \A k \in 0..(z[m] - 1) : At(b, off, start + k) = [msg |-> m, pos |-> k]
  BY DEF Whole, EntryIn
<1>4. start \in 0..d
  BY <1>1, <1>2, <1>3
<1>5. z[m] \in 3..MaxLen
  BY <1>3, LengthOf
<1> QED BY <1>3, <1>4, <1>5

(* A run stays one when the cells outside it change, and more is written. *)
LEMMA RunFrame ==
  ASSUME NEW b, NEW c, NEW z, Ring(b, c, z), NEW off \in Offsets, NEW n \in 0..Size,
         Run(b, c, z, off, n),
         NEW b2, NEW c2, NEW z2, c \subseteq c2, \A m \in c : z2[m] = z[m],
         \A d \in 0..(n - 1) : At(b2, off, d) = At(b, off, d)
  PROVE  Run(b2, c2, z2, off, n)
<1>1. Whole(b2, c2, z2, off, n)
  <2> SUFFICES ASSUME NEW d \in 0..(n - 1)
               PROVE  EntryIn(b2, c2, z2, off, n, At(b2, off, d).msg, d - At(b2, off, d).pos, d)
    BY DEF Whole
  <2>1. PICK m \in c, start \in 0..d :
           /\ m = At(b, off, d).msg /\ start = d - At(b, off, d).pos
           /\ d < start + z[m] /\ start + z[m] <= n /\ z[m] \in 3..MaxLen
           /\ \A k \in 0..(z[m] - 1) : At(b, off, start + k) = [msg |-> m, pos |-> k]
    <3>1. Whole(b, c, z, off, n)
      BY DEF Run
    <3> QED BY <3>1, EntryAround
  <2>2. \A k \in 0..(z[m] - 1) : start + k \in 0..(n - 1)
    <3>1. start \in Nat /\ n \in Nat /\ z[m] \in Nat /\ start + z[m] <= n
      BY <2>1, SizeFacts
    <3> QED BY <3>1
  <2>3. \A k \in 0..(z[m] - 1) : At(b2, off, start + k) = [msg |-> m, pos |-> k]
    BY <2>1, <2>2
  <2>4. At(b2, off, d) = At(b, off, d) /\ z2[m] = z[m] /\ m \in c2
    OBVIOUS
  <2>5. d - At(b2, off, d).pos = start /\ At(b2, off, d).msg = m
    BY <2>1, <2>4
  <2> QED BY <2>1, <2>3, <2>4, <2>5 DEF EntryIn
<1>2. Ordered(b2, off, n)
  BY DEF Ordered, Run
<1> QED BY <1>1, <1>2 DEF Run

(* What is left of a run from where an entry ends. *)
Boundary(b, off, n, t) == t = n \/ At(b, off, t).pos = 0
LEMMA RunSuffix ==
  ASSUME NEW b, NEW c, NEW z, Ring(b, c, z), NEW off \in Offsets, NEW n \in 0..Size,
         Run(b, c, z, off, n), NEW t \in 0..n, Boundary(b, off, n, t)
  PROVE  Run(b, c, z, logger_offset(off + t), n - t)
<1> DEFINE o == logger_offset(off + t)
<1>1. Size \in Nat /\ n \in Nat /\ t \in Nat /\ n <= Size /\ t <= n
  BY SizeFacts
<1>2. \A d \in 0..(n - t - 1) : /\ t + d \in 0..(n - 1) /\ d \in Nat
                                /\ At(b, o, d) = At(b, off, t + d)
  BY <1>1, AtStep
<1> HIDE DEF o
<1>3. Whole(b, c, z, o, n - t)
  <2> SUFFICES ASSUME NEW d \in 0..(n - t - 1)
               PROVE  EntryIn(b, c, z, o, n - t, At(b, o, d).msg, d - At(b, o, d).pos, d)
    BY DEF Whole
  <2>1. PICK m \in c, s \in 0..(t + d) :
           /\ m = At(b, off, t + d).msg /\ s = (t + d) - At(b, off, t + d).pos
           /\ t + d < s + z[m] /\ s + z[m] <= n /\ z[m] \in 3..MaxLen
           /\ \A k \in 0..(z[m] - 1) : At(b, off, s + k) = [msg |-> m, pos |-> k]
    <3> DEFINE u == t + d
    <3>1. u \in 0..(n - 1) /\ Whole(b, c, z, off, n)
      BY <1>2 DEF Run
    <3> HIDE DEF u
    <3>2. \E m \in c, s \in 0..u :
             /\ m = At(b, off, u).msg /\ s = u - At(b, off, u).pos
             /\ u < s + z[m] /\ s + z[m] <= n /\ z[m] \in 3..MaxLen
             /\ \A k \in 0..(z[m] - 1) : At(b, off, s + k) = [msg |-> m, pos |-> k]
      BY <3>1, EntryAround
    <3> QED BY <3>2 DEF u
  <2>2. s >= t
    <3> SUFFICES ASSUME s < t PROVE FALSE
      BY <1>1, <2>1
    <3>1. t - s \in 0..(z[m] - 1) /\ s + (t - s) = t /\ t # n
      BY <1>1, <2>1, SizeFacts
    <3>2. At(b, off, t) = [msg |-> m, pos |-> t - s]
      BY <2>1, <3>1
    <3> QED BY <3>1, <3>2 DEF Boundary
  <2>3. /\ At(b, o, d).msg = m /\ d - At(b, o, d).pos = s - t
    BY <1>1, <1>2, <2>1, CellAt
  <2>4. \A k \in 0..(z[m] - 1) : At(b, o, (s - t) + k) = [msg |-> m, pos |-> k]
    <3> SUFFICES ASSUME NEW k \in 0..(z[m] - 1)
                 PROVE  At(b, o, (s - t) + k) = [msg |-> m, pos |-> k]
      OBVIOUS
    <3>1. (s - t) + k \in 0..(n - t - 1) /\ t + ((s - t) + k) = s + k
      BY <1>1, <2>1, <2>2, SizeFacts
    <3> QED BY <1>2, <2>1, <3>1
  <2>5. 0 <= s - t /\ d < (s - t) + z[m] /\ (s - t) + z[m] <= n - t
    BY <1>1, <2>1, <2>2, SizeFacts
  <2> QED BY <2>3, <2>4, <2>5 DEF EntryIn
<1>4. Ordered(b, o, n - t)
  <2> SUFFICES ASSUME NEW d \in 0..(n - t - 1), NEW e \in 0..(n - t - 1), d < e
               PROVE  \/ At(b, o, d).msg < At(b, o, e).msg
                      \/ At(b, o, d).msg = At(b, o, e).msg /\ At(b, o, d).pos < At(b, o, e).pos
    BY DEF Ordered
  <2>1. t + d \in 0..(n - 1) /\ t + e \in 0..(n - 1) /\ t + d < t + e
    BY <1>1
  <2> QED BY <1>2, <2>1 DEF Ordered, Run
<1> QED BY <1>3, <1>4 DEF Run, o

(* A run to which a newer entry is added. *)
LEMMA RunAppend ==
  ASSUME NEW b, NEW c, NEW z, Ring(b, c, z), NEW off \in Offsets, NEW n \in Nat,
         Run(b, c, z, off, n),
         NEW m \in c, n + z[m] <= Size,
         \A k \in 0..(z[m] - 1) : At(b, off, n + k) = [msg |-> m, pos |-> k],
         \A d \in 0..(n - 1) : At(b, off, d).msg < m
  PROVE  Run(b, c, z, off, n + z[m])
<1>1. z[m] \in 3..MaxLen /\ MaxLen \in Nat /\ Size \in Nat /\ n \in 0..Size /\ z[m] \in Nat
  BY LengthOf, SizeFacts
<1> DEFINE l == n + z[m]
<1> HIDE DEF l
<1>2. l \in Nat /\ l = n + z[m]
  BY <1>1 DEF l
<1>3. \A d \in 0..(l - 1) : d - n \in 0..(z[m] - 1) =>
        At(b, off, d) = [msg |-> m, pos |-> d - n]
  <2> SUFFICES ASSUME NEW d \in 0..(l - 1), d - n \in 0..(z[m] - 1)
               PROVE  At(b, off, d) = [msg |-> m, pos |-> d - n]
    OBVIOUS
  <2>1. n + (d - n) = d
    BY <1>1, <1>2
  <2> QED BY <2>1
<1>4. \A d \in 0..(l - 1) : d \in 0..(n - 1) \/ d - n \in 0..(z[m] - 1)
  BY <1>1, <1>2
<1>5. Whole(b, c, z, off, l)
  <2> SUFFICES ASSUME NEW d \in 0..(l - 1)
               PROVE  EntryIn(b, c, z, off, l, At(b, off, d).msg, d - At(b, off, d).pos, d)
    BY DEF Whole
  <2>1. CASE d \in 0..(n - 1)
    <3>1. PICK e \in c, start \in 0..d :
             /\ e = At(b, off, d).msg /\ start = d - At(b, off, d).pos
             /\ d < start + z[e] /\ start + z[e] <= n /\ z[e] \in 3..MaxLen
             /\ \A k \in 0..(z[e] - 1) : At(b, off, start + k) = [msg |-> e, pos |-> k]
      <4>1. Whole(b, c, z, off, n)
        BY DEF Run
      <4>2. n \in 0..Size
        BY <1>1
      <4> QED BY <2>1, <4>1, <4>2, EntryAround
    <3>2. 0 <= start /\ start + z[e] <= l
      BY <1>1, <1>2, <3>1
    <3> QED BY <3>1, <3>2 DEF EntryIn
  <2>2. CASE d - n \in 0..(z[m] - 1)
    <3>1. At(b, off, d).msg = m /\ At(b, off, d).pos = d - n
      BY <1>3, <1>2, <2>2
    <3>2. d - (d - n) = n /\ 0 <= n /\ d < l /\ l <= l /\ n + z[m] = l
      BY <1>1, <1>2, <2>2
    <3> QED BY <3>1, <3>2 DEF EntryIn
  <2> QED BY <1>4, <2>1, <2>2
<1>6. Ordered(b, off, l)
  <2> SUFFICES ASSUME NEW d \in 0..(l - 1), NEW e \in 0..(l - 1), d < e
               PROVE  \/ At(b, off, d).msg < At(b, off, e).msg
                      \/ /\ At(b, off, d).msg = At(b, off, e).msg
                         /\ At(b, off, d).pos < At(b, off, e).pos
    BY DEF Ordered
  <2>1. CASE e \in 0..(n - 1)
    <3>1. d \in 0..(n - 1)
      BY <1>1, <1>2, <2>1
    <3> QED BY <2>1, <3>1 DEF Run, Ordered
  <2>2. CASE d \in 0..(n - 1) /\ e - n \in 0..(z[m] - 1)
    BY <1>1, <1>3, <1>2, <2>2
  <2>3. CASE d - n \in 0..(z[m] - 1) /\ e - n \in 0..(z[m] - 1)
    <3>1. d - n < e - n
      BY <1>1, <1>2
    <3>2. At(b, off, d) = [msg |-> m, pos |-> d - n] /\ At(b, off, e) = [msg |-> m, pos |-> e - n]
      BY <1>3, <1>2, <2>3
    <3>3. /\ At(b, off, d).msg = m /\ At(b, off, d).pos = d - n
          /\ At(b, off, e).msg = m /\ At(b, off, e).pos = e - n
      BY <3>2
    <3> QED BY <3>1, <3>3
  <2> QED BY <1>4, <2>1, <2>2, <2>3
<1> QED BY <1>5, <1>6 DEF Run, l

(* The entry that starts at a boundary ends at the next one. *)
LEMMA NextBoundary ==
  ASSUME NEW b, NEW c, NEW z, Ring(b, c, z), NEW off \in Offsets, NEW n \in 0..Size,
         Run(b, c, z, off, n), NEW t \in 0..(n - 1), At(b, off, t).pos = 0
  PROVE  \E m \in c :
           /\ z[m] \in 3..MaxLen /\ t + z[m] <= n
           /\ \A k \in 0..(z[m] - 1) : At(b, off, t + k) = [msg |-> m, pos |-> k]
           /\ Boundary(b, off, n, t + z[m])
<1>1. PICK m \in c, s \in 0..t :
         /\ m = At(b, off, t).msg /\ s = t - At(b, off, t).pos
         /\ t < s + z[m] /\ s + z[m] <= n /\ z[m] \in 3..MaxLen
         /\ \A k \in 0..(z[m] - 1) : At(b, off, s + k) = [msg |-> m, pos |-> k]
  BY EntryAround DEF Run
<1>2. s = t /\ n \in Nat /\ t \in Nat /\ MaxLen \in Nat /\ z[m] \in Nat /\ z[m] >= 3
  BY <1>1, SizeFacts
<1> DEFINE e == t + z[m]
<1>3. ASSUME e # n PROVE At(b, off, e).pos = 0
  <2>1. e \in 0..(n - 1)
    BY <1>1, <1>2, <1>3
  <2>2. PICK m2 \in c, s2 \in 0..e :
           /\ m2 = At(b, off, e).msg /\ s2 = e - At(b, off, e).pos
           /\ e < s2 + z[m2] /\ z[m2] \in 3..MaxLen
           /\ \A k \in 0..(z[m2] - 1) : At(b, off, s2 + k) = [msg |-> m2, pos |-> k]
    <3> HIDE DEF e
    <3> QED BY <2>1, EntryAround DEF Run
  <2>3. s2 = e
    <3> SUFFICES ASSUME s2 < e PROVE FALSE
      BY <1>2, <2>2
    <3>1. /\ (e - 1) - s2 \in 0..(z[m2] - 1) /\ s2 + ((e - 1) - s2) = e - 1
          /\ z[m] - 1 \in 0..(z[m] - 1) /\ t + (z[m] - 1) = e - 1
      BY <1>2, <2>2
    <3>2. At(b, off, e - 1) = [msg |-> m2, pos |-> (e - 1) - s2]
      BY <2>2, <3>1
    <3>3. At(b, off, e - 1) = [msg |-> m, pos |-> z[m] - 1]
      BY <1>1, <1>2, <3>1
    <3>4. m = m2 /\ (e - 1) - s2 = z[m] - 1
      <4>1. /\ [msg |-> m2, pos |-> (e - 1) - s2].msg = m2
            /\ [msg |-> m2, pos |-> (e - 1) - s2].pos = (e - 1) - s2
            /\ [msg |-> m, pos |-> z[m] - 1].msg = m
            /\ [msg |-> m, pos |-> z[m] - 1].pos = z[m] - 1
        OBVIOUS
      <4>2. At(b, off, e - 1).msg = m2 /\ At(b, off, e - 1).pos = (e - 1) - s2
        BY <3>2, <4>1
      <4>3. At(b, off, e - 1).msg = m /\ At(b, off, e - 1).pos = z[m] - 1
        BY <3>3, <4>1
      <4> QED BY <4>2, <4>3
    <3>5. s2 = t /\ z[m2] = z[m] /\ e < s2 + z[m2]
      <4>1. s2 \in Nat /\ e \in Nat /\ e - s2 = z[m] /\ e - t = z[m]
        BY <1>2, <2>1, <3>4
      <4>2. s2 = t
        <5> HIDE DEF e
        <5> QED BY <1>2, <4>1
      <4> QED BY <2>2, <3>4, <4>2
    <3> QED BY <1>2, <3>5
  <2>4. e \in 0..Size
    BY <2>1, SizeFacts
  <2>5. At(b, off, e).pos \in Nat
    <3> HIDE DEF e
    <3> QED BY <2>4, CellAt
  <2> QED BY <1>2, <2>2, <2>3, <2>5
<1> QED BY <1>1, <1>2, <1>3 DEF Boundary
-----------------------------------------------------------------------------
(* The loop of get_next_entry. *)

(* What passes from all later numbers to a number holds from 0 to n. *)
LEMMA DownTo ==
  ASSUME NEW n \in Nat, NEW S \in SUBSET (0..n), n \in S,
         \A k \in 0..(n - 1) : ((k + 1)..n \subseteq S) => k \in S
  PROVE  0..n \subseteq S
<1> SUFFICES ASSUME (0..n) \ S # {} PROVE FALSE
  OBVIOUS
<1> DEFINE left == {1..(n - k) : k \in (0..n) \ S}
<1>1. left \subseteq FiniteSubsetsOf(Nat) /\ left # {}
  <2>1. ASSUME NEW k \in 0..n
        PROVE  IsFiniteSet(1..(n - k)) /\ 1..(n - k) \in SUBSET Nat
    <3>1. 1 \in Int /\ n - k \in Int
      OBVIOUS
    <3>2. IsFiniteSet(1..(n - k))
      BY <3>1, FS_Interval
    <3> QED BY <3>2
  <2> QED BY <2>1 DEF FiniteSubsetsOf
<1>2. PICK I \in left : \A J \in left : <<J, I>> \notin StrictSubsetOrdering(Nat)
  <2> HIDE DEF left
  <2> QED BY <1>1, FS_StrictSubsetOrderingWellFounded, WFMin
<1>3. PICK m \in (0..n) \ S : I = 1..(n - m)
  OBVIOUS
<1>4. ASSUME NEW k \in (0..n) \ S, m < k
      PROVE  FALSE
  <2>1. 1..(n - k) \in SUBSET Nat /\ 1..(n - m) \in SUBSET Nat /\ 1..(n - k) \subseteq 1..(n - m)
    BY <1>4
  <2>2. n - m \in 1..(n - m) /\ n - m \notin 1..(n - k)
    BY <1>4
  <2>3. <<1..(n - k), 1..(n - m)>> \in StrictSubsetOrdering(Nat)
    BY <2>1, <2>2 DEF StrictSubsetOrdering
  <2>4. 1..(n - k) \in left
    OBVIOUS
  <2> HIDE DEF left
  <2> QED BY <1>2, <1>3, <2>3, <2>4
<1>5. m \in 0..(n - 1) /\ (m + 1)..n \subseteq S
  BY <1>3, <1>4
<1> QED BY <1>3, <1>5

(* A loop that counts up to len by steps of at least one has a value. *)
LEMMA LoopHasValue ==
  ASSUME NEW len \in Nat, NEW step \in [0..(len - 1) -> Nat \ {0}]
  PROVE  \E g : g = [j \in 0..(len - 1) |->
                       IF j + step[j] >= len THEN j + step[j] ELSE g[j + step[j]]]
<1> DEFINE From(k, g) == \A j \in k..(len - 1) :
              g[j] = IF j + step[j] >= len THEN j + step[j] ELSE g[j + step[j]]
           S == {k \in 0..len : \E g : g = [j \in k..(len - 1) |-> g[j]] /\ From(k, g)}
<1>1. len \in S
  <2> DEFINE none == [j \in len..(len - 1) |-> 0]
  <2>1. none = [j \in len..(len - 1) |-> none[j]] /\ From(len, none)
    OBVIOUS
  <2> HIDE DEF none
  <2> QED BY <2>1
<1>2. ASSUME NEW k \in 0..(len - 1), k + 1 \in S
      PROVE  k \in S
  <2>1. PICK g : g = [j \in (k + 1)..(len - 1) |-> g[j]] /\ From(k + 1, g)
    BY <1>2
  <2> DEFINE h == [j \in k..(len - 1) |->
                     IF j # k THEN g[j]
                     ELSE IF k + step[k] >= len THEN k + step[k] ELSE g[k + step[k]]]
  <2>2. h = [j \in k..(len - 1) |-> h[j]]
    OBVIOUS
  <2>3. step[k] \in Nat \ {0}
    OBVIOUS
  <2>4. \A j \in (k + 1)..(len - 1) : j \in k..(len - 1) /\ h[j] = g[j]
    OBVIOUS
  <2>5. h[k] = IF k + step[k] >= len THEN k + step[k] ELSE g[k + step[k]]
    OBVIOUS
  <2> HIDE DEF h
  <2>6. ASSUME NEW j \in k..(len - 1)
        PROVE  h[j] = IF j + step[j] >= len THEN j + step[j] ELSE h[j + step[j]]
    <3>0. step[j] \in Nat \ {0}
      OBVIOUS
    <3>1. CASE j = k
      <4>1. CASE k + step[k] >= len
        BY <2>5, <3>1, <4>1
      <4>2. CASE ~(k + step[k] >= len)
        <5>1. k + step[k] \in (k + 1)..(len - 1)
          BY <2>3, <4>2
        <5> QED BY <2>4, <2>5, <3>1, <4>2, <5>1
      <4> QED BY <4>1, <4>2
    <3>2. CASE j # k
      <4>1. j \in (k + 1)..(len - 1)
        BY <3>2
      <4>2. h[j] = IF j + step[j] >= len THEN j + step[j] ELSE g[j + step[j]]
        BY <2>1, <2>4, <4>1
      <4>3. CASE j + step[j] >= len
        BY <4>2, <4>3
      <4>4. CASE ~(j + step[j] >= len)
        <5>1. j + step[j] \in (k + 1)..(len - 1)
          BY <3>0, <4>1, <4>4
        <5> QED BY <2>4, <4>2, <4>4, <5>1
      <4> QED BY <4>3, <4>4
    <3> QED BY <3>1, <3>2
  <2>7. From(k, h)
    BY <2>6
  <2> QED BY <2>2, <2>7
<1>3. S \in SUBSET (0..len) /\ \A k \in 0..(len - 1) : (k + 1)..len \subseteq S => k + 1 \in S
  <2>1. \A k \in 0..(len - 1) : k + 1 \in (k + 1)..len
    OBVIOUS
  <2> HIDE DEF From
  <2> QED BY <2>1
<1>4. 0 \in S
  <2> HIDE DEF S
  <2>1. 0..len \subseteq S
    BY <1>1, <1>2, <1>3, DownTo
  <2> QED BY <2>1
<1>5. PICK g : g = [j \in 0..(len - 1) |-> g[j]] /\ From(0, g)
  BY <1>4
<1> QED BY <1>5

(* The loop ends at a count of len or more, of a kind that its steps keep. *)
LEMMA LoopEnds ==
  ASSUME NEW len \in Nat \ {0}, NEW step \in [0..(len - 1) -> Nat \ {0}], NEW g,
         g = [j \in 0..(len - 1) |->
                IF j + step[j] >= len THEN j + step[j] ELSE g[j + step[j]]],
         NEW K \in SUBSET Nat, 0 \in K,
         \A j \in 0..(len - 1) : j \in K => j + step[j] \in K
  PROVE  g[0] \in K /\ g[0] >= len
<1> DEFINE S == {k \in 0..len : k = len \/ (k \in K => g[k] \in K /\ g[k] >= len)}
<1>0. ASSUME NEW j \in 0..(len - 1)
      PROVE  g[j] = IF j + step[j] >= len THEN j + step[j] ELSE g[j + step[j]]
  OBVIOUS
<1>1. ASSUME NEW k \in 0..(len - 1), (k + 1)..len \subseteq S
      PROVE  k \in S
  <2>1. step[k] \in Nat \ {0}
    OBVIOUS
  <2>2. CASE k + step[k] >= len
    BY <1>0, <2>1, <2>2
  <2>3. CASE ~(k + step[k] >= len)
    <3>1. k + step[k] \in (k + 1)..len /\ k + step[k] # len
      BY <2>1, <2>3
    <3>2. k + step[k] \in S
      BY <1>1, <3>1
    <3>3. g[k] = g[k + step[k]]
      BY <1>0, <2>3
    <3>4. k \in K => k + step[k] \in K
      OBVIOUS
    <3>5. k + step[k] \in K => g[k + step[k]] \in K /\ g[k + step[k]] >= len
      BY <3>1, <3>2
    <3>6. k \in K => g[k] \in K /\ g[k] >= len
      BY <3>3, <3>4, <3>5
    <3> QED BY <3>6
  <2> QED BY <2>2, <2>3
<1>2. len \in S /\ S \in SUBSET (0..len)
  OBVIOUS
<1>3. 0..len \subseteq S
  <2> HIDE DEF S
  <2> QED BY <1>1, <1>2, DownTo
<1>4. 0 \in 0..len /\ 0 # len
  OBVIOUS
<1> QED BY <1>3, <1>4
(* The length read at an offset is never zero; at the start of an entry of a
   run it is that entry's. *)
LEMMA EntryLenType ==
  ASSUME sizes \in Seq(Lengths), NEW off
  PROVE  get_entry_len(off) \in 2..MaxLen
<1>1. \A m \in DOMAIN sizes : sizes[m] \in 3..MaxLen
  BY ElementOfSeq, LenProperties, SizeFacts
<1> QED BY <1>1, SizeFacts DEF get_entry_len, HeaderLen

(* At a boundary inside a run get_entry_len reads the length of the entry that
   stands there, and the next boundary is behind it. *)
LEMMA EntryLenIs ==
  ASSUME Ring(buf, committed, sizes), NEW off \in Offsets, NEW n \in 0..Size,
         Run(buf, committed, sizes, off, n),
         NEW t \in 0..(n - 1), At(buf, off, t).pos = 0
  PROVE  \E m \in committed :
           /\ get_entry_len(logger_offset(off + t)) = sizes[m]
           /\ sizes[m] \in 3..MaxLen /\ t + sizes[m] <= n
           /\ At(buf, off, t).msg = m
           /\ \A k \in 0..(sizes[m] - 1) : At(buf, off, t + k) = [msg |-> m, pos |-> k]
           /\ Boundary(buf, off, n, t + sizes[m])
<1>1. PICK m \in committed :
         /\ sizes[m] \in 3..MaxLen /\ t + sizes[m] <= n
         /\ \A k \in 0..(sizes[m] - 1) : At(buf, off, t + k) = [msg |-> m, pos |-> k]
         /\ Boundary(buf, off, n, t + sizes[m])
  BY NextBoundary
<1>2. Size \in Nat /\ MaxLen \in Nat /\ t \in Nat /\ n \in Nat
  BY SizeFacts
<1>3. 0 \in 0..(sizes[m] - 1) /\ 1 \in 0..(sizes[m] - 1) /\ t + 0 = t /\ t + 1 <= Size
  BY <1>1, <1>2
<1>4. At(buf, off, t) = [msg |-> m, pos |-> 0] /\ At(buf, off, t + 1) = [msg |-> m, pos |-> 1]
  BY <1>1, <1>3
<1>5. logger_offset(logger_offset(off + t) + 1) = logger_offset(off + (t + 1))
  BY <1>2, <1>3, Steps
<1>6. m \in DOMAIN sizes
  BY DEF Ring
<1>7. get_entry_len(logger_offset(off + t)) = sizes[m]
  BY <1>4, <1>5, <1>6 DEF get_entry_len, At
<1> QED BY <1>1, <1>4, <1>7

(* A run starts at a boundary. *)
LEMMA RunStarts ==
  ASSUME NEW b, NEW c, NEW z, Ring(b, c, z), NEW off \in Offsets, NEW n \in 0..Size,
         Run(b, c, z, off, n)
  PROVE  Boundary(b, off, n, 0)
<1> SUFFICES ASSUME n # 0 PROVE At(b, off, 0).pos = 0
  BY DEF Boundary
<1>1. 0 \in 0..(n - 1) /\ Size \in Nat /\ 0 \in 0..Size
  BY SizeFacts
<1>2. Whole(b, c, z, off, n)
  BY DEF Run
<1>3. 0 <= 0 - At(b, off, 0).pos
  BY <1>1, <1>2 DEF Whole, EntryIn
<1>4. At(b, off, 0).pos \in Nat
  BY <1>1, CellAt
<1> QED BY <1>3, <1>4

(* get_next_entry passes whole entries of the run it starts in. *)
LEMMA NextEntry ==
  ASSUME sizes \in Seq(Lengths), NEW off \in Offsets, NEW len \in 1..MaxLen
  PROVE  /\ get_next_entry(off, len) \in Offsets
         /\ \A n \in len..Size :
              Ring(buf, committed, sizes) /\ Run(buf, committed, sizes, off, n) =>
                \E t \in len..n : /\ Boundary(buf, off, n, t)
                                  /\ get_next_entry(off, len) = logger_offset(off + t)
<1> DEFINE step == [k \in 0..(len - 1) |-> get_entry_len(logger_offset(off + k))]
           Loop(g) == g = [j \in 0..(len - 1) |->
                             IF j + step[j] >= len THEN j + step[j] ELSE g[j + step[j]]]
           skip == CHOOSE g : Loop(g)
<1>1. len \in Nat \ {0} /\ MaxLen \in Nat /\ Size \in Nat /\ Size >= 2 * MaxLen /\ len <= MaxLen
  BY SizeFacts
<1>2. \A j \in 0..(len - 1) : step[j] \in 2..MaxLen
  BY EntryLenType
<1>3. step \in [0..(len - 1) -> Nat \ {0}]
  BY <1>2
<1>4. get_next_entry(off, len) = logger_offset(off + skip[0])
  BY DEF get_next_entry
<1>5. Loop(skip)
  <2> HIDE DEF step
  <2>1. \E g : Loop(g)
    BY <1>1, <1>3, LoopHasValue
  <2> HIDE DEF Loop
  <2> QED BY <2>1
<1> HIDE DEF skip
<1>6. ASSUME NEW K \in SUBSET Nat, 0 \in K, \A j \in 0..(len - 1) : j \in K => j + step[j] \in K
      PROVE  skip[0] \in K /\ skip[0] >= len
  <2> HIDE DEF step
  <2> QED BY <1>1, <1>3, <1>5, <1>6, LoopEnds
<1>7. skip[0] \in 0..Size
  <2>1. \A j \in 0..(len - 1) : j + step[j] \in 0..Size
    <3> HIDE DEF step
    <3> QED BY <1>1, <1>2
  <2>2. 0 \in 0..Size /\ 0..Size \in SUBSET Nat
    BY <1>1
  <2> QED BY <1>6, <2>1, <2>2
<1>8. ASSUME NEW n \in len..Size, Ring(buf, committed, sizes), Run(buf, committed, sizes, off, n)
      PROVE  \E t \in len..n : /\ Boundary(buf, off, n, t)
                               /\ get_next_entry(off, len) = logger_offset(off + t)
  <2> DEFINE K == {t \in 0..n : Boundary(buf, off, n, t)}
  <2>1. n \in 0..Size
    BY <1>1
  <2>2. 0 \in K
    BY <1>1, <1>8, <2>1, RunStarts
  <2>3. ASSUME NEW j \in 0..(len - 1), j \in K
        PROVE  j + step[j] \in K
    <3>1. j \in 0..(n - 1) /\ j # n
      BY <1>1
    <3>2. At(buf, off, j).pos = 0
      BY <2>3, <3>1 DEF Boundary
    <3>3. \E m \in committed :
            /\ get_entry_len(logger_offset(off + j)) = sizes[m]
            /\ sizes[m] \in 3..MaxLen /\ j + sizes[m] <= n
            /\ At(buf, off, j).msg = m
            /\ Boundary(buf, off, n, j + sizes[m])
      BY <1>8, <2>1, <3>1, <3>2, EntryLenIs
    <3> QED BY <1>1, <3>3
  <2>4. K \in SUBSET Nat
    OBVIOUS
  <2>5. skip[0] \in K /\ skip[0] >= len
    <3> HIDE DEF K, step
    <3> QED BY <1>6, <2>2, <2>3, <2>4
  <2> QED BY <1>4, <2>5
<1> QED BY <1>4, <1>7, <1>8, OffsetIs
(* What fix_up_readers does to the offset of a reader or to the head: it stays
   or passes whole entries, until the write does not come round to it. *)
LEMMA PulledType ==
  ASSUME sizes \in Seq(Lengths), w_off \in Offsets, NEW off \in Offsets, NEW len \in 3..MaxLen
  PROVE  Pulled(off, len) \in Offsets
<1>1. len \in 1..MaxLen
  OBVIOUS
<1> QED BY <1>1, NextEntry DEF Pulled

(* A pulled reader stands at a boundary again, with room for len more cells
   before the writer would come round to it. *)
LEMMA PulledClear ==
  ASSUME Ring(buf, committed, sizes), w_off \in Offsets, NEW off \in Offsets,
         NEW len \in 3..MaxLen, Run(buf, committed, sizes, off, Distance(off, w_off))
  PROVE  \E t \in 0..Distance(off, w_off) :
           /\ Boundary(buf, off, Distance(off, w_off), t)
           /\ Pulled(off, len) = logger_offset(off + t)
           /\ Distance(off, w_off) - t + len < Size
<1> DEFINE n == Distance(off, w_off)
           n2 == Distance(w_off, off)
<1>1. /\ Size \in Nat /\ MaxLen \in Nat /\ Size >= 2 * MaxLen
      /\ n \in 0..(Size - 1) /\ n2 \in 0..(Size - 1)
      /\ len \in 1..MaxLen /\ len \in 1..(Size - 1)
  BY SizeFacts, DistanceIs
<1>2. n = 0 <=> off = w_off
  BY StepAndDistance
<1>3. off # w_off => n2 = Size - n
  BY StepAndDistance
<1>4. off = w_off => n2 = 0
  BY StepAndDistance
<1>5. clock_interval(w_off, logger_offset(w_off + len), off) <=> n2 \in 1..len
  BY <1>1, ClockInterval
<1>6. sizes \in Seq(Lengths)
  BY DEF Ring
<1>7. CASE clock_interval(w_off, logger_offset(w_off + len), off)
  <2>1. n \in len..Size
    BY <1>1, <1>3, <1>4, <1>5, <1>7
  <2>2. PICK t \in len..n : /\ Boundary(buf, off, n, t)
                            /\ get_next_entry(off, len) = logger_offset(off + t)
    <3> HIDE DEF n
    <3>1. Run(buf, committed, sizes, off, n)
      BY DEF n
    <3> QED BY <1>1, <1>6, <2>1, <3>1, NextEntry
  <2>3. Pulled(off, len) = logger_offset(off + t)
    BY <1>7, <2>2 DEF Pulled
  <2>4. t \in 0..n /\ n - t + len < Size
    BY <1>1, <2>2
  <2> QED BY <2>2, <2>3, <2>4
<1>8. CASE ~clock_interval(w_off, logger_offset(w_off + len), off)
  <2>1. Pulled(off, len) = off
    BY <1>8 DEF Pulled
  <2>2. logger_offset(off + 0) = off
    <3>1. 0 \in 0..Size /\ off + 0 = off /\ off < Size
      BY <1>1 DEF Offsets
    <3> QED BY <3>1, OffsetIs
  <2>3. n - 0 + len < Size
    <3> HIDE DEF n, n2
    <3> QED BY <1>1, <1>2, <1>3, <1>4, <1>5, <1>8
  <2>4. Boundary(buf, off, n, 0)
    <3> HIDE DEF n
    <3>1. Run(buf, committed, sizes, off, n) /\ n \in 0..Size
      BY <1>1 DEF n
    <3> QED BY <3>1, RunStarts
  <2>5. 0 \in 0..n
    BY <1>1
  <2> QED BY <2>1, <2>2, <2>3, <2>4, <2>5
<1> QED BY <1>7, <1>8

(* Cells that a write of to - from + 1 cells at offset w leaves as they are,
   and those it sets, seen from another offset. *)
LEMMA WrittenLeaves ==
  ASSUME NEW off \in Offsets, NEW w \in Offsets, NEW m, NEW from \in Nat, NEW to \in Nat,
         Distance(off, w) + (to - from) < Size,
         NEW b2, b2 = Written(m, w, from, to), NEW d \in 0..(Distance(off, w) - 1)
  PROVE  At(b2, off, d) = At(buf, off, d)
<1> DEFINE n == Distance(off, w)
           o == logger_offset(off + d)
<1>1. Size \in Nat /\ n \in 0..(Size - 1) /\ d \in 0..Size /\ d \in 0..n
  BY SizeFacts, DistanceIs
<1>2. o \in Offsets /\ Distance(o, w) = n - d
  BY <1>1, OffsetIs, DistanceAfterStep
<1>3. o # w
  BY <1>1, <1>2, StepAndDistance
<1>4. Distance(w, o) = Size - (n - d)
  BY <1>2, <1>3, StepAndDistance
<1>5. ~(Distance(w, o) <= to - from)
  BY <1>1, <1>4
<1> HIDE DEF o
<1>6. b2[o] = buf[o]
  BY <1>2, <1>5 DEF Written
<1> QED BY <1>6 DEF At, o

(* ... and those it sets. *)
LEMMA WrittenSets ==
  ASSUME NEW off \in Offsets, NEW w \in Offsets, NEW m, NEW from \in Nat, NEW to \in Nat,
         Distance(off, w) + (to - from) < Size,
         NEW b2, b2 = Written(m, w, from, to), NEW k \in from..to
  PROVE  At(b2, off, Distance(off, w) + (k - from)) = [msg |-> m, pos |-> k]
<1> DEFINE n == Distance(off, w)
           j == k - from
           o == logger_offset(w + j)
<1>1. Size \in Nat /\ n \in 0..(Size - 1)
  BY SizeFacts, DistanceIs
<1>2. j \in 0..(Size - 1) /\ j \in 0..Size /\ j <= to - from /\ from + j = k /\ j \in Nat
  BY <1>1
<1>3. o \in Offsets /\ Distance(w, o) = j
  BY <1>2, OffsetIs, StepAndDistance
<1>4. logger_offset(off + n) = w
  BY StepAndDistance
<1>5. n \in Nat /\ n + j <= Size
  BY <1>1
<1>6. logger_offset(off + (n + j)) = o
  <2> HIDE DEF n, j
  <2> QED BY <1>2, <1>4, <1>5, Steps
<1> HIDE DEF o, j
<1>7. b2[o] = [msg |-> m, pos |-> k]
  BY <1>2, <1>3 DEF Written
<1> QED BY <1>6, <1>7 DEF At, j

-----------------------------------------------------------------------------
(* The types, and which writer holds the mutex. *)

LogTypes ==
  /\ w_off \in Offsets /\ head \in Offsets
  /\ buf \in [Offsets -> Cell]
  /\ mutex \in Writers \cup {NoOne}
ReaderTypes ==
  /\ readers \subseteq Readers /\ r_off \in [Readers -> Offsets]
  /\ asleep \subseteq Readers
  /\ rpc \in [Readers -> {"closed", "open", "resume", "check", "sleep", "fetch"}]
  /\ last \in [Readers -> 0..MaxWrites]
WriterTypes ==
  /\ wpc \in [Writers -> {"idle", "started", "locked", "header", "wake"}]
  /\ orig \in [Writers -> Offsets] /\ msg \in [Writers -> 0..MaxWrites]
  /\ sizes \in Seq(Lengths) /\ committed \subseteq DOMAIN sizes

(* TypeOK in three parts. *)
LEMMA TypeParts == /\ TypeOK <=> LogTypes /\ ReaderTypes /\ WriterTypes
                   /\ TypeOK' <=> LogTypes' /\ ReaderTypes' /\ WriterTypes'
BY DEF TypeOK, LogTypes, ReaderTypes, WriterTypes, Lengths

(* No more messages get a length than there are writes. *)
Started == {w \in Writers : wpc[w] = "started"}
LengthsFit == Len(sizes) + Cardinality(Started) <= MaxWrites
(* The writer between its lock and its unlock writes the last message. *)
HolderWrites ==
  \A w \in Writers :
    /\ wpc[w] \in {"locked", "header"} <=> mutex = w
    /\ mutex = w => msg[w] = Len(sizes) /\ Len(sizes) \in (DOMAIN sizes) \ committed
OpenAreListed == \A r \in Readers : rpc[r] # "closed" <=> r \in readers
Control == TypeOK /\ LengthsFit /\ HolderWrites /\ OpenAreListed

ReaderOnly(r) == \/ Release(r) \/ ReadPrepare(r) \/ ReadNonEmpty(r) \/ ReadEmpty(r) \/ ReadResume(r)
                 \/ ReadRaced(r) \/ ReadFails(r) \/ ReadEntry(r) \/ Signal(r) \/ Open(r)

(* A reader leaves the log and the writers alone. *)
LEMMA ReaderLeaves ==
  ASSUME NEW r \in Readers, ReaderOnly(r)
  PROVE  UNCHANGED <<w_off, head, buf, mutex, wpc, orig, msg, sizes, committed>>
BY DEF ReaderOnly, Release, ReadPrepare, ReadNonEmpty, ReadEmpty, ReadResume, ReadRaced, ReadFails,
       ReadEntry, Signal, Open, log, wstate

(* What a step can be. *)
LEMMA StepKinds ==
  ASSUME [Next]_vars
  PROVE  \/ \E w \in Writers : Write(w)
         \/ \E r \in Readers : ReaderOnly(r)
         \/ Flush
         \/ UNCHANGED vars
BY DEF Next, Read, ReaderOnly

(* The message a writer is at, while it holds the mutex. *)
LEMMA HolderFacts ==
  ASSUME Control, NEW w \in Writers, wpc[w] \in {"locked", "header"}
  PROVE  /\ msg[w] = Len(sizes) /\ msg[w] \in DOMAIN sizes /\ msg[w] \notin committed
         /\ sizes[msg[w]] \in 3..MaxLen /\ msg[w] \in 1..MaxWrites /\ mutex = w
<1>1. mutex = w /\ msg[w] = Len(sizes) /\ msg[w] \in DOMAIN sizes /\ msg[w] \notin committed
  BY DEF Control, HolderWrites
<1>2. sizes \in Seq(Lengths) /\ msg[w] \in 0..MaxWrites
  BY TypeParts DEF Control, WriterTypes
<1>3. msg[w] \in 1..Len(sizes)
  BY <1>1, <1>2, LenProperties
<1>4. sizes[msg[w]] \in Lengths
  BY <1>2, <1>3, ElementOfSeq
<1>5. sizes[msg[w]] \in 3..MaxLen
  BY <1>4, SizeFacts
<1>6. msg[w] \in 1..MaxWrites
  BY <1>2, <1>3, WritersAssumption
<1> QED BY <1>1, <1>5, <1>6

(* Written keeps the cells in their type. *)
LEMMA WrittenType ==
  ASSUME buf \in [Offsets -> Cell], NEW m \in 0..MaxWrites, NEW w \in Offsets,
         NEW from \in Nat, NEW to \in 0..(MaxLen - 1)
  PROVE  Written(m, w, from, to) \in [Offsets -> Cell]
<1> SUFFICES ASSUME NEW o \in Offsets
             PROVE  Written(m, w, from, to)[o] \in Cell
  BY DEF Written
<1>1. Distance(w, o) \in Nat
  BY DistanceIs, SizeFacts
<1>2. CASE Distance(w, o) <= to - from
  <2>1. from + Distance(w, o) \in 0..(MaxLen - 1)
    <3> DEFINE k == Distance(w, o)
    <3> HIDE DEF k
    <3>1. k \in Nat /\ k <= to - from /\ MaxLen \in Nat
      BY <1>1, <1>2, SizeFacts DEF k
    <3>2. from + k \in 0..(MaxLen - 1)
      BY <3>1
    <3> QED BY <3>2 DEF k
  <2>2. Written(m, w, from, to)[o] = [msg |-> m, pos |-> from + Distance(w, o)]
    BY <1>2 DEF Written
  <2> QED BY <2>1, <2>2 DEF Cell
<1>3. CASE ~(Distance(w, o) <= to - from)
  BY <1>3 DEF Written
<1> QED BY <1>2, <1>3

(* Control holds at first ... *)
LEMMA InitControl == Init => Control
<1> SUFFICES ASSUME Init PROVE Control
  OBVIOUS
<1>1. 0 \in Offsets /\ MaxLen - 1 \in 0..(MaxLen - 1) /\ 0 \in 0..MaxWrites
  BY SizeFacts, WritersAssumption DEF Offsets
<1>2. LogTypes
  BY <1>1 DEF Init, LogTypes, Blank, Cell
<1>3. ReaderTypes
  BY <1>1 DEF Init, ReaderTypes
<1>4. WriterTypes
  BY <1>1, EmptySeq DEF Init, WriterTypes
<1>5. Started = {}
  BY DEF Started, Init
<1>6. LengthsFit
  BY <1>5, FS_EmptySet, EmptySeq, WritersAssumption DEF LengthsFit, Init
<1>7. HolderWrites
  BY WritersAssumption DEF HolderWrites, Init
<1>8. OpenAreListed
  BY DEF OpenAreListed, Init
<1> QED BY <1>2, <1>3, <1>4, <1>6, <1>7, <1>8, TypeParts DEF Control

(* ... and after a reader's step: its own variables, *)
LEMMA ReaderKeepsTypes ==
  ASSUME Control, NEW r \in Readers, ReaderOnly(r)
  PROVE  ReaderTypes' /\ OpenAreListed'
<1>1. LogTypes /\ ReaderTypes /\ WriterTypes
  BY TypeParts DEF Control
<1>2. sizes \in Seq(Lengths) /\ head \in Offsets /\ 0 \in 0..MaxWrites
  BY <1>1, WritersAssumption DEF WriterTypes, LogTypes
<1>3. ReaderTypes'
  <2>1. CASE ReadEntry(r)
    <3>1. r_off[r] \in Offsets /\ buf[r_off[r]] \in Cell
      BY <1>1 DEF ReaderTypes, LogTypes
    <3>2. get_entry_len(r_off[r]) \in 0..Size
      BY <1>2, EntryLenType, SizeFacts
    <3>3. logger_offset(r_off[r] + get_entry_len(r_off[r])) \in Offsets
      BY <3>1, <3>2, OffsetIs
    <3>4. r_off' \in [Readers -> Offsets]
      BY <1>1, <2>1, <3>3 DEF ReaderTypes, ReadEntry
    <3>5. last' \in [Readers -> 0..MaxWrites]
      BY <1>1, <2>1, <3>1 DEF ReaderTypes, ReadEntry, Cell
    <3> QED BY <1>1, <2>1, <3>4, <3>5 DEF ReaderTypes, ReadEntry, ReaderGoto
  <2>2. CASE Open(r)
    BY <1>1, <1>2, <2>2 DEF ReaderTypes, Open, ReaderGoto
  <2>3. CASE Release(r) \/ ReadPrepare(r) \/ ReadNonEmpty(r) \/ ReadEmpty(r)
    BY <1>1, <2>3 DEF ReaderTypes, Release, ReadPrepare, ReadNonEmpty, ReadEmpty, ReaderGoto
  <2>4. CASE ReadResume(r) \/ ReadRaced(r) \/ ReadFails(r) \/ Signal(r)
    BY <1>1, <2>4 DEF ReaderTypes, ReadResume, ReadRaced, ReadFails, Signal, ReaderGoto
  <2> QED BY <2>1, <2>2, <2>3, <2>4 DEF ReaderOnly
<1>4. OpenAreListed'
  <2> SUFFICES ASSUME NEW q \in Readers
               PROVE  rpc'[q] # "closed" <=> q \in readers'
    BY DEF OpenAreListed
  <2>1. (rpc[q] # "closed" <=> q \in readers) /\ (rpc[r] # "closed" <=> r \in readers)
    BY DEF Control, OpenAreListed
  <2>2. rpc \in [Readers -> {"closed", "open", "resume", "check", "sleep", "fetch"}]
    BY <1>1 DEF ReaderTypes
  <2>3. CASE Open(r)
    BY <2>1, <2>2, <2>3 DEF Open, ReaderGoto
  <2>4. CASE Release(r)
    BY <2>1, <2>2, <2>4 DEF Release, ReaderGoto
  <2>5. CASE ReadPrepare(r) \/ ReadNonEmpty(r) \/ ReadEmpty(r) \/ ReadResume(r)
    BY <2>1, <2>2, <2>5 DEF ReadPrepare, ReadNonEmpty, ReadEmpty, ReadResume, ReaderGoto
  <2>6. CASE ReadRaced(r) \/ ReadFails(r) \/ ReadEntry(r) \/ Signal(r)
    BY <2>1, <2>2, <2>6 DEF ReadRaced, ReadFails, ReadEntry, Signal, ReaderGoto
  <2> QED BY <2>3, <2>4, <2>5, <2>6 DEF ReaderOnly
<1> QED BY <1>3, <1>4

(* ... after a writer's: the readers', *)
LEMMA WriterKeepsReaderTypes ==
  ASSUME Control, NEW w \in Writers, Write(w)
  PROVE  ReaderTypes' /\ OpenAreListed'
<1>1. ReaderTypes /\ OpenAreListed
  BY TypeParts DEF Control
<1>2. CASE WriteHeader(w)
  <2>1. sizes \in Seq(Lengths) /\ w_off \in Offsets /\ sizes[msg[w]] \in 3..MaxLen
    BY <1>2, TypeParts, HolderFacts DEF Control, WriterTypes, LogTypes, WriteHeader
  <2>2. \A r \in Readers : r_off[r] \in Offsets /\ Pulled(r_off[r], sizes[msg[w]]) \in Offsets
    BY <1>1, <2>1, PulledType DEF ReaderTypes
  <2>3. r_off' \in [Readers -> Offsets]
    BY <1>2, <2>2 DEF WriteHeader
  <2> QED BY <1>1, <1>2, <2>3 DEF WriteHeader, ReaderTypes, OpenAreListed
<1>3. CASE ~WriteHeader(w)
  BY <1>1, <1>3 DEF Write, WriteStart, WriteLock, WritePayload, WriteFault, WriteWake, rstate, log,
     ReaderTypes, OpenAreListed
<1> QED BY <1>2, <1>3

(* the log's, *)
LEMMA WriterKeepsLogTypes ==
  ASSUME Control, NEW w \in Writers, Write(w)
  PROVE  LogTypes'
<1>1. LogTypes /\ WriterTypes
  BY TypeParts DEF Control
<1>2. sizes \in Seq(Lengths) /\ MaxLen \in Nat /\ MaxLen >= 3 /\ Size >= 2 * MaxLen /\ Size \in Nat
  BY <1>1, SizeFacts DEF WriterTypes
<1>3. CASE WriteHeader(w)
  <2>1. sizes[msg[w]] \in 3..MaxLen /\ msg[w] \in 0..MaxWrites
    BY <1>3, HolderFacts DEF WriteHeader
  <2>2. head' \in Offsets
    BY <1>1, <1>2, <1>3, <2>1, PulledType DEF WriteHeader, LogTypes
  <2>3. HeaderLen \in 0..Size /\ 0 \in Nat /\ HeaderLen - 1 \in 0..(MaxLen - 1)
    BY <1>2 DEF HeaderLen
  <2>4. w_off' \in Offsets
    BY <1>1, <1>3, <2>3, OffsetIs DEF WriteHeader, LogTypes
  <2>5. buf' \in [Offsets -> Cell]
    BY <1>1, <1>3, <2>1, <2>3, WrittenType DEF WriteHeader, LogTypes
  <2> QED BY <1>1, <1>3, <2>2, <2>4, <2>5 DEF WriteHeader, LogTypes
<1>4. CASE WritePayload(w)
  <2> DEFINE len == sizes[msg[w]]
  <2>1. len \in 3..MaxLen /\ msg[w] \in 0..MaxWrites
    BY <1>4, HolderFacts DEF WritePayload
  <2>2. HeaderLen \in Nat /\ len - 1 \in 0..(MaxLen - 1) /\ len - HeaderLen \in 0..Size
    BY <1>2, <2>1 DEF HeaderLen
  <2>3. w_off + len - HeaderLen = w_off + (len - HeaderLen)
    BY <1>1, <1>2, <2>1 DEF HeaderLen, LogTypes, Offsets
  <2>4. w_off' = logger_offset(w_off + len - HeaderLen) /\ w_off \in Offsets
    BY <1>1, <1>4 DEF WritePayload, LogTypes
  <2>5. w_off' \in Offsets
    <3> HIDE DEF len
    <3> QED BY <2>2, <2>3, <2>4, OffsetIs
  <2>6. buf' \in [Offsets -> Cell]
    BY <1>1, <1>4, <2>1, <2>2, WrittenType DEF WritePayload, LogTypes
  <2> QED BY <1>1, <1>4, <2>5, <2>6 DEF WritePayload, LogTypes
<1>5. CASE WriteFault(w)
  <2> DEFINE len == sizes[msg[w]]
  <2>1. len \in 3..MaxLen /\ msg[w] \in 0..MaxWrites
    BY <1>5, HolderFacts DEF WriteFault
  <2>2. PICK k \in 0..(len - HeaderLen - 1) :
          buf' = IF k = 0 THEN buf ELSE Written(msg[w], w_off, HeaderLen, HeaderLen + k - 1)
    BY <1>5 DEF WriteFault
  <2>3. HeaderLen \in Nat /\ HeaderLen + k - 1 \in 0..(MaxLen - 1)
    BY <1>2, <2>1 DEF HeaderLen
  <2>4. Written(msg[w], w_off, HeaderLen, HeaderLen + k - 1) \in [Offsets -> Cell]
    BY <1>1, <2>1, <2>3, WrittenType DEF LogTypes
  <2>5. buf' \in [Offsets -> Cell]
    BY <1>1, <2>2, <2>4 DEF LogTypes
  <2> QED BY <1>1, <1>5, <2>5 DEF WriteFault, LogTypes, WriterTypes
<1>6. CASE WriteStart(w) \/ WriteLock(w) \/ WriteWake(w)
  BY <1>1, <1>6 DEF WriteStart, WriteLock, WriteWake, log, LogTypes
<1> QED BY <1>3, <1>4, <1>5, <1>6 DEF Write

(* the writers', *)
LEMMA WriterKeepsWriterTypes ==
  ASSUME Control, NEW w \in Writers, Write(w)
  PROVE  WriterTypes' /\ LengthsFit'
<1>1. LogTypes /\ WriterTypes /\ LengthsFit
  BY TypeParts DEF Control
<1>2. IsFiniteSet(Started) /\ Cardinality(Started) \in Nat /\ Len(sizes) \in Nat /\ MaxWrites \in Nat
  <2>1. Started \subseteq Writers /\ IsFiniteSet(Writers)
    BY WritersAssumption DEF Started
  <2>2. IsFiniteSet(Started)
    BY <2>1, FS_Subset
  <2> QED BY <1>1, <2>2, FS_CardinalityType, LenProperties, WritersAssumption DEF WriterTypes
<1>3. CASE WriteStart(w)
  <2>1. WriterTypes'
    BY <1>1, <1>3 DEF WriterTypes, LogTypes, WriteStart
  <2>2. w \notin Started /\ Started' = Started \cup {w}
    BY <1>1, <1>3 DEF Started, WriterTypes, WriteStart
  <2>3. Cardinality(Started') = Cardinality(Started) + 1
    BY <1>2, <2>2, FS_AddElement
  <2>4. Len(sizes) + Cardinality(Started) < MaxWrites /\ sizes' = sizes
    BY <1>3 DEF WriteStart, Started
  <2>5. LengthsFit'
    BY <1>2, <2>3, <2>4 DEF LengthsFit
  <2> QED BY <2>1, <2>5
<1>4. CASE WriteLock(w)
  <2>1. PICK n \in PayloadSizes : sizes' = Append(sizes, HeaderLen + n)
    BY <1>4 DEF WriteLock
  <2>2. HeaderLen + n \in Lengths /\ sizes \in Seq(Lengths)
    BY <1>1 DEF Lengths, WriterTypes
  <2>3. sizes' \in Seq(Lengths) /\ Len(sizes') = Len(sizes) + 1 /\ DOMAIN sizes' = 1..Len(sizes')
    BY <2>1, <2>2, AppendProperties, LenProperties
  <2>4. DOMAIN sizes \subseteq DOMAIN sizes'
    BY <1>2, <2>2, <2>3, LenProperties
  <2>5. w \in Started /\ Started' = Started \ {w}
    BY <1>1, <1>4 DEF Started, WriterTypes, WriteLock
  <2>6. Cardinality(Started') = Cardinality(Started) - 1
    BY <1>2, <2>5, FS_RemoveElement
  <2>7. Len(sizes') + Cardinality(Started') <= MaxWrites
    BY <1>1, <1>2, <2>3, <2>6 DEF LengthsFit
  <2>8. Cardinality(Started') \in Nat
    BY <1>2, <2>5, FS_RemoveElement, FS_CardinalityType
  <2>9. Len(sizes') \in 0..MaxWrites
    BY <1>2, <2>3, <2>7, <2>8
  <2>10. msg' \in [Writers -> 0..MaxWrites] /\ wpc' \in [Writers -> {"idle", "started", "locked", "header", "wake"}]
    BY <1>1, <1>4, <2>9 DEF WriterTypes, WriteLock
  <2>11. WriterTypes'
    BY <1>1, <1>4, <2>3, <2>4, <2>10 DEF WriterTypes, WriteLock
  <2> QED BY <2>7, <2>11 DEF LengthsFit
<1>5. CASE WriteHeader(w) \/ WritePayload(w) \/ WriteFault(w) \/ WriteWake(w)
  <2>1. WriterTypes'
    <3>1. CASE WritePayload(w)
      <4>1. msg[w] \in DOMAIN sizes
        BY <3>1, HolderFacts DEF WritePayload
      <4> QED BY <1>1, <3>1, <4>1 DEF WriterTypes, WritePayload
    <3>2. CASE WriteHeader(w) \/ WriteFault(w) \/ WriteWake(w)
      BY <1>1, <3>2 DEF WriterTypes, WriteHeader, WriteFault, WriteWake
    <3> QED BY <1>5, <3>1, <3>2
  <2>2. sizes' = sizes /\ wpc[w] \in {"locked", "header", "wake"} /\ wpc'[w] \in {"header", "wake", "idle"}
    BY <1>1, <1>5 DEF WriterTypes, WriteHeader, WritePayload, WriteFault, WriteWake
  <2>3. \A v \in Writers : v # w => wpc'[v] = wpc[v]
    BY <1>1, <1>5 DEF WriterTypes, WriteHeader, WritePayload, WriteFault, WriteWake
  <2>4. Started' = Started
    BY <2>2, <2>3 DEF Started
  <2> QED BY <1>1, <2>1, <2>2, <2>4 DEF LengthsFit
<1> QED BY <1>3, <1>4, <1>5 DEF Write

(* and who has the mutex. *)
LEMMA WriterKeepsHolder ==
  ASSUME Control, NEW w \in Writers, Write(w)
  PROVE  HolderWrites'
<1>1. WriterTypes /\ HolderWrites /\ NoOne \notin Writers
  BY TypeParts, WritersAssumption DEF Control
<1>2. SUFFICES ASSUME NEW v \in Writers
               PROVE  /\ wpc'[v] \in {"locked", "header"} <=> mutex' = v
                      /\ mutex' = v => /\ msg'[v] = Len(sizes')
                                       /\ Len(sizes') \in (DOMAIN sizes') \ committed'
  BY DEF HolderWrites
<1>3. /\ wpc[v] \in {"locked", "header"} <=> mutex = v
      /\ mutex = v => msg[v] = Len(sizes) /\ Len(sizes) \in (DOMAIN sizes) \ committed
      /\ wpc[w] \in {"locked", "header"} <=> mutex = w
  BY <1>1 DEF HolderWrites
<1>4. v # w => wpc'[v] = wpc[v]
  BY <1>1 DEF Write, WriteStart, WriteLock, WriteHeader, WritePayload, WriteFault, WriteWake, WriterTypes
<1>5. CASE WriteLock(w)
  <2>1. PICK n \in PayloadSizes : sizes' = Append(sizes, HeaderLen + n)
    BY <1>5 DEF WriteLock
  <2>2. HeaderLen + n \in Lengths /\ sizes \in Seq(Lengths)
    BY <1>1 DEF Lengths, WriterTypes
  <2>3. Len(sizes') = Len(sizes) + 1 /\ DOMAIN sizes' = 1..Len(sizes') /\ Len(sizes) \in Nat
    BY <2>1, <2>2, AppendProperties, LenProperties
  <2>4. committed \subseteq 1..Len(sizes) /\ committed' = committed
    BY <1>1, <1>5, LenProperties DEF WriterTypes, WriteLock
  <2>5. Len(sizes') \in (DOMAIN sizes') \ committed'
    BY <2>3, <2>4
  <2>6. msg'[w] = Len(sizes') /\ mutex' = w /\ mutex = NoOne /\ wpc'[w] = "locked"
    BY <1>1, <1>5 DEF WriterTypes, WriteLock
  <2> QED BY <1>1, <1>3, <1>4, <2>5, <2>6
<1>6. CASE WritePayload(w) \/ WriteFault(w)
  <2>1. mutex' = NoOne /\ wpc[w] = "header" /\ wpc'[w] \in {"wake", "idle"}
    BY <1>1, <1>6 DEF WriterTypes, WritePayload, WriteFault
  <2>2. v # w => wpc[v] \notin {"locked", "header"}
    BY <1>3, <2>1
  <2> QED BY <1>1, <1>4, <2>1, <2>2
<1>7. CASE WriteStart(w) \/ WriteHeader(w) \/ WriteWake(w)
  <2>1. UNCHANGED <<mutex, sizes, committed, msg>>
    BY <1>7 DEF WriteStart, WriteHeader, WriteWake, log
  <2>2. wpc[w] \in {"locked", "header"} <=> wpc'[w] \in {"locked", "header"}
    BY <1>1, <1>7 DEF WriterTypes, WriteStart, WriteHeader, WriteWake
  <2> QED BY <1>3, <1>4, <2>1, <2>2
<1> QED BY <1>5, <1>6, <1>7 DEF Write

(* Every step keeps Control. *)
LEMMA ControlStep == Control /\ [Next]_vars => Control'
<1> SUFFICES ASSUME Control, [Next]_vars PROVE Control'
  OBVIOUS
<1>1. LogTypes /\ ReaderTypes /\ WriterTypes
  BY TypeParts DEF Control
<1>2. ASSUME NEW w \in Writers, Write(w) PROVE Control'
  BY <1>2, WriterKeepsLogTypes, WriterKeepsReaderTypes, WriterKeepsWriterTypes, WriterKeepsHolder,
     TypeParts DEF Control
<1>3. ASSUME NEW r \in Readers, ReaderOnly(r) PROVE Control'
  <2>1. UNCHANGED <<w_off, head, buf, mutex, wpc, orig, msg, sizes, committed>>
    BY <1>3, ReaderLeaves
  <2>2. ReaderTypes' /\ OpenAreListed'
    BY <1>3, ReaderKeepsTypes
  <2>3. LogTypes' /\ WriterTypes'
    BY <1>1, <2>1 DEF LogTypes, WriterTypes
  <2>4. LengthsFit' /\ HolderWrites'
    BY <2>1 DEF Control, LengthsFit, Started, HolderWrites
  <2> QED BY <2>2, <2>3, <2>4, TypeParts DEF Control
<1>4. CASE Flush
  <2>1. LogTypes' /\ WriterTypes'
    BY <1>1, <1>4 DEF LogTypes, WriterTypes, Flush, wstate
  <2>2. ReaderTypes'
    BY <1>1, <1>4 DEF LogTypes, ReaderTypes, Flush
  <2>3. LengthsFit' /\ HolderWrites' /\ OpenAreListed'
    BY <1>4 DEF Control, Flush, wstate, LengthsFit, Started, HolderWrites, OpenAreListed
  <2> QED BY <2>1, <2>2, <2>3, TypeParts DEF Control
<1>5. CASE UNCHANGED vars
  <2>1. LogTypes' /\ ReaderTypes' /\ WriterTypes'
    BY <1>1, <1>5 DEF LogTypes, ReaderTypes, WriterTypes, vars, log, rstate, wstate
  <2>2. LengthsFit' /\ HolderWrites' /\ OpenAreListed'
    BY <1>5 DEF Control, vars, log, rstate, wstate, LengthsFit, Started, HolderWrites, OpenAreListed
  <2> QED BY <2>1, <2>2, TypeParts DEF Control
<1> QED BY <1>2, <1>3, <1>4, <1>5, StepKinds

(* Control holds throughout. *)
THEOREM AlwaysControl == Spec => []Control
BY InitControl, ControlStep, PTL DEF Spec

(* The variables keep their types: every offset lies in the ring, whatever
   length get_next_entry reads on its way, and every message written has a
   length (logger.c:106-108, 187-213, 222-233). *)
THEOREM TypeInvariant == Spec => []TypeOK
<1>1. Control => TypeOK
  BY DEF Control
<1> QED BY <1>1, AlwaysControl, PTL
-----------------------------------------------------------------------------
(* Where the runs of whole entries end. *)

Writing == \E w \in Writers : wpc[w] = "header"
(* Where the write under way began, or the next one will. *)
Start == IF Writing THEN logger_offset(w_off - HeaderLen) ELSE w_off
HeaderIsIn == Writing => \A k \in 0..(HeaderLen - 1) :
                           At(buf, Start, k) = [msg |-> Len(sizes), pos |-> k]

(* Where a write in progress began, and where w_off then is. *)
LEMMA StartFacts ==
  /\ Control => Start \in Offsets
  /\ Control /\ mutex = NoOne => ~Writing /\ Start = w_off
  /\ Control' /\ mutex' = NoOne => ~Writing' /\ Start' = w_off'
  /\ \A w \in Writers : Control /\ wpc[w] = "locked" => ~Writing /\ Start = w_off
  /\ \A w \in Writers : Control /\ wpc[w] = "header" =>
       Writing /\ w_off = logger_offset(Start + HeaderLen)
<1>1. ASSUME Control PROVE w_off \in Offsets /\ Start \in Offsets
  <2>1. w_off \in Offsets
    BY <1>1, TypeParts DEF Control, LogTypes
  <2>2. HeaderLen \in 0..Size
    BY SizeFacts DEF HeaderLen
  <2> QED BY <2>1, <2>2, BackIs DEF Start
<1>2. ASSUME Control, mutex = NoOne PROVE ~Writing /\ Start = w_off
  <2>1. ~Writing
    BY <1>2, WritersAssumption DEF Writing, Control, HolderWrites
  <2> QED BY <2>1 DEF Start
<1>3. ASSUME Control', mutex' = NoOne PROVE ~Writing' /\ Start' = w_off'
  <2>1. ~Writing'
    BY <1>3, WritersAssumption DEF Writing, Control, HolderWrites
  <2> QED BY <2>1 DEF Start
<1>4. ASSUME NEW w \in Writers, Control, wpc[w] = "locked" PROVE ~Writing /\ Start = w_off
  <2>1. ~Writing
    BY <1>4 DEF Writing, Control, HolderWrites
  <2> QED BY <2>1 DEF Start
<1>5. ASSUME NEW w \in Writers, Control, wpc[w] = "header"
      PROVE  Writing /\ w_off = logger_offset(Start + HeaderLen)
  <2>1. Writing
    BY <1>5 DEF Writing
  <2>2. w_off \in 0..(Size - 1) /\ Start \in 0..(Size - 1) /\ Size \in Nat /\ Size >= 6
    BY <1>1, <1>5, SizeFacts DEF Offsets
  <2>3. Start = logger_offset(w_off - 2)
    BY <2>1 DEF Start, HeaderLen
  <2>4. w_off \in Offsets /\ Start \in Offsets /\ 2 \in 0..Size
    BY <1>1, <1>5, <2>2
  <2>5. Start = IF w_off - 2 < 0 THEN w_off - 2 + Size ELSE w_off - 2
    BY <2>3, <2>4, BackIs
  <2>6. logger_offset(Start + 2) = IF Start + 2 < Size THEN Start + 2 ELSE Start + 2 - Size
    BY <2>4, OffsetIs
  <2>7. w_off = logger_offset(Start + 2)
    BY <2>2, <2>5, <2>6
  <2> QED BY <2>1, <2>7 DEF HeaderLen
<1> QED BY <1>1, <1>2, <1>3, <1>4, <1>5

(* From off there are whole entries only, newer than m, up to Start; and the
   write under way does not come round to off. *)
Newer(off, m) == \A d \in 0..(Distance(off, Start) - 1) : At(buf, off, d).msg > m
Clear(off) == Writing => Distance(off, Start) + sizes[Len(sizes)] < Size
Ahead(off, m) == /\ Run(buf, committed, sizes, off, Distance(off, Start))
                 /\ Clear(off) /\ Newer(off, m)

(* The facts about the ring that the lemmas above ask for. *)
LEMMA RingHolds == /\ Control => Ring(buf, committed, sizes)
                   /\ Control' => Ring(buf', committed', sizes')
BY TypeParts DEF Control, LogTypes, WriterTypes, Ring, Cell

(* Nothing is ahead of Start when nobody writes. *)
LEMMA NothingAhead ==
  ASSUME NEW off \in Offsets, NEW m
  PROVE  /\ ~Writing /\ Start = off => Ahead(off, m)
         /\ ~Writing' /\ Start' = off => Ahead(off, m)'
<1>1. Distance(off, off) = 0
  BY StepAndDistance
<1>2. 0..(0 - 1) = {}
  OBVIOUS
<1> QED BY <1>1, <1>2 DEF Ahead, Run, Whole, Ordered, Clear, Newer

(* A step that leaves the ring alone, but for lengths of messages not yet
   written, leaves what is ahead. *)
LEMMA SameAhead ==
  ASSUME Control, NEW off \in Offsets, NEW m, Ahead(off, m),
         UNCHANGED <<buf, committed>>, Start' = Start,
         \A e \in committed : sizes'[e] = sizes[e],
         Writing' => Writing /\ sizes' = sizes
  PROVE  Ahead(off, m)'
<1>1. Distance(off, Start) \in 0..Size
  BY StartFacts, DistanceIs, SizeFacts
<1>2. Run(buf, committed, sizes, off, Distance(off, Start)) /\ Ring(buf, committed, sizes)
  BY RingHolds DEF Ahead
<1>3. Run(buf', committed', sizes', off, Distance(off, Start'))
  <2> DEFINE n == Distance(off, Start)
  <2> HIDE DEF n
  <2>1. n \in 0..Size /\ Run(buf, committed, sizes, off, n)
    BY <1>1, <1>2 DEF n
  <2>2. Run(buf, committed, sizes', off, n)
    BY <1>2, <2>1, RunFrame
  <2> QED BY <2>2 DEF n
<1> QED BY <1>3 DEF Ahead, Clear, Newer

(* fix_up_readers and the header of a write. *)
LEMMA HeaderKeepsAhead ==
  ASSUME Control, Control', NEW w \in Writers, WriteHeader(w), NEW off \in Offsets, NEW m \in Nat,
         Ahead(off, m), NEW p, p = Pulled(off, sizes[msg[w]])
  PROVE  Start' = Start /\ Ahead(p, m)' /\ p \in Offsets /\ HeaderIsIn' /\ (off = Start => p = off)
<1> DEFINE len == sizes[msg[w]]
           n == Distance(off, Start)
<1>1. /\ len \in 3..MaxLen /\ msg[w] = Len(sizes) /\ len = sizes[Len(sizes)]
      /\ MaxLen \in Nat /\ Size \in Nat /\ Size >= 2 * MaxLen
  BY HolderFacts, SizeFacts DEF WriteHeader
<1>2. Start = w_off /\ w_off \in Offsets /\ ~Writing
  BY StartFacts, TypeParts DEF WriteHeader, Control, LogTypes
<1>3. wpc'[w] = "header" /\ sizes' = sizes /\ committed' = committed
  BY TypeParts DEF WriteHeader, Control, WriterTypes
<1>4. Start' = Start /\ Start' = w_off
  <2>1. Writing'
    BY <1>3 DEF Writing
  <2>2. w_off' = logger_offset(w_off + 2)
    BY DEF WriteHeader, HeaderLen
  <2>3. Start' = logger_offset(w_off' - 2)
    BY <2>1 DEF Start, HeaderLen
  <2>4. w_off' = (IF w_off + 2 < Size THEN w_off + 2 ELSE w_off + 2 - Size) /\ w_off' \in Offsets
    BY <1>1, <1>2, <2>2, OffsetIs
  <2>5. Start' = IF w_off' - 2 < 0 THEN w_off' - 2 + Size ELSE w_off' - 2
    BY <1>1, <2>3, <2>4, BackIs
  <2>6. w_off \in 0..(Size - 1)
    BY <1>2 DEF Offsets
  <2> QED BY <1>1, <1>2, <2>4, <2>5, <2>6
<1>5. n \in 0..(Size - 1) /\ n \in Nat
  BY <1>2, DistanceIs, SizeFacts
<1>6. PICK t \in 0..n : /\ Boundary(buf, off, n, t) /\ p = logger_offset(off + t)
                        /\ n - t + len < Size
  <2>1. Run(buf, committed, sizes, off, Distance(off, w_off)) /\ Ring(buf, committed, sizes)
    BY <1>2, RingHolds DEF Ahead
  <2> HIDE DEF len
  <2>2. p = Pulled(off, len)
    BY DEF len
  <2> QED BY <1>1, <1>2, <2>1, <2>2, PulledClear
<1>7. p \in Offsets /\ Distance(p, Start) = n - t
  <2>1. t \in 0..Size
    BY <1>1, <1>5
  <2>2. Start \in Offsets
    BY <1>2
  <2> QED BY <1>6, <2>1, <2>2, OffsetIs, DistanceAfterStep
<1>8. buf' = Written(msg[w], w_off, 0, 1)
  BY DEF WriteHeader, HeaderLen
<1>9. ASSUME NEW o \in Offsets, Distance(o, w_off) + 1 < Size
      PROVE  /\ \A d \in 0..(Distance(o, w_off) - 1) : At(buf', o, d) = At(buf, o, d)
             /\ \A k \in 0..1 : At(buf', o, Distance(o, w_off) + (k - 0)) = [msg |-> msg[w], pos |-> k]
  <2> DEFINE from == 0
             to == 1
  <2>1. from \in Nat /\ to \in Nat /\ w_off \in Offsets
    BY <1>2
  <2>2. Distance(o, w_off) + (to - from) < Size
    BY <1>9
  <2>3. buf' = Written(msg[w], w_off, from, to)
    BY <1>8
  <2> HIDE DEF from, to
  <2>4. \A d \in 0..(Distance(o, w_off) - 1) : At(buf', o, d) = At(buf, o, d)
    BY <2>1, <2>2, <2>3, WrittenLeaves
  <2>5. \A k \in from..to : At(buf', o, Distance(o, w_off) + (k - from)) = [msg |-> msg[w], pos |-> k]
    <3> SUFFICES ASSUME NEW k \in from..to
                 PROVE  At(buf', o, Distance(o, w_off) + (k - from)) = [msg |-> msg[w], pos |-> k]
      OBVIOUS
    <3> DEFINE mw == msg[w]
               b2 == buf'
    <3>1. b2 = Written(mw, w_off, from, to)
      BY <2>3
    <3> HIDE DEF mw, b2
    <3>2. At(b2, o, Distance(o, w_off) + (k - from)) = [msg |-> mw, pos |-> k]
      BY <2>1, <2>2, <3>1, WrittenSets
    <3> QED BY <3>2 DEF mw, b2
  <2> QED BY <2>4, <2>5 DEF from, to
<1>10. HeaderIsIn'
  <2>1. Distance(w_off, w_off) = 0
    BY <1>2, StepAndDistance
  <2>2. \A k \in 0..1 : 0 + (k - 0) = k
    OBVIOUS
  <2>3. \A k \in 0..1 : At(buf', w_off, k) = [msg |-> msg[w], pos |-> k]
    BY <1>1, <1>2, <1>9, <2>1, <2>2
  <2> QED BY <1>1, <1>3, <1>4, <2>3 DEF HeaderIsIn, HeaderLen
<1>11. n - t \in 0..Size /\ n - t + 1 < Size /\ t + (n - t) = n
  BY <1>1, <1>5, <1>6
<1>12. \A d \in 0..(n - t - 1) : At(buf', p, d) = At(buf, p, d)
  BY <1>2, <1>7, <1>9, <1>11
<1>13. Run(buf', committed', sizes', p, n - t)
  <2>1. Run(buf, committed, sizes, off, n) /\ Ring(buf, committed, sizes)
    BY RingHolds DEF Ahead
  <2>2. n \in 0..Size
    BY <1>1, <1>5
  <2> HIDE DEF n
  <2>3. Run(buf, committed, sizes, p, n - t)
    BY <1>6, <2>1, <2>2, RunSuffix
  <2> QED BY <1>3, <1>7, <1>11, <1>12, <2>1, <2>3, RunFrame
<1>14. \A d \in 0..(n - t - 1) : At(buf', p, d).msg > m
  <2> SUFFICES ASSUME NEW d \in 0..(n - t - 1) PROVE At(buf', p, d).msg > m
    OBVIOUS
  <2>1. t + d \in 0..(n - 1) /\ t \in Nat /\ d \in Nat /\ t + d <= Size
    <3> HIDE DEF n
    <3> QED BY <1>1, <1>5, <1>6
  <2>2. At(buf, p, d) = At(buf, off, t + d)
    BY <1>6, <2>1, AtStep
  <2>3. At(buf, off, t + d).msg > m
    BY <2>1 DEF Ahead, Newer
  <2> QED BY <1>12, <2>2, <2>3
<1>15. Ahead(p, m)'
  <2>1. Distance(p, Start') = n - t
    BY <1>4, <1>7
  <2>2. Run(buf', committed', sizes', p, Distance(p, Start'))
    BY <1>13, <2>1
  <2>3. Newer(p, m)'
    BY <1>14, <2>1 DEF Newer
  <2>4. Clear(p)'
    BY <1>1, <1>3, <1>6, <2>1 DEF Clear
  <2> QED BY <2>2, <2>3, <2>4 DEF Ahead
<1>16. off = Start => p = off
  <2> SUFFICES ASSUME off = w_off PROVE p = off
    BY <1>2
  <2>1. Distance(w_off, off) = 0
    BY StepAndDistance
  <2>2. ~clock_interval(w_off, logger_offset(w_off + len), off)
    <3>1. len \in 1..(Size - 1)
      BY <1>1
    <3> HIDE DEF len
    <3> QED BY <2>1, <3>1, ClockInterval
  <2> QED BY <2>2 DEF Pulled
<1> QED BY <1>4, <1>7, <1>10, <1>15, <1>16
(* The payload of a write: its entry is added to the runs. *)
LEMMA PayloadKeepsAhead ==
  ASSUME Control, Control', HeaderIsIn, NEW w \in Writers, WritePayload(w), NEW off \in Offsets,
         NEW m \in committed \cup {0}, Ahead(off, m)
  PROVE  Ahead(off, m)' /\ off # w_off'
<1> DEFINE len == sizes[msg[w]]
           n == Distance(off, Start)
<1>1. /\ len \in 3..MaxLen /\ msg[w] = Len(sizes) /\ len = sizes[Len(sizes)]
      /\ MaxLen \in Nat /\ Size \in Nat /\ Size >= 2 * MaxLen
      /\ msg[w] \in DOMAIN sizes /\ msg[w] \notin committed
  BY HolderFacts, SizeFacts DEF WritePayload
<1>2. Writing /\ w_off = logger_offset(Start + 2) /\ Start \in Offsets /\ w_off \in Offsets
  BY StartFacts, TypeParts DEF WritePayload, HeaderLen, Control, LogTypes
<1>3. /\ sizes' = sizes /\ committed' = committed \cup {msg[w]}
      /\ ~Writing' /\ Start' = w_off'
  BY StartFacts DEF WritePayload
<1>4. n \in 0..(Size - 1) /\ n \in Nat /\ n + len < Size
  <2>1. n \in 0..(Size - 1)
    BY <1>2, DistanceIs
  <2>2. n + len < Size
    BY <1>1, <1>2 DEF Ahead, Clear
  <2> QED BY <1>1, <2>1, <2>2
<1>5. Distance(off, w_off) = n + 2
  <2>1. 2 \in Nat /\ n + 2 < Size
    BY <1>1, <1>4
  <2> QED BY <1>2, <2>1, DistanceAfterStep
<1>6. w_off' = logger_offset(w_off + (len - 2)) /\ len - 2 \in Nat
  <2>1. w_off' = logger_offset(w_off + len - 2)
    BY DEF WritePayload, HeaderLen
  <2>2. w_off + len - 2 = w_off + (len - 2) /\ len - 2 \in Nat
    BY <1>1, <1>2 DEF Offsets
  <2> QED BY <2>1, <2>2
<1>7. Distance(off, w_off') = n + len
  <2>1. Distance(off, w_off) + (len - 2) = n + len /\ n + len < Size
    BY <1>1, <1>4, <1>5
  <2> HIDE DEF len, n
  <2> QED BY <1>2, <1>6, <2>1, DistanceAfterStep
<1>8. off # w_off'
  <2>1. Distance(off, off) = 0
    BY StepAndDistance
  <2> QED BY <1>1, <1>4, <1>7, <2>1
<1>9. buf' = Written(msg[w], w_off, 2, len - 1)
  BY DEF WritePayload, HeaderLen
<1>10. /\ \A d \in 0..(n + 2 - 1) : At(buf', off, d) = At(buf, off, d)
       /\ \A k \in 2..(len - 1) : At(buf', off, n + k) = [msg |-> msg[w], pos |-> k]
  <2> DEFINE from == 2
             to == len - 1
             mw == msg[w]
             b2 == buf'
  <2>1. from \in Nat /\ to \in Nat
    BY <1>1
  <2>2. Distance(off, w_off) + (to - from) < Size
    BY <1>1, <1>4, <1>5
  <2>3. b2 = Written(mw, w_off, from, to)
    BY <1>9
  <2>4. \A k \in 2..(len - 1) : k \in from..to /\ n + k = Distance(off, w_off) + (k - from)
    BY <1>1, <1>4, <1>5
  <2> HIDE DEF from, to, mw, b2
  <2>5. \A d \in 0..(Distance(off, w_off) - 1) : At(b2, off, d) = At(buf, off, d)
    BY <1>2, <2>1, <2>2, <2>3, WrittenLeaves
  <2>6. ASSUME NEW k \in from..to
        PROVE  At(b2, off, Distance(off, w_off) + (k - from)) = [msg |-> mw, pos |-> k]
    BY <1>2, <2>1, <2>2, <2>3, WrittenSets
  <2> HIDE DEF n, len
  <2>7. \A d \in 0..(n + 2 - 1) : At(b2, off, d) = At(buf, off, d)
    <3>1. n + 2 - 1 = Distance(off, w_off) - 1
      BY <1>4, <1>5
    <3> QED BY <2>5, <3>1
  <2>8. \A k \in 2..(len - 1) : At(b2, off, n + k) = [msg |-> mw, pos |-> k]
    BY <2>4, <2>6
  <2> QED BY <2>7, <2>8 DEF b2, mw
<1>11. \A k \in 0..1 : At(buf', off, n + k) = [msg |-> msg[w], pos |-> k]
  <2> SUFFICES ASSUME NEW k \in 0..1
               PROVE  At(buf', off, n + k) = [msg |-> msg[w], pos |-> k]
    OBVIOUS
  <2>1. k \in Nat /\ n + k <= Size /\ n + k \in 0..(n + 2 - 1) /\ logger_offset(off + n) = Start
    BY <1>1, <1>2, <1>4, StepAndDistance
  <2>2. At(buf', off, n + k) = At(buf, off, n + k)
    BY <1>10, <2>1
  <2>3. At(buf, Start, k) = At(buf, off, n + k)
    <3> HIDE DEF n
    <3> QED BY <1>4, <2>1, AtStep
  <2>4. At(buf, Start, k) = [msg |-> Len(sizes), pos |-> k]
    BY <1>2 DEF HeaderIsIn, HeaderLen
  <2> QED BY <1>1, <2>2, <2>3, <2>4
<1>12. \A k \in 0..(len - 1) : At(buf', off, n + k) = [msg |-> msg[w], pos |-> k]
  <2>1. \A k \in 0..(len - 1) : k \in 0..1 \/ k \in 2..(len - 1)
    BY <1>1
  <2> QED BY <1>10, <1>11, <2>1
<1>13. /\ \A d \in 0..(n - 1) : d \in 0..(n + 2 - 1) /\ At(buf', off, d) = At(buf, off, d)
       /\ n \in 0..Size
  <2>1. n + 2 - 1 = n + 1
    BY <1>4
  <2> HIDE DEF n
  <2> QED BY <1>1, <1>4, <1>10, <2>1
<1>14. Run(buf, committed, sizes, off, n) /\ Ring(buf, committed, sizes) /\ Ring(buf', committed', sizes)
  BY <1>3, RingHolds DEF Ahead
<1>15. Run(buf', committed', sizes, off, n)
  <2>1. committed \subseteq committed' /\ \A e \in committed : sizes[e] = sizes[e]
    BY <1>3
  <2> HIDE DEF n
  <2> QED BY <1>13, <1>14, <2>1, RunFrame
<1>16. committed \subseteq 1..(Len(sizes) - 1) /\ Len(sizes) \in Nat
  <2>1. sizes \in Seq(Lengths) /\ committed \subseteq DOMAIN sizes
    BY <1>14 DEF Ring
  <2>2. Len(sizes) \in Nat /\ DOMAIN sizes = 1..Len(sizes)
    BY <2>1, LenProperties
  <2> QED BY <1>1, <2>1, <2>2
<1>17. \A d \in 0..(n - 1) : At(buf, off, d).msg \in committed
  <2>1. Whole(buf, committed, sizes, off, n)
    BY <1>14 DEF Run
  <2> QED BY <2>1 DEF Whole, EntryIn
<1>18. \A d \in 0..(n - 1) : At(buf', off, d).msg < msg[w]
  <2>1. \A e \in committed : e < msg[w]
    BY <1>1, <1>16
  <2> HIDE DEF n
  <2> QED BY <1>13, <1>17, <2>1
<1>19. Run(buf', committed', sizes, off, n + len)
  <2> DEFINE mw == msg[w]
  <2>1. mw \in committed' /\ n + sizes[mw] <= Size /\ n \in Nat
    BY <1>1, <1>3, <1>4
  <2>2. \A k \in 0..(sizes[mw] - 1) : At(buf', off, n + k) = [msg |-> mw, pos |-> k]
    BY <1>12
  <2>3. \A d \in 0..(n - 1) : At(buf', off, d).msg < mw
    BY <1>18
  <2> HIDE DEF n, mw
  <2>4. Run(buf', committed', sizes, off, n + sizes[mw])
    BY <1>14, <1>15, <2>1, <2>2, <2>3, RunAppend
  <2> QED BY <2>4 DEF mw
<1> DEFINE l == n + len
<1>20. \A d \in 0..(l - 1) : At(buf', off, d).msg > m
  <2> SUFFICES ASSUME NEW d \in 0..(l - 1) PROVE At(buf', off, d).msg > m
    OBVIOUS
  <2>1. CASE d \in 0..(n - 1)
    BY <1>13, <2>1 DEF Ahead, Newer
  <2>2. CASE d \notin 0..(n - 1)
    <3>1. d - n \in 0..(len - 1) /\ n + (d - n) = d
      BY <1>1, <1>4, <2>2
    <3>2. At(buf', off, d).msg = msg[w]
      <4>1. At(buf', off, n + (d - n)) = [msg |-> msg[w], pos |-> d - n]
        BY <1>12, <3>1
      <4>2. At(buf', off, d) = [msg |-> msg[w], pos |-> d - n]
        BY <3>1, <4>1
      <4> QED BY <4>2
    <3>3. m < msg[w]
      BY <1>1, <1>16
    <3> QED BY <1>1, <1>16, <3>2, <3>3
  <2> QED BY <2>1, <2>2
<1>21. Ahead(off, m)'
  <2>1. Distance(off, Start') = n + len
    BY <1>3, <1>7
  <2>2. Run(buf', committed', sizes', off, Distance(off, Start'))
    BY <1>3, <1>19, <2>1
  <2>3. Newer(off, m)'
    <3>1. Distance(off, Start') = l
      BY <2>1
    <3> HIDE DEF l
    <3> QED BY <1>20, <3>1 DEF Newer
  <2>4. Clear(off)'
    BY <1>3 DEF Clear
  <2> QED BY <2>2, <2>3, <2>4 DEF Ahead
<1> QED BY <1>8, <1>21

(* A write that fails goes back to where it began. *)
LEMMA FaultKeepsAhead ==
  ASSUME Control, Control', NEW w \in Writers, WriteFault(w), orig[w] = Start, NEW off \in Offsets,
         NEW m, Ahead(off, m)
  PROVE  Ahead(off, m)' /\ Start' = Start
<1> DEFINE len == sizes[msg[w]]
           n == Distance(off, Start)
<1>1. /\ len \in 3..MaxLen /\ len = sizes[Len(sizes)]
      /\ MaxLen \in Nat /\ Size \in Nat /\ Size >= 2 * MaxLen
  BY HolderFacts, SizeFacts DEF WriteFault
<1>2. Writing /\ w_off = logger_offset(Start + 2) /\ Start \in Offsets /\ w_off \in Offsets
  BY StartFacts, TypeParts DEF WriteFault, HeaderLen, Control, LogTypes
<1>3. sizes' = sizes /\ committed' = committed /\ ~Writing' /\ Start' = Start
  BY StartFacts DEF WriteFault
<1>4. n \in 0..(Size - 1) /\ n \in Nat /\ n + len < Size
  <2>1. n \in 0..(Size - 1)
    BY <1>2, DistanceIs
  <2>2. n + len < Size
    BY <1>1, <1>2 DEF Ahead, Clear
  <2> QED BY <1>1, <2>1, <2>2
<1>5. Distance(off, w_off) = n + 2
  <2>1. 2 \in Nat /\ n + 2 < Size
    BY <1>1, <1>4
  <2> QED BY <1>2, <2>1, DistanceAfterStep
<1>6. PICK k \in 0..(len - 3) : buf' = IF k = 0 THEN buf ELSE Written(msg[w], w_off, 2, 2 + k - 1)
  <2>1. len - HeaderLen - 1 = len - 3
    BY <1>1 DEF HeaderLen
  <2> QED BY <2>1 DEF WriteFault, HeaderLen
<1>7. \A d \in 0..(n - 1) : At(buf', off, d) = At(buf, off, d)
  <2>1. CASE k = 0
    BY <1>6, <2>1
  <2>2. CASE k # 0
    <3> DEFINE from == 2
               to == 2 + k - 1
               b2 == buf'
               mw == msg[w]
    <3>1. from \in Nat /\ to \in Nat
      BY <1>1
    <3>2. Distance(off, w_off) + (to - from) < Size
      <4>1. k \in 0..(len - 3) /\ to - from = k - 1
        BY <1>1
      <4> HIDE DEF from, to, n, len
      <4> QED BY <1>1, <1>4, <1>5, <4>1, SizeFacts
    <3>3. b2 = Written(mw, w_off, from, to)
      BY <1>6, <2>2
    <3>4. \A d \in 0..(n - 1) : d \in 0..(Distance(off, w_off) - 1)
      BY <1>4, <1>5
    <3> HIDE DEF from, to, b2, mw
    <3>5. \A d \in 0..(Distance(off, w_off) - 1) : At(b2, off, d) = At(buf, off, d)
      BY <1>2, <3>1, <3>2, <3>3, WrittenLeaves
    <3> QED BY <3>4, <3>5 DEF b2
  <2> QED BY <2>1, <2>2
<1>8. Run(buf', committed', sizes', off, n)
  <2>1. Run(buf, committed, sizes, off, n) /\ Ring(buf, committed, sizes)
    BY RingHolds DEF Ahead
  <2>2. n \in 0..Size /\ committed \subseteq committed' /\ \A e \in committed : sizes'[e] = sizes[e]
    BY <1>1, <1>3, <1>4
  <2> HIDE DEF n
  <2> QED BY <1>7, <2>1, <2>2, RunFrame
<1>9. Ahead(off, m)'
  <2>1. Run(buf', committed', sizes', off, Distance(off, Start'))
    BY <1>3, <1>8
  <2>2. Newer(off, m)'
    BY <1>3, <1>7 DEF Ahead, Newer
  <2>3. Clear(off)'
    BY <1>3 DEF Clear
  <2> QED BY <2>1, <2>2, <2>3 DEF Ahead
<1> QED BY <1>3, <1>9
(* What is behind an entry is newer than the entry. *)
LEMMA NewerBehind ==
  ASSUME NEW b, NEW c, NEW z, Ring(b, c, z), NEW off \in Offsets, NEW n \in 0..Size,
         Run(b, c, z, off, n), NEW m \in c, z[m] \in 3..n,
         \A k \in 0..(z[m] - 1) : At(b, off, k) = [msg |-> m, pos |-> k],
         NEW d \in z[m]..(n - 1)
  PROVE  At(b, off, d).msg > m
<1>1. Size \in Nat /\ n \in Nat /\ z[m] \in Nat /\ d \in Nat /\ d \in 0..(n - 1) /\ d \in 0..Size
  BY SizeFacts
<1>2. z[m] - 1 \in 0..(z[m] - 1) /\ z[m] - 1 \in 0..(n - 1) /\ z[m] - 1 < d
  BY <1>1
<1>3. At(b, off, z[m] - 1) = [msg |-> m, pos |-> z[m] - 1]
  BY <1>2
<1>4. At(b, off, z[m] - 1).msg = m /\ At(b, off, z[m] - 1).pos = z[m] - 1
  BY <1>3
<1>5. \/ m < At(b, off, d).msg
      \/ m = At(b, off, d).msg /\ z[m] - 1 < At(b, off, d).pos
  BY <1>1, <1>2, <1>4 DEF Run, Ordered
<1>6. Whole(b, c, z, off, n)
  BY DEF Run
<1>7. d < (d - At(b, off, d).pos) + z[At(b, off, d).msg]
  BY <1>1, <1>6 DEF Whole, EntryIn
<1>8. At(b, off, d).msg \in Nat /\ At(b, off, d).pos \in Nat /\ m \in Nat
  <2>1. At(b, off, d).msg \in Nat /\ At(b, off, d).pos \in Nat
    BY <1>1, CellAt
  <2>2. z \in Seq(Lengths) /\ m \in DOMAIN z
    BY DEF Ring
  <2>3. m \in 1..Len(z) /\ Len(z) \in Nat
    BY <2>2, LenProperties
  <2> QED BY <2>1, <2>3
<1>9. ~(m = At(b, off, d).msg /\ z[m] - 1 < At(b, off, d).pos)
  <2> SUFFICES ASSUME m = At(b, off, d).msg, z[m] - 1 < At(b, off, d).pos PROVE FALSE
    OBVIOUS
  <2> DEFINE pos == At(b, off, d).pos
  <2>1. d < (d - pos) + z[m] /\ z[m] - 1 < pos /\ pos \in Nat
    BY <1>7, <1>8
  <2> HIDE DEF pos
  <2> QED BY <1>1, <2>1
<1> QED BY <1>5, <1>8, <1>9

(* The entry a reader with something to read stands at, and what is left. *)
LEMMA EntryIsNext ==
  ASSUME Control, mutex = NoOne, NEW off \in Offsets, NEW m, Ahead(off, m), w_off # off
  PROVE  /\ buf[off].msg \in committed /\ buf[off].msg > m
         /\ logger_offset(off + get_entry_len(off)) \in Offsets
         /\ Ahead(logger_offset(off + get_entry_len(off)), buf[off].msg)
<1> DEFINE n == Distance(off, Start)
<1>1. ~Writing /\ Start = w_off /\ Start \in Offsets
  BY StartFacts
<1>2. n \in 0..(Size - 1) /\ n # 0 /\ Size \in Nat /\ MaxLen \in Nat
  BY <1>1, DistanceIs, StepAndDistance, SizeFacts
<1>3. Run(buf, committed, sizes, off, n) /\ Ring(buf, committed, sizes)
  BY RingHolds DEF Ahead
<1>4. off + 0 = off /\ logger_offset(off + 0) = off /\ At(buf, off, 0) = buf[off]
  <2>1. off \in 0..(Size - 1) /\ 0 \in 0..Size
    BY <1>2 DEF Offsets
  <2>2. logger_offset(off + 0) = IF off + 0 < Size THEN off + 0 ELSE off + 0 - Size
    BY <2>1, OffsetIs
  <2>3. logger_offset(off + 0) = off
    BY <1>2, <2>1, <2>2
  <2> QED BY <2>1, <2>3 DEF At
<1>5. 0 \in 0..(n - 1) /\ n \in 0..Size /\ n \in Nat
  BY <1>2
<1>6. At(buf, off, 0).msg > m
  BY <1>5 DEF Ahead, Newer
<1> HIDE DEF n
<1>7. At(buf, off, 0).pos = 0
  BY <1>2, <1>3, <1>5, RunStarts DEF Boundary
<1> DEFINE t == 0
<1>8. t \in 0..(n - 1) /\ At(buf, off, t).pos = 0 /\ t + 0 = t /\ t \in Nat
  BY <1>5, <1>7
<1> HIDE DEF t
<1>9. PICK e \in committed :
        /\ get_entry_len(logger_offset(off + t)) = sizes[e]
        /\ sizes[e] \in 3..MaxLen /\ t + sizes[e] <= n
        /\ At(buf, off, t).msg = e
        /\ \A k \in 0..(sizes[e] - 1) : At(buf, off, t + k) = [msg |-> e, pos |-> k]
        /\ Boundary(buf, off, n, t + sizes[e])
  BY <1>3, <1>5, <1>8, EntryLenIs
<1> DEFINE l == sizes[e]
           p == logger_offset(off + l)
<1>10. l \in Nat /\ l \in 3..n /\ l \in 0..n /\ l \in 0..Size /\ t + l = l
  BY <1>2, <1>5, <1>8, <1>9 DEF t
<1>11. get_entry_len(off) = l /\ buf[off].msg = e /\ Boundary(buf, off, n, l)
  BY <1>4, <1>9, <1>10 DEF t
<1>12. \A k \in 0..(l - 1) : At(buf, off, k) = [msg |-> e, pos |-> k]
  <2> SUFFICES ASSUME NEW k \in 0..(l - 1)
               PROVE  At(buf, off, k) = [msg |-> e, pos |-> k]
    OBVIOUS
  <2>1. t + k = k
    BY DEF t
  <2>2. At(buf, off, t + k) = [msg |-> e, pos |-> k]
    BY <1>9
  <2> QED BY <2>1, <2>2
<1>13. \A d \in l..(n - 1) : At(buf, off, d).msg > e
  BY <1>3, <1>5, <1>10, <1>12, NewerBehind
<1> HIDE DEF l
<1>14. p \in Offsets /\ Distance(p, Start) = n - l
  <2>1. l \in 0..Distance(off, Start)
    BY <1>10 DEF n
  <2>2. Distance(p, Start) = Distance(off, Start) - l
    BY <1>1, <2>1, DistanceAfterStep
  <2> QED BY <1>10, <2>2, OffsetIs DEF n
<1>15. Run(buf, committed, sizes, p, n - l)
  BY <1>3, <1>5, <1>10, <1>11, RunSuffix
<1>16. \A d \in 0..(n - l - 1) : At(buf, p, d).msg > e
  <2> SUFFICES ASSUME NEW d \in 0..(n - l - 1) PROVE At(buf, p, d).msg > e
    OBVIOUS
  <2>1. d \in Nat /\ l + d \in l..(n - 1) /\ l + d <= Size
    BY <1>2, <1>5, <1>10
  <2>2. At(buf, p, d) = At(buf, off, l + d)
    BY <1>10, <2>1, AtStep
  <2> QED BY <1>13, <2>1, <2>2
<1> HIDE DEF p
<1>17. Ahead(p, e)
  BY <1>1, <1>14, <1>15, <1>16 DEF Ahead, Newer, Clear
<1> QED BY <1>4, <1>6, <1>9, <1>11, <1>14, <1>17 DEF p
-----------------------------------------------------------------------------
(* The invariant, of writers of which at most one runs where a copy may fail:
   two of them can leave a stale orig (see ReadersSeeEntries under LoggerStale). *)
OneIfFaults == Faults => \A v, w \in Writers : v = w

(* The head, and each reader, stand at what they have not read. *)
Placed == /\ Ahead(head, 0)
          /\ \A r \in readers : last[r] \in committed \cup {0} /\ Ahead(r_off[r], last[r])
OrigIsStart == \A w \in Writers :
                 Faults /\ wpc[w] \in {"started", "locked", "header"} => orig[w] = Start
SleepersWait == \A r \in Readers :
                  rpc[r] = "sleep" /\ r \in asleep =>
                    r_off[r] = Start \/ \E w \in Writers : wpc[w] = "wake"
Inv == Control /\ HeaderIsIn /\ Placed /\ OrigIsStart /\ SleepersWait

(* What the sizes and offsets of a state are numbers of. *)
LEMMA Numbers == Control => /\ committed \cup {0} \subseteq Nat
                            /\ \A r \in Readers : r_off[r] \in Offsets
                            /\ head \in Offsets /\ w_off \in Offsets /\ readers \subseteq Readers
<1> SUFFICES ASSUME Control
             PROVE  /\ committed \cup {0} \subseteq Nat
                    /\ \A r \in Readers : r_off[r] \in Offsets
                    /\ head \in Offsets /\ w_off \in Offsets /\ readers \subseteq Readers
  OBVIOUS
<1>1. LogTypes /\ ReaderTypes /\ WriterTypes
  BY TypeParts DEF Control
<1>2. committed \subseteq 1..Len(sizes)
  BY <1>1, LenProperties DEF WriterTypes
<1> QED BY <1>1, <1>2 DEF LogTypes, ReaderTypes

(* Inv holds at first. *)
LEMMA InitInv == Init => Inv
<1> SUFFICES ASSUME Init PROVE Inv
  OBVIOUS
<1>1. Control
  BY InitControl
<1>2. ~Writing /\ Start = w_off
  BY DEF Init, Writing, Start
<1>3. Ahead(head, 0)
  BY <1>1, <1>2, Numbers, NothingAhead DEF Init
<1>4. HeaderIsIn
  BY <1>2 DEF HeaderIsIn
<1> QED BY <1>1, <1>3, <1>4 DEF Inv, Placed, OrigIsStart, SleepersWait, Init

(* A step of a reader moves no entry. *)
LEMMA ReaderKeepsInv ==
  ASSUME Inv, Control', NEW r \in Readers, ReaderOnly(r)
  PROVE  Inv'
<1>1. Control /\ UNCHANGED <<w_off, head, buf, mutex, wpc, orig, msg, sizes, committed>>
  BY ReaderLeaves DEF Inv
<1>2. Start' = Start /\ Writing' = Writing
  BY <1>1 DEF Start, Writing
<1>3. HeaderIsIn' /\ OrigIsStart'
  BY <1>1, <1>2 DEF Inv, HeaderIsIn, OrigIsStart
<1>4. ASSUME NEW off \in Offsets, NEW m, Ahead(off, m) PROVE Ahead(off, m)'
  BY <1>1, <1>2, <1>4, SameAhead
<1>5. ReaderTypes /\ \A q \in readers : q \in Readers /\ r_off[q] \in Offsets
  BY <1>1, TypeParts, Numbers DEF Control
<1>6. Placed'
  <2>1. Ahead(head, 0)'
    BY <1>1, <1>4, Numbers DEF Inv, Placed
  <2>2. ASSUME NEW q \in readers, UNCHANGED <<r_off[q], last[q]>>
        PROVE  last'[q] \in committed' \cup {0} /\ Ahead(r_off[q], last[q])'
    <3>1. last[q] \in committed \cup {0} /\ Ahead(r_off[q], last[q]) /\ r_off[q] \in Offsets
      BY <1>5 DEF Inv, Placed
    <3>2. Ahead(r_off[q], last[q])'
      BY <1>4, <2>2, <3>1 DEF Ahead, Clear, Newer
    <3> QED BY <1>1, <2>2, <3>1, <3>2
  <2>3. CASE ReadEntry(r)
    <3> DEFINE off == r_off[r]
               m   == buf[off].msg
               p   == logger_offset(off + get_entry_len(off))
    <3>1. mutex = NoOne /\ w_off # off /\ rpc[r] = "fetch" /\ readers' = readers
      BY <2>3 DEF ReadEntry
    <3>2. r \in readers
      BY <1>1, <3>1 DEF Control, OpenAreListed
    <3>3. off \in Offsets /\ Ahead(off, last[r])
      BY <1>5, <3>2 DEF Inv, Placed
    <3>4. m \in committed /\ p \in Offsets /\ Ahead(p, m)
      <4> HIDE DEF off
      <4> QED BY <1>1, <3>1, <3>3, EntryIsNext
    <3>5. r_off'[r] = p /\ last'[r] = m
      BY <1>5, <2>3 DEF ReadEntry, ReaderTypes
    <3>6. \A q \in readers : q # r => UNCHANGED <<r_off[q], last[q]>>
      BY <1>5, <2>3 DEF ReadEntry, ReaderTypes
    <3> HIDE DEF p, m
    <3>7. last'[r] \in committed' \cup {0} /\ Ahead(r_off[r], last[r])'
      BY <1>1, <1>4, <3>4, <3>5 DEF Ahead, Clear, Newer
    <3> QED BY <2>1, <2>2, <3>1, <3>6, <3>7 DEF Placed
  <2>4. CASE Open(r)
    <3>1. r_off'[r] = head /\ last'[r] = 0 /\ readers' = readers \cup {r}
      BY <1>5, <2>4 DEF Open, ReaderTypes
    <3>2. \A q \in readers : q # r => UNCHANGED <<r_off[q], last[q]>>
      BY <1>5, <2>4 DEF Open, ReaderTypes
    <3>3. Ahead(r_off[r], last[r])' /\ last'[r] \in committed' \cup {0}
      BY <1>1, <2>1, <3>1 DEF Ahead, Clear, Newer
    <3> QED BY <2>1, <2>2, <3>1, <3>2, <3>3 DEF Placed
  <2>5. CASE ~ReadEntry(r) /\ ~Open(r)
    <3>1. readers' \subseteq readers /\ UNCHANGED <<r_off, last>>
      BY <2>5 DEF ReaderOnly, Release, ReadPrepare, ReadNonEmpty, ReadEmpty, ReadResume,
         ReadRaced, ReadFails, Signal
    <3> QED BY <2>1, <2>2, <3>1 DEF Placed
  <2> QED BY <2>3, <2>4, <2>5
<1>7. SleepersWait'
  <2> SUFFICES ASSUME NEW q \in Readers, rpc'[q] = "sleep", q \in asleep'
               PROVE  r_off'[q] = Start' \/ \E w \in Writers : wpc'[w] = "wake"
    BY DEF SleepersWait
  <2>1. CASE ReadEmpty(r) /\ q = r
    <3>1. mutex = NoOne /\ w_off = r_off[r] /\ r_off' = r_off
      BY <2>1 DEF ReadEmpty
    <3> QED BY <1>1, <1>2, <2>1, <3>1, StartFacts
  <2>2. CASE ~(ReadEmpty(r) /\ q = r)
    <3>1. rpc[q] = "sleep" /\ q \in asleep /\ r_off'[q] = r_off[q]
      <4>1. CASE q = r
        BY <1>5, <2>2, <4>1 DEF ReaderOnly, Release, ReadPrepare, ReadNonEmpty, ReadResume,
           ReadRaced, ReadFails, ReadEntry, Signal, Open, ReaderGoto, ReaderTypes
      <4>2. CASE q # r
        BY <1>5, <4>2 DEF ReaderOnly, Release, ReadPrepare, ReadNonEmpty, ReadEmpty, ReadResume,
           ReadRaced, ReadFails, ReadEntry, Signal, Open, ReaderGoto, ReaderTypes
      <4> QED BY <4>1, <4>2
    <3> QED BY <1>1, <1>2, <3>1 DEF Inv, SleepersWait
  <2> QED BY <2>1, <2>2
<1> QED BY <1>3, <1>6, <1>7 DEF Inv
(* The steps of a write that leave the ring as it is. *)
LEMMA QuietWriteKeepsInv ==
  ASSUME Inv, OneIfFaults, Control', NEW w \in Writers,
         WriteStart(w) \/ WriteLock(w) \/ WriteWake(w)
  PROVE  Inv'
<1>1. Control /\ UNCHANGED <<w_off, head, buf, readers, r_off, rpc, last, committed>>
  BY DEF Inv, WriteStart, WriteLock, WriteWake, log, rstate
<1>2. wpc \in [Writers -> {"idle", "started", "locked", "header", "wake"}] /\ sizes \in Seq(Lengths)
      /\ orig \in [Writers -> Offsets]
  BY <1>1, TypeParts DEF Control, WriterTypes
<1>3. \A v \in Writers : wpc'[v] = "header" <=> wpc[v] = "header"
  BY <1>2 DEF WriteStart, WriteLock, WriteWake
<1>4. Start' = Start /\ (Writing' <=> Writing)
  BY <1>1, <1>3 DEF Start, Writing
<1>5. /\ \A e \in committed : sizes'[e] = sizes[e]
      /\ Writing' => sizes' = sizes
  <2>1. CASE WriteLock(w)
    <3>1. PICK n \in PayloadSizes : sizes' = Append(sizes, HeaderLen + n)
      BY <2>1 DEF WriteLock
    <3>2. \A e \in 1..Len(sizes) : sizes'[e] = sizes[e]
      <4>1. HeaderLen + n \in Lengths
        BY DEF Lengths
      <4> QED BY <1>2, <3>1, <4>1, AppendProperties
    <3>3. committed \subseteq 1..Len(sizes)
      BY <1>1, <1>2, TypeParts, LenProperties DEF Control, WriterTypes
    <3>4. ~Writing'
      BY <1>1, <1>4, <2>1, StartFacts DEF WriteLock
    <3> QED BY <3>2, <3>3, <3>4
  <2>2. CASE WriteStart(w) \/ WriteWake(w)
    BY <2>2 DEF WriteStart, WriteWake
  <2> QED BY <2>1, <2>2
<1>6. ASSUME NEW off \in Offsets, NEW m, Ahead(off, m) PROVE Ahead(off, m)'
  BY <1>1, <1>4, <1>5, <1>6, SameAhead
<1>7. Placed'
  BY <1>1, <1>6, Numbers DEF Inv, Placed, Ahead, Clear, Newer
<1>8. HeaderIsIn'
  BY <1>1, <1>4, <1>5 DEF Inv, HeaderIsIn
<1>9. OrigIsStart'
  <2> SUFFICES ASSUME NEW v \in Writers, Faults, wpc'[v] \in {"started", "locked", "header"}
               PROVE  orig'[v] = Start'
    BY DEF OrigIsStart
  <2>1. v = w
    BY DEF OneIfFaults
  <2>2. CASE WriteStart(w)
    <3>1. ~Writing
      BY <2>1, <2>2 DEF Writing, WriteStart, OneIfFaults
    <3> QED BY <1>2, <1>4, <2>1, <2>2, <3>1 DEF Start, WriteStart
  <2>3. CASE WriteLock(w)
    BY <1>4, <2>1, <2>3 DEF Inv, OrigIsStart, WriteLock
  <2>4. CASE WriteWake(w)
    BY <1>2, <2>1, <2>4 DEF WriteWake
  <2> QED BY <2>2, <2>3, <2>4
<1>10. SleepersWait'
  <2>1. CASE WriteWake(w)
    BY <2>1 DEF WriteWake, SleepersWait
  <2>2. CASE WriteStart(w) \/ WriteLock(w)
    <3>1. asleep' = asleep /\ wpc[w] # "wake"
      BY <2>2 DEF WriteStart, WriteLock, rstate
    <3>2. \A v \in Writers : v # w => wpc'[v] = wpc[v]
      BY <1>2, <2>2 DEF WriteStart, WriteLock
    <3>3. (\E v \in Writers : wpc[v] = "wake") => \E v \in Writers : wpc'[v] = "wake"
      BY <3>1, <3>2
    <3> QED BY <1>1, <1>4, <3>1, <3>3 DEF Inv, SleepersWait
  <2> QED BY <2>1, <2>2
<1> QED BY <1>7, <1>8, <1>9, <1>10 DEF Inv

(* fix_up_readers makes room for the entry before its header is written. *)
LEMMA HeaderKeepsInv ==
  ASSUME Inv, Control', NEW w \in Writers, WriteHeader(w)
  PROVE  Inv'
<1>1. Control /\ UNCHANGED <<readers, asleep, rpc, last, orig, msg, sizes, committed>>
  BY DEF Inv, WriteHeader
<1>2. wpc \in [Writers -> {"idle", "started", "locked", "header", "wake"}]
  BY <1>1, TypeParts DEF Control, WriterTypes
<1>3. ASSUME NEW off \in Offsets, NEW m \in Nat, Ahead(off, m)
      PROVE  /\ Start' = Start /\ HeaderIsIn' /\ Pulled(off, sizes[msg[w]]) \in Offsets
             /\ off = Start => Pulled(off, sizes[msg[w]]) = off
  BY <1>1, <1>3, HeaderKeepsAhead
<1>4. ASSUME NEW off \in Offsets, NEW m \in Nat, Ahead(off, m), NEW p, p = Pulled(off, sizes[msg[w]])
      PROVE  Ahead(p, m)'
  BY <1>1, <1>4, HeaderKeepsAhead
<1>5. head \in Offsets /\ 0 \in Nat /\ Ahead(head, 0)
  BY <1>1, Numbers DEF Inv, Placed
<1>6. Start' = Start /\ HeaderIsIn'
  BY <1>3, <1>5
<1>7. /\ \A r \in readers : r_off'[r] = Pulled(r_off[r], sizes[msg[w]])
      /\ head' = Pulled(head, sizes[msg[w]])
      /\ \A v \in Writers : v # w => wpc'[v] = wpc[v]
      /\ wpc[w] = "locked"
  BY <1>1, <1>2, Numbers DEF WriteHeader
<1>8. Placed'
  <2>1. Ahead(head, 0)'
    BY <1>4, <1>5, <1>7 DEF Ahead, Clear, Newer
  <2>2. ASSUME NEW r \in readers
        PROVE  last'[r] \in committed' \cup {0} /\ Ahead(r_off[r], last[r])'
    <3>1. r_off[r] \in Offsets /\ last[r] \in committed \cup {0} /\ last[r] \in Nat
          /\ Ahead(r_off[r], last[r])
      BY <1>1, Numbers DEF Inv, Placed
    <3>2. r_off'[r] = Pulled(r_off[r], sizes[msg[w]]) /\ last'[r] = last[r]
      BY <1>1, <1>7
    <3>3. Ahead(r_off[r], last[r])'
      BY <1>4, <3>1, <3>2 DEF Ahead, Clear, Newer
    <3> QED BY <1>1, <3>1, <3>3
  <2> QED BY <1>1, <2>1, <2>2 DEF Placed
<1>9. OrigIsStart'
  <2> SUFFICES ASSUME NEW v \in Writers, Faults, wpc'[v] \in {"started", "locked", "header"}
               PROVE  orig'[v] = Start'
    BY DEF OrigIsStart
  <2>1. wpc[v] \in {"started", "locked", "header"}
    BY <1>7
  <2> QED BY <1>1, <1>6, <2>1 DEF Inv, OrigIsStart
<1>10. SleepersWait'
  <2> SUFFICES ASSUME NEW r \in Readers, rpc'[r] = "sleep", r \in asleep'
               PROVE  r_off'[r] = Start' \/ \E v \in Writers : wpc'[v] = "wake"
    BY DEF SleepersWait
  <2>1. r \in readers
    BY <1>1 DEF Control, OpenAreListed
  <2>2. r_off[r] = Start \/ \E v \in Writers : wpc[v] = "wake"
    BY <1>1 DEF Inv, SleepersWait
  <2>3. CASE r_off[r] = Start
    <3>1. r_off[r] \in Offsets /\ last[r] \in Nat /\ Ahead(r_off[r], last[r])
      BY <1>1, <2>1, Numbers DEF Inv, Placed
    <3>2. r_off'[r] = r_off[r]
      BY <1>3, <1>7, <2>1, <2>3, <3>1
    <3> QED BY <1>6, <2>3, <3>2
  <2>4. CASE \E v \in Writers : wpc[v] = "wake"
    BY <1>7, <2>4
  <2> QED BY <2>2, <2>3, <2>4
<1> QED BY <1>6, <1>8, <1>9, <1>10 DEF Inv

(* A written entry is the newest. *)
LEMMA PayloadKeepsInv ==
  ASSUME Inv, OneIfFaults, Control', NEW w \in Writers, WritePayload(w)
  PROVE  /\ Inv'
         /\ \A off \in {head'} \cup {r_off'[r] : r \in readers'} : off # w_off'
<1>1. Control /\ HeaderIsIn /\ UNCHANGED <<head, readers, r_off, asleep, rpc, last, orig>>
  BY DEF Inv, WritePayload, rstate
<1>2. wpc'[w] = "wake" /\ committed' = committed \cup {msg[w]} /\ mutex' = NoOne
  BY <1>1, TypeParts DEF Control, WriterTypes, WritePayload
<1>3. ASSUME NEW off \in Offsets, NEW m \in committed \cup {0}, Ahead(off, m)
      PROVE  Ahead(off, m)' /\ off # w_off'
  BY <1>1, <1>3, PayloadKeepsAhead
<1>4. head \in Offsets /\ 0 \in committed \cup {0} /\ Ahead(head, 0)
  BY <1>1, Numbers DEF Inv, Placed
<1>5. ASSUME NEW r \in readers
      PROVE  r_off[r] \in Offsets /\ last[r] \in committed \cup {0} /\ Ahead(r_off[r], last[r])
  BY <1>1, Numbers DEF Inv, Placed
<1>6. Placed'
  <2>1. Ahead(head, 0)'
    BY <1>1, <1>3, <1>4 DEF Ahead, Clear, Newer
  <2>2. ASSUME NEW r \in readers PROVE Ahead(r_off[r], last[r])'
    BY <1>1, <1>3, <1>5 DEF Ahead, Clear, Newer
  <2>3. ASSUME NEW r \in readers PROVE last'[r] \in committed' \cup {0}
    BY <1>1, <1>2, <1>5
  <2> QED BY <1>1, <2>1, <2>2, <2>3 DEF Placed
<1>7. ~Writing'
  BY <1>2, StartFacts
<1>8. HeaderIsIn'
  BY <1>7 DEF HeaderIsIn
<1>9. OrigIsStart'
  BY <1>2 DEF OrigIsStart, OneIfFaults
<1>10. SleepersWait'
  BY <1>2 DEF SleepersWait
<1>11. \A off \in {head'} \cup {r_off'[r] : r \in readers'} : off # w_off'
  BY <1>1, <1>3, <1>4, <1>5
<1> QED BY <1>6, <1>8, <1>9, <1>10, <1>11 DEF Inv

(* A failed copy takes w_off back to where the write began. *)
LEMMA FaultKeepsInv ==
  ASSUME Inv, OneIfFaults, Control', NEW w \in Writers, WriteFault(w)
  PROVE  Inv'
<1>1. Control /\ UNCHANGED <<head, readers, r_off, asleep, rpc, last, orig, committed>>
  BY DEF Inv, WriteFault, rstate
<1>2. /\ wpc'[w] = "idle" /\ wpc[w] = "header" /\ mutex' = NoOne /\ Faults
      /\ \A v \in Writers : v # w => wpc'[v] = wpc[v]
  BY <1>1, TypeParts DEF Control, WriterTypes, WriteFault
<1>3. orig[w] = Start
  BY <1>2 DEF Inv, OrigIsStart
<1>4. ASSUME NEW off \in Offsets, NEW m, Ahead(off, m)
      PROVE  Ahead(off, m)' /\ Start' = Start
  BY <1>1, <1>3, <1>4, FaultKeepsAhead
<1>5. head \in Offsets /\ Ahead(head, 0)
  BY <1>1, Numbers DEF Inv, Placed
<1>6. Start' = Start /\ ~Writing'
  BY <1>2, <1>4, <1>5, StartFacts
<1>7. Placed'
  <2>1. Ahead(head, 0)'
    BY <1>1, <1>4, <1>5 DEF Ahead, Clear, Newer
  <2>2. ASSUME NEW r \in readers
        PROVE  last'[r] \in committed' \cup {0} /\ Ahead(r_off[r], last[r])'
    <3>1. r_off[r] \in Offsets /\ last[r] \in committed \cup {0} /\ Ahead(r_off[r], last[r])
      BY <1>1, Numbers DEF Inv, Placed
    <3> QED BY <1>1, <1>4, <3>1 DEF Ahead, Clear, Newer
  <2> QED BY <1>1, <2>1, <2>2 DEF Placed
<1>8. HeaderIsIn'
  BY <1>6 DEF HeaderIsIn
<1>9. OrigIsStart'
  BY <1>2 DEF OrigIsStart, OneIfFaults
<1>10. SleepersWait'
  <2>1. (\E v \in Writers : wpc[v] = "wake") => \E v \in Writers : wpc'[v] = "wake"
    BY <1>2
  <2> QED BY <1>1, <1>6, <2>1 DEF Inv, SleepersWait
<1> QED BY <1>7, <1>8, <1>9, <1>10 DEF Inv

(* A flush leaves nothing ahead of anybody. *)
LEMMA FlushKeepsInv ==
  ASSUME Inv, Control', Flush
  PROVE  Inv'
<1>1. /\ Control /\ mutex = NoOne /\ head' = w_off
      /\ UNCHANGED <<w_off, buf, mutex, readers, asleep, rpc, last, wpc, orig, msg, sizes, committed>>
  BY DEF Inv, Flush, wstate
<1>2. ~Writing /\ Start = w_off /\ ~Writing' /\ Start' = w_off
  BY <1>1, StartFacts
<1>3. \A r \in readers : r \in Readers /\ r_off'[r] = w_off
  BY <1>1, Numbers DEF Flush
<1>4. ASSUME NEW m PROVE Ahead(w_off, m)'
  BY <1>1, <1>2, NothingAhead, Numbers DEF Ahead, Clear, Newer
<1>5. Placed'
  BY <1>1, <1>3, <1>4 DEF Inv, Placed, Ahead, Clear, Newer
<1>6. HeaderIsIn' /\ OrigIsStart'
  BY <1>1, <1>2 DEF Inv, HeaderIsIn, OrigIsStart
<1>7. SleepersWait'
  <2> SUFFICES ASSUME NEW r \in Readers, rpc'[r] = "sleep", r \in asleep'
               PROVE  r_off'[r] = Start'
    BY DEF SleepersWait
  <2>1. r \in readers
    BY <1>1 DEF Control, OpenAreListed
  <2> QED BY <1>2, <1>3, <2>1
<1> QED BY <1>5, <1>6, <1>7 DEF Inv

(* Every step keeps Inv. *)
LEMMA InvStep == OneIfFaults /\ Inv /\ [Next]_vars => Inv'
<1> SUFFICES ASSUME OneIfFaults, Inv, [Next]_vars PROVE Inv'
  OBVIOUS
<1>1. Control'
  BY ControlStep DEF Inv
<1>2. ASSUME NEW w \in Writers, Write(w) PROVE Inv'
  BY <1>1, <1>2, QuietWriteKeepsInv, HeaderKeepsInv, PayloadKeepsInv, FaultKeepsInv DEF Write
<1>3. ASSUME NEW r \in Readers, ReaderOnly(r) PROVE Inv'
  BY <1>1, <1>3, ReaderKeepsInv
<1>4. CASE Flush
  BY <1>1, <1>4, FlushKeepsInv
<1>5. CASE UNCHANGED vars
  BY <1>5 DEF vars, log, rstate, wstate, Inv, Control, TypeOK, Cell, LengthsFit, Started, HolderWrites,
     OpenAreListed, HeaderIsIn, Placed, OrigIsStart, SleepersWait, Ahead, Clear, Newer, Start, Writing
<1> QED BY <1>2, <1>3, <1>4, <1>5, StepKinds

-----------------------------------------------------------------------------
(* Whatever writers overwrite, every reader and the start for new readers
   stand at an entry boundary with only whole entries ahead, so a read returns
   one entry (logger.c:152, 252-259 and 347-352): for every ring that holds two
   longest entries, as long as no two writers run where a copy may fail.  Where
   they do, the rollback to a stale orig breaks it (logger.c:341, 359). *)
THEOREM EntriesStayWhole == ASSUME OneIfFaults PROVE Spec => []ReadersSeeEntries
<1>1. Inv => ReadersSeeEntries
  <2> SUFFICES ASSUME Inv, mutex = NoOne
               PROVE  EntriesFrom(head) /\ \A r \in readers : EntriesFrom(r_off[r])
    BY DEF ReadersSeeEntries
  <2>1. Start = w_off
    BY StartFacts DEF Inv
  <2>2. \A off : Ahead(off, 0) => EntriesFrom(off)
    BY <2>1, EntriesAreRun DEF Ahead, EntriesFrom
  <2>3. \A r \in readers : Run(buf, committed, sizes, r_off[r], Distance(r_off[r], w_off))
    BY <2>1 DEF Inv, Placed, Ahead
  <2> QED BY <2>2, <2>3, EntriesAreRun DEF Inv, Placed, EntriesFrom
<1> QED BY <1>1, InitInv, InvStep, PTL DEF Spec

(* No reader sleeps on a log it could read, unless the writer that made it
   readable is about to wake it: prepare_to_wait comes before the test and the
   wake-up after the write (logger.c:167-185 and 376-379). *)
THEOREM SleepersAreWoken == ASSUME OneIfFaults PROVE Spec => []NoMissedWakeup
<1>1. Inv => NoMissedWakeup
  BY StartFacts DEF Inv, SleepersWait, NoMissedWakeup
<1> QED BY <1>1, InitInv, InvStep, PTL DEF Spec

(* A read hands out an entry newer than every entry the open file got before,
   across laps, flushes and failed writes (logger.c:193-206). *)
NewerRead == \A r \in Readers : rpc[r] = "fetch" /\ r_off'[r] # r_off[r] /\ rpc'[r] = "open"
                                  => last'[r] > last[r]
THEOREM ReadsAreNewer == ASSUME OneIfFaults PROVE Spec => ReadsMoveForward
<1>1. Inv /\ [Next]_vars => [NewerRead]_vars
  <2> SUFFICES ASSUME Inv, Next, NEW r \in Readers,
                      rpc[r] = "fetch", r_off'[r] # r_off[r], rpc'[r] = "open"
               PROVE  last'[r] > last[r]
    BY DEF NewerRead
  <2>1. Control /\ ReaderTypes
    BY TypeParts DEF Inv, Control
  <2>2. ASSUME NEW w \in Writers, Write(w) PROVE FALSE
    BY <2>2 DEF Write, WriteStart, WriteLock, WriteHeader, WritePayload, WriteFault, WriteWake, rstate
  <2>3. CASE Flush
    BY <2>3 DEF Flush
  <2>4. ASSUME NEW q \in Readers, ReaderOnly(q) PROVE last'[r] > last[r]
    <3>1. ReadEntry(q) /\ q = r
      BY <2>1, <2>4 DEF ReaderOnly, Release, ReadPrepare, ReadNonEmpty, ReadEmpty, ReadResume,
         ReadRaced, ReadFails, ReadEntry, Signal, Open, ReaderGoto, ReaderTypes
    <3>2. mutex = NoOne /\ w_off # r_off[r] /\ last'[r] = buf[r_off[r]].msg
      BY <2>1, <3>1 DEF ReadEntry, ReaderTypes
    <3>3. r \in readers
      BY <2>1 DEF Control, OpenAreListed
    <3>4. r_off[r] \in Offsets /\ Ahead(r_off[r], last[r])
      BY <2>1, <3>3, Numbers DEF Inv, Placed
    <3>5. buf[r_off[r]].msg > last[r]
      <4> DEFINE off == r_off[r]
                 m == last[r]
      <4>1. off \in Offsets /\ Ahead(off, m) /\ w_off # off
        BY <3>2, <3>4
      <4> HIDE DEF off, m
      <4>2. buf[off].msg > m
        BY <2>1, <3>2, <4>1, EntryIsNext
      <4> QED BY <4>2 DEF off, m
    <3> QED BY <3>2, <3>5
  <2>5. \/ \E w \in Writers : Write(w)
        \/ \E q \in Readers : ReaderOnly(q)
        \/ Flush
    BY DEF Next, Read, ReaderOnly
  <2> QED BY <2>2, <2>3, <2>4, <2>5
<1>2. ReadsMoveForward <=> [][NewerRead]_vars
  BY DEF ReadsMoveForward, NewerRead
<1> QED BY <1>1, <1>2, InitInv, InvStep, PTL DEF Spec

(* w_off = r_off means that there is nothing to read, never that a write came
   round to the reader (the b >= c of logger.c:241-247 against the test of 170). *)
Readable == \A w \in Writers : wpc[w] = "header" /\ wpc'[w] = "wake" =>
              \A off \in {head'} \cup {r_off'[r] : r \in readers'} : off # w_off'
THEOREM WritesAreReadable == ASSUME OneIfFaults PROVE Spec => WriteIsReadable
<1>1. Inv /\ [Next]_vars => [Readable]_vars
  <2> SUFFICES ASSUME Inv, Next, NEW w \in Writers, wpc[w] = "header", wpc'[w] = "wake"
               PROVE  \A off \in {head'} \cup {r_off'[r] : r \in readers'} : off # w_off'
    BY DEF Readable
  <2>1. Control' /\ WriterTypes
    BY ControlStep, TypeParts DEF Inv, Control
  <2>2. ASSUME NEW v \in Writers, Write(v) PROVE WritePayload(w)
    BY <2>1, <2>2 DEF Write, WriteStart, WriteLock, WriteHeader, WritePayload, WriteFault, WriteWake,
       WriterTypes
  <2>3. ASSUME NEW q \in Readers, ReaderOnly(q) PROVE FALSE
    BY <2>3, ReaderLeaves
  <2>4. ~Flush
    BY DEF Flush, wstate
  <2>5. WritePayload(w)
    BY <2>2, <2>3, <2>4 DEF Next, Read, ReaderOnly
  <2> QED BY <2>1, <2>5, PayloadKeepsInv
<1>2. WriteIsReadable <=> [][Readable]_vars
  BY DEF WriteIsReadable, Readable
<1> QED BY <1>1, <1>2, InitInv, InvStep, PTL DEF Spec
=============================================================================
