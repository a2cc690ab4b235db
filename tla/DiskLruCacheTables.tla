------------------------- MODULE DiskLruCacheTables -------------------------
(***************************************************************************)
(* What the operators of DiskLruCache on tables and journals return: the   *)
(* table that lines replay to, that of a rebuilt journal, that of a cache  *)
(* just opened, and the sum of the lengths.                                *)
(***************************************************************************)
EXTENDS DiskLruCache, SequenceTheorems, FiniteSetTheorems, TLAPS

LengthType == [Index -> Values \cup {0}]
(* A table whose entries without values have no lengths. *)
TableType ==
  {t \in [order : {o \in Seq(Keys) : IsInjective(o)}, readable : SUBSET Keys,
          edited : SUBSET Keys, lengths : [Keys -> LengthType]] :
     \A k \in Keys \ t.readable : t.lengths[k] = None}
LineType  == [op : {"CLEAN", "DIRTY", "REMOVE", "READ"}, key : Keys, lengths : LengthType]
Known(t)  == ToSet(t.order)

-----------------------------------------------------------------------------
(* Numbers. *)

(* A set of natural numbers has a least one: the least of the intervals that
   end in it. *)
LEMMA MinIsMember ==
  ASSUME NEW S \in SUBSET Nat, S # {}
  PROVE  Min(S) \in S /\ \A n \in S : Min(S) <= n
<1> DEFINE upTo == {1..n : n \in S}
<1>1. upTo \subseteq FiniteSubsetsOf(Nat) /\ upTo # {}
  <2>1. \A n \in S : IsFiniteSet(1..n) /\ 1..n \in SUBSET Nat
    BY FS_Interval
  <2> QED BY <2>1 DEF FiniteSubsetsOf
<1>2. PICK I \in upTo : \A J \in upTo : <<J, I>> \notin StrictSubsetOrdering(Nat)
  <2> HIDE DEF upTo
  <2> QED BY <1>1, FS_StrictSubsetOrderingWellFounded, WFMin
<1>3. PICK m \in S : I = 1..m
  OBVIOUS
<1>4. ASSUME NEW n \in S, n < m
      PROVE  FALSE
  <2>1. 1..n \in SUBSET Nat /\ 1..m \in SUBSET Nat /\ 1..n \subseteq 1..m
    BY <1>4
  <2>2. m \in 1..m /\ m \notin 1..n
    BY <1>4
  <2>3. <<1..n, 1..m>> \in StrictSubsetOrdering(Nat)
    BY <2>1, <2>2 DEF StrictSubsetOrdering
  <2> QED BY <1>2, <1>3, <2>3
<1>5. m \in S /\ \A n \in S : m <= n
  BY <1>4
<1> QED BY <1>5 DEF Min

(* What holds of 0 and passes from each number to the next holds up to n. *)
LEMMA UpTo ==
  ASSUME NEW n \in Nat, NEW S \in SUBSET (0..n), 0 \in S,
         \A k \in 0..(n - 1) : k \in S => k + 1 \in S
  PROVE  0..n \subseteq S
<1> SUFFICES ASSUME (0..n) \ S # {} PROVE FALSE
  OBVIOUS
<1> DEFINE left == (0..n) \ S
           m    == Min(left)
<1>1. m \in left /\ \A k \in left : m <= k
  BY MinIsMember
<1> HIDE DEF m
<1>2. m \in 1..n /\ m - 1 \in 0..(n - 1) /\ m - 1 \in 0..n
  BY <1>1
<1>3. m - 1 \in S
  BY <1>1, <1>2
<1>4. (m - 1) + 1 \in S /\ (m - 1) + 1 = m
  BY <1>2, <1>3
<1> QED BY <1>1, <1>4

-----------------------------------------------------------------------------
(* The order of a table. *)

(* Its elements, counted. *)
LEMMA ToSetIs ==
  ASSUME NEW X, NEW s \in Seq(X)
  PROVE  /\ DOMAIN s = 1..Len(s) /\ Len(s) \in Nat
         /\ \A x : x \in ToSet(s) <=> \E i \in 1..Len(s) : x = s[i]
         /\ ToSet(s) \subseteq X
<1>1. DOMAIN s = 1..Len(s) /\ Len(s) \in Nat
  BY LenProperties
<1>2. \A i \in 1..Len(s) : s[i] \in X
  BY ElementOfSeq
<1> QED BY <1>1, <1>2 DEF ToSet

(* The key looked for is found. *)
LEMMA SelectInSeqIs ==
  ASSUME NEW X, NEW s \in Seq(X), NEW Y, NEW i \in 1..Len(s), s[i] \in Y
  PROVE  LET n == SelectInSeq(s, LAMBDA x : x \in Y) IN n \in 1..Len(s) /\ s[n] \in Y
<1> DEFINE I == {j \in 1..Len(s) : s[j] \in Y}
<1>1. I \in SUBSET Nat /\ I # {}
  BY LenProperties
<1>2. Min(I) \in I
  BY <1>1, MinIsMember
<1>3. SelectInSeq(s, LAMBDA x : x \in Y) = Min(I)
  BY <1>1 DEF SelectInSeq
<1> QED BY <1>2, <1>3

(* One key is taken out. *)
LEMMA RemoveAtIs ==
  ASSUME NEW X, NEW s \in Seq(X), NEW n \in 1..Len(s)
  PROVE  /\ RemoveAt(s, n) \in Seq(X) /\ Len(RemoveAt(s, n)) = Len(s) - 1
         /\ \A j \in 1..(Len(s) - 1) :
              RemoveAt(s, n)[j] = IF j < n THEN s[j] ELSE s[j + 1]
<1> DEFINE l == SubSeq(s, 1, n - 1)
           r == SubSeq(s, n + 1, Len(s))
<1>1. Len(s) \in Nat /\ n \in Nat /\ \A j \in 1..Len(s) : s[j] \in X
  BY LenProperties, ElementOfSeq
<1>2. /\ l \in Seq(X) /\ Len(l) = n - 1
      /\ \A j \in 1..(n - 1) : l[j] = s[j]
  <2>1. 1 \in Int /\ n - 1 \in Int /\ \A j \in 1..(n - 1) : j \in 1..Len(s)
    BY <1>1
  <2>2. /\ l \in Seq(X) /\ Len(l) = IF 1 <= n - 1 THEN (n - 1) - 1 + 1 ELSE 0
        /\ \A j \in 1..((n - 1) - 1 + 1) : l[j] = s[1 + j - 1]
    BY <1>1, <2>1, SubSeqProperties
  <2> QED BY <1>1, <2>2
<1>3. /\ r \in Seq(X) /\ Len(r) = Len(s) - n
      /\ \A j \in 1..(Len(s) - n) : r[j] = s[n + j]
  <2>1. n + 1 \in Int /\ Len(s) \in Int /\ \A j \in (n + 1)..Len(s) : j \in 1..Len(s)
    BY <1>1
  <2>2. /\ r \in Seq(X) /\ Len(r) = IF n + 1 <= Len(s) THEN Len(s) - (n + 1) + 1 ELSE 0
        /\ \A j \in 1..(Len(s) - (n + 1) + 1) : r[j] = s[(n + 1) + j - 1]
    BY <1>1, <2>1, SubSeqProperties
  <2>3. Len(s) - (n + 1) + 1 = Len(s) - n
    BY <1>1
  <2>4. Len(r) = Len(s) - n
    BY <1>1, <2>2
  <2>5. ASSUME NEW j \in 1..(Len(s) - n)
        PROVE  r[j] = s[n + j]
    <3>1. (n + 1) + j - 1 = n + j
      BY <1>1
    <3>2. r[j] = s[(n + 1) + j - 1]
      BY <2>2, <2>3
    <3> QED BY <3>1, <3>2
  <2> QED BY <2>2, <2>4, <2>5
<1> HIDE DEF l, r
<1>4. /\ l \o r \in Seq(X) /\ Len(l \o r) = Len(s) - 1
      /\ \A j \in 1..(Len(s) - 1) : (l \o r)[j] = IF j <= n - 1 THEN l[j] ELSE r[j - (n - 1)]
  <2>1. /\ l \o r \in Seq(X) /\ Len(l \o r) = Len(l) + Len(r)
        /\ \A j \in 1..(Len(l) + Len(r)) : (l \o r)[j] = IF j <= Len(l) THEN l[j] ELSE r[j - Len(l)]
    BY <1>2, <1>3, ConcatProperties
  <2> QED BY <1>1, <1>2, <1>3, <2>1
<1>5. ASSUME NEW j \in 1..(Len(s) - 1)
      PROVE  (l \o r)[j] = IF j < n THEN s[j] ELSE s[j + 1]
  <2>1. CASE j < n
    BY <1>1, <1>2, <1>4, <2>1
  <2>2. CASE ~(j < n)
    <3>1. j - (n - 1) \in 1..(Len(s) - n) /\ n + (j - (n - 1)) = j + 1 /\ ~(j <= n - 1)
      BY <1>1, <2>2
    <3> QED BY <1>3, <1>4, <2>2, <3>1
  <2> QED BY <2>1, <2>2
<1> QED BY <1>4, <1>5 DEF RemoveAt, l, r

(* A key is removed from an order that has it at most once. *)
LEMMA RemoveFirstIs ==
  ASSUME NEW o \in Seq(Keys), IsInjective(o), NEW k
  PROVE  /\ RemoveFirst(o, k) \in Seq(Keys) /\ IsInjective(RemoveFirst(o, k))
         /\ ToSet(RemoveFirst(o, k)) = ToSet(o) \ {k}
<1>1. DOMAIN o = 1..Len(o) /\ Len(o) \in Nat
  BY ToSetIs
<1>2. CASE ~ \E i \in 1..Len(o) : o[i] = k
  BY <1>2, ToSetIs DEF RemoveFirst
<1>3. CASE \E i \in 1..Len(o) : o[i] = k
  <2> DEFINE n == SelectInSeq(o, LAMBDA v : v = k)
             I == {i \in 1..Len(o) : o[i] = k}
             r == RemoveAt(o, n)
  <2>1. I \in SUBSET Nat /\ I # {}
    BY <1>1, <1>3
  <2>2. Min(I) \in I
    BY <2>1, MinIsMember
  <2>3. n = Min(I)
    BY <2>1 DEF SelectInSeq
  <2>4. n \in 1..Len(o) /\ o[n] = k
    BY <2>2, <2>3
  <2>5. RemoveFirst(o, k) = r
    BY <1>3 DEF RemoveFirst
  <2> HIDE DEF n, I
  <2>6. /\ r \in Seq(Keys) /\ Len(r) = Len(o) - 1
        /\ \A j \in 1..(Len(o) - 1) : r[j] = IF j < n THEN o[j] ELSE o[j + 1]
    BY <2>4, RemoveAtIs
  <2> HIDE DEF r
  <2>7. DOMAIN r = 1..(Len(o) - 1) /\ n \in Nat
    BY <1>1, <2>4, <2>6, ToSetIs
  <2>8. \A i, j \in 1..Len(o) : o[i] = o[j] => i = j
    BY <1>1 DEF IsInjective
  <2>9. IsInjective(r)
    <3> SUFFICES ASSUME NEW i \in 1..(Len(o) - 1), NEW j \in 1..(Len(o) - 1), r[i] = r[j]
                 PROVE  i = j
      BY <2>7 DEF IsInjective
    <3> DEFINE a == IF i < n THEN i ELSE i + 1
               b == IF j < n THEN j ELSE j + 1
    <3>1. a \in 1..Len(o) /\ b \in 1..Len(o) /\ r[i] = o[a] /\ r[j] = o[b]
      BY <1>1, <2>6, <2>7
    <3>2. a = b
      <4> HIDE DEF a, b
      <4> QED BY <2>8, <3>1
    <3> QED BY <1>1, <2>7, <3>2
  <2>10. ASSUME NEW x PROVE x \in ToSet(r) <=> x \in ToSet(o) /\ x # k
    <3>1. ASSUME NEW j \in 1..(Len(o) - 1), x = r[j]
          PROVE  x \in ToSet(o) /\ x # k
      <4> DEFINE a == IF j < n THEN j ELSE j + 1
      <4>1. a \in 1..Len(o) /\ a # n /\ x = o[a]
        BY <1>1, <2>6, <2>7, <3>1
      <4> HIDE DEF a
      <4> QED BY <2>4, <2>8, <4>1, ToSetIs
    <3>2. ASSUME NEW i \in 1..Len(o), x = o[i], x # k
          PROVE  \E j \in 1..(Len(o) - 1) : x = r[j]
      <4>1. i # n
        BY <2>4, <3>2
      <4>2. CASE i < n
        BY <1>1, <2>4, <2>6, <2>7, <3>2, <4>2
      <4>3. CASE i > n
        <5>1. i - 1 \in 1..(Len(o) - 1) /\ ~(i - 1 < n) /\ (i - 1) + 1 = i
          BY <1>1, <2>7, <4>3, <2>4
        <5> QED BY <2>6, <3>2, <5>1
      <4> QED BY <1>1, <2>7, <4>1, <4>2, <4>3
    <3>3. x \in ToSet(r) <=> \E j \in 1..(Len(o) - 1) : x = r[j]
      BY <2>6, ToSetIs
    <3>4. x \in ToSet(o) <=> \E i \in 1..Len(o) : x = o[i]
      BY ToSetIs
    <3> QED BY <3>1, <3>2, <3>3, <3>4
  <2> QED BY <2>5, <2>6, <2>9, <2>10
<1> QED BY <1>2, <1>3

(* A key that is not in the order is put at its end. *)
LEMMA AppendIs ==
  ASSUME NEW o \in Seq(Keys), IsInjective(o), NEW k \in Keys, k \notin ToSet(o)
  PROVE  /\ Append(o, k) \in Seq(Keys) /\ IsInjective(Append(o, k))
         /\ ToSet(Append(o, k)) = ToSet(o) \cup {k}
<1> DEFINE r == Append(o, k)
<1>1. DOMAIN o = 1..Len(o) /\ Len(o) \in Nat
  BY ToSetIs
<1>2. /\ r \in Seq(Keys) /\ Len(r) = Len(o) + 1
      /\ \A i \in 1..Len(o) : r[i] = o[i]
      /\ r[Len(o) + 1] = k
  BY AppendProperties
<1> HIDE DEF r
<1>3. DOMAIN r = 1..(Len(o) + 1) /\ \A i \in 1..(Len(o) + 1) : i \in 1..Len(o) \/ i = Len(o) + 1
  BY <1>1, <1>2, ToSetIs
<1>4. \A x : x \in ToSet(r) <=> \E i \in 1..(Len(o) + 1) : x = r[i]
  BY <1>2, ToSetIs
<1>5. \A x : x \in ToSet(o) <=> \E i \in 1..Len(o) : x = o[i]
  BY ToSetIs
<1>6. 1..Len(o) \subseteq 1..(Len(o) + 1) /\ Len(o) + 1 \in 1..(Len(o) + 1)
  BY <1>1
<1>7. IsInjective(r)
  BY <1>1, <1>2, <1>3, <1>5 DEF IsInjective
<1>8. ToSet(r) = ToSet(o) \cup {k}
  BY <1>2, <1>3, <1>4, <1>5, <1>6
<1> QED BY <1>2, <1>7, <1>8 DEF r

-----------------------------------------------------------------------------
(* Tables and the lines of a journal. *)

(* The table of no entries. *)
LEMMA EmptyIs ==
  /\ Empty \in TableType /\ Known(Empty) = {} /\ None \in LengthType
  /\ Empty.readable = {} /\ Empty.edited = {} /\ \A k \in Keys : Empty.lengths[k] = None
<1>1. None \in LengthType
  BY DEF None, LengthType
<1>2. <<>> \in Seq(Keys) /\ IsInjective(<<>>) /\ ToSet(<<>>) = {}
  <2>1. <<>> \in Seq(Keys) /\ Len(<<>>) = 0
    BY EmptySeq
  <2>2. DOMAIN <<>> = {}
    BY <2>1, LenProperties
  <2> QED BY <2>1, <2>2 DEF IsInjective, ToSet
<1> QED BY <1>1, <1>2 DEF Empty, TableType, Known, NoKeys

(* What each operator on tables does to the sets of a table. *)
LEMMA TouchIs ==
  ASSUME NEW t \in TableType, NEW k \in Keys
  PROVE  /\ Touch(t, k) \in TableType /\ Known(Touch(t, k)) = Known(t) \cup {k}
         /\ Touch(t, k).readable = t.readable /\ Touch(t, k).edited = t.edited
         /\ Touch(t, k).lengths = t.lengths
<1> DEFINE o == RemoveFirst(t.order, k)
<1>1. t.order \in Seq(Keys) /\ IsInjective(t.order)
  BY DEF TableType
<1>2. o \in Seq(Keys) /\ IsInjective(o) /\ ToSet(o) = ToSet(t.order) \ {k}
  BY <1>1, RemoveFirstIs
<1> HIDE DEF o
<1>3. /\ Append(o, k) \in Seq(Keys) /\ IsInjective(Append(o, k))
      /\ ToSet(Append(o, k)) = ToSet(t.order) \cup {k}
  BY <1>2, AppendIs
<1>4. Touch(t, k) = [t EXCEPT !.order = Append(o, k)]
  BY DEF Touch, o
<1> QED BY <1>3, <1>4 DEF TableType, Known

(* A forgotten key is in no set of the table, and has no lengths. *)
LEMMA ForgetIs ==
  ASSUME NEW t \in TableType, NEW k
  PROVE  /\ Forget(t, k) \in TableType /\ Known(Forget(t, k)) = Known(t) \ {k}
         /\ Forget(t, k).readable = t.readable \ {k}
         /\ Forget(t, k).edited = t.edited \ {k}
         /\ \A j \in Keys : Forget(t, k).lengths[j] = IF j = k THEN None ELSE t.lengths[j]
<1> DEFINE o == RemoveFirst(t.order, k)
<1>1. t.order \in Seq(Keys) /\ IsInjective(t.order)
  BY DEF TableType
<1>2. o \in Seq(Keys) /\ IsInjective(o) /\ ToSet(o) = ToSet(t.order) \ {k}
  BY <1>1, RemoveFirstIs
<1> HIDE DEF o
<1>3. [t.lengths EXCEPT ![k] = None] \in [Keys -> LengthType]
  BY EmptyIs DEF TableType
<1>4. Forget(t, k) = [order |-> o, readable |-> t.readable \ {k}, edited |-> t.edited \ {k},
                      lengths |-> [t.lengths EXCEPT ![k] = None]]
  BY DEF Forget, o
<1> QED BY <1>2, <1>3, <1>4 DEF TableType, Known

(* A published key is readable, with the lengths given. *)
LEMMA PublishIs ==
  ASSUME NEW t \in TableType, NEW k \in Keys, NEW l \in LengthType
  PROVE  /\ Publish(t, k, l) \in TableType /\ Known(Publish(t, k, l)) = Known(t)
         /\ Publish(t, k, l).readable = t.readable \cup {k}
         /\ Publish(t, k, l).edited = t.edited \ {k}
         /\ \A j \in Keys : Publish(t, k, l).lengths[j] = IF j = k THEN l ELSE t.lengths[j]
BY DEF Publish, TableType, Known

(* A key that is begun is edited. *)
LEMMA BeginIs ==
  ASSUME NEW t \in TableType, NEW k \in Keys
  PROVE  /\ Begin(t, k) \in TableType /\ Known(Begin(t, k)) = Known(t)
         /\ Begin(t, k).readable = t.readable /\ Begin(t, k).edited = t.edited \cup {k}
         /\ Begin(t, k).lengths = t.lengths
BY DEF Begin, TableType, Known

(* What a line does to the table that it is read into. *)
LEMMA LineIs ==
  ASSUME NEW t \in TableType, NEW x \in LineType, NEW u, u = readJournalLine(t, x)
  PROVE  /\ u \in TableType
         /\ x.op = "REMOVE" => u = Forget(t, x.key)
         /\ x.op = "READ" => u = Touch(t, x.key)
         /\ x.op = "DIRTY" => /\ Known(u) = Known(t) \cup {x.key}
                              /\ u.readable = t.readable /\ u.edited = t.edited \cup {x.key}
                              /\ u.lengths = t.lengths
         /\ x.op = "CLEAN" =>
              /\ Known(u) = Known(t) \cup {x.key}
              /\ u.readable = t.readable \cup {x.key} /\ u.edited = t.edited \ {x.key}
              /\ \A j \in Keys : u.lengths[j] = IF j = x.key THEN x.lengths ELSE t.lengths[j]
<1> DEFINE v == Touch(t, x.key)
<1>1. x.key \in Keys /\ x.lengths \in LengthType /\ x.op \in {"CLEAN", "DIRTY", "REMOVE", "READ"}
  BY DEF LineType
<1>2. /\ v \in TableType /\ Known(v) = Known(t) \cup {x.key}
      /\ v.readable = t.readable /\ v.edited = t.edited /\ v.lengths = t.lengths
  BY <1>1, TouchIs
<1>3. CASE x.op = "REMOVE"
  BY <1>1, <1>3, ForgetIs DEF readJournalLine
<1>4. CASE x.op = "READ"
  BY <1>1, <1>2, <1>4 DEF readJournalLine
<1>5. CASE x.op = "DIRTY"
  <2>1. u = Begin(v, x.key)
    BY <1>5 DEF readJournalLine
  <2> HIDE DEF v
  <2> QED BY <1>1, <1>2, <1>5, <2>1, BeginIs
<1>6. CASE x.op = "CLEAN"
  <2>1. u = Publish(v, x.key, x.lengths)
    BY <1>6 DEF readJournalLine
  <2> HIDE DEF v
  <2> QED BY <1>1, <1>2, <1>6, <2>1, PublishIs
<1> QED BY <1>1, <1>3, <1>4, <1>5, <1>6

-----------------------------------------------------------------------------
(* Replaying lines. *)

(* The function that Replay defines: it exists, and two of them agree on the
   lines they have in common. *)
AfterOf(t, lines, m, g) ==
  g = [n \in 0..m |-> IF n = 0 THEN t ELSE readJournalLine(g[n - 1], lines[n])]

(* There is a table after every number of lines. *)
LEMMA AfterExists ==
  ASSUME NEW t, NEW lines, NEW N \in Nat
  PROVE  \E g : AfterOf(t, lines, N, g)
<1> DEFINE S == {m \in 0..N : \E g : AfterOf(t, lines, m, g)}
<1>1. 0 \in S
  <2> DEFINE g == [n \in 0..0 |-> t]
  <2>1. AfterOf(t, lines, 0, g)
    BY DEF AfterOf
  <2> QED BY <2>1
<1>2. ASSUME NEW m \in 0..(N - 1), m \in S
      PROVE  m + 1 \in S
  <2>1. PICK g : AfterOf(t, lines, m, g)
    BY <1>2
  <2> DEFINE h == [n \in 0..(m + 1) |->
                     IF n <= m THEN g[n] ELSE readJournalLine(g[m], lines[m + 1])]
             rhs == [n \in 0..(m + 1) |->
                       IF n = 0 THEN t ELSE readJournalLine(h[n - 1], lines[n])]
  <2>2. ASSUME NEW n \in 0..(m + 1)
        PROVE  h[n] = IF n = 0 THEN t ELSE readJournalLine(h[n - 1], lines[n])
    <3>1. CASE n = 0
      <4>1. h[n] = g[0]
        BY <3>1
      <4>2. g[0] = t
        BY <2>1 DEF AfterOf
      <4> QED BY <3>1, <4>1, <4>2
    <3>2. CASE n \in 1..m
      <4>1. h[n] = g[n] /\ n - 1 \in 0..(m + 1) /\ n - 1 <= m /\ n \in 0..m
        BY <3>2
      <4>2. h[n - 1] = g[n - 1]
        BY <4>1
      <4>3. g[n] = readJournalLine(g[n - 1], lines[n])
        BY <2>1, <3>2, <4>1 DEF AfterOf
      <4> QED BY <3>2, <4>1, <4>2, <4>3
    <3>3. CASE n = m + 1
      <4>1. h[n] = readJournalLine(g[m], lines[m + 1]) /\ n - 1 = m
        BY <3>3
      <4>2. h[m] = g[m]
        OBVIOUS
      <4> QED BY <3>3, <4>1, <4>2
    <3> QED BY <3>1, <3>2, <3>3
  <2>3. h = rhs
    BY <2>2
  <2>4. AfterOf(t, lines, m + 1, h)
    BY <2>3 DEF AfterOf
  <2> QED BY <2>4
<1>3. 0..N \subseteq S
  <2> HIDE DEF S
  <2>1. S \in SUBSET (0..N)
    BY DEF S
  <2> QED BY <1>1, <1>2, <2>1, UpTo
<1>4. N \in S
  <2> HIDE DEF S
  <2> QED BY <1>3
<1> QED BY <1>4

(* The same lines lead to the same table, whatever comes after them. *)
LEMMA AfterAgrees ==
  ASSUME NEW t, NEW lines, NEW more, NEW m \in Nat, NEW n \in Nat, m <= n,
         \A i \in 1..m : more[i] = lines[i],
         NEW g, AfterOf(t, lines, m, g), NEW h, AfterOf(t, more, n, h)
  PROVE  g[m] = h[m]
<1> DEFINE S == {i \in 0..m : g[i] = h[i]}
<1>1. ASSUME NEW i \in 0..m
      PROVE  /\ g[i] = IF i = 0 THEN t ELSE readJournalLine(g[i - 1], lines[i])
             /\ h[i] = IF i = 0 THEN t ELSE readJournalLine(h[i - 1], more[i])
  BY DEF AfterOf
<1>2. 0 \in S
  BY <1>1
<1>3. ASSUME NEW i \in 0..(m - 1), i \in S
      PROVE  i + 1 \in S
  <2>1. i + 1 \in 0..m /\ i + 1 # 0 /\ (i + 1) - 1 = i /\ i + 1 \in 1..m
    OBVIOUS
  <2>2. /\ g[i + 1] = readJournalLine(g[i], lines[i + 1])
        /\ h[i + 1] = readJournalLine(h[i], more[i + 1])
    BY <1>1, <2>1
  <2>3. g[i + 1] = h[i + 1]
    BY <1>3, <2>1, <2>2
  <2> QED BY <2>1, <2>3
<1>4. 0..m \subseteq S
  <2> HIDE DEF S
  <2>1. S \in SUBSET (0..m)
    BY DEF S
  <2> QED BY <1>2, <1>3, <2>1, UpTo
<1>5. m \in S
  <2> HIDE DEF S
  <2> QED BY <1>4
<1> QED BY <1>5

(* Replay is the table after all the lines. *)
LEMMA ReplayIs ==
  ASSUME NEW t, NEW lines, Len(lines) \in Nat
  PROVE  \E g : AfterOf(t, lines, Len(lines), g) /\ Replay(t, lines) = g[Len(lines)]
<1> DEFINE g == CHOOSE f : AfterOf(t, lines, Len(lines), f)
<1>1. \E f : AfterOf(t, lines, Len(lines), f)
  BY AfterExists
<1>2. AfterOf(t, lines, Len(lines), g)
  BY <1>1
<1>3. Replay(t, lines) = g[Len(lines)]
  BY DEF Replay, AfterOf
<1> QED BY <1>2, <1>3

(* No lines, and one line more. *)
NoLines == <<>>

(* No lines are lines of any kind. *)
LEMMA NoLinesIs ==
  ASSUME NEW X
  PROVE  NoLines \in Seq(X) /\ Len(NoLines) = 0
BY DEF NoLines

(* No lines leave the table. *)
LEMMA ReplayNothing ==
  ASSUME NEW t
  PROVE  Replay(t, NoLines) = t
<1>1. Len(NoLines) = 0
  BY NoLinesIs
<1>2. PICK g : AfterOf(t, NoLines, 0, g) /\ Replay(t, NoLines) = g[0]
  BY <1>1, ReplayIs
<1> QED BY <1>2 DEF AfterOf

(* One line more is read into the table that the others leave. *)
LEMMA ReplayAppend ==
  ASSUME NEW X, NEW t, NEW lines \in Seq(X), NEW x \in X
  PROVE  Replay(t, Append(lines, x)) = readJournalLine(Replay(t, lines), x)
<1> DEFINE more == Append(lines, x)
           n    == Len(lines)
<1>1. n \in Nat /\ Len(more) = n + 1 /\ more[n + 1] = x /\ \A i \in 1..n : more[i] = lines[i]
  BY LenProperties, AppendProperties
<1> HIDE DEF more
<1>2. PICK g : AfterOf(t, lines, n, g) /\ Replay(t, lines) = g[n]
  BY <1>1, ReplayIs
<1>3. PICK h : AfterOf(t, more, n + 1, h) /\ Replay(t, more) = h[n + 1]
  BY <1>1, ReplayIs
<1>4. n + 1 \in Nat /\ n <= n + 1 /\ n + 1 # 0 /\ (n + 1) - 1 = n /\ n + 1 \in 0..(n + 1)
  BY <1>1
<1> HIDE DEF n
<1>5. g[n] = h[n]
  BY <1>1, <1>2, <1>3, <1>4, AfterAgrees
<1>6. h[n + 1] = readJournalLine(h[n], more[n + 1])
  BY <1>3, <1>4 DEF AfterOf
<1> QED BY <1>1, <1>2, <1>3, <1>5, <1>6 DEF more

(* Prefixes of lines, of which a crash may leave any. *)
LEMMA PrefixIs ==
  ASSUME NEW X, NEW lines \in Seq(X)
  PROVE  /\ SubSeq(lines, 1, 0) = NoLines /\ SubSeq(lines, 1, Len(lines)) = lines
         /\ \A n \in 0..Len(lines) : /\ SubSeq(lines, 1, n) \in Seq(X)
                                     /\ Len(SubSeq(lines, 1, n)) = n
                                     /\ \A i \in 1..n : SubSeq(lines, 1, n)[i] = lines[i]
         /\ \A n \in 0..(Len(lines) - 1) : /\ lines[n + 1] \in X
              /\ SubSeq(lines, 1, n + 1) = Append(SubSeq(lines, 1, n), lines[n + 1])
<1>1. Len(lines) \in Nat /\ \A i \in 1..Len(lines) : lines[i] \in X
  BY LenProperties, ElementOfSeq
<1>2. ASSUME NEW n \in 0..Len(lines)
      PROVE  /\ SubSeq(lines, 1, n) \in Seq(X) /\ Len(SubSeq(lines, 1, n)) = n
             /\ \A i \in 1..n : SubSeq(lines, 1, n)[i] = lines[i]
  <2>1. 1 \in Int /\ n \in Int /\ \A i \in 1..n : i \in 1..Len(lines)
    BY <1>1
  <2>2. /\ SubSeq(lines, 1, n) \in Seq(X)
        /\ Len(SubSeq(lines, 1, n)) = IF 1 <= n THEN n - 1 + 1 ELSE 0
        /\ \A i \in 1..(n - 1 + 1) : SubSeq(lines, 1, n)[i] = lines[1 + i - 1]
    BY <1>1, <2>1, SubSeqProperties
  <2>3. n - 1 + 1 = n /\ (IF 1 <= n THEN n - 1 + 1 ELSE 0) = n
    BY <1>1
  <2>4. ASSUME NEW i \in 1..n PROVE SubSeq(lines, 1, n)[i] = lines[i]
    <3>1. 1 + i - 1 = i
      OBVIOUS
    <3> QED BY <2>2, <2>3, <3>1
  <2> QED BY <2>2, <2>3, <2>4
<1>3. SubSeq(lines, 1, 0) = NoLines
  BY SubSeqEmpty DEF NoLines
<1>4. SubSeq(lines, 1, Len(lines)) = lines
  <2>1. Len(lines) \in 0..Len(lines)
    BY <1>1
  <2> QED BY <1>2, <2>1, SeqEqual
<1>5. ASSUME NEW n \in 0..(Len(lines) - 1)
      PROVE  /\ lines[n + 1] \in X
             /\ SubSeq(lines, 1, n + 1) = Append(SubSeq(lines, 1, n), lines[n + 1])
  <2> DEFINE p == SubSeq(lines, 1, n)
             q == SubSeq(lines, 1, n + 1)
  <2>1. n \in 0..Len(lines) /\ n + 1 \in 0..Len(lines) /\ n + 1 \in 1..Len(lines) /\ n \in Nat
    BY <1>1
  <2>2. lines[n + 1] \in X /\ p \in Seq(X) /\ q \in Seq(X) /\ Len(p) = n /\ Len(q) = n + 1
    BY <1>1, <1>2, <2>1
  <2>3. (\A i \in 1..n : p[i] = lines[i]) /\ \A i \in 1..(n + 1) : q[i] = lines[i]
    BY <1>2, <2>1
  <2> HIDE DEF p, q
  <2>4. /\ Append(p, lines[n + 1]) \in Seq(X) /\ Len(Append(p, lines[n + 1])) = n + 1
        /\ \A i \in 1..n : Append(p, lines[n + 1])[i] = p[i]
        /\ Append(p, lines[n + 1])[n + 1] = lines[n + 1]
    BY <2>2, AppendProperties
  <2>5. \A i \in 1..(n + 1) : q[i] = Append(p, lines[n + 1])[i]
    BY <2>1, <2>3, <2>4
  <2>6. q = Append(p, lines[n + 1])
    BY <2>2, <2>4, <2>5, SeqEqual
  <2> QED BY <2>2, <2>6 DEF p, q
<1> QED BY <1>2, <1>3, <1>4, <1>5

(* The same of the lines at the front of others. *)
LEMMA ReplayPrefix ==
  ASSUME NEW X, NEW t, NEW lines \in Seq(X), NEW n \in 0..(Len(lines) - 1)
  PROVE  Replay(t, SubSeq(lines, 1, n + 1))
           = readJournalLine(Replay(t, SubSeq(lines, 1, n)), lines[n + 1])
<1>1. /\ lines[n + 1] \in X /\ SubSeq(lines, 1, n) \in Seq(X)
      /\ SubSeq(lines, 1, n + 1) = Append(SubSeq(lines, 1, n), lines[n + 1])
  <2>1. n \in 0..Len(lines)
    BY LenProperties
  <2> QED BY <2>1, PrefixIs
<1> DEFINE p == SubSeq(lines, 1, n)
           x == lines[n + 1]
<1>2. SubSeq(lines, 1, n + 1) = Append(p, x)
  BY <1>1
<1>3. p \in Seq(X) /\ x \in X
  BY <1>1
<1> HIDE DEF p, x
<1>4. Replay(t, Append(p, x)) = readJournalLine(Replay(t, p), x)
  BY <1>3, ReplayAppend
<1> QED BY <1>2, <1>4 DEF p, x

(* Lines replayed to a table give a table. *)
LEMMA ReplayType ==
  ASSUME NEW t \in TableType, NEW lines \in Seq(LineType)
  PROVE  /\ Replay(t, lines) \in TableType
         /\ \A n \in 0..Len(lines) : Replay(t, SubSeq(lines, 1, n)) \in TableType
<1> DEFINE N == Len(lines)
           S == {n \in 0..N : Replay(t, SubSeq(lines, 1, n)) \in TableType}
<1>1. N \in Nat
  BY LenProperties
<1>2. 0 \in S
  <2> DEFINE p == SubSeq(lines, 1, 0)
  <2>1. Replay(t, NoLines) = t
    BY ReplayNothing
  <2>2. p = NoLines
    BY PrefixIs
  <2> HIDE DEF p
  <2>3. Replay(t, p) \in TableType
    BY <2>1, <2>2
  <2> QED BY <1>1, <2>3 DEF p
<1>3. ASSUME NEW n \in 0..(N - 1), n \in S
      PROVE  n + 1 \in S
  <2> DEFINE u == Replay(t, SubSeq(lines, 1, n))
             v == Replay(t, SubSeq(lines, 1, n + 1))
  <2>0. n \in 0..(Len(lines) - 1) /\ u \in TableType
    BY <1>3
  <2>1. v = readJournalLine(u, lines[n + 1]) /\ lines[n + 1] \in LineType
    <3>1. v = readJournalLine(u, lines[n + 1])
      BY <2>0, ReplayPrefix
    <3>2. lines[n + 1] \in LineType
      BY <2>0, PrefixIs
    <3> QED BY <3>1, <3>2
  <2>2. n + 1 \in 0..N
    BY <1>1
  <2> HIDE DEF u, v
  <2>3. v \in TableType
    BY <2>0, <2>1, LineIs
  <2> QED BY <2>2, <2>3 DEF v
<1>4. 0..N \subseteq S
  <2> HIDE DEF S, N
  <2>1. S \in SUBSET (0..N)
    BY DEF S
  <2> QED BY <1>1, <1>2, <1>3, <2>1, UpTo
<1>5. N \in S
  <2> HIDE DEF S, N
  <2> QED BY <1>1, <1>4
<1> QED BY <1>4, <1>5, PrefixIs

-----------------------------------------------------------------------------
(* The tables of a rebuilt journal and of a cache just opened. *)

(* A rebuilt journal holds the table it was made of: an entry that is being
   edited is dirty, any other is clean and as long as it was. *)
RebuiltAs(v, t, ks) ==
  /\ v \in TableType /\ Known(v) = ks /\ v.edited = ks \cap t.edited
  /\ v.readable = ks \ t.edited
  /\ \A k \in v.readable : v.lengths[k] = t.lengths[k]

(* The line of one entry more. *)
LEMMA RebuiltStep ==
  ASSUME NEW t \in TableType, NEW ks, NEW v, RebuiltAs(v, t, ks), NEW k \in Keys,
         NEW u, u = readJournalLine(v, Line(t, k))
  PROVE  RebuiltAs(u, t, ks \cup {k}) /\ Line(t, k) \in LineType
<1>1. v \in TableType /\ t.lengths[k] \in LengthType /\ None \in LengthType
  BY EmptyIs DEF RebuiltAs, TableType
<1>2. CASE k \in t.edited
  <2> DEFINE x == DIRTY(k)
  <2>1. x \in LineType /\ x.op = "DIRTY" /\ x.key = k
    BY <1>1 DEF DIRTY, LineType
  <2>2. Line(t, k) = x
    BY <1>2 DEF Line
  <2> HIDE DEF x
  <2>3. /\ u \in TableType /\ Known(u) = Known(v) \cup {k} /\ u.readable = v.readable
        /\ u.edited = v.edited \cup {k} /\ u.lengths = v.lengths
    BY <1>1, <2>1, <2>2, LineIs
  <2> QED BY <1>2, <2>1, <2>2, <2>3 DEF RebuiltAs
<1>3. CASE k \notin t.edited
  <2> DEFINE x == CLEAN(k, t.lengths[k])
  <2>1. x \in LineType /\ x.op = "CLEAN" /\ x.key = k /\ x.lengths = t.lengths[k]
    BY <1>1 DEF CLEAN, LineType
  <2>2. Line(t, k) = x
    BY <1>3 DEF Line
  <2> HIDE DEF x
  <2>3. /\ u \in TableType /\ Known(u) = Known(v) \cup {k} /\ u.readable = v.readable \cup {k}
        /\ u.edited = v.edited \ {k}
        /\ \A j \in Keys : u.lengths[j] = IF j = k THEN t.lengths[k] ELSE v.lengths[j]
    BY <1>1, <2>1, <2>2, LineIs
  <2>4. v.readable \subseteq Keys
    BY <1>1 DEF TableType
  <2>5. \A j \in u.readable : u.lengths[j] = t.lengths[j]
    BY <2>3, <2>4 DEF RebuiltAs
  <2> QED BY <1>3, <2>1, <2>2, <2>3, <2>5 DEF RebuiltAs
<1> QED BY <1>2, <1>3

(* The lines that rebuildJournal writes replay to the table in memory. *)
LEMMA RebuiltIs ==
  ASSUME NEW t \in TableType
  PROVE  /\ RebuiltAs(Rebuilt(t).table, t, Known(t))
         /\ Rebuilt(t) = Holds(Rebuilt(t).table)
<1> DEFINE N == Len(t.order)
           lines == [n \in 1..N |-> Line(t, t.order[n])]
           upTo(n) == {t.order[i] : i \in 1..n}
           after(n) == Replay(Empty, SubSeq(lines, 1, n))
           S == {n \in 0..N : RebuiltAs(after(n), t, upTo(n))}
<1>1. N \in Nat /\ (\A n \in 1..N : t.order[n] \in Keys) /\ Known(t) = upTo(N)
  <2>1. t.order \in Seq(Keys)
    BY DEF TableType
  <2>2. DOMAIN t.order = 1..N /\ N \in Nat /\ \A n \in 1..N : t.order[n] \in Keys
    BY <2>1, ToSetIs, ElementOfSeq
  <2> QED BY <2>2 DEF Known, ToSet
<1>2. RebuiltAs(Empty, t, {})
  BY EmptyIs DEF RebuiltAs
<1>3. lines \in Seq(LineType) /\ Len(lines) = N /\ \A n \in 1..N : lines[n] = Line(t, t.order[n])
  <2>1. \A n \in 1..N : Line(t, t.order[n]) \in LineType
    BY <1>1, <1>2, RebuiltStep
  <2>2. lines \in [1..N -> LineType]
    BY <2>1
  <2>3. lines \in Seq(LineType)
    BY <1>1, <2>2
  <2> HIDE DEF lines
  <2>4. Len(lines) = N
    BY <1>1, <2>2, <2>3, LenProperties
  <2> QED BY <2>3, <2>4 DEF lines
<1> HIDE DEF lines
<1>4. 0 \in S
  <2> DEFINE p == SubSeq(lines, 1, 0)
  <2>1. Replay(Empty, NoLines) = Empty
    BY ReplayNothing
  <2>2. p = NoLines
    BY <1>3, PrefixIs
  <2> HIDE DEF p
  <2>3. RebuiltAs(Replay(Empty, p), t, {})
    BY <1>2, <2>1, <2>2
  <2>4. upTo(0) = {} /\ 0 \in 0..N
    BY <1>1
  <2> HIDE DEF upTo
  <2> QED BY <2>3, <2>4 DEF p
<1>5. ASSUME NEW n \in 0..(N - 1), n \in S
      PROVE  n + 1 \in S
  <2> DEFINE v == after(n)
             u == after(n + 1)
             k == t.order[n + 1]
  <2>1. n \in 0..(Len(lines) - 1) /\ n + 1 \in 1..N /\ n + 1 \in 0..N
    BY <1>1, <1>3
  <2>2. u = readJournalLine(v, lines[n + 1])
    BY <1>3, <2>1, ReplayPrefix
  <2>3. k \in Keys /\ lines[n + 1] = Line(t, k)
    BY <1>1, <1>3, <2>1
  <2>4. RebuiltAs(v, t, upTo(n))
    BY <1>5
  <2>5. upTo(n + 1) = upTo(n) \cup {k}
    <3>1. n \in Nat
      BY <1>1
    <3>2. \A i : i \in 1..(n + 1) <=> i \in 1..n \/ i = n + 1
      BY <3>1
    <3> QED BY <3>2
  <2> HIDE DEF u, v, k, upTo
  <2>6. RebuiltAs(u, t, upTo(n) \cup {k})
    BY <2>2, <2>3, <2>4, RebuiltStep
  <2> QED BY <2>1, <2>5, <2>6 DEF u
<1> HIDE DEF upTo
<1>6. 0..N \subseteq S
  <2> HIDE DEF S
  <2>1. S \in SUBSET (0..N)
    BY DEF S
  <2> QED BY <1>1, <1>4, <1>5, <2>1, UpTo
<1>7. RebuiltAs(after(N), t, upTo(N))
  BY <1>1, <1>6
<1>8. SubSeq(lines, 1, N) = lines
  BY <1>3, PrefixIs
<1>9. RebuiltAs(Replay(Empty, lines), t, Known(t))
  BY <1>1, <1>7, <1>8
<1>10. Rebuilt(t) = Holds(Replay(Empty, lines))
  BY DEF Rebuilt, lines
<1> HIDE DEF after
<1>11. Rebuilt(t).table = Replay(Empty, lines)
  BY <1>10 DEF Holds
<1> QED BY <1>9, <1>10, <1>11

(* Opening forgets the entries that were being edited, and only those. *)
RecoveredAs(u, t, gone) ==
  /\ u \in TableType /\ Known(u) = Known(t) \ gone
  /\ u.readable = t.readable \ gone /\ u.edited = t.edited \ gone
  /\ \A k \in Keys : u.lengths[k] = IF k \in gone THEN None ELSE t.lengths[k]

(* A finite set as a sequence has the elements of the set. *)
LEMMA SetToSeqIs ==
  ASSUME NEW S, IsFiniteSet(S), NEW s, s = SetToSeq(S)
  PROVE  /\ Cardinality(S) \in Nat /\ s \in [1..Cardinality(S) -> S]
         /\ S = {s[i] : i \in 1..Cardinality(S)}
<1> DEFINE N == Cardinality(S)
<1>1. N \in Nat /\ ExistsBijection(1..N, S)
  BY FS_CardinalityType
<1>2. PICK f : f \in Bijection(1..N, S)
  BY <1>1 DEF ExistsBijection
<1>3. f \in [1..N -> S] /\ IsInjective(f)
  BY <1>2 DEF Bijection, Injection
<1>4. s \in [1..N -> S] /\ IsInjective(s)
  BY <1>3 DEF SetToSeq
<1>5. IsFiniteSet(1..N) /\ Cardinality(1..N) = N
  BY <1>1, FS_Interval
<1>6. s \in Injection(1..N, S)
  BY <1>4 DEF Injection
<1> HIDE DEF N
<1>7. s \in Surjection(1..N, S)
  BY <1>5, <1>6, FS_Injection DEF N
<1>8. \A x \in S : \E i \in 1..N : s[i] = x
  BY <1>7 DEF Surjection
<1> QED BY <1>1, <1>4, <1>8 DEF N

(* One entry more is forgotten. *)
LEMMA RecoveredStep ==
  ASSUME NEW t \in TableType, NEW gone, NEW v, RecoveredAs(v, t, gone), NEW k \in Keys,
         NEW u, u = readJournalLine(v, REMOVE(k))
  PROVE  RecoveredAs(u, t, gone \cup {k})
<1> DEFINE x == REMOVE(k)
<1>1. x \in LineType /\ x.op = "REMOVE" /\ x.key = k
  BY EmptyIs DEF REMOVE, LineType
<1> HIDE DEF x
<1>2. v \in TableType
  BY DEF RecoveredAs
<1>3. u = readJournalLine(v, x)
  BY DEF x
<1>4. u = Forget(v, k)
  BY <1>1, <1>2, <1>3, LineIs
<1>5. /\ u \in TableType /\ Known(u) = Known(v) \ {k} /\ u.readable = v.readable \ {k}
      /\ u.edited = v.edited \ {k}
      /\ \A j \in Keys : u.lengths[j] = IF j = k THEN None ELSE v.lengths[j]
  BY <1>2, <1>4, ForgetIs
<1> QED BY <1>5 DEF RecoveredAs

(* processJournal forgets every entry that is being edited. *)
LEMMA RecoveredIs ==
  ASSUME NEW t \in TableType
  PROVE  RecoveredAs(Recovered(t), t, t.edited)
<1> DEFINE ks == SetToSeq(t.edited)
           N  == Cardinality(t.edited)
<1>1. t.edited \in SUBSET Keys /\ IsFiniteSet(t.edited)
  <2>1. t.edited \in SUBSET Keys
    BY DEF TableType
  <2> QED BY <2>1, KeysAssumption, FS_Subset
<1>2. N \in Nat /\ ks \in [1..N -> t.edited] /\ t.edited = {ks[i] : i \in 1..N}
  BY <1>1, SetToSeqIs
<1> DEFINE lines == [n \in DOMAIN ks |-> REMOVE(ks[n])]
<1>3. Recovered(t) = Replay(t, lines)
  BY DEF Recovered
<1> HIDE DEF ks, N
<1> DEFINE upTo(n) == {ks[i] : i \in 1..n}
           after(n) == Replay(t, SubSeq(lines, 1, n))
           S == {n \in 0..N : RecoveredAs(after(n), t, upTo(n))}
<1>4. lines \in Seq(LineType) /\ Len(lines) = N /\ \A n \in 1..N : lines[n] = REMOVE(ks[n])
  <2>1. DOMAIN ks = 1..N /\ \A n \in 1..N : ks[n] \in Keys
    BY <1>1, <1>2
  <2>2. \A n \in 1..N : REMOVE(ks[n]) \in LineType
    BY <2>1, EmptyIs DEF REMOVE, LineType
  <2>3. lines \in [1..N -> LineType]
    BY <2>1, <2>2
  <2>4. lines \in Seq(LineType)
    BY <1>2, <2>3
  <2>5. \A n \in 1..N : lines[n] = REMOVE(ks[n])
    BY <2>1
  <2> HIDE DEF lines
  <2>6. Len(lines) = N
    BY <1>2, <2>3, <2>4, LenProperties
  <2> QED BY <2>4, <2>5, <2>6
<1> HIDE DEF lines
<1>5. 0 \in S
  <2> DEFINE p == SubSeq(lines, 1, 0)
  <2>1. Replay(t, NoLines) = t
    BY ReplayNothing
  <2>2. p = NoLines
    BY <1>4, PrefixIs
  <2>3. RecoveredAs(t, t, {})
    BY DEF RecoveredAs
  <2> HIDE DEF p
  <2>4. RecoveredAs(Replay(t, p), t, {})
    BY <2>1, <2>2, <2>3
  <2>5. upTo(0) = {} /\ 0 \in 0..N
    BY <1>2
  <2> HIDE DEF upTo
  <2> QED BY <2>4, <2>5 DEF p
<1>6. ASSUME NEW n \in 0..(N - 1), n \in S
      PROVE  n + 1 \in S
  <2> DEFINE v == after(n)
             u == after(n + 1)
             k == ks[n + 1]
  <2>1. n \in 0..(Len(lines) - 1) /\ n + 1 \in 1..N /\ n + 1 \in 0..N
    BY <1>2, <1>4
  <2>2. u = readJournalLine(v, lines[n + 1])
    BY <1>4, <2>1, ReplayPrefix
  <2>3. k \in Keys /\ lines[n + 1] = REMOVE(k)
    BY <1>1, <1>2, <1>4, <2>1
  <2>4. RecoveredAs(v, t, upTo(n))
    BY <1>6
  <2>5. upTo(n + 1) = upTo(n) \cup {k}
    <3>1. n \in Nat
      BY <1>2
    <3>2. \A i : i \in 1..(n + 1) <=> i \in 1..n \/ i = n + 1
      BY <3>1
    <3> QED BY <3>2
  <2> HIDE DEF u, v, k, upTo
  <2>6. RecoveredAs(u, t, upTo(n) \cup {k})
    BY <2>2, <2>3, <2>4, RecoveredStep
  <2> QED BY <2>1, <2>5, <2>6 DEF u
<1>7. t.edited = upTo(N)
  BY <1>2
<1> HIDE DEF upTo
<1>8. 0..N \subseteq S
  <2> HIDE DEF S
  <2>1. S \in SUBSET (0..N)
    BY DEF S
  <2> QED BY <1>2, <1>5, <1>6, <2>1, UpTo
<1>9. RecoveredAs(after(N), t, upTo(N))
  BY <1>2, <1>8
<1>10. SubSeq(lines, 1, N) = lines
  BY <1>4, PrefixIs
<1>11. RecoveredAs(Replay(t, lines), t, t.edited)
  BY <1>7, <1>9, <1>10
<1> QED BY <1>3, <1>11


-----------------------------------------------------------------------------
(* Sums.  The library's fold is the value of a recursive function on sets. *)

Some(s) == CHOOSE x \in s : TRUE

(* f[s] is the sum of g over s, of those that f has. *)
FoldOf(g, S, f) ==
  f = [s \in SUBSET S |-> IF s = {} THEN 0 ELSE f[s \ {Some(s)}] + g[Some(s)]]

(* Taking one element away. *)
LEMMA SomeIs ==
  ASSUME NEW s, IsFiniteSet(s), s # {}
  PROVE  /\ Some(s) \in s /\ IsFiniteSet(s \ {Some(s)})
         /\ Cardinality(s) \in Nat /\ Cardinality(s \ {Some(s)}) = Cardinality(s) - 1
<1>1. Some(s) \in s
  BY DEF Some
<1> QED BY <1>1, FS_RemoveElement, FS_CardinalityType

(* There is such a function. *)
LEMMA FoldExists ==
  ASSUME NEW S, IsFiniteSet(S), NEW g
  PROVE  \E f : FoldOf(g, S, f)
<1> DEFINE sum(f, s) == IF s = {} THEN 0 ELSE f[s \ {Some(s)}] + g[Some(s)]
           Upto(n, f) == \A s \in SUBSET S : Cardinality(s) <= n => f[s] = sum(f, s)
           N == Cardinality(S)
           T == {n \in 0..N : \E f : Upto(n, f)}
<1>1. N \in Nat /\ \A s \in SUBSET S : IsFiniteSet(s) /\ Cardinality(s) \in Nat /\ Cardinality(s) <= N
  BY FS_Subset, FS_CardinalityType
<1>2. \A s \in SUBSET S : s # {} => s \ {Some(s)} \in SUBSET S
                                    /\ Cardinality(s \ {Some(s)}) = Cardinality(s) - 1
  BY <1>1, SomeIs
<1>3. 0 \in T
  <2> DEFINE f == [s \in SUBSET S |-> 0]
  <2>1. ASSUME NEW s \in SUBSET S, Cardinality(s) <= 0
        PROVE  s = {}
    BY <1>1, <2>1, FS_EmptySet
  <2>2. Upto(0, f)
    BY <2>1
  <2> HIDE DEF Upto
  <2> QED BY <1>1, <2>2
<1>4. ASSUME NEW n \in 0..(N - 1), n \in T
      PROVE  n + 1 \in T
  <2>1. PICK f : Upto(n, f)
    BY <1>4
  <2> DEFINE h == [s \in SUBSET S |-> IF Cardinality(s) <= n THEN f[s] ELSE sum(f, s)]
  <2>2. ASSUME NEW s \in SUBSET S, Cardinality(s) <= n + 1
        PROVE  h[s] = sum(h, s)
    <3>1. h[s] = sum(f, s)
      BY <2>1
    <3>2. CASE s = {}
      BY <3>1, <3>2
    <3>3. CASE s # {}
      <4> DEFINE r == s \ {Some(s)}
      <4>1. r \in SUBSET S /\ Cardinality(r) = Cardinality(s) - 1 /\ Cardinality(s) \in Nat
        BY <1>1, <1>2, <3>3
      <4>2. Cardinality(r) <= n
        BY <1>1, <2>2, <4>1
      <4> HIDE DEF r
      <4>3. h[r] = f[r]
        BY <4>1, <4>2
      <4> HIDE DEF h
      <4> QED BY <3>1, <3>3, <4>3 DEF r
    <3> QED BY <3>2, <3>3
  <2> HIDE DEF h
  <2>3. Upto(n + 1, h)
    BY <2>2
  <2> HIDE DEF Upto
  <2> QED BY <1>1, <2>3
<1>5. N \in T
  <2> HIDE DEF T
  <2>1. T \in SUBSET (0..N)
    BY DEF T
  <2>2. 0..N \subseteq T
    BY <1>1, <1>3, <1>4, <2>1, UpTo
  <2> QED BY <1>1, <2>2
<1>6. PICK f : Upto(N, f)
  BY <1>5
<1> DEFINE h == [s \in SUBSET S |-> f[s]]
<1>7. ASSUME NEW s \in SUBSET S PROVE h[s] = sum(h, s)
  <2>1. h[s] = sum(f, s)
    BY <1>1, <1>6
  <2>2. s # {} => h[s \ {Some(s)}] = f[s \ {Some(s)}]
    BY <1>2
  <2> HIDE DEF h
  <2> QED BY <2>1, <2>2
<1>8. h = [s \in SUBSET S |-> sum(h, s)]
  BY <1>7
<1> QED BY <1>8 DEF FoldOf

(* Its value changes by what one term does; that of zeros is zero. *)
LEMMA FoldChanges ==
  ASSUME NEW S, IsFiniteSet(S), NEW g, NEW h, \A x \in S : g[x] \in Nat /\ h[x] \in Nat,
         NEW k, \A x \in S \ {k} : h[x] = g[x],
         NEW a, FoldOf(g, S, a), NEW b, FoldOf(h, S, b)
  PROVE  /\ a[S] \in Nat /\ b[S] \in Nat /\ (k \in S => a[S] + h[k] = b[S] + g[k])
         /\ (\A x \in S : g[x] = 0) => a[S] = 0
<1> DEFINE Same(s) == /\ a[s] \in Nat /\ b[s] \in Nat
                      /\ k \notin s => a[s] = b[s]
                      /\ k \in s => a[s] + h[k] = b[s] + g[k]
                      /\ (\A x \in S : g[x] = 0) => a[s] = 0
           N == Cardinality(S)
           T == {n \in 0..N : \A s \in SUBSET S : Cardinality(s) <= n => Same(s)}
<1>1. N \in Nat /\ \A s \in SUBSET S : IsFiniteSet(s) /\ Cardinality(s) \in Nat /\ Cardinality(s) <= N
  BY FS_Subset, FS_CardinalityType
<1>2. ASSUME NEW s \in SUBSET S, s # {}
      PROVE  /\ a[s] = a[s \ {Some(s)}] + g[Some(s)]
             /\ b[s] = b[s \ {Some(s)}] + h[Some(s)]
  BY <1>2 DEF FoldOf
<1>3. a[{}] = 0 /\ b[{}] = 0
  BY DEF FoldOf
<1>4. 0 \in T
  <2>1. ASSUME NEW s \in SUBSET S, Cardinality(s) <= 0
        PROVE  Same(s)
    <3>1. s = {}
      BY <1>1, <2>1, FS_EmptySet
    <3> QED BY <1>3, <3>1
  <2> HIDE DEF Same
  <2> QED BY <1>1, <2>1
<1>5. ASSUME NEW n \in 0..(N - 1), n \in T
      PROVE  n + 1 \in T
  <2>1. ASSUME NEW s \in SUBSET S, Cardinality(s) <= n + 1
        PROVE  Same(s)
    <3>1. CASE s = {}
      BY <1>3, <3>1
    <3>2. CASE s # {}
      <4> DEFINE x == Some(s)
                 r == s \ {x}
      <4>1. x \in s /\ Cardinality(s) \in Nat /\ Cardinality(r) = Cardinality(s) - 1
        BY <1>1, <3>2, SomeIs
      <4>2. Cardinality(r) <= n /\ r \in SUBSET S /\ x \in S
        BY <1>1, <2>1, <4>1
      <4>3. Same(r)
        <5> HIDE DEF Same, r
        <5> QED BY <1>5, <4>2
      <4>4. a[s] = a[r] + g[x] /\ b[s] = b[r] + h[x]
        BY <1>2, <3>2
      <4>5. k \in s <=> (k \in r \/ k = x)
        BY <4>1
      <4>6. k \notin r \/ k # x
        OBVIOUS
      <4>7. /\ g[x] \in Nat /\ h[x] \in Nat /\ (x # k => h[x] = g[x])
            /\ k \in s => g[k] \in Nat /\ h[k] \in Nat
        BY <4>2
      <4>8. (\A y \in S : g[y] = 0) => g[x] = 0
        BY <4>2
      <4> HIDE DEF x, r
      <4> QED BY <4>3, <4>4, <4>5, <4>6, <4>7, <4>8
    <3> QED BY <3>1, <3>2
  <2> HIDE DEF Same
  <2> QED BY <1>1, <2>1
<1>6. N \in T
  <2> HIDE DEF T
  <2>1. T \in SUBSET (0..N)
    BY DEF T
  <2>2. 0..N \subseteq T
    BY <1>1, <1>4, <1>5, <2>1, UpTo
  <2> QED BY <1>1, <2>2
<1>7. Same(S)
  <2> HIDE DEF Same
  <2> QED BY <1>1, <1>6
<1> QED BY <1>7

(* The sum of the lengths of an entry is such a value. *)
LEMMA SumIs ==
  ASSUME NEW g
  PROVE  IsFiniteSet(Index) /\ \E f : FoldOf(g, Index, f) /\ Sum(g) = f[Index]
<1> DEFINE f == CHOOSE a : FoldOf(g, Index, a)
<1>1. IsFiniteSet(Index)
  BY FS_Interval, ValueAssumption DEF Index
<1>2. FoldOf(g, Index, f)
  BY <1>1, FoldExists
<1>3. Sum(g) = f[Index]
  BY DEF Sum, FoldSet, MapThenFoldSet, FoldOf, Some
<1> QED BY <1>1, <1>2, <1>3


(* The total of the cache is one too, of the sums of its entries. *)
LEMMA TotalIs ==
  ASSUME NEW g, NEW h, h = [k \in Keys |-> Sum(g[k])]
  PROVE  \E f : FoldOf(h, Keys, f) /\ Total(g) = f[Keys]
<1> DEFINE TotalOf(f) == f = [s \in SUBSET Keys |-> IF s = {} THEN 0
                                ELSE f[s \ {Some(s)}] + Sum(g[Some(s)])]
           t == CHOOSE f : TotalOf(f)
<1>1. ASSUME NEW f
      PROVE  TotalOf(f) <=> FoldOf(h, Keys, f)
  <2>1. ASSUME NEW s \in SUBSET Keys, s # {}
        PROVE  h[Some(s)] = Sum(g[Some(s)])
    BY <2>1, KeysAssumption, FS_Subset, SomeIs
  <2>2. [s \in SUBSET Keys |-> IF s = {} THEN 0 ELSE f[s \ {Some(s)}] + Sum(g[Some(s)])]
          = [s \in SUBSET Keys |-> IF s = {} THEN 0 ELSE f[s \ {Some(s)}] + h[Some(s)]]
    BY <2>1
  <2> QED BY <2>2 DEF FoldOf
<1>2. \E f : TotalOf(f)
  BY <1>1, FoldExists, KeysAssumption
<1>3. TotalOf(t)
  <2> HIDE DEF TotalOf
  <2> QED BY <1>2
<1>4. Total(g) = t[Keys]
  BY DEF Total, FoldSet, MapThenFoldSet, Some
<1> HIDE DEF t, TotalOf
<1> QED BY <1>1, <1>3, <1>4

(* A sum of lengths is a number. *)
LEMMA SumType ==
  /\ \A g \in LengthType : Sum(g) \in Nat
  /\ Sum(None) = 0
<1>1. ASSUME NEW g \in LengthType, NEW i \in Index
      PROVE  g[i] \in Nat
  <2>1. g[i] \in Values \cup {0}
    BY DEF LengthType
  <2>2. \A n \in Values : n \in Nat
    BY ValueAssumption
  <2> QED BY <2>1, <2>2
<1>2. ASSUME NEW g \in LengthType
      PROVE  Sum(g) \in Nat /\ ((\A i \in Index : g[i] = 0) => Sum(g) = 0)
  <2>1. PICK f : FoldOf(g, Index, f) /\ Sum(g) = f[Index]
    BY SumIs
  <2>2. IsFiniteSet(Index)
    BY SumIs
  <2> QED BY <1>1, <2>1, <2>2, FoldChanges
<1>3. None \in LengthType /\ \A i \in Index : None[i] = 0
  BY EmptyIs DEF None
<1> QED BY <1>2, <1>3

(* The total length is one too, and changes by what the entry that changes does. *)
LEMMA TotalChanges ==
  ASSUME NEW g \in [Keys -> LengthType], NEW h \in [Keys -> LengthType], NEW k,
         \A j \in Keys \ {k} : h[j] = g[j]
  PROVE  /\ Total(g) \in Nat /\ Total(h) \in Nat
         /\ k \in Keys => /\ Sum(g[k]) \in Nat /\ Sum(h[k]) \in Nat
                          /\ Total(g) + Sum(h[k]) = Total(h) + Sum(g[k])
         /\ (\A j \in Keys : g[j] = None) => Total(g) = 0
<1> DEFINE gs == [j \in Keys |-> Sum(g[j])]
           hs == [j \in Keys |-> Sum(h[j])]
<1>1. /\ \A j \in Keys : gs[j] = Sum(g[j]) /\ hs[j] = Sum(h[j])
      /\ \A j \in Keys : gs[j] \in Nat /\ hs[j] \in Nat
      /\ \A j \in Keys \ {k} : hs[j] = gs[j]
      /\ (\A j \in Keys : g[j] = None) => \A j \in Keys : gs[j] = 0
  BY SumType
<1>2. PICK a : FoldOf(gs, Keys, a) /\ Total(g) = a[Keys]
  BY TotalIs
<1>3. PICK b : FoldOf(hs, Keys, b) /\ Total(h) = b[Keys]
  BY TotalIs
<1> HIDE DEF gs, hs
<1>4. /\ a[Keys] \in Nat /\ b[Keys] \in Nat /\ (k \in Keys => a[Keys] + hs[k] = b[Keys] + gs[k])
      /\ (\A j \in Keys : gs[j] = 0) => a[Keys] = 0
  BY <1>1, <1>2, <1>3, KeysAssumption, FoldChanges
<1> QED BY <1>1, <1>2, <1>3, <1>4
=============================================================================
