---------------------------- MODULE MemtableProofs ----------------------------
(***************************************************************************)
(* However many samples a series takes, and in whatever order of requests, *)
(* the memtable with its sorted copy is the buffer that it promises to be. *)
(***************************************************************************)
EXTENDS Memtable, DataLemmas

-----------------------------------------------------------------------------
(* The inductive invariant.                                                *)

\* Samples have their places in the order of their sequence numbers.
Numbered ==
    /\ \A i \in DOMAIN memtable : memtable[i].seq_no < next_seq_no
    /\ \A i, j \in DOMAIN memtable : i < j => memtable[i].seq_no < memtable[j].seq_no
MemtableInv == TypeOK /\ Numbered /\ SortedCopy

\* A sequence of numbered samples can be sorted, and part of it too.
LEMMA NumberedSortable ==
    ASSUME NEW s \in Seq(BufferedSample),
           \A i, j \in DOMAIN s : i < j => s[i].seq_no < s[j].seq_no
    PROVE  Sortable(ToSet(s))
  <1> DEFINE n == Len(s)
  <1>1. n \in Nat /\ DOMAIN s = 1 .. n OBVIOUS
  <1>2. \A i \in 1 .. n : s[i] \in BufferedSample OBVIOUS
  <1> HIDE DEF n
  <1>3. s \in [1 .. n -> ToSet(s)] /\ \A x \in ToSet(s) : \E i \in 1 .. n : s[i] = x
    <2>1. \A i \in 1 .. n : s[i] \in ToSet(s) BY <1>1 DEF ToSet
    <2>2. s = [i \in 1 .. n |-> s[i]] BY <1>1
    <2>3. \A x \in ToSet(s) : \E i \in 1 .. n : s[i] = x BY <1>1 DEF ToSet
    <2> QED BY <2>1, <2>2, <2>3
  <1>4. s \in Surjection(1 .. n, ToSet(s)) BY <1>3 DEF Surjection
  <1>5. IsFiniteSet(1 .. n) BY <1>1, FS_Interval
  <1>6. IsFiniteSet(ToSet(s)) BY <1>4, <1>5, FS_Surjection
  <1>7. \A x \in ToSet(s) : x \in BufferedSample BY <1>2, <1>3
  <1>8. \A x \in BufferedSample : x.timestamp_ms \in Int /\ x.seq_no \in Int
    <2>1. \A x \in BufferedSample : x.timestamp_ms \in Timestamps /\ x.seq_no \in 0 .. MaxWrites
      BY DEF BufferedSample
    <2>2. Timestamps \subseteq Int /\ 0 .. MaxWrites \subseteq Int BY MemtableAssumption
    <2> QED BY <2>1, <2>2
  <1>9. ASSUME NEW x \in ToSet(s), NEW y \in ToSet(s), x.seq_no = y.seq_no PROVE x = y
    <2>1. PICK i \in 1 .. n : s[i] = x BY <1>3
    <2>2. PICK j \in 1 .. n : s[j] = y BY <1>3
    <2>3. x.seq_no \in Int /\ ~(x.seq_no < y.seq_no) /\ ~(y.seq_no < x.seq_no)
      BY <1>7, <1>8, <1>9
    <2>4. ~(i < j) /\ ~(j < i) BY <1>1, <2>1, <2>2, <2>3
    <2>5. i = j BY <1>1, <2>4
    <2> QED BY <2>1, <2>2, <2>5
  <1> QED BY <1>6, <1>7, <1>8, <1>9 DEF Sortable

\* LastOf is what Prepared keeps.
LEMMA LastOfFacts ==
    ASSUME NEW S, Sortable(S)
    PROVE  /\ LastOf(S) = LastOnes(S) /\ LastOf(S) \subseteq S /\ Sortable(LastOf(S))
           /\ \A x, y \in LastOf(S) : x.timestamp_ms = y.timestamp_ms => x = y
           /\ \A x \in S : HasTime(LastOf(S), x)
  <1>1. LastOf(S) = LastOnes(S) /\ LastOf(S) \subseteq S BY DEF LastOf, LastOnes
  <1>2. Sortable(LastOf(S)) BY <1>1, SortablePart
  <1>3. \A x, y \in LastOf(S) : x.timestamp_ms = y.timestamp_ms => x = y
    BY DEF LastOf, Sortable
  <1>4. ASSUME NEW x \in S PROVE HasTime(LastOf(S), x)
    <2> DEFINE T == {y \in S : y.timestamp_ms = x.timestamp_ms}
    <2>1. Sortable(T) /\ T # {} BY SortablePart
    <2>2. PICK m \in T : \A y \in T : y = m \/ Earlier(y, m) BY <2>1, LastOne
    <2>3. m \in S /\ m.timestamp_ms = x.timestamp_ms OBVIOUS
    <2>4. ASSUME NEW y \in S, y.timestamp_ms = m.timestamp_ms PROVE y.seq_no <= m.seq_no
      <3>1. y = m \/ Earlier(y, m) BY <2>2, <2>3, <2>4
      <3> QED BY <2>3, <2>4, <3>1 DEF Sortable, Earlier
    <2>5. m \in LastOf(S) BY <2>3, <2>4 DEF LastOf
    <2> QED BY <2>3, <2>5 DEF HasTime
  <1> QED BY <1>1, <1>2, <1>3, <1>4

\* The last samples of older and newer ones.
LEMMA LastOfUnion ==
    ASSUME NEW S, NEW old, NEW new, Sortable(S), S = old \union new,
           \A x \in old, y \in new : x.seq_no < y.seq_no
    PROVE  \A x : x \in LastOf(S) <=>
           \/ x \in LastOf(new)
           \/ x \in LastOf(old) /\ ~HasTime(LastOf(new), x)
  <1>1. Sortable(new) /\ Sortable(old) BY SortablePart
  <1>2. LastOf(new) \subseteq new /\ \A x \in new : HasTime(LastOf(new), x) BY <1>1, LastOfFacts
  <1>3. \A x \in S : x.seq_no \in Int /\ x.timestamp_ms \in Int BY DEF Sortable
  <1>4. ASSUME NEW x \in LastOf(S) PROVE x \in LastOf(new) \/ (x \in LastOf(old) /\ ~HasTime(LastOf(new), x))
    <2>1. x \in S /\ \A y \in S : y.timestamp_ms = x.timestamp_ms => y.seq_no <= x.seq_no
      BY DEF LastOf
    <2>2. CASE x \in new BY <2>1, <2>2 DEF LastOf
    <2>3. CASE x \in old
      <3>1. x \in LastOf(old) BY <2>1, <2>3 DEF LastOf
      <3>2. ~HasTime(LastOf(new), x)
        <4> SUFFICES ASSUME NEW y \in LastOf(new), y.timestamp_ms = x.timestamp_ms PROVE FALSE
          BY DEF HasTime
        <4>1. y \in new /\ y \in S BY <1>2
        <4>2. x.seq_no < y.seq_no /\ y.seq_no <= x.seq_no BY <2>1, <2>3, <4>1
        <4> QED BY <1>3, <2>1, <4>1, <4>2
      <3> QED BY <3>1, <3>2
    <2> QED BY <2>1, <2>2, <2>3
  <1>5. ASSUME NEW x \in LastOf(new) PROVE x \in LastOf(S)
    <2>1. x \in new /\ x \in S /\ \A y \in new : y.timestamp_ms = x.timestamp_ms => y.seq_no <= x.seq_no
      BY DEF LastOf
    <2>2. \A y \in old : y.seq_no <= x.seq_no BY <1>3, <2>1
    <2> QED BY <2>1, <2>2 DEF LastOf
  <1>6. ASSUME NEW x \in LastOf(old), ~HasTime(LastOf(new), x) PROVE x \in LastOf(S)
    <2>1. x \in old /\ x \in S /\ \A y \in old : y.timestamp_ms = x.timestamp_ms => y.seq_no <= x.seq_no
      BY DEF LastOf
    <2>2. ASSUME NEW y \in new PROVE y.timestamp_ms # x.timestamp_ms
      <3>1. PICK z \in LastOf(new) : z.timestamp_ms = y.timestamp_ms BY <1>2 DEF HasTime
      <3> QED BY <1>6, <3>1 DEF HasTime
    <2> QED BY <2>1, <2>2 DEF LastOf
  <1> QED BY <1>4, <1>5, <1>6

\* Nothing to list.
LEMMA NothingInOrder == InOrder({}) = << >> /\ LastOf({}) = {} /\ ToSet(<< >>) = {}
  <1>1. LastOf({}) = {} /\ ToSet(<< >>) = {} BY DEF LastOf, ToSet
  <1>2. Sortable({}) BY FS_EmptySet DEF Sortable
  <1>3. << >> \in Seq({}) /\ Ascending(<< >>) BY DEF Ascending
  <1>4. InOrder({}) = << >> BY <1>1, <1>2, <1>3, InOrderOf
  <1> QED BY <1>1, <1>4

\* The refreshed copy lists the last samples of all.
LEMMA RefreshedFacts ==
    ASSUME MemtableInv
    PROVE  /\ Sortable(ToSet(memtable)) /\ Refreshed \in Seq(BufferedSample)
           /\ InTime(Refreshed) /\ ToSet(Refreshed) = LastOf(ToSet(memtable))
           /\ Refreshed = InOrder(LastOf(ToSet(memtable)))
  <1> DEFINE n == Len(memtable)
             old == SubSeq(memtable, 1, sorted_len)
             S == ToSet(memtable)
  <1>1. /\ memtable \in Seq(BufferedSample) /\ memtable_sorted \in Seq(BufferedSample)
        /\ sorted_len \in 0 .. n /\ n \in Nat /\ DOMAIN memtable = 1 .. n
        /\ \A i, j \in DOMAIN memtable : i < j => memtable[i].seq_no < memtable[j].seq_no
        /\ memtable_sorted = InOrder(LastOf(ToSet(old)))
    BY DEF MemtableInv, TypeOK, Numbered, SortedCopy
  <1>2. Sortable(S) BY <1>1, NumberedSortable
  <1>3. /\ Sortable(LastOf(S)) /\ LastOf(S) \subseteq S /\ LastOf(S) = LastOnes(S)
    BY <1>2, LastOfFacts
  <1>4. \A x \in S : x \in BufferedSample BY <1>1 DEF ToSet
  <1> HIDE DEF S, n
  <1>5. SUFFICES ASSUME TRUE
                 PROVE  /\ Refreshed \in Seq(S) /\ InTime(Refreshed) /\ ToSet(Refreshed) = LastOf(S)
    <2>1. DOMAIN Refreshed = 1 .. Len(Refreshed) /\ Len(Refreshed) \in Nat BY <1>5
    <2>2. Refreshed \in Seq(LastOf(S))
      <3>1. \A i \in DOMAIN Refreshed : Refreshed[i] \in LastOf(S) BY <1>5 DEF ToSet
      <3> QED BY <1>5, <2>1, <3>1
    <2>3. Refreshed = InOrder(LastOf(S)) BY <1>3, <1>5, <2>2, InTimeListing
    <2>4. Refreshed \in Seq(BufferedSample) BY <1>4, <1>5
    <2> QED BY <1>2, <1>5, <2>3, <2>4 DEF S
  <1> HIDE DEF old
  <1>6. \A s : s = SubSeq(memtable, 1, n) => s = memtable BY <1>1 DEF n
  <1>7. CASE sorted_len = n
    <2>1. Refreshed = memtable_sorted BY <1>7 DEF Refreshed, n
    <2>2. old = memtable BY <1>6, <1>7 DEF old
    <2>3. memtable_sorted = InOrder(LastOf(S)) BY <1>1, <2>2 DEF S
    <2>4. /\ InOrder(LastOf(S)) \in Seq(LastOf(S)) /\ ToSet(InOrder(LastOf(S))) = LastOf(S)
      BY <1>3, InOrderFacts
    <2>5. InTime(InOrder(LastOf(S))) BY <1>2, <1>3, LastOfFacts, OneOfEach
    <2>6. InOrder(LastOf(S)) \in Seq(S) BY <1>3, <2>4
    <2> QED BY <2>1, <2>3, <2>4, <2>5, <2>6
  <1>8. CASE sorted_len = 0 /\ sorted_len # n
    <2>1. Refreshed = Prepared(Dirty) BY <1>8 DEF Refreshed, n
    <2>2. Dirty = memtable
      <3>1. sorted_len + 1 = 1 BY <1>8
      <3>2. Dirty = SubSeq(memtable, 1, n) BY <3>1 DEF Dirty, n
      <3> QED BY <1>6, <3>2
    <2>3. Refreshed = Prepared(memtable) BY <2>1, <2>2
    <2>4. Sortable(ToSet(memtable)) BY <1>2 DEF S
    <2> QED BY <1>3, <2>3, <2>4, PreparedFacts DEF S
  <1>9. CASE sorted_len # 0 /\ sorted_len # n
    <2> DEFINE O == ToSet(old)
               N == ToSet(Dirty)
               p == Prepared(Dirty)
    <2>1. Refreshed = Merge(memtable_sorted, p) BY <1>9 DEF Refreshed, n
    <2>2. sorted_len \in 1 .. n - 1 BY <1>1, <1>9
    <2>3. /\ old \in Seq(BufferedSample) /\ DOMAIN old = 1 .. sorted_len
          /\ \A i \in 1 .. sorted_len : old[i] = memtable[i]
      BY <1>1, <2>2 DEF old, n
    <2>4. /\ Dirty \in Seq(BufferedSample) /\ DOMAIN Dirty = 1 .. n - sorted_len
          /\ \A i \in 1 .. n - sorted_len : Dirty[i] = memtable[sorted_len + i]
      BY <1>1, <2>2 DEF Dirty, n
    <2>5. /\ \A i \in 1 .. n : i \in 1 .. sorted_len
                               \/ (i - sorted_len \in 1 .. n - sorted_len /\ sorted_len + (i - sorted_len) = i)
          /\ \A i \in 1 .. sorted_len : i \in 1 .. n
          /\ \A i \in 1 .. n - sorted_len : sorted_len + i \in 1 .. n
          /\ \A i \in 1 .. sorted_len, j \in 1 .. n - sorted_len : i < sorted_len + j
          /\ \A i, j \in 1 .. n - sorted_len : i < j => sorted_len + i < sorted_len + j
      BY <1>1, <2>2
    <2>6. S = O \union N
      <3>1. ASSUME NEW x \in S PROVE x \in O \union N
        <4>1. PICK i \in 1 .. n : memtable[i] = x BY <1>1 DEF S, ToSet
        <4>2. CASE i \in 1 .. sorted_len BY <2>3, <4>1, <4>2 DEF ToSet
        <4>3. CASE i - sorted_len \in 1 .. n - sorted_len /\ sorted_len + (i - sorted_len) = i
          BY <2>4, <4>1, <4>3 DEF ToSet
        <4> QED BY <2>5, <4>2, <4>3
      <3>2. ASSUME NEW x \in O PROVE x \in S
        <4>1. PICK i \in 1 .. sorted_len : old[i] = x BY <2>3 DEF ToSet
        <4> QED BY <1>1, <2>3, <2>5, <4>1 DEF S, ToSet
      <3>3. ASSUME NEW x \in N PROVE x \in S
        <4>1. PICK i \in 1 .. n - sorted_len : Dirty[i] = x BY <2>4 DEF ToSet
        <4> QED BY <1>1, <2>4, <2>5, <4>1 DEF S, ToSet
      <3> QED BY <3>1, <3>2, <3>3
    <2>7. \A x \in O, y \in N : x.seq_no < y.seq_no
      <3> SUFFICES ASSUME NEW x \in O, NEW y \in N PROVE x.seq_no < y.seq_no OBVIOUS
      <3>1. PICK i \in 1 .. sorted_len : old[i] = x BY <2>3 DEF ToSet
      <3>2. PICK j \in 1 .. n - sorted_len : Dirty[j] = y BY <2>4 DEF ToSet
      <3> QED BY <1>1, <2>3, <2>4, <2>5, <3>1, <3>2
    <2> HIDE DEF O, N
    <2>8. Sortable(O) /\ Sortable(N) /\ O \subseteq S /\ N \subseteq S BY <1>2, <2>6, SortablePart
    <2>9. p \in Seq(N) /\ InTime(p) /\ ToSet(p) = LastOf(N)
      BY <2>8, PreparedFacts, LastOfFacts DEF N
    <2> HIDE DEF p
    <2>10. p \in Seq(S) BY <2>8, <2>9
    <2>11. memtable_sorted = InOrder(LastOf(O)) BY <1>1 DEF O
    <2>12. /\ Sortable(LastOf(O)) /\ LastOf(O) \subseteq O
           /\ \A x, y \in LastOf(O) : x.timestamp_ms = y.timestamp_ms => x = y
      BY <2>8, LastOfFacts
    <2>13. /\ memtable_sorted \in Seq(LastOf(O)) /\ ToSet(memtable_sorted) = LastOf(O)
           /\ InTime(memtable_sorted)
      BY <2>11, <2>12, InOrderFacts, OneOfEach
    <2>14. memtable_sorted \in Seq(S) BY <2>8, <2>12, <2>13
    <2>15. \A x \in S : x.timestamp_ms \in Int BY <1>2 DEF Sortable
    <2>16. /\ Refreshed \in Seq(S) /\ InTime(Refreshed)
           /\ LastOf(N) \subseteq ToSet(Refreshed)
           /\ ToSet(Refreshed) \subseteq LastOf(O) \union LastOf(N)
           /\ \A x \in LastOf(O) : x \in ToSet(Refreshed) \/ HasTime(LastOf(N), x)
           /\ \A x \in ToSet(Refreshed) : x \in LastOf(N) \/ ~HasTime(LastOf(N), x)
      BY <2>1, <2>9, <2>10, <2>13, <2>14, <2>15, MergeFacts
    <2>17. \A x : x \in LastOf(S) <=>
           \/ x \in LastOf(N)
           \/ x \in LastOf(O) /\ ~HasTime(LastOf(N), x)
      BY <1>2, <2>6, <2>7, LastOfUnion
    <2>18. \A x : x \in ToSet(Refreshed) <=> x \in LastOf(S) BY <2>16, <2>17
    <2>19. ToSet(Refreshed) = LastOf(S) BY ONLY <2>18
    <2> QED BY <2>16, <2>19
  <1> QED BY <1>7, <1>8, <1>9
-----------------------------------------------------------------------------
(* The steps.                                                              *)

\* The first request finds nothing.
LEMMA InitInv == ASSUME Init PROVE MemtableInv
  <1>1. SubSeq(memtable, 1, sorted_len) = << >> BY DEF Init
  <1>2. SortedCopy BY <1>1, NothingInOrder DEF Init, SortedCopy
  <1>3. Numbered BY DEF Init, Numbered
  <1>4. reply.asked = << >> /\ reply.rows = << >> BY DEF Init
  <1>5. 0 \in 0 .. MaxWrites BY MemtableAssumption
  <1>6. TypeOK BY <1>4, <1>5 DEF Init, TypeOK
  <1> QED BY <1>2, <1>3, <1>6 DEF MemtableInv

\* A sample more; its number is greater than all.
LEMMA AppendInv ==
    ASSUME MemtableInv, NEW ts \in Timestamps, AppendSample(ts)
    PROVE  /\ MemtableInv' /\ Sortable(ToSet(memtable'))
           /\ ToSet(memtable') = ToSet(memtable)
                  \union {[timestamp_ms |-> ts, seq_no |-> next_seq_no]}
           /\ \A x \in ToSet(memtable) : x.seq_no < next_seq_no
  <1> DEFINE x == [timestamp_ms |-> ts, seq_no |-> next_seq_no]
             n == Len(memtable)
  <1>1. /\ memtable \in Seq(BufferedSample) /\ memtable_sorted \in Seq(BufferedSample)
        /\ sorted_len \in 0 .. n /\ next_seq_no \in 0 .. MaxWrites
        /\ n \in Nat /\ DOMAIN memtable = 1 .. n
    BY DEF MemtableInv, TypeOK
  <1>2. /\ next_seq_no < MaxWrites /\ next_seq_no' = next_seq_no + 1
        /\ memtable' = Append(memtable, x) /\ reply' = [asked |-> <<ts>>, rows |-> << >>]
        /\ UNCHANGED <<memtable_sorted, sorted_len>>
    BY DEF AppendSample
  <1>3. next_seq_no + 1 \in 0 .. MaxWrites BY <1>1, <1>2, MemtableAssumption
  <1>4. x \in BufferedSample BY <1>1 DEF BufferedSample
  <1>5. x.seq_no = next_seq_no OBVIOUS
  <1> HIDE DEF x, n
  <1>6. /\ memtable' \in Seq(BufferedSample) /\ Len(memtable') = n + 1
        /\ DOMAIN memtable' = 1 .. n + 1
        /\ memtable'[n + 1] = x /\ \A i \in 1 .. n : memtable'[i] = memtable[i]
    BY <1>1, <1>2, <1>4 DEF n
  <1>7. ToSet(memtable') = ToSet(memtable) \union {x}
    BY <1>1, <1>2, <1>4, AppendFacts
  <1>8. SubSeq(memtable', 1, sorted_len) = SubSeq(memtable, 1, sorted_len)
    <2>1. \A i \in 1 .. sorted_len : i \in 1 .. n BY <1>1
    <2>2. sorted_len \in Nat /\ sorted_len <= n + 1 /\ sorted_len <= n BY <1>1
    <2> QED BY <1>1, <1>6, <2>1, <2>2 DEF n
  <1>9. SortedCopy' BY <1>2, <1>8 DEF MemtableInv, SortedCopy
  <1>10. \A i \in 1 .. n : memtable[i].seq_no < next_seq_no /\ memtable[i].seq_no \in Int
    <2>1. \A i \in 1 .. n : memtable[i] \in BufferedSample BY <1>1 DEF n
    <2>2. \A y \in BufferedSample : y.seq_no \in 0 .. MaxWrites BY DEF BufferedSample
    <2>3. \A i \in 1 .. n : memtable[i].seq_no \in 0 .. MaxWrites BY <2>1, <2>2
    <2>4. \A i \in 1 .. n : memtable[i].seq_no < next_seq_no
      BY <1>1 DEF MemtableInv, Numbered
    <2> QED BY <2>3, <2>4
  <1>11. \A i \in 1 .. n + 1 : i = n + 1 \/ i \in 1 .. n BY <1>1
  <1>12. \A i \in 1 .. n + 1 : memtable'[i].seq_no < next_seq_no'
    BY <1>1, <1>2, <1>5, <1>6, <1>10, <1>11
  <1>13. ASSUME NEW i \in 1 .. n + 1, NEW j \in 1 .. n + 1, i < j
         PROVE  memtable'[i].seq_no < memtable'[j].seq_no
    <2>1. i \in 1 .. n BY <1>1, <1>13
    <2>2. CASE j = n + 1 BY <1>5, <1>6, <1>10, <2>1, <2>2
    <2>3. CASE j \in 1 .. n
      <3>1. memtable[i].seq_no < memtable[j].seq_no
        BY <1>1, <1>13, <2>1, <2>3 DEF MemtableInv, Numbered
      <3> QED BY <1>6, <2>1, <2>3, <3>1
    <2> QED BY <1>11, <2>2, <2>3
  <1>14. Numbered' BY <1>6, <1>12, <1>13 DEF Numbered
  <1>15. reply'.asked \in Seq(Int) /\ reply'.rows \in Seq(BufferedSample)
    <2>1. ts \in Int BY MemtableAssumption
    <2> QED BY <1>2, <2>1
  <1>16. sorted_len' \in 0 .. Len(memtable') BY <1>1, <1>2, <1>6
  <1>17. TypeOK' BY <1>1, <1>2, <1>3, <1>6, <1>15, <1>16 DEF TypeOK
  <1>18. \A y \in ToSet(memtable) : y.seq_no < next_seq_no BY <1>1, <1>10 DEF ToSet
  <1>19. Sortable(ToSet(memtable')) BY <1>6, <1>13, NumberedSortable
  <1> QED BY <1>7, <1>9, <1>14, <1>17, <1>18, <1>19 DEF MemtableInv, x

\* A read sorts what is new.
LEMMA ReadInv ==
    ASSUME MemtableInv, NEW a \in Timestamps, NEW b \in Timestamps, a <= b,
           NEW k \in 0 .. MaxWrites, ReadRange(a, b, k)
    PROVE  /\ MemtableInv'
           /\ LET found == InOrder({x \in LastOf(ToSet(memtable)) : x.timestamp_ms \in a .. b})
              IN  reply'.rows = SubSeq(found, 1, IF k < Len(found) THEN k ELSE Len(found))
  <1> DEFINE C == LastOf(ToSet(memtable))
             W == {x \in C : x.timestamp_ms \in a .. b}
             found == InOrder(W)
             n == Len(memtable)
  <1>1. /\ Sortable(ToSet(memtable)) /\ Refreshed \in Seq(BufferedSample)
        /\ InTime(Refreshed) /\ ToSet(Refreshed) = C /\ Refreshed = InOrder(C)
    BY RefreshedFacts
  <1>2. /\ memtable_sorted' = Refreshed /\ sorted_len' = n
        /\ reply' = [asked |-> <<a, b, k>>,
                     rows |-> IF k = 0 THEN << >> ELSE Slice(Refreshed, a, b, k)]
        /\ UNCHANGED <<memtable, next_seq_no>>
    BY DEF ReadRange
  <1>3. /\ memtable \in Seq(BufferedSample) /\ n \in Nat /\ next_seq_no \in 0 .. MaxWrites
    BY DEF MemtableInv, TypeOK
  <1>4. a \in Int /\ b \in Int /\ k \in Nat BY MemtableAssumption
  <1>5. \A x \in BufferedSample : x.timestamp_ms \in Int
    BY MemtableAssumption DEF BufferedSample
  <1>6. PICK f \in Seq(BufferedSample) :
            /\ InTime(f) /\ Slice(Refreshed, a, b, k) = Truncate(f, k)
            /\ ToSet(f) = {x \in C : a <= x.timestamp_ms /\ x.timestamp_ms <= b}
    BY <1>1, <1>4, <1>5, SliceFacts
  <1>7. \A x \in C : x.timestamp_ms \in Int
    <2>1. Sortable(C) BY <1>1, LastOfFacts
    <2> QED BY <2>1 DEF Sortable
  <1> HIDE DEF C
  <1>8. ToSet(f) = W
    <2>1. \A x \in C : x.timestamp_ms \in a .. b <=> a <= x.timestamp_ms /\ x.timestamp_ms <= b
      BY <1>4, <1>7
    <2> QED BY <1>6, <2>1
  <1>9. f = found
    <2>1. Sortable(C) BY <1>1, LastOfFacts DEF C
    <2>2. Sortable(W) BY <2>1, SortablePart
    <2> HIDE DEF W
    <2>3. \A i \in DOMAIN f : f[i] \in W BY <1>8 DEF ToSet
    <2>4. f \in Seq(W) BY <1>6, <2>3
    <2> QED BY <1>6, <1>8, <2>2, <2>4, InTimeListing
  <1> HIDE DEF found
  <1>10. /\ reply'.rows = SubSeq(f, 1, IF k < Len(f) THEN k ELSE Len(f))
         /\ reply'.rows \in Seq(BufferedSample)
    <2>1. Len(f) \in Nat BY <1>6
    <2>2. CASE k = 0 BY <1>2, <1>6, <2>1, <2>2
    <2>3. CASE k # 0
      <3>1. reply'.rows = Truncate(f, k) BY <1>2, <1>6, <2>3
      <3>2. k # NoLimit BY <1>4 DEF NoLimit
      <3>3. CASE k >= Len(f)
        <4>1. reply'.rows = f BY <3>1, <3>3 DEF Truncate
        <4>2. SubSeq(f, 1, Len(f)) = f BY <1>6
        <4>3. ~(k < Len(f)) BY <1>4, <2>1, <3>3
        <4> QED BY <1>6, <4>1, <4>2, <4>3
      <3>4. CASE ~(k >= Len(f))
        <4>1. reply'.rows = SubSeq(f, 1, k) BY <3>1, <3>2, <3>4 DEF Truncate
        <4>2. k < Len(f) BY <1>4, <2>1, <3>4
        <4>3. SubSeq(f, 1, k) \in Seq(BufferedSample) BY <1>4, <1>6, <2>1, <4>2
        <4> QED BY <4>1, <4>2, <4>3
      <3> QED BY <3>3, <3>4
    <2> QED BY <2>2, <2>3
  <1>11. SubSeq(memtable', 1, sorted_len') = memtable
    BY <1>2, <1>3
  <1>12. SortedCopy' BY <1>1, <1>2, <1>11 DEF SortedCopy, C
  <1>13. Numbered' BY <1>2 DEF MemtableInv, Numbered
  <1>14. reply'.asked \in Seq(Int) BY <1>2, <1>4
  <1>15. sorted_len' \in 0 .. Len(memtable') BY <1>2, <1>3
  <1>16. TypeOK' BY <1>1, <1>2, <1>3, <1>10, <1>14, <1>15 DEF TypeOK
  <1>17. MemtableInv' BY <1>12, <1>13, <1>16 DEF MemtableInv
  <1> QED BY <1>9, <1>10, <1>17 DEF found, W, C

\* A drain takes everything.
LEMMA DrainInv ==
    ASSUME MemtableInv, DrainAll
    PROVE  /\ MemtableInv'
           /\ reply' = [asked |-> << >>, rows |-> InOrder(LastOf(ToSet(memtable)))]
           /\ ToSet(memtable') = {} /\ next_seq_no' = next_seq_no
  <1>1. /\ Refreshed \in Seq(BufferedSample) /\ Refreshed = InOrder(LastOf(ToSet(memtable)))
    BY RefreshedFacts
  <1>2. /\ reply' = [asked |-> << >>, rows |-> IF memtable = << >> THEN << >> ELSE Refreshed]
        /\ next_seq_no' = next_seq_no
    BY DEF DrainAll
  <1>3. CASE memtable = << >>
    <2>1. UNCHANGED <<memtable, memtable_sorted, sorted_len, next_seq_no>>
      BY <1>3 DEF DrainAll
    <2>2. InOrder(LastOf(ToSet(memtable))) = << >> BY <1>3, NothingInOrder
    <2>3. reply' = [asked |-> << >>, rows |-> << >>] BY <1>2, <1>3
    <2>4. TypeOK' BY <2>1, <2>3 DEF MemtableInv, TypeOK
    <2>5. Numbered' /\ SortedCopy' BY <2>1 DEF MemtableInv, Numbered, SortedCopy
    <2>6. ToSet(memtable') = {} BY <1>3, <2>1, NothingInOrder
    <2> QED BY <1>2, <2>2, <2>3, <2>4, <2>5, <2>6 DEF MemtableInv
  <1>4. CASE memtable # << >>
    <2>1. memtable' = << >> /\ memtable_sorted' = << >> /\ sorted_len' = 0
      BY <1>4 DEF DrainAll, LengthAfterDrain
    <2>2. SubSeq(memtable', 1, sorted_len') = << >> BY <2>1
    <2>3. SortedCopy' BY <2>1, <2>2, NothingInOrder DEF SortedCopy
    <2>4. Numbered' BY <2>1 DEF Numbered
    <2>5. reply' = [asked |-> << >>, rows |-> Refreshed] BY <1>2, <1>4
    <2>6. sorted_len' \in 0 .. Len(memtable') BY <2>1
    <2>7. TypeOK' BY <1>1, <1>2, <2>1, <2>5, <2>6 DEF MemtableInv, TypeOK
    <2>8. ToSet(memtable') = {} BY <2>1, NothingInOrder
    <2> QED BY <1>1, <1>2, <2>3, <2>4, <2>5, <2>7, <2>8 DEF MemtableInv
  <1> QED BY <1>3, <1>4

\* All of them keep the invariant.
LEMMA NextInv == ASSUME MemtableInv, [Next]_vars PROVE MemtableInv'
  <1>1. ASSUME NEW ts \in Timestamps, AppendSample(ts) PROVE MemtableInv' BY <1>1, AppendInv
  <1>2. ASSUME NEW a \in Timestamps, NEW b \in Timestamps, NEW n \in 0 .. MaxWrites,
               a <= b, ReadRange(a, b, n)
        PROVE  MemtableInv'
    BY <1>2, ReadInv
  <1>3. CASE DrainAll BY <1>3, DrainInv
  <1>4. CASE UNCHANGED vars
    BY <1>4 DEF vars, MemtableInv, TypeOK, Numbered, SortedCopy
  <1> QED BY <1>1, <1>2, <1>3, <1>4 DEF Next

-----------------------------------------------------------------------------
(* The theorems.                                                           *)

\* The invariant holds.
THEOREM MemtableInvariant == Spec => []MemtableInv
  <1>1. Init => MemtableInv BY InitInv
  <1>2. MemtableInv /\ [Next]_vars => MemtableInv' BY NextInv
  <1> QED BY <1>1, <1>2, PTL DEF Spec

\* Every variable has its type, and the sorted copy is not longer than its source.
THEOREM TypeCorrect == Spec => []TypeOK
  <1>1. MemtableInv => TypeOK BY DEF MemtableInv
  <1> QED BY <1>1, MemtableInvariant, PTL

\* The sorted copy lists the last writes of what it stands for (refresh_memtable_cache).
THEOREM CopyCorrect == Spec => []SortedCopy
  <1>1. MemtableInv => SortedCopy BY DEF MemtableInv
  <1> QED BY <1>1, MemtableInvariant, PTL

\* The buffer's view.
Content == LastOf(ToSet(memtable))

\* Order is order, in either module.
LEMMA SameOrder == \A S : Promise!InOrder(S) = InOrder(S)
  <1>1. \A S : Promise!Cardinality(S) = Cardinality(S)
    BY DEF Promise!Cardinality, Cardinality
  <1>2. \A x, y : Promise!Earlier(x, y) <=> Earlier(x, y) BY DEF Promise!Earlier, Earlier
  <1> QED BY <1>1, <1>2 DEF Promise!InOrder, InOrder

\* A step of the memtable is one of the buffer.
LEMMA StepOfBuffer ==
    ASSUME MemtableInv, [Next]_vars
    PROVE  [Promise!Next]_<<Content, next_seq_no, reply>>
  <1> USE DEF Content
  <1>1. ASSUME NEW ts \in Timestamps, AppendSample(ts) PROVE Promise!Write(ts)
    <2> DEFINE x == [timestamp_ms |-> ts, seq_no |-> next_seq_no]
               S == ToSet(memtable)
               T == ToSet(memtable)'
    <2>1. Sortable(T) /\ T = S \union {x} /\ \A y \in S : y.seq_no < next_seq_no
      BY <1>1, AppendInv
    <2>3. x.timestamp_ms = ts /\ x.seq_no = next_seq_no OBVIOUS
    <2> HIDE DEF x, S, T
    <2>4. \A y : y \in LastOf(T) <=>
                    \/ y \in LastOf({x})
                    \/ y \in LastOf(S) /\ ~HasTime(LastOf({x}), y)
      <3>1. \A y \in S, z \in {x} : y.seq_no < z.seq_no BY <2>1, <2>3
      <3> QED BY <2>1, <3>1, LastOfUnion
    <2>5. LastOf({x}) = {x}
      <3>1. Sortable({x}) BY <2>1, SortablePart
      <3>2. x.seq_no \in Int BY <3>1 DEF Sortable
      <3> QED BY <3>2 DEF LastOf
    <2>6. \A y : HasTime({x}, y) <=> y.timestamp_ms = ts BY <2>3 DEF HasTime
    <2>7. LastOf(T) = {y \in LastOf(S) : y.timestamp_ms # ts} \union {x}
      BY <2>4, <2>5, <2>6
    <2>8. /\ next_seq_no < MaxWrites /\ next_seq_no' = next_seq_no + 1
          /\ reply' = [asked |-> <<ts>>, rows |-> << >>]
      BY <1>1 DEF AppendSample
    <2>9. LastOf(ToSet(memtable))' = LastOf(T) BY DEF T
    <2> QED BY <2>7, <2>8, <2>9 DEF Promise!Write, Promise!Reply, S, x
  <1>2. ASSUME NEW a \in Timestamps, NEW b \in Timestamps, NEW n \in 0 .. MaxWrites,
               a <= b, ReadRange(a, b, n)
        PROVE  Promise!Read(a, b, n)
    <2> DEFINE C == LastOf(ToSet(memtable))
               found == InOrder({x \in C : x.timestamp_ms \in a .. b})
    <2>1. reply'.rows = SubSeq(found, 1, IF n < Len(found) THEN n ELSE Len(found))
      BY <1>2, ReadInv
    <2>2. /\ UNCHANGED <<memtable, next_seq_no>>
          /\ reply' = [asked |-> <<a, b, n>>, rows |-> reply'.rows]
      BY <1>2 DEF ReadRange
    <2>3. UNCHANGED <<LastOf(ToSet(memtable)), next_seq_no>> BY <2>2
    <2> QED BY <2>1, <2>2, <2>3, SameOrder DEF Promise!Read, Promise!Reply
  <1>3. ASSUME DrainAll PROVE Promise!Drain
    <2>1. /\ reply' = [asked |-> << >>, rows |-> InOrder(LastOf(ToSet(memtable)))]
          /\ ToSet(memtable') = {} /\ next_seq_no' = next_seq_no
      BY <1>3, DrainInv
    <2>2. LastOf(ToSet(memtable))' = {} BY <2>1, NothingInOrder
    <2> QED BY <2>1, <2>2, SameOrder DEF Promise!Drain, Promise!Reply
  <1>4. CASE UNCHANGED vars
    <2>1. UNCHANGED <<Content, next_seq_no, reply>> BY <1>4 DEF vars
    <2> QED BY <2>1
  <1> QED BY <1>1, <1>2, <1>3, <1>4 DEF Next, Promise!Next

\* The memtable with its sorted copy implements the buffer: a read sees every write
\* before it, the last one of a timestamp wins, and a drain forgets nothing.
THEOREM ImplementsBuffer == Spec => BufferSpec
  <1>1. Init => Promise!Init
    BY NothingInOrder DEF Init, Promise!Init, Content
  <1>2. MemtableInv /\ [Next]_vars => [Promise!Next]_<<Content, next_seq_no, reply>>
    BY StepOfBuffer
  <1> QED BY <1>1, <1>2, MemtableInvariant, PTL DEF Spec, BufferSpec, Promise!Spec, Content

===============================================================================
