---------------------------- MODULE IngestProofs ----------------------------
(***************************************************************************)
(* Proofs about Ingest, for every value of its constants:                  *)
(*   TypeCorrect   the type invariant;                                     *)
(*   LossCorrect   a hole in the stored history was announced.             *)
(* A page holds consecutive records of one instance, since the ring does.  *)
(* A record that is new therefore has below it, down to the first of its   *)
(* page, only records of the page; between the page and the newest row,    *)
(* only records the gap warning names; and below that row, what the        *)
(* invariant says of the row, which was stored by an earlier poll.         *)
(***************************************************************************)
EXTENDS Ingest, NaturalSets, FiniteSetTheorems, SequenceTheorems, TLAPS

\* The ring is the end of what the instance has logged.
RingIsTail ==
    \A k \in DOMAIN ring :
        ring[k].instance = instance /\ ring[k].seq = lastSeq - Len(ring) + k

\* The page p is the records lo to hi of instance i.
PageIs(p, i, lo, hi) ==
    /\ \A r \in p : r.instance = i /\ r.seq \in lo..hi
    /\ \A s \in lo..hi : \E r \in p : r.seq = s
    /\ \A r, q \in p : r.seq = q.seq => r = q

PageIsRange ==
    page # {} => \E i \in 1..MaxInstances, lo, hi \in 1..MaxSeq :
                    lo <= hi /\ PageIs(page, i, lo, hi)

RowsSeen == \A r \in rows : <<r.instance, r.seq>> \in seen

\* The inductive invariant.
Ingested ==
    TypeOK /\ IsFiniteSet(page) /\ RingIsTail /\ PageIsRange /\ RowsSeen /\ LossIsReported

-----------------------------------------------------------------------------
(* The operators.                                                          *)

\* Max is the greatest element of a bounded set of numbers.
LEMMA MaxIs ==
    ASSUME NEW S \in SUBSET Nat, S # {}, NEW n \in Nat, \A x \in S : x <= n
    PROVE  Max(S) \in S /\ \A x \in S : x <= Max(S)
<1>1. \E x \in S : \A y \in S : x >= y
  BY Greatest
<1>2. Max(S) \in S /\ \A y \in S : Max(S) >= y
  BY <1>1 DEF Max
<1> QED
  BY <1>2

\* Min is the least element of a set of numbers.
LEMMA MinIs ==
    ASSUME NEW S \in SUBSET Nat, S # {}
    PROVE  Min(S) \in S /\ \A x \in S : Min(S) <= x
<1>1. \E x \in S : \A y \in S : x <= y
  BY Least
<1> QED
  BY <1>1 DEF Min

\* Newest returns the end of a sequence, n elements of it if there are as
\* many.
LEMMA NewestIs ==
    ASSUME NEW S, NEW s \in Seq(S), NEW n \in Nat \ {0}
    PROVE  /\ Newest(s, n) \in Seq(S)
           /\ Len(Newest(s, n)) <= n
           /\ Len(Newest(s, n)) <= Len(s)
           /\ \A k \in 1..Len(Newest(s, n)) :
                 Newest(s, n)[k] = s[Len(s) - Len(Newest(s, n)) + k]
<1> DEFINE first == Max({1, Len(s) - n + 1})
<1>1. Len(s) \in Nat /\ \A k \in 1..Len(s) : s[k] \in S
  BY LenProperties
<1>2. first \in Nat \ {0} /\ (first = 1 \/ first = Len(s) - n + 1) /\ first >= Len(s) - n + 1
  <2>1. \E x \in {1, Len(s) - n + 1} : \A y \in {1, Len(s) - n + 1} : x >= y
    BY <1>1
  <2>2. first \in {1, Len(s) - n + 1} /\ \A y \in {1, Len(s) - n + 1} : first >= y
    BY <2>1 DEF Max
  <2> HIDE DEF first
  <2> QED
    BY <1>1, <2>2
<1> HIDE DEF first
<1>3. /\ SubSeq(s, first, Len(s)) \in Seq(S)
      /\ Len(SubSeq(s, first, Len(s))) =
            IF first <= Len(s) THEN Len(s) - first + 1 ELSE 0
      /\ \A k \in 1..(Len(s) - first + 1) :
            SubSeq(s, first, Len(s))[k] = s[first + k - 1]
  BY <1>1, <1>2, SubSeqProperties
<1>4. Newest(s, n) = SubSeq(s, first, Len(s))
  BY DEF Newest, first
<1> DEFINE t == Newest(s, n)
<1> HIDE DEF t
<1>5. t \in Seq(S) /\ Len(t) = IF first <= Len(s) THEN Len(s) - first + 1 ELSE 0
  BY <1>3, <1>4 DEF t
<1>6. Len(t) \in Nat /\ Len(t) <= n /\ Len(t) <= Len(s)
  BY <1>1, <1>2, <1>5
<1>7. ASSUME NEW k \in 1..Len(t) PROVE t[k] = s[Len(s) - Len(t) + k]
  <2>1. first <= Len(s) /\ Len(t) = Len(s) - first + 1
    BY <1>1, <1>2, <1>5, <1>7
  <2>2. k \in 1..(Len(s) - first + 1) /\ first + k - 1 = Len(s) - Len(t) + k
    BY <1>1, <1>2, <1>6, <1>7, <2>1
  <2> QED
    BY <1>3, <1>4, <2>2 DEF t
<1> QED
  BY <1>5, <1>6, <1>7 DEF t

\* Cursor is the greatest number stored of an instance, 0 if there is none.
LEMMA CursorIs ==
    ASSUME TypeOK, NEW i
    PROVE  /\ Cursor(i) \in 0..MaxSeq
           /\ \A q \in rows : q.instance = i => q.seq <= Cursor(i)
           /\ Cursor(i) # 0 =>
                 \E q \in rows : q.instance = i /\ q.seq = Cursor(i)
<1> DEFINE S == {0} \cup {r.seq : r \in {q \in rows : q.instance = i}}
<1>1. \A q \in rows : q.seq \in 1..MaxSeq
  BY DEF TypeOK, Record
<1>2. MaxSeq \in Nat
  BY IngestGiven DEF IngestAssumption
<1>3. S \in SUBSET Nat /\ S # {} /\ \A x \in S : x <= MaxSeq
  BY <1>1, <1>2
<1>4. Max(S) \in S /\ \A x \in S : x <= Max(S)
  BY <1>2, <1>3, MaxIs
<1>5. Cursor(i) = Max(S)
  BY DEF Cursor
<1>6. \A q \in rows : q.instance = i => q.seq \in S
  OBVIOUS
<1>7. \A x \in S : x # 0 => \E q \in rows : q.instance = i /\ q.seq = x
  OBVIOUS
<1> HIDE DEF S
<1>8. Cursor(i) \in S /\ \A x \in S : x <= Cursor(i)
  BY <1>4, <1>5
<1>9. Cursor(i) \in 0..MaxSeq
  <2>1. Cursor(i) \in Nat /\ Cursor(i) <= MaxSeq
    BY <1>3, <1>8
  <2> QED
    BY <1>2, <2>1
<1>10. \A q \in rows : q.instance = i => q.seq <= Cursor(i)
  BY <1>6, <1>8
<1> QED
  BY <1>7, <1>8, <1>9, <1>10

\* What the page of an instance covers.
LEMMA GapIs ==
    ASSUME TypeOK, NEW i \in 1..MaxInstances, NEW lo \in 1..MaxSeq, NEW hi \in 1..MaxSeq,
           lo <= hi, PageIs(page, i, lo, hi)
    PROVE  /\ Gap(i) \subseteq 1..MaxSeq
           /\ \A s \in 1..MaxSeq : Cursor(i) < s /\ s < lo => s \in Gap(i)
<1> DEFINE fetched == {r.seq : r \in {q \in page : q.instance = i}}
<1>1. MaxSeq \in Nat
  BY IngestGiven DEF IngestAssumption
<1>2. fetched = lo..hi
  <2>1. fetched \subseteq lo..hi
    BY DEF PageIs
  <2>2. \A s \in lo..hi : s \in fetched
    BY DEF PageIs
  <2> QED
    BY <2>1, <2>2
<1>3. Min(fetched) = lo /\ Max(fetched) = hi
  <2>1. fetched \in SUBSET Nat /\ fetched # {} /\ \A x \in fetched : x <= MaxSeq
    BY <1>1, <1>2
  <2>2. Min(fetched) \in fetched /\ \A x \in fetched : Min(fetched) <= x
    BY <2>1, MinIs
  <2>3. Max(fetched) \in fetched /\ \A x \in fetched : x <= Max(fetched)
    BY <1>1, <2>1, MaxIs
  <2> HIDE DEF fetched
  <2> QED
    BY <1>1, <1>2, <2>2, <2>3
<1>4. Gap(i) = IF \/ hi >= Cursor(i) + 1 /\ lo > Cursor(i) + 1
                  \/ hi - lo + 1 > Cardinality(fetched)
               THEN ((Cursor(i) + 1)..hi) \ fetched ELSE {}
  BY <1>3 DEF Gap
<1>5. Cursor(i) \in 0..MaxSeq
  BY CursorIs
<1> HIDE DEF fetched
<1>6. Gap(i) \subseteq (Cursor(i) + 1)..hi
  BY <1>4
<1>7. ASSUME NEW s \in 1..MaxSeq, Cursor(i) < s, s < lo PROVE s \in Gap(i)
  <2>1. hi >= Cursor(i) + 1 /\ lo > Cursor(i) + 1
    BY <1>1, <1>5, <1>7
  <2>2. s \in (Cursor(i) + 1)..hi /\ s \notin fetched
    BY <1>1, <1>2, <1>5, <1>7
  <2> QED
    BY <1>4, <2>1, <2>2
<1> QED
  BY <1>1, <1>5, <1>6, <1>7

-----------------------------------------------------------------------------
(* The steps.                                                              *)

\* The pages that PollOnce fetches are consecutive records of one instance.
LEMMA FetchIngested == Ingested /\ Fetch => Ingested'
<1> SUFFICES ASSUME Ingested, Fetch PROVE Ingested'
  OBVIOUS
<1> DEFINE newest == Newest(ring, FetchLimit)
           n == Len(newest)
<1>1. /\ page' = {newest[k] : k \in DOMAIN newest}
      /\ UNCHANGED <<instance, lastSeq, ring, rows, now, faults, seen, alarms>>
  BY DEF Fetch
<1>2. /\ ring \in Seq(Record) /\ Len(ring) \in Nat /\ DOMAIN ring = 1..Len(ring)
      /\ \A k \in 1..Len(ring) : ring[k] \in Record
  BY LenProperties DEF Ingested, TypeOK
<1>3. FetchLimit \in Nat \ {0} /\ MaxSeq \in Nat /\ MaxInstances \in Nat \ {0}
  BY IngestGiven DEF IngestAssumption
<1>4. /\ newest \in Seq(Record) /\ n <= FetchLimit /\ n <= Len(ring)
      /\ \A k \in 1..n : newest[k] = ring[Len(ring) - n + k]
  BY <1>2, <1>3, NewestIs
<1>5. n \in Nat /\ DOMAIN newest = 1..n /\ newest \in [1..n -> Record]
  BY <1>4, LenProperties
<1>6. lastSeq \in 0..MaxSeq /\ instance \in 1..MaxInstances
  BY DEF Ingested, TypeOK
<1> HIDE DEF newest, n
<1>7. \A k \in 1..n : newest[k].instance = instance /\ newest[k].seq = lastSeq - n + k
  <2> SUFFICES ASSUME NEW k \in 1..n
               PROVE  newest[k].instance = instance /\ newest[k].seq = lastSeq - n + k
    OBVIOUS
  <2>1. Len(ring) - n + k \in 1..Len(ring)
    BY <1>2, <1>4, <1>5
  <2>2. /\ ring[Len(ring) - n + k].instance = instance
        /\ ring[Len(ring) - n + k].seq = lastSeq - Len(ring) + (Len(ring) - n + k)
    BY <1>2, <2>1 DEF Ingested, RingIsTail
  <2> QED
    BY <1>2, <1>4, <1>5, <1>6, <2>2
<1>8. page' \subseteq Record
  BY <1>1, <1>5
<1>9. IsFiniteSet(page') /\ Cardinality(page') <= FetchLimit
  <2>1. IsFiniteSet(1..n) /\ Cardinality(1..n) = n
    BY <1>5, FS_Interval
  <2>2. newest \in Surjection(1..n, page')
    BY <1>1, <1>5 DEF Surjection
  <2>3. IsFiniteSet(page') /\ Cardinality(page') <= n
    BY <2>1, <2>2, FS_Surjection
  <2>4. Cardinality(page') \in Nat
    BY <2>3, FS_CardinalityType
  <2> QED
    BY <1>3, <1>4, <1>5, <2>3, <2>4
<1>10. PageIsRange'
  <2> SUFFICES ASSUME page' # {}
               PROVE  \E i \in 1..MaxInstances, lo, hi \in 1..MaxSeq :
                          lo <= hi /\ PageIs(page', i, lo, hi)
    BY DEF PageIsRange
  <2>1. n >= 1
    BY <1>1, <1>5
  <2>2. lastSeq - n + 1 \in 1..MaxSeq /\ lastSeq \in 1..MaxSeq /\ lastSeq - n + 1 <= lastSeq
    <3>1. newest[1].seq \in 1..MaxSeq
      BY <1>5, <2>1 DEF Record
    <3>2. newest[1].seq = lastSeq - n + 1
      BY <1>5, <1>7, <2>1
    <3> QED
      BY <1>3, <1>5, <1>6, <2>1, <3>1, <3>2
  <2>3. \A r \in page' : r.instance = instance /\ r.seq \in (lastSeq - n + 1)..lastSeq
    BY <1>1, <1>5, <1>6, <1>7
  <2>4. \A s \in (lastSeq - n + 1)..lastSeq : \E r \in page' : r.seq = s
    <3> SUFFICES ASSUME NEW s \in (lastSeq - n + 1)..lastSeq
                 PROVE  \E r \in page' : r.seq = s
      OBVIOUS
    <3>1. s - lastSeq + n \in 1..n /\ lastSeq - n + (s - lastSeq + n) = s
      BY <1>5, <1>6
    <3> QED
      BY <1>1, <1>5, <1>7, <3>1
  <2>5. \A r, q \in page' : r.seq = q.seq => r = q
    <3> SUFFICES ASSUME NEW j \in 1..n, NEW k \in 1..n, newest[j].seq = newest[k].seq
                 PROVE  newest[j] = newest[k]
      BY <1>1, <1>5
    <3>1. j = k
      BY <1>5, <1>6, <1>7
    <3> QED
      BY <3>1
  <2>6. PageIs(page', instance, lastSeq - n + 1, lastSeq)
    BY <2>3, <2>4, <2>5 DEF PageIs
  <2> QED
    BY <1>6, <2>2, <2>6
<1>11. TypeOK'
  BY <1>1, <1>8, <1>9 DEF Ingested, TypeOK
<1> QED
  BY <1>1, <1>9, <1>10, <1>11 DEF Ingested, RingIsTail, RowsSeen, LossIsReported

\* A record is logged: the ring stays the end of the log.
LEMMA LogIngested == Ingested /\ Log => Ingested'
<1> SUFFICES ASSUME Ingested, Log PROVE Ingested'
  OBVIOUS
<1> DEFINE row  == [instance |-> instance, seq |-> lastSeq + 1, time |-> now]
           full == Append(ring, row)
<1>1. /\ lastSeq < MaxSeq /\ lastSeq' = lastSeq + 1 /\ ring' = Newest(full, RingSize)
      /\ UNCHANGED <<instance, page, rows, now, faults, seen, alarms>>
  BY DEF Log
<1>2. RingSize \in Nat \ {0} /\ MaxSeq \in Nat /\ MaxTime \in Nat
  BY IngestGiven DEF IngestAssumption
<1>3. /\ lastSeq \in 0..MaxSeq /\ instance \in 1..MaxInstances /\ now \in 0..MaxTime
      /\ ring \in Seq(Record)
  BY DEF Ingested, TypeOK
<1>4. row \in Record /\ row.instance = instance /\ row.seq = lastSeq + 1
  BY <1>1, <1>2, <1>3 DEF Record
<1>5. Len(ring) \in Nat /\ DOMAIN ring = 1..Len(ring)
  BY <1>3, LenProperties
<1> HIDE DEF row
<1>6. /\ full \in Seq(Record) /\ Len(full) = Len(ring) + 1
      /\ \A k \in 1..Len(ring) : full[k] = ring[k]
      /\ full[Len(ring) + 1] = row
  BY <1>3, <1>4, AppendProperties
<1> HIDE DEF full
<1>7. \A k \in 1..(Len(ring) + 1) : /\ full[k].instance = instance
                                  /\ full[k].seq = lastSeq - Len(ring) + k
  <2> SUFFICES ASSUME NEW k \in 1..(Len(ring) + 1)
               PROVE  full[k].instance = instance /\ full[k].seq = lastSeq - Len(ring) + k
    OBVIOUS
  <2>1. CASE k = Len(ring) + 1
    BY <1>3, <1>4, <1>5, <1>6, <2>1
  <2>2. CASE k \in 1..Len(ring)
    BY <1>5, <1>6, <2>2 DEF Ingested, RingIsTail
  <2> QED
    BY <1>5, <2>1, <2>2
<1>8. /\ ring' \in Seq(Record) /\ Len(ring') <= RingSize /\ Len(ring') <= Len(full)
      /\ \A k \in 1..Len(ring') : ring'[k] = full[Len(full) - Len(ring') + k]
  BY <1>1, <1>2, <1>6, NewestIs
<1>9. Len(ring') \in Nat /\ DOMAIN ring' = 1..Len(ring')
  BY <1>8, LenProperties
<1>10. RingIsTail'
  <2>1. ASSUME NEW k \in 1..Len(ring')
        PROVE  ring'[k].instance = instance' /\ ring'[k].seq = lastSeq' - Len(ring') + k
    <3>1. Len(full) - Len(ring') + k \in 1..(Len(ring) + 1)
      BY <1>5, <1>6, <1>8, <1>9
    <3>2. full[Len(full) - Len(ring') + k].seq = lastSeq - Len(ring) + (Len(full) - Len(ring') + k)
      BY <1>7, <3>1
    <3>3. lastSeq - Len(ring) + (Len(full) - Len(ring') + k) = lastSeq' - Len(ring') + k
      BY <1>1, <1>3, <1>5, <1>6, <1>9
    <3>4. instance' = instance
      BY <1>1
    <3> QED
      BY <1>7, <1>8, <3>1, <3>2, <3>3, <3>4
  <2> QED
    BY <1>9, <2>1, Zenon DEF RingIsTail
<1>11. TypeOK'
  BY <1>1, <1>2, <1>3, <1>8 DEF Ingested, TypeOK
<1>12. PageIsRange'
  BY <1>1 DEF Ingested, PageIsRange, PageIs
<1> QED
  BY <1>1, <1>10, <1>11, <1>12 DEF Ingested, RowsSeen, LossIsReported

\* What store leaves: every record of the page is stored or was known, and
\* what is missing below it is in the gap.
LEMMA StoreIngested == Ingested /\ Store => Ingested'
<1> SUFFICES ASSUME Ingested, Store PROVE Ingested'
  OBVIOUS
<1> DEFINE fresh == {r \in page : ~\E q \in rows : q.instance = r.instance /\ q.seq = r.seq}
<1>1. /\ page # {} /\ page' = {}
      /\ alarms' = alarms \cup UNION {{<<i, s>> : s \in Gap(i)} :
                                         i \in {r.instance : r \in page}}
      /\ UNCHANGED <<instance, lastSeq, ring, now>>
  BY DEF Store
<1>2. \/ /\ rows' = rows \cup fresh
         /\ seen' = seen \cup {<<r.instance, r.seq>> : r \in fresh}
         /\ faults' = faults
      \/ Fault /\ rows' = rows /\ seen' = seen
  BY DEF Store
<1>3. PICK i \in 1..MaxInstances, lo \in 1..MaxSeq, hi \in 1..MaxSeq :
         lo <= hi /\ PageIs(page, i, lo, hi)
  BY <1>1 DEF Ingested, PageIsRange
<1>4. TypeOK /\ page \subseteq Record /\ rows \subseteq Record
  BY DEF Ingested, TypeOK
<1>5. /\ Gap(i) \subseteq 1..MaxSeq
      /\ \A s \in 1..MaxSeq : Cursor(i) < s /\ s < lo => s \in Gap(i)
  BY <1>3, <1>4, GapIs
<1>6. alarms' = alarms \cup {<<i, s>> : s \in Gap(i)}
  <2>1. {r.instance : r \in page} = {i}
    BY <1>1, <1>3 DEF PageIs
  <2> QED
    BY <1>1, <2>1
<1>7. \A r \in page : r.instance = i /\ r.seq \in 1..MaxSeq
  BY <1>3, <1>4 DEF PageIs, Record
<1>8. TypeOK'
  <2>1. alarms' \subseteq Names
    BY <1>4, <1>5, <1>6 DEF TypeOK, Names
  <2>2. page' \subseteq Record /\ Cardinality(page') <= FetchLimit
    BY <1>1, FS_EmptySet, IngestGiven DEF IngestAssumption
  <2>3. CASE rows' = rows \cup fresh /\ seen' = seen \cup {<<r.instance, r.seq>> : r \in fresh}
             /\ faults' = faults
    <3>1. rows' \subseteq Record /\ seen' \subseteq Names
      BY <1>4, <1>7, <2>3 DEF TypeOK, Names
    <3>2. \A r, q \in rows' : r.instance = q.instance /\ r.seq = q.seq => r = q
      BY <1>3, <1>4, <2>3 DEF TypeOK, PageIs
    <3> QED
      BY <1>1, <1>4, <2>1, <2>2, <2>3, <3>1, <3>2 DEF TypeOK
  <2>4. CASE Fault /\ rows' = rows /\ seen' = seen
    <3>1. faults' \in 0..MaxFaults
      BY <1>4, <2>4, IngestGiven DEF TypeOK, Fault, IngestAssumption
    <3> QED
      BY <1>1, <1>4, <2>1, <2>2, <2>4, <3>1 DEF TypeOK
  <2> QED
    BY <1>2, <2>3, <2>4
<1>9. RowsSeen'
  BY <1>2 DEF Ingested, RowsSeen
<1>10. LossIsReported'
  <2>0. seen \subseteq seen' /\ alarms \subseteq alarms' /\ seen \subseteq Names
    BY <1>1, <1>2, <1>4 DEF TypeOK
  <2>1. ASSUME NEW name \in seen, NEW s \in 1..(name[2] - 1)
        PROVE  <<name[1], s>> \in seen' \cup alarms'
    BY <2>0, <2>1 DEF Ingested, LossIsReported
  <2>2. ASSUME rows' = rows \cup fresh, NEW r \in fresh, NEW s \in 1..(r.seq - 1),
               seen' = seen \cup {<<q.instance, q.seq>> : q \in fresh}
        PROVE  <<i, s>> \in seen' \cup alarms'
    <3>1. /\ r \in page /\ r.instance = i /\ r.seq \in lo..hi /\ s \in 1..MaxSeq
          /\ lo \in Nat /\ hi \in Nat /\ s \in Nat
      BY <1>3, <1>7, <2>2, IngestGiven DEF PageIs, IngestAssumption
    <3>2. /\ Cursor(i) \in 0..MaxSeq
          /\ \A q \in rows : q.instance = i => q.seq <= Cursor(i)
          /\ Cursor(i) # 0 => \E q \in rows : q.instance = i /\ q.seq = Cursor(i)
      BY <1>4, CursorIs
    <3>3. CASE s <= Cursor(i)
      <4>1. PICK q \in rows : q.instance = i /\ q.seq = Cursor(i)
        BY <3>1, <3>2, <3>3
      <4>2. <<i, Cursor(i)>> \in seen
        BY <4>1 DEF Ingested, RowsSeen
      <4>3. CASE s = Cursor(i)
        BY <2>0, <4>2, <4>3
      <4>4. CASE s < Cursor(i)
        <5>1. s \in 1..(Cursor(i) - 1)
          BY <3>1, <3>2, <4>4
        <5> DEFINE name == <<i, Cursor(i)>>
        <5>2. name \in seen /\ s \in 1..(name[2] - 1) /\ name[1] = i
          BY <4>2, <5>1
        <5> HIDE DEF name
        <5> QED
          BY <2>1, <5>2
      <4> QED
        BY <3>1, <3>2, <3>3, <4>3, <4>4
    <3>4. CASE Cursor(i) < s /\ s < lo
      BY <1>5, <1>6, <3>1, <3>4
    <3>5. CASE Cursor(i) < s /\ lo <= s
      <4>1. s \in lo..hi
        BY <2>2, <3>1, <3>5
      <4>2. PICK p \in page : p.seq = s
        BY <1>3, <4>1 DEF PageIs
      <4>3. p.instance = i /\ p \in fresh
        BY <1>7, <3>1, <3>2, <3>5, <4>2
      <4>4. <<p.instance, p.seq>> \in seen'
        BY <2>2, <4>3
      <4> QED
        BY <4>2, <4>3, <4>4
    <3> QED
      BY <3>1, <3>2, <3>3, <3>4, <3>5
  <2>3. ASSUME NEW name \in seen', NEW s \in 1..(name[2] - 1)
        PROVE  <<name[1], s>> \in seen' \cup alarms'
    <3>1. CASE name \in seen
      BY <2>1, <2>3, <3>1
    <3>2. CASE name \notin seen
      <4>1. PICK r \in fresh : name = <<r.instance, r.seq>>
        BY <1>2, <2>3, <3>2
      <4>2. name[1] = i /\ name[2] = r.seq
        BY <1>7, <4>1
      <4>3. /\ rows' = rows \cup fresh
            /\ seen' = seen \cup {<<q.instance, q.seq>> : q \in fresh}
        BY <1>2, <2>3, <3>2
      <4> HIDE DEF fresh
      <4> QED
        BY <2>2, <2>3, <4>1, <4>2, <4>3
    <3> QED
      BY <3>1, <3>2
  <2> QED
    BY <2>3 DEF LossIsReported
<1>11. RingIsTail' /\ PageIsRange' /\ IsFiniteSet(page')
  BY <1>1, FS_EmptySet DEF Ingested, RingIsTail, PageIsRange
<1> QED
  BY <1>8, <1>9, <1>10, <1>11 DEF Ingested

\* What is pruned stays in the history; a crash loses a page and no more; a
\* new run of frps starts with an empty ring.
LEMMA OthersIngested ==
    Ingested /\ (FrpsRestart \/ Prune \/ Crash \/ Tick \/ UNCHANGED vars) => Ingested'
<1> SUFFICES ASSUME Ingested, FrpsRestart \/ Prune \/ Crash \/ Tick \/ UNCHANGED vars
             PROVE  Ingested'
  OBVIOUS
<1>1. /\ TypeOK /\ MaxSeq \in Nat /\ MaxInstances \in Nat \ {0} /\ MaxTime \in Nat
      /\ MaxFaults \in Nat /\ FetchLimit \in Nat \ {0} /\ RingSize \in Nat \ {0}
  BY IngestGiven DEF Ingested, IngestAssumption
<1>2. CASE FrpsRestart
  <2>1. TypeOK'
    BY <1>1, <1>2, EmptySeq DEF FrpsRestart, TypeOK
  <2>2. ring' = <<>> /\ UNCHANGED <<page, rows, seen, alarms>>
    BY <1>2 DEF FrpsRestart
  <2>3. RingIsTail'
    BY <2>2 DEF RingIsTail
  <2> QED
    BY <2>1, <2>2, <2>3 DEF Ingested, PageIsRange, RowsSeen, LossIsReported
<1>3. CASE Prune
  <2>1. /\ rows' \subseteq rows
        /\ UNCHANGED <<instance, lastSeq, ring, page, now, faults, seen, alarms>>
    BY <1>3 DEF Prune
  <2>2. TypeOK'
    BY <1>1, <2>1 DEF TypeOK
  <2> QED
    BY <2>1, <2>2 DEF Ingested, RingIsTail, PageIsRange, RowsSeen, LossIsReported
<1>4. CASE Crash
  <2>1. page' = {} /\ UNCHANGED <<instance, lastSeq, ring, rows, now, seen, alarms>>
    BY <1>4 DEF Crash
  <2>2. faults' \in 0..MaxFaults
    BY <1>1, <1>4 DEF Crash, Fault, TypeOK
  <2>3. TypeOK'
    BY <1>1, <2>1, <2>2, FS_EmptySet DEF TypeOK
  <2> QED
    BY <2>1, <2>3, FS_EmptySet DEF Ingested, RingIsTail, PageIsRange, RowsSeen, LossIsReported
<1>5. CASE Tick
  <2>1. TypeOK'
    BY <1>1, <1>5 DEF Tick, TypeOK
  <2> QED
    BY <1>5, <2>1 DEF Tick, Ingested, RingIsTail, PageIsRange, RowsSeen, LossIsReported
<1>6. CASE UNCHANGED vars
  BY <1>6 DEF vars, Ingested, TypeOK, RingIsTail, PageIsRange, RowsSeen, LossIsReported
<1> QED
  BY <1>2, <1>3, <1>4, <1>5, <1>6

-----------------------------------------------------------------------------
\* Nothing is logged, fetched or stored at first.
LEMMA InitIngested == Init => Ingested
<1> SUFFICES ASSUME Init PROVE Ingested
  OBVIOUS
<1>1. TypeOK
  BY EmptySeq, FS_EmptySet, IngestGiven DEF Init, TypeOK, IngestAssumption
<1> QED
  BY <1>1, FS_EmptySet
  DEF Init, Ingested, RingIsTail, PageIsRange, RowsSeen, LossIsReported

\* Every step keeps the invariant.
LEMMA StepIngested == Ingested /\ [Next]_vars => Ingested'
BY LogIngested, FetchIngested, StoreIngested, OthersIngested DEF Next

\* TypeOK: in particular no record is stored twice, and no page is larger
\* than frps makes them (InsertAccessRecords, ListAccessLog).
THEOREM TypeCorrect == Spec => []TypeOK
<1>1. Ingested => TypeOK
  BY DEF Ingested
<1> QED
  BY <1>1, InitIngested, StepIngested, PTL DEF Spec

\* LossIsReported: whatever polls fail and whatever frps overwrites in
\* between, every hole below a stored record was announced (Poller.store).
THEOREM LossCorrect == Spec => []LossIsReported
<1>1. Ingested => LossIsReported
  BY DEF Ingested
<1> QED
  BY <1>1, InitIngested, StepIngested, PTL DEF Spec

=============================================================================
