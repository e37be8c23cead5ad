--------------------------- MODULE SchedulerProofs ---------------------------
(***************************************************************************)
(* Proofs about Scheduler, for every set of pipelines and periods and any  *)
(* number of changes and elections: where the executor has a pipeline.     *)
(*                                                                         *)
(* The executor is a value that its methods change, so that the proofs are *)
(* about values first: what each method does to a good executor, and what  *)
(* it does to the set of the pipelines it has. The two folds over a set of *)
(* pipelines are unfolded by an induction over its cardinality.            *)
(***************************************************************************)
EXTENDS Scheduler, FiniteSetTheorems, WellFoundedInduction, SequenceTheorems, TLAPS

\* The pipelines that the executor e has in its buckets.
Has(e) ==
  {p \in Pipelines :
     \E per \in Periods : \E k \in DOMAIN e.buckets[per] : e.buckets[per][k].id = p}

\* A pipeline is in the bucket its index names, at one place.
Placed(e) ==
  \A per \in Periods : \A k \in DOMAIN e.buckets[per] :
    /\ e.indexes[e.buckets[per][k].id] = per
    /\ \A j \in DOMAIN e.buckets[per] :
         e.buckets[per][j].id = e.buckets[per][k].id => j = k

\* The ticker reads within its slice, and a bucket that still has the array of
\* the slice is not longer than it.
SliceOK(e) ==
  /\ e.iterating # 0 => e.next \in 1 .. Len(e.slice)
  /\ e.shared => e.iterating # 0 /\ Len(e.buckets[e.iterating]) <= Len(e.slice)

Good(e) == e \in Executor /\ Placed(e) /\ SliceOK(e)

\* There are finitely many pipelines, whose periods are theirs.
PipelinesInv ==
  /\ IsFiniteSet(Existing)
  /\ \A p \in Existing : pipelines[p].period \in Periods \cup {0}

\* What a goroutine is about to remove was deleted, what was deleted does not
\* come back, and the executor has no other pipelines.
DeletedInv ==
  /\ removals \subseteq deleted
  /\ deleted \cap Existing = {}
  /\ Has(pe) \subseteq Existing \cup deleted

\* The index of a pipeline that is due names its period, and the open executor
\* has only pipelines that are due or on their way out.
DueInv ==
  /\ \A p \in Pipelines : Due(p) => pe.indexes[p] = pipelines[p].period
  /\ executor = "open" => \A p \in Has(pe) : p \in removals \/ Due(p)

\* The inductive invariant.
IndInv == TypeOK /\ Good(pe) /\ PipelinesInv /\ DeletedInv /\ DueInv

-----------------------------------------------------------------------------
(* The methods of the executor.                                            *)

\* The fields of an executor.
LEMMA ExecutorFields ==
  ASSUME NEW e \in Executor
  PROVE  /\ e.buckets \in [Periods -> Seq(Pointer)]
         /\ e.indexes \in [Pipelines -> Periods \cup {0}]
         /\ e.iterating \in Periods \cup {0}
         /\ e.slice \in Seq(Pointer \cup {None})
         /\ e.next \in Nat
         /\ e.shared \in BOOLEAN
  BY DEF Executor

\* A bucket and its elements.
LEMMA Bucket ==
  ASSUME NEW e \in Executor, NEW per \in Periods
  PROVE  /\ e.buckets[per] \in Seq(Pointer)
         /\ DOMAIN e.buckets[per] = 1 .. Len(e.buckets[per])
         /\ Len(e.buckets[per]) \in Nat
         /\ \A k \in DOMAIN e.buckets[per] :
              e.buckets[per][k] \in Pointer /\ e.buckets[per][k].id \in Pipelines
<1>1. e.buckets[per] \in Seq(Pointer)
  BY ExecutorFields
<1>2. \A k \in 1 .. Len(e.buckets[per]) : e.buckets[per][k] \in Pointer
  BY <1>1, ElementOfSeq
<1> QED
  BY <1>1, <1>2, LenProperties DEF Pointer

\* Periods are positive.
LEMMA PeriodsPositive == Periods \subseteq Nat \ {0}
<1> SUFFICES ASSUME NEW per \in Periods PROVE per \in Nat \ {0}
  OBVIOUS
<1>1. PICK p \in Pipelines : per \in PeriodsOf[p]
  BY DEF Periods
<1>2. PeriodsOf[p] \subseteq Nat
  BY SchedulerAssumption
<1>3. per # 0
  BY Zenon DEF Periods
<1> QED
  BY <1>1, <1>2, <1>3

\* AddPipeline puts a pipeline that is not there in the bucket of its period.
LEMMA AddGood ==
  ASSUME NEW e, Good(e), NEW p \in Pipelines, NEW per \in Periods, p \notin Has(e)
  PROVE  /\ Good(AddPipeline(e, p, per))
         /\ Has(AddPipeline(e, p, per)) = Has(e) \cup {p}
         /\ AddPipeline(e, p, per).indexes = [e.indexes EXCEPT ![p] = per]
<1> DEFINE r == AddPipeline(e, p, per)
           b == e.buckets[per]
           x == [id |-> p, old |-> None]
<1> USE DEF Good
<1>1. /\ r.buckets = [e.buckets EXCEPT ![per] = Append(b, x)]
      /\ r.indexes = [e.indexes EXCEPT ![p] = per]
      /\ r.shared = (e.shared /\ e.iterating # per)
      /\ r.iterating = e.iterating /\ r.slice = e.slice /\ r.next = e.next
  BY DEF AddPipeline, Executor
<1>2. x \in Pointer /\ x.id = p
  BY DEF Pointer
<1>3. /\ Append(b, x) \in Seq(Pointer) /\ Len(Append(b, x)) = Len(b) + 1
      /\ \A k \in 1 .. Len(b) : Append(b, x)[k] = b[k]
      /\ Append(b, x)[Len(b) + 1] = x
  BY <1>2, Bucket, AppendProperties
<1>4. r \in Executor
  <2>1. r.buckets \in [Periods -> Seq(Pointer)] /\ r.indexes \in [Pipelines -> Periods \cup {0}]
    BY <1>1, <1>3, ExecutorFields
  <2> QED
    BY <1>1, <2>1, ExecutorFields DEF Executor, AddPipeline
<1>5. /\ r.buckets[per] = Append(b, x)
      /\ \A q \in Periods : q # per => r.buckets[q] = e.buckets[q]
  BY <1>1, ExecutorFields
<1>6. /\ DOMAIN r.buckets[per] = 1 .. Len(b) + 1
      /\ Len(b) \in Nat /\ DOMAIN b = 1 .. Len(b)
      /\ \A k \in 1 .. Len(b) : r.buckets[per][k].id = b[k].id
      /\ r.buckets[per][Len(b) + 1].id = p
  BY <1>2, <1>3, <1>5, Bucket, LenProperties
<1>7. \A q \in Periods : \A k \in DOMAIN e.buckets[q] :
        e.buckets[q][k].id \in Pipelines \ {p}
  BY Bucket DEF Has
<1>8. Placed(r)
  <2> SUFFICES ASSUME NEW q \in Periods, NEW k \in DOMAIN r.buckets[q]
               PROVE  /\ r.indexes[r.buckets[q][k].id] = q
                      /\ \A j \in DOMAIN r.buckets[q] :
                           r.buckets[q][j].id = r.buckets[q][k].id => j = k
    BY DEF Placed
  <2>1. \A i \in Pipelines \ {p} : r.indexes[i] = e.indexes[i]
    BY <1>1, ExecutorFields
  <2>2. r.indexes[p] = per
    BY <1>1, ExecutorFields
  <2>3. CASE q # per
    BY <2>1, <2>3, <1>5, <1>7 DEF Placed
  <2>4. CASE q = per
    <3>1. CASE k = Len(b) + 1
      BY <3>1, <2>2, <2>4, <1>6, <1>7
    <3>2. CASE k \in 1 .. Len(b)
      <4>0. k \in DOMAIN b /\ r.buckets[q][k].id = b[k].id /\ b[k].id \in Pipelines \ {p}
        BY <3>2, <2>4, <1>6, <1>7
      <4>1. r.indexes[r.buckets[q][k].id] = q
        BY <4>0, <2>1, <2>4 DEF Placed
      <4>2. ASSUME NEW j \in DOMAIN r.buckets[q],
                   r.buckets[q][j].id = r.buckets[q][k].id
            PROVE  j = k
        <5>1. j \in 1 .. Len(b)
          <6>1. r.buckets[q][j].id # p
            BY <4>0, <4>2
          <6> QED
            BY <6>1, <4>2, <2>4, <1>6, SMTT(30)
        <5>2. b[j].id = b[k].id
          BY <4>2, <5>1, <3>2, <2>4, <1>6
        <5> QED
          BY <5>1, <5>2, <3>2, <1>6 DEF Placed
      <4> QED
        BY <4>1, <4>2
    <3> QED
      BY <3>1, <3>2, <2>4, <1>6
  <2> QED
    BY <2>3, <2>4
<1>9. SliceOK(r)
  <2>1. r.iterating # 0 => r.next \in 1 .. Len(r.slice)
    BY <1>1 DEF SliceOK
  <2>2. ASSUME r.shared
        PROVE  r.iterating # 0 /\ Len(r.buckets[r.iterating]) <= Len(r.slice)
    <3>1. e.shared /\ e.iterating # per /\ e.iterating # 0
      BY <1>1, <2>2 DEF SliceOK
    <3>2. r.buckets[e.iterating] = e.buckets[e.iterating]
      BY <3>1, <1>5, ExecutorFields
    <3> QED
      BY <3>1, <3>2, <1>1 DEF SliceOK
  <2> QED
    BY <2>1, <2>2 DEF SliceOK
<1>10. Has(r) = Has(e) \cup {p}
  <2>1. ASSUME NEW q \in Has(r) PROVE q \in Has(e) \cup {p}
    <3>1. PICK z \in Periods : \E k \in DOMAIN r.buckets[z] : r.buckets[z][k].id = q
      BY DEF Has
    <3>2. PICK k \in DOMAIN r.buckets[z] : r.buckets[z][k].id = q
      BY <3>1
    <3>3. CASE z # per
      BY <3>2, <3>3, <1>5, q \in Pipelines DEF Has
    <3>4. CASE z = per /\ k \in 1 .. Len(b)
      BY <3>2, <3>4, <1>6, q \in Pipelines DEF Has
    <3>5. CASE z = per /\ k = Len(b) + 1
      BY <3>2, <3>5, <1>6
    <3> QED
      BY <3>2, <3>3, <3>4, <3>5, <1>6
  <2>2. ASSUME NEW q \in Has(e) PROVE q \in Has(r)
    <3>1. PICK z \in Periods : \E k \in DOMAIN e.buckets[z] : e.buckets[z][k].id = q
      BY DEF Has
    <3>2. PICK k \in DOMAIN e.buckets[z] : e.buckets[z][k].id = q
      BY <3>1
    <3>3. k \in DOMAIN r.buckets[z] /\ r.buckets[z][k].id = q
      <4>1. CASE z # per
        BY <4>1, <3>2, <1>5
      <4>2. CASE z = per
        BY <4>2, <3>2, <1>6
      <4> QED
        BY <4>1, <4>2
    <3> QED
      BY <3>3, q \in Pipelines DEF Has
  <2>3. p \in Has(r)
    <3>1. Len(b) + 1 \in DOMAIN r.buckets[per]
      BY <1>6
    <3> QED
      BY <3>1, <1>6 DEF Has
  <2> QED
    BY <2>1, <2>2, <2>3
<1> QED
  BY <1>1, <1>4, <1>8, <1>9, <1>10

\* The elements of a sequence without its k-th one.
LEMMA RemoveAtElements ==
  ASSUME NEW S, NEW s \in Seq(S), NEW k \in 1 .. Len(s)
  PROVE  /\ RemoveAt(s, k) \in Seq(S)
         /\ Len(RemoveAt(s, k)) = Len(s) - 1
         /\ \A i \in 1 .. Len(s) - 1 :
              RemoveAt(s, k)[i] = IF i < k THEN s[i] ELSE s[i + 1]
<1>1. Len(s) \in Nat
  BY LenProperties
<1>2. /\ SubSeq(s, 1, k - 1) \in Seq(S) /\ Len(SubSeq(s, 1, k - 1)) = k - 1
      /\ \A i \in 1 .. k - 1 : SubSeq(s, 1, k - 1)[i] = s[i]
  BY <1>1, SubSeqProperties
<1>3. /\ SubSeq(s, k + 1, Len(s)) \in Seq(S)
      /\ Len(SubSeq(s, k + 1, Len(s))) = Len(s) - k
      /\ \A i \in 1 .. Len(s) - k : SubSeq(s, k + 1, Len(s))[i] = s[i + k]
  BY <1>1, SubSeqProperties
<1> DEFINE a == SubSeq(s, 1, k - 1)
           b == SubSeq(s, k + 1, Len(s))
<1>4. RemoveAt(s, k) = a \o b
  BY DEF RemoveAt
<1>5. a \in Seq(S) /\ Len(a) = k - 1 /\ \A i \in 1 .. k - 1 : a[i] = s[i]
  BY <1>2
<1>6. b \in Seq(S) /\ Len(b) = Len(s) - k /\ \A i \in 1 .. Len(s) - k : b[i] = s[i + k]
  BY <1>3
<1> HIDE DEF a, b
<1>7. /\ a \o b \in Seq(S)
      /\ Len(a \o b) = Len(a) + Len(b)
      /\ \A i \in 1 .. Len(a) + Len(b) :
           (a \o b)[i] = IF i <= Len(a) THEN a[i] ELSE b[i - Len(a)]
  BY <1>5, <1>6, ConcatProperties
<1>8. ASSUME NEW i \in 1 .. Len(s) - 1
      PROVE  (a \o b)[i] = IF i < k THEN s[i] ELSE s[i + 1]
  <2>1. CASE i < k
    BY <2>1, <1>1, <1>5, <1>6, <1>7
  <2>2. CASE ~(i < k)
    <3>1. i - (k - 1) \in 1 .. Len(s) - k /\ (i - (k - 1)) + k = i + 1
      BY <2>2, <1>1
    <3>2. (a \o b)[i] = b[i - (k - 1)]
      BY <2>2, <1>1, <1>5, <1>6, <1>7
    <3>3. b[i - (k - 1)] = s[(i - (k - 1)) + k]
      BY <3>1, <1>6
    <3> QED
      BY <3>1, <3>2, <3>3, <2>2
  <2> QED
    BY <2>1, <2>2
<1> QED
  BY <1>1, <1>4, <1>5, <1>6, <1>7, <1>8

\* A sequence of which the first n elements are replaced by those of d and x.
LEMMA CutSequence ==
  ASSUME NEW S, NEW s \in Seq(S), NEW n \in Nat, n <= Len(s),
         NEW d \in Seq(S), Len(d) = n - 1, NEW x \in Seq(S), Len(x) = 1
  PROVE  /\ d \o x \o SubSeq(s, n + 1, Len(s)) \in Seq(S)
         /\ Len(d \o x \o SubSeq(s, n + 1, Len(s))) = Len(s)
<1> DEFINE z == SubSeq(s, n + 1, Len(s))
           w == d \o x
<1>1. Len(s) \in Nat
  BY LenProperties
<1>2. \A i \in n + 1 .. Len(s) : s[i] \in S
  BY <1>1, ElementOfSeq
<1>3. z \in Seq(S) /\ Len(z) = Len(s) - n
  BY <1>1, <1>2, SubSeqProperties
<1>4. w \in Seq(S) /\ Len(w) = Len(d) + Len(x)
  BY ConcatProperties
<1> HIDE DEF z, w
<1>5. w \o z \in Seq(S) /\ Len(w \o z) = Len(w) + Len(z)
  BY <1>3, <1>4, ConcatProperties, ZenonT(60)
<1>6. Len(w) + Len(z) = Len(s)
  BY <1>1, <1>3, <1>4
<1> QED
  BY <1>5, <1>6 DEF z, w

\* What Delete does with the place k of the bucket per.
LEMMA DeleteGood ==
  ASSUME NEW e, Good(e), NEW per \in Periods, NEW k \in DOMAIN e.buckets[per]
  PROVE  /\ Good(Delete(e, per, k))
         /\ Has(Delete(e, per, k)) = Has(e) \ {e.buckets[per][k].id}
         /\ Delete(e, per, k).indexes = e.indexes
<1> DEFINE r == Delete(e, per, k)
           b == e.buckets[per]
           d == RemoveAt(b, k)
           p == b[k].id
           cut == d \o <<None>> \o SubSeq(e.slice, Len(b) + 1, Len(e.slice))
<1> USE DEF Good
<1>1. /\ r.buckets = [e.buckets EXCEPT ![per] = d]
      /\ r.slice = IF e.shared /\ e.iterating = per THEN cut ELSE e.slice
      /\ r.shared = (e.shared /\ (e.iterating = per => Len(b) > 1))
      /\ r.indexes = e.indexes /\ r.iterating = e.iterating /\ r.next = e.next
  BY DEF Delete, Executor
<1>2. /\ b \in Seq(Pointer) /\ Len(b) \in Nat /\ DOMAIN b = 1 .. Len(b) /\ k \in 1 .. Len(b)
      /\ \A i \in DOMAIN b : b[i] \in Pointer /\ b[i].id \in Pipelines
  BY Bucket
<1>3. /\ d \in Seq(Pointer) /\ Len(d) = Len(b) - 1 /\ DOMAIN d = 1 .. Len(b) - 1
      /\ \A i \in 1 .. Len(b) - 1 : d[i] = IF i < k THEN b[i] ELSE b[i + 1]
  <2> HIDE DEF b
  <2>1. /\ d \in Seq(Pointer) /\ Len(d) = Len(b) - 1
        /\ \A i \in 1 .. Len(b) - 1 : d[i] = IF i < k THEN b[i] ELSE b[i + 1]
    BY <1>2, RemoveAtElements, ZenonT(60)
  <2> QED
    BY <2>1, LenProperties, SMTT(40)
<1>4. /\ r.buckets[per] = d
      /\ \A q \in Periods : q # per => r.buckets[q] = e.buckets[q]
  BY <1>1, ExecutorFields
<1>5. ASSUME e.shared, e.iterating = per
      PROVE  cut \in Seq(Pointer \cup {None}) /\ Len(cut) = Len(e.slice)
  <2>1. /\ e.slice \in Seq(Pointer \cup {None}) /\ Len(e.slice) \in Nat
        /\ Len(b) <= Len(e.slice)
    BY <1>5, ExecutorFields, LenProperties DEF SliceOK
  <2> DEFINE Elements == Pointer \cup {None}
             s == e.slice
             n == Len(b)
  <2>2. d \in Seq(Elements)
    <3>1. d \in [1 .. Len(d) -> Pointer]
      BY <1>3
    <3>2. d \in [1 .. Len(d) -> Elements] /\ Len(d) \in Nat
      BY <3>1, <1>2, <1>3
    <3> QED
      BY <3>2, SeqDef
  <2>3. s \in Seq(Elements) /\ n \in Nat /\ n <= Len(s) /\ Len(d) = n - 1 /\ None \in Elements
    BY <2>1, <1>2, <1>3
  <2>4. cut = d \o <<None>> \o SubSeq(s, n + 1, Len(s))
    OBVIOUS
  <2> HIDE DEF Elements, s, n, cut, d
  <2> DEFINE u == <<None>>
  <2> HIDE DEF u
  <2>5. /\ d \o u \o SubSeq(s, n + 1, Len(s)) \in Seq(Elements)
        /\ Len(d \o u \o SubSeq(s, n + 1, Len(s))) = Len(s)
    <3>1. u \in Seq(Elements) /\ Len(u) = 1
      BY <2>3 DEF u
    <3> QED
      BY <3>1, <2>2, <2>3, CutSequence, ZenonT(90)
  <2> QED
    BY <2>4, <2>5 DEF Elements, s, u
<1>6. r \in Executor
  <2>1. r.buckets \in [Periods -> Seq(Pointer)]
    BY <1>1, <1>3, ExecutorFields
  <2>2. r.slice \in Seq(Pointer \cup {None})
    BY <1>1, <1>5, ExecutorFields
  <2> QED
    BY <1>1, <2>1, <2>2, ExecutorFields DEF Executor, Delete
<1> DEFINE at(i) == IF i < k THEN i ELSE i + 1
<1>7. \A i \in DOMAIN d : /\ at(i) \in DOMAIN b /\ at(i) # k
                          /\ d[i] = b[at(i)]
                          /\ \A j \in DOMAIN d : at(j) = at(i) => j = i
  BY <1>2, <1>3, SMTT(30)
<1>8. \A i \in DOMAIN b : i # k => \E j \in DOMAIN d : d[j] = b[i]
  <2> SUFFICES ASSUME NEW i \in DOMAIN b, i # k PROVE \E j \in DOMAIN d : d[j] = b[i]
    OBVIOUS
  <2>1. CASE i < k
    <3>1. i \in DOMAIN d /\ d[i] = b[i]
      BY <2>1, <1>2, <1>3, SMTT(30)
    <3> QED
      BY <3>1
  <2>2. CASE i > k
    <3>1. i - 1 \in DOMAIN d /\ d[i - 1] = b[i]
      BY <2>2, <1>2, <1>3, SMTT(30)
    <3> QED
      BY <3>1
  <2> QED
    BY <2>1, <2>2, <1>2
<1> HIDE DEF at, d
<1>9. Placed(r)
  <2> SUFFICES ASSUME NEW q \in Periods, NEW i \in DOMAIN r.buckets[q]
               PROVE  /\ r.indexes[r.buckets[q][i].id] = q
                      /\ \A j \in DOMAIN r.buckets[q] :
                           r.buckets[q][j].id = r.buckets[q][i].id => j = i
    BY DEF Placed
  <2>1. CASE q # per
    BY <2>1, <1>1, <1>4 DEF Placed
  <2>2. CASE q = per
    <3>1. i \in DOMAIN d /\ r.buckets[q] = d
      BY <2>2, <1>4
    <3>2. r.indexes[d[i].id] = q
      BY <3>1, <2>2, <1>1, <1>7, SMTT(30) DEF Placed
    <3>3. ASSUME NEW j \in DOMAIN d, d[j].id = d[i].id PROVE j = i
      <4>1. at(j) = at(i)
        BY <3>1, <3>3, <1>7 DEF Placed
      <4> QED
        BY <4>1, <3>1, <1>7
    <3> QED
      BY <3>1, <3>2, <3>3
  <2> QED
    BY <2>1, <2>2
<1>10. SliceOK(r)
  <2>1. Len(r.slice) = Len(e.slice)
    BY <1>1, <1>5
  <2>2. r.iterating # 0 => r.next \in 1 .. Len(r.slice)
    BY <2>1, <1>1 DEF SliceOK
  <2>3. ASSUME r.shared
        PROVE  r.iterating # 0 /\ Len(r.buckets[r.iterating]) <= Len(r.slice)
    <3>1. e.shared /\ e.iterating # 0 /\ Len(e.buckets[e.iterating]) <= Len(e.slice)
      BY <1>1, <2>3 DEF SliceOK
    <3>2. CASE e.iterating = per
      <4>1. Len(e.slice) \in Nat
        BY ExecutorFields, LenProperties
      <4> QED
        BY <4>1, <3>1, <3>2, <2>1, <1>1, <1>2, <1>3, <1>4
    <3>3. CASE e.iterating # per
      <4>1. r.buckets[e.iterating] = e.buckets[e.iterating]
        BY <3>1, <3>3, <1>4, ExecutorFields
      <4> QED
        BY <4>1, <3>1, <2>1, <1>1
    <3> QED
      BY <3>2, <3>3
  <2> QED
    BY <2>2, <2>3 DEF SliceOK
<1>11. Has(r) = Has(e) \ {p}
  <2>1. ASSUME NEW q \in Has(r) PROVE q \in Has(e) /\ q # p
    <3>1. PICK z \in Periods : \E i \in DOMAIN r.buckets[z] : r.buckets[z][i].id = q
      BY DEF Has
    <3>2. PICK i \in DOMAIN r.buckets[z] : r.buckets[z][i].id = q
      BY <3>1
    <3>3. CASE z # per
      <4>1. i \in DOMAIN e.buckets[z] /\ e.buckets[z][i].id = q /\ e.indexes[q] = z
        BY <3>2, <3>3, <1>4 DEF Placed
      <4>2. e.indexes[p] = per
        BY DEF Placed
      <4> QED
        BY <4>1, <4>2, <3>3, q \in Pipelines DEF Has
    <3>4. CASE z = per
      <4>1. at(i) \in DOMAIN b /\ at(i) # k /\ b[at(i)].id = q
        BY <3>2, <3>4, <1>4, <1>7
      <4>2. q # p
        BY <4>1 DEF Placed
      <4> QED
        BY <4>1, <4>2, q \in Pipelines DEF Has
    <3> QED
      BY <3>3, <3>4
  <2>2. ASSUME NEW q \in Has(e), q # p PROVE q \in Has(r)
    <3>1. PICK z \in Periods : \E i \in DOMAIN e.buckets[z] : e.buckets[z][i].id = q
      BY DEF Has
    <3>2. PICK i \in DOMAIN e.buckets[z] : e.buckets[z][i].id = q
      BY <3>1
    <3>3. CASE z # per
      BY <3>2, <3>3, <1>4, q \in Pipelines DEF Has
    <3>4. CASE z = per
      <4>1. PICK j \in DOMAIN d : d[j] = b[i]
        BY <2>2, <3>2, <3>4, <1>8
      <4>2. j \in DOMAIN r.buckets[per] /\ r.buckets[per][j].id = q
        BY <4>1, <3>2, <3>4, <1>4
      <4> QED
        BY <4>2, q \in Pipelines DEF Has
    <3> QED
      BY <3>3, <3>4
  <2> QED
    BY <2>1, <2>2
<1> QED
  BY <1>1, <1>6, <1>9, <1>10, <1>11

\* RemovePipeline removes the pipeline from wherever it is.
LEMMA RemoveGood ==
  ASSUME NEW e, Good(e), NEW p \in Pipelines
  PROVE  /\ Good(RemovePipeline(e, p))
         /\ Has(RemovePipeline(e, p)) = Has(e) \ {p}
         /\ RemovePipeline(e, p).indexes = e.indexes
<1> DEFINE per == e.indexes[p]
           places == {k \in DOMAIN e.buckets[per] : e.buckets[per][k].id = p}
<1>1. \A q \in Periods : \A k \in DOMAIN e.buckets[q] :
        e.buckets[q][k].id = p => q = per /\ k \in places
  BY DEF Good, Placed
<1>2. CASE per = 0
  <2>1. p \notin Has(e)
    BY <1>1, <1>2, PeriodsPositive DEF Has
  <2> QED
    BY <1>2, <2>1 DEF RemovePipeline
<1>3. CASE per # 0 /\ places = {}
  <2>1. p \notin Has(e)
    BY <1>1, <1>3 DEF Has
  <2> QED
    BY <1>3, <2>1 DEF RemovePipeline
<1>4. CASE per # 0 /\ places # {}
  <2>1. per \in Periods
    BY <1>4, ExecutorFields DEF Good
  <2>2. PICK k \in places : TRUE
    BY <1>4
  <2>3. \A j \in places : j = k
    BY <2>1, <2>2 DEF Good, Placed
  <2>4. k \in Nat
    BY <2>1, <2>2, Bucket DEF Good
  <2>5. Min(places) = k
    BY <2>2, <2>3, <2>4 DEF Min
  <2>6. RemovePipeline(e, p) = Delete(e, per, k)
    BY <1>4, <2>5 DEF RemovePipeline
  <2>7. k \in DOMAIN e.buckets[per] /\ e.buckets[per][k].id = p
    BY <2>2
  <2> QED
    BY <2>1, <2>6, <2>7, DeleteGood
<1> QED
  BY <1>2, <1>3, <1>4

\* The copies that the pointers to replaced pipelines point to from then on
\* are of the same pipelines, at the same places.
LEMMA DetachedGood ==
  ASSUME pipelines \in [Pipelines -> Pipeline \cup {None}],
         NEW e, Good(e), NEW ps
  PROVE  /\ Good(Detached(e, ps))
         /\ Has(Detached(e, ps)) = Has(e)
         /\ Detached(e, ps).indexes = e.indexes
<1> DEFINE Detach(x) == IF x # None /\ x.id \in ps /\ x.old = None
                        THEN [x EXCEPT !.old = pipelines[x.id]] ELSE x
           r == Detached(e, ps)
<1> USE DEF Good
<1>1. \A x \in Pointer : Detach(x) \in Pointer /\ Detach(x).id = x.id
  BY DEF Pointer
<1>2. \A x \in Pointer \cup {None} : Detach(x) \in Pointer \cup {None}
  BY <1>1
<1>3. /\ r.buckets = [per \in Periods |->
                        [k \in DOMAIN e.buckets[per] |-> Detach(e.buckets[per][k])]]
      /\ r.slice = [k \in DOMAIN e.slice |-> Detach(e.slice[k])]
      /\ r.indexes = e.indexes /\ r.iterating = e.iterating
      /\ r.next = e.next /\ r.shared = e.shared
  BY DEF Detached, Executor
<1> HIDE DEF Detach
<1>4. ASSUME NEW per \in Periods
      PROVE  /\ r.buckets[per] \in Seq(Pointer)
             /\ DOMAIN r.buckets[per] = DOMAIN e.buckets[per]
             /\ Len(r.buckets[per]) = Len(e.buckets[per])
             /\ \A k \in DOMAIN e.buckets[per] :
                  r.buckets[per][k].id = e.buckets[per][k].id
  <2> DEFINE b == e.buckets[per]
  <2>1. b \in Seq(Pointer) /\ DOMAIN b = 1 .. Len(b) /\ Len(b) \in Nat
        /\ \A k \in DOMAIN b : b[k] \in Pointer
    BY Bucket
  <2>2. r.buckets[per] = [k \in DOMAIN b |-> Detach(b[k])]
    BY <1>3
  <2> HIDE DEF b
  <2>3. r.buckets[per] \in [1 .. Len(b) -> Pointer]
    BY <1>1, <2>1, <2>2
  <2>4. r.buckets[per] \in Seq(Pointer) /\ Len(r.buckets[per]) = Len(b)
    BY <2>1, <2>3, SeqDef, LenProperties, SMTT(40)
  <2> QED
    BY <1>1, <2>1, <2>2, <2>4 DEF b
<1>5. r.slice \in Seq(Pointer \cup {None}) /\ Len(r.slice) = Len(e.slice)
  <2> DEFINE Elements == Pointer \cup {None}
             s == e.slice
  <2>1. s \in Seq(Elements)
    BY ExecutorFields
  <2> HIDE DEF Elements, s
  <2>2. DOMAIN s = 1 .. Len(s) /\ Len(s) \in Nat /\ \A k \in 1 .. Len(s) : s[k] \in Elements
    BY <2>1, ElementOfSeq, LenProperties
  <2>3. r.slice \in [1 .. Len(s) -> Elements]
    BY <1>2, <1>3, <2>2, SMTT(40) DEF s, Elements
  <2>4. r.slice \in Seq(Elements) /\ Len(r.slice) = Len(s)
    BY <2>2, <2>3, SeqDef, LenProperties, SMTT(40)
  <2> QED
    BY <2>4 DEF s, Elements
<1>6. r \in Executor
  <2>1. r.buckets \in [Periods -> Seq(Pointer)]
    BY <1>3, <1>4
  <2> QED
    BY <1>3, <1>5, <2>1, ExecutorFields, ZenonT(60) DEF Executor, Detached
<1>7. Placed(r)
  <2> SUFFICES ASSUME NEW per \in Periods, NEW k \in DOMAIN r.buckets[per]
               PROVE  /\ r.indexes[r.buckets[per][k].id] = per
                      /\ \A j \in DOMAIN r.buckets[per] :
                           r.buckets[per][j].id = r.buckets[per][k].id => j = k
    BY DEF Placed
  <2>1. k \in DOMAIN e.buckets[per] /\ r.buckets[per][k].id = e.buckets[per][k].id
    BY <1>4
  <2>2. r.indexes[r.buckets[per][k].id] = per
    BY <1>3, <2>1 DEF Placed
  <2>3. ASSUME NEW j \in DOMAIN r.buckets[per],
               r.buckets[per][j].id = r.buckets[per][k].id
        PROVE  j = k
    <3>1. j \in DOMAIN e.buckets[per] /\ e.buckets[per][j].id = e.buckets[per][k].id
      BY <1>4, <2>1, <2>3
    <3> QED
      BY <2>1, <3>1 DEF Placed
  <2> QED
    BY <2>2, <2>3
<1>8. SliceOK(r)
  BY <1>3, <1>4, <1>5, ExecutorFields DEF SliceOK
<1>9. Has(r) = Has(e)
  BY <1>4 DEF Has
<1> QED
  BY <1>3, <1>6, <1>7, <1>8, <1>9

\* SetPeriod leaves the other pipelines alone, and the index of the pipeline
\* names its period; without a period it is not there.
LEMMA SetPeriodGood ==
  ASSUME NEW e, Good(e), NEW p \in Pipelines, NEW per \in Periods \cup {0}
  PROVE  /\ Good(SetPeriod(e, p, per))
         /\ Has(SetPeriod(e, p, per)) \subseteq Has(e) \cup {p}
         /\ Has(e) \ {p} \subseteq Has(SetPeriod(e, p, per))
         /\ \A q \in Pipelines \ {p} : SetPeriod(e, p, per).indexes[q] = e.indexes[q]
         /\ per # 0 => SetPeriod(e, p, per).indexes[p] = per
         /\ per = 0 => p \notin Has(SetPeriod(e, p, per))
<1> DEFINE r == RemovePipeline(e, p)
<1>1. Good(r) /\ Has(r) = Has(e) \ {p} /\ r.indexes = e.indexes
  BY RemoveGood
<1>2. CASE e.indexes[p] # 0 /\ e.indexes[p] = per
  BY <1>2 DEF SetPeriod
<1>3. CASE ~(e.indexes[p] # 0 /\ e.indexes[p] = per) /\ per = 0
  BY <1>1, <1>3 DEF SetPeriod
<1>4. CASE ~(e.indexes[p] # 0 /\ e.indexes[p] = per) /\ per # 0
  <2>1. SetPeriod(e, p, per) = AddPipeline(r, p, per) /\ per \in Periods /\ p \notin Has(r)
    BY <1>1, <1>4 DEF SetPeriod
  <2> HIDE DEF r
  <2>2. /\ Good(AddPipeline(r, p, per))
        /\ Has(AddPipeline(r, p, per)) = Has(r) \cup {p}
        /\ AddPipeline(r, p, per).indexes = [r.indexes EXCEPT ![p] = per]
    BY <1>1, <2>1, AddGood
  <2>3. r.indexes \in [Pipelines -> Periods \cup {0}]
    BY <1>1, ExecutorFields DEF Good
  <2> QED
    BY <1>1, <1>4, <2>1, <2>2, <2>3
<1> QED
  BY <1>2, <1>3, <1>4

-----------------------------------------------------------------------------
(* The folds.                                                              *)

\* Induction over the natural numbers, for a set.
LEMMA NatSetInduction ==
  ASSUME NEW T, 0 \in T, \A n \in Nat : n \in T => n + 1 \in T
  PROVE  Nat \subseteq T
<1> SUFFICES ASSUME Nat \ T # {} PROVE FALSE
  OBVIOUS
<1>1. PICK m \in Nat \ T : \A y \in Nat \ T : ~(<<y, m>> \in OpToRel(<, Nat))
  BY NatLessThanWellFounded, WFMin
<1>2. m \in Nat /\ m # 0
  OBVIOUS
<1>3. m - 1 \in Nat /\ m - 1 < m /\ (m - 1) + 1 = m
  BY <1>2
<1>4. <<m - 1, m>> \in OpToRel(<, Nat)
  BY <1>1, <1>3 DEF OpToRel
<1>5. m - 1 \in T
  BY <1>1, <1>3, <1>4
<1> QED
  BY <1>1, <1>3, <1>5

\* The pipeline of a set that a fold takes out of it.
Pick(s) == CHOOSE x \in s : TRUE

\* One step of the two folds.
Step(kind, f, p) ==
  IF kind = "add" THEN AddPipeline(f, p, pipelines[p].period) ELSE RemovePipeline(f, p)

\* g maps a subset of ps to the fold over it, from e.
IsFold(kind, e, ps, g) ==
  g = [s \in SUBSET ps |->
         IF s = {} THEN e ELSE Step(kind, g[s \ {Pick(s)}], Pick(s))]

\* A fold is a function of the subsets of a finite set.
LEMMA FoldExists ==
  ASSUME NEW kind, NEW e, NEW ps, IsFiniteSet(ps)
  PROVE  \E g : IsFold(kind, e, ps, g)
<1> DEFINE One(g, s) == IF s = {} THEN e ELSE Step(kind, g[s \ {Pick(s)}], Pick(s))
           T == {n \in Nat : \E g : \A s \in SUBSET ps :
                                Cardinality(s) <= n => g[s] = One(g, s)}
<1>1. \A s \in SUBSET ps : IsFiniteSet(s) /\ Cardinality(s) \in Nat /\ Cardinality(s) <= Cardinality(ps)
  BY FS_Subset, FS_CardinalityType
<1>2. \A s \in SUBSET ps : s # {} =>
        s \ {Pick(s)} \in SUBSET ps /\ Cardinality(s \ {Pick(s)}) = Cardinality(s) - 1
  <2> SUFFICES ASSUME NEW s \in SUBSET ps, s # {}
               PROVE  s \ {Pick(s)} \in SUBSET ps
                      /\ Cardinality(s \ {Pick(s)}) = Cardinality(s) - 1
    OBVIOUS
  <2>1. Pick(s) \in s
    BY DEF Pick
  <2> QED
    BY <1>1, <2>1, FS_RemoveElement
<1>3. 0 \in T
  <2> DEFINE g == [s \in SUBSET ps |-> e]
  <2>1. \A s \in SUBSET ps : Cardinality(s) <= 0 => s = {}
    BY <1>1, FS_EmptySet
  <2>2. \A s \in SUBSET ps : Cardinality(s) <= 0 => g[s] = One(g, s)
    BY <2>1
  <2> QED
    BY <2>2
<1>4. ASSUME NEW n \in Nat, n \in T PROVE n + 1 \in T
  <2>1. PICK g : \A s \in SUBSET ps : Cardinality(s) <= n => g[s] = One(g, s)
    BY <1>4
  <2> DEFINE h == [s \in SUBSET ps |-> One(g, s)]
  <2>2. ASSUME NEW s \in SUBSET ps, Cardinality(s) <= n + 1 PROVE h[s] = One(h, s)
    <3>1. CASE s = {}
      BY <3>1
    <3>2. CASE s # {}
      <4> DEFINE u == s \ {Pick(s)}
      <4>1. u \in SUBSET ps /\ Cardinality(u) <= n
        BY <1>1, <1>2, <2>2, <3>2
      <4>2. h[u] = g[u]
        BY <2>1, <4>1
      <4>3. One(h, s) = Step(kind, h[u], Pick(s)) /\ One(g, s) = Step(kind, g[u], Pick(s))
        BY <3>2
      <4> QED
        BY <4>2, <4>3
    <3> QED
      BY <3>1, <3>2
  <2>3. \A s \in SUBSET ps : Cardinality(s) <= n + 1 => h[s] = One(h, s)
    BY <2>2
  <2> HIDE DEF h
  <2>4. n + 1 \in Nat
    OBVIOUS
  <2> QED
    BY <2>3, <2>4
<1>5. Cardinality(ps) \in T
  <2> HIDE DEF T
  <2>1. Nat \subseteq T
    BY <1>3, <1>4, NatSetInduction
  <2> QED
    BY <2>1, FS_CardinalityType
<1>6. PICK g : \A s \in SUBSET ps : g[s] = One(g, s)
  BY <1>1, <1>5
<1> DEFINE h == [s \in SUBSET ps |-> One(g, s)]
<1>7. \A s \in SUBSET ps : h[s] = g[s]
  BY <1>6
<1>8. \A s \in SUBSET ps : One(h, s) = One(g, s)
  BY <1>2, <1>7
<1>9. h = [s \in SUBSET ps |-> One(h, s)]
  BY <1>8
<1> QED
  BY <1>9 DEF IsFold

\* What a fold preserves: R has the executors that the fold over a set of
\* pipelines may give.
LEMMA FoldInduction ==
  ASSUME NEW kind, NEW e, NEW ps, IsFiniteSet(ps), NEW g,
         IsFold(kind, e, ps, g), NEW R, e \in R[{}],
         \A s \in SUBSET ps : \A x \in s : \A r :
           r \in R[s \ {x}] => Step(kind, r, x) \in R[s]
  PROVE  g[ps] \in R[ps]
<1> DEFINE T == {n \in Nat : \A s \in SUBSET ps : Cardinality(s) = n => g[s] \in R[s]}
<1>1. \A s \in SUBSET ps : IsFiniteSet(s) /\ Cardinality(s) \in Nat
  BY FS_Subset, FS_CardinalityType
<1>2. g[{}] = e
  BY DEF IsFold
<1>3. 0 \in T
  <2>1. \A s \in SUBSET ps : Cardinality(s) = 0 => s = {}
    BY <1>1, FS_EmptySet
  <2> QED
    BY <1>2, <2>1
<1>4. ASSUME NEW n \in Nat, n \in T PROVE n + 1 \in T
  <2>1. ASSUME NEW s \in SUBSET ps, Cardinality(s) = n + 1
        PROVE  g[s] \in R[s]
    <3>1. s # {}
      BY <1>1, <2>1, FS_EmptySet
    <3>2. Pick(s) \in s
      BY <3>1 DEF Pick
    <3> DEFINE u == s \ {Pick(s)}
    <3>3. u \in SUBSET ps /\ Cardinality(u) = n
      <4>1. Cardinality(u) = Cardinality(s) - 1
        BY <1>1, <3>2, FS_RemoveElement
      <4> QED
        BY <2>1, <4>1
    <3>4. g[u] \in R[u]
      BY <1>4, <3>3
    <3>5. g[s] = Step(kind, g[u], Pick(s))
      BY <3>1 DEF IsFold
    <3> QED
      BY <3>2, <3>4, <3>5
  <2>2. n + 1 \in Nat
    OBVIOUS
  <2> QED
    BY <2>1, <2>2
<1>5. Cardinality(ps) \in T
  <2> HIDE DEF T
  <2>1. Nat \subseteq T
    BY <1>3, <1>4, NatSetInduction
  <2> QED
    BY <2>1, FS_CardinalityType
<1> QED
  BY <1>5

\* The functions that the two folds compute.
AddIteration(e, ps) ==
  CHOOSE g : g = [s \in SUBSET ps |->
    IF s = {} THEN e
    ELSE AddPipeline(g[s \ {Pick(s)}], Pick(s), pipelines[Pick(s)].period)]

RemoveIteration(e, ps) ==
  CHOOSE g : g = [s \in SUBSET ps |->
    IF s = {} THEN e ELSE RemovePipeline(g[s \ {Pick(s)}], Pick(s))]

\* What the folds over s come to.
Added(e, s, r) ==
  /\ Good(r)
  /\ Has(r) = Has(e) \cup s
  /\ \A p \in s : r.indexes[p] = pipelines[p].period

Removed(e, s, r) == Good(r) /\ Has(r) = Has(e) \ s /\ r.indexes = e.indexes

\* AddAll schedules pipelines with a period that were not there.
LEMMA AddAllGood ==
  ASSUME NEW e, Good(e), NEW ps \in SUBSET Pipelines, IsFiniteSet(ps),
         ps \cap Has(e) = {}, \A p \in ps : pipelines[p].period \in Periods
  PROVE  /\ Good(AddAll(e, ps))
         /\ Has(AddAll(e, ps)) = Has(e) \cup ps
         /\ \A p \in ps : AddAll(e, ps).indexes[p] = pipelines[p].period
<1> DEFINE g == AddIteration(e, ps)
           R == [s \in SUBSET ps |-> {r \in Executor : Added(e, s, r)}]
<1>0. \A s \in SUBSET ps : \A r : r \in R[s] <=> Added(e, s, r)
  BY DEF Good, Added
<1>1. AddAll(e, ps) = g[ps]
  BY Zenon DEF AddAll, FoldSet, MapThenFoldSet, AddIteration, Pick
<1>2. PICK h : IsFold("add", e, ps, h)
  BY FoldExists
<1>3. h = [s \in SUBSET ps |->
             IF s = {} THEN e
             ELSE AddPipeline(h[s \ {Pick(s)}], Pick(s), pipelines[Pick(s)].period)]
  BY <1>2 DEF IsFold, Step
<1>4. g = [s \in SUBSET ps |->
             IF s = {} THEN e
             ELSE AddPipeline(g[s \ {Pick(s)}], Pick(s), pipelines[Pick(s)].period)]
  BY <1>3, Zenon DEF AddIteration
<1> HIDE DEF g
<1>5. IsFold("add", e, ps, g)
  BY <1>4 DEF IsFold, Step
<1> HIDE DEF R
<1>6. e \in R[{}]
  BY <1>0 DEF Added
<1>7. ASSUME NEW s \in SUBSET ps, NEW x \in s, NEW r, r \in R[s \ {x}]
      PROVE  Step("add", r, x) \in R[s]
  <2> DEFINE z == AddPipeline(r, x, pipelines[x].period)
  <2>1. /\ Good(r) /\ Has(r) = Has(e) \cup (s \ {x})
        /\ \A p \in s \ {x} : r.indexes[p] = pipelines[p].period
    BY <1>0, <1>7 DEF Added
  <2>2. x \in Pipelines /\ pipelines[x].period \in Periods /\ x \notin Has(r)
    BY <2>1
  <2>3. /\ Good(z) /\ Has(z) = Has(r) \cup {x}
        /\ z.indexes = [r.indexes EXCEPT ![x] = pipelines[x].period]
    BY <2>1, <2>2, AddGood
  <2>4. r.indexes \in [Pipelines -> Periods \cup {0}]
    BY <2>1, ExecutorFields DEF Good
  <2> HIDE DEF z
  <2>5. Has(z) = Has(e) \cup s
    BY <2>1, <2>3
  <2>6. \A p \in s : z.indexes[p] = pipelines[p].period
    BY <2>1, <2>2, <2>3, <2>4
  <2>7. z \in R[s]
    BY <2>3, <2>5, <2>6, <1>0 DEF Added
  <2> QED
    BY <2>7 DEF Step, z
<1>8. g[ps] \in R[ps]
  BY <1>5, <1>6, <1>7, FoldInduction
<1> QED
  BY <1>0, <1>1, <1>8 DEF Added

\* RemoveAll removes the pipelines.
LEMMA RemoveAllGood ==
  ASSUME NEW e, Good(e), NEW ps \in SUBSET Pipelines, IsFiniteSet(ps)
  PROVE  /\ Good(RemoveAll(e, ps))
         /\ Has(RemoveAll(e, ps)) = Has(e) \ ps
         /\ RemoveAll(e, ps).indexes = e.indexes
<1> DEFINE g == RemoveIteration(e, ps)
           R == [s \in SUBSET ps |-> {r \in Executor : Removed(e, s, r)}]
<1>0. \A s \in SUBSET ps : \A r : r \in R[s] <=> Removed(e, s, r)
  BY DEF Good, Removed
<1>1. RemoveAll(e, ps) = g[ps]
  BY Zenon DEF RemoveAll, FoldSet, MapThenFoldSet, RemoveIteration, Pick
<1>2. PICK h : IsFold("remove", e, ps, h)
  BY FoldExists
<1>3. h = [s \in SUBSET ps |->
             IF s = {} THEN e ELSE RemovePipeline(h[s \ {Pick(s)}], Pick(s))]
  BY <1>2 DEF IsFold, Step
<1>4. g = [s \in SUBSET ps |->
             IF s = {} THEN e ELSE RemovePipeline(g[s \ {Pick(s)}], Pick(s))]
  BY <1>3, Zenon DEF RemoveIteration
<1> HIDE DEF g
<1>5. IsFold("remove", e, ps, g)
  BY <1>4 DEF IsFold, Step
<1> HIDE DEF R
<1>6. e \in R[{}]
  BY <1>0 DEF Removed
<1>7. ASSUME NEW s \in SUBSET ps, NEW x \in s, NEW r, r \in R[s \ {x}]
      PROVE  Step("remove", r, x) \in R[s]
  <2> DEFINE z == RemovePipeline(r, x)
  <2>1. Good(r) /\ Has(r) = Has(e) \ (s \ {x}) /\ r.indexes = e.indexes
    BY <1>0, <1>7 DEF Removed
  <2>2. Good(z) /\ Has(z) = Has(r) \ {x} /\ z.indexes = r.indexes
    BY <2>1, RemoveGood
  <2> HIDE DEF z
  <2>3. z \in R[s]
    BY <2>1, <2>2, <1>0 DEF Removed
  <2> QED
    BY <2>3 DEF Step, z
<1>8. g[ps] \in R[ps]
  BY <1>5, <1>6, <1>7, FoldInduction
<1> QED
  BY <1>0, <1>1, <1>8 DEF Removed

-----------------------------------------------------------------------------
(* The inductive invariant.                                                *)

\* The periods of a pipeline.
LEMMA PeriodOf ==
  ASSUME NEW p \in Pipelines, NEW per \in PeriodsOf[p]
  PROVE  per \in Periods \cup {0} /\ per \in Nat
  BY SchedulerAssumption, Zenon DEF Periods

\* The record of a pipeline that exists.
LEMMA ExistingType ==
  ASSUME TypeOK, NEW p \in Existing
  PROVE  p \in Pipelines /\ pipelines[p] \in Pipeline
  BY DEF TypeOK, Existing

\* An executor that schedules nothing.
LEMMA EmptyGood == Good(EmptyExecutor) /\ Has(EmptyExecutor) = {}
<1>1. EmptyExecutor \in Executor
  BY DEF EmptyExecutor, Executor
<1>2. Placed(EmptyExecutor) /\ SliceOK(EmptyExecutor) /\ Has(EmptyExecutor) = {}
  BY DEF EmptyExecutor, Placed, SliceOK, Has
<1> QED
  BY <1>1, <1>2 DEF Good

\* The state starts in the invariant.
LEMMA InitIndInv == Init => IndInv
<1> SUFFICES ASSUME Init PROVE IndInv
  OBVIOUS
<1>1. Existing = {}
  BY DEF Init, Existing
<1>2. TypeOK
  <2>1. pe \in Executor
    BY EmptyGood DEF Init, Good
  <2>2. pipelines \in [Pipelines -> Pipeline \cup {None}]
    BY DEF Init
  <2>3. changes \in 0 .. MaxChanges
    BY SchedulerAssumption DEF Init
  <2>4. /\ deleted \subseteq Pipelines /\ removals \subseteq Pipelines /\ creating \subseteq Pipelines
        /\ orgEnabled \in BOOLEAN /\ closed \in BOOLEAN /\ panicked \in BOOLEAN
        /\ mode \in {"normal", "other"} /\ executor \in {"none", "open", "closed"}
    BY DEF Init
  <2> QED
    BY <2>1, <2>2, <2>3, <2>4 DEF TypeOK
<1>3. PipelinesInv
  BY <1>1, FS_EmptySet DEF PipelinesInv
<1>4. DeletedInv
  BY <1>1, EmptyGood DEF DeletedInv, Init
<1>5. DueInv
  BY <1>1 DEF DueInv, Init, Due
<1> QED
  BY <1>2, <1>3, <1>4, <1>5, EmptyGood DEF IndInv, Init

\* A new pipeline is scheduled for its period.
LEMMA CreatePipelineIndInv ==
  ASSUME IndInv, NEW p \in Pipelines, NEW per \in PeriodsOf[p], NEW enabled \in BOOLEAN,
         CreatePipeline(p, per, enabled)
  PROVE  IndInv'
<1> USE DEF IndInv
<1>1. /\ pipelines' \in [Pipelines -> Pipeline \cup {None}]
      /\ pipelines'[p] # None /\ pipelines'[p].period = per
      /\ \A q \in Pipelines \ {p} : pipelines'[q] = pipelines[q]
      /\ per \in Periods \cup {0}
  <2>1. [enabled |-> enabled, period |-> per, run |-> FALSE] \in Pipeline
    BY PeriodOf DEF Pipeline
  <2> QED
    BY <2>1, PeriodOf, SchedulerAssumption DEF CreatePipeline, TypeOK
<1>2. Existing' = Existing \cup {p} /\ p \notin Existing \cup deleted
  BY <1>1 DEF Existing, CreatePipeline
<1>3. p \notin Has(pe) /\ p \notin removals
  BY <1>2 DEF DeletedInv
<1>4. /\ Good(pe') /\ Has(pe') \subseteq Has(pe) \cup {p}
      /\ \A q \in Pipelines \ {p} : pe'.indexes[q] = pe.indexes[q]
      /\ p \in Has(pe') => Due(p)'
      /\ Due(p)' => pe'.indexes[p] = per
  <2>1. Due(p)' <=> executor = "open" /\ orgEnabled /\ per # 0
    BY <1>1, <1>2 DEF Due, Periodic, CreatePipeline, execVars
  <2>2. CASE executor = "open" /\ orgEnabled /\ per # 0
    <3>1. pe' = AddPipeline(pe, p, per) /\ per \in Periods
      BY <1>1, <2>2 DEF CreatePipeline
    <3>2. /\ Good(pe') /\ Has(pe') = Has(pe) \cup {p}
          /\ pe'.indexes = [pe.indexes EXCEPT ![p] = per]
      BY <1>3, <3>1, AddGood
    <3>3. pe.indexes \in [Pipelines -> Periods \cup {0}]
      BY ExecutorFields DEF TypeOK
    <3> QED
      BY <2>1, <2>2, <3>2, <3>3
  <2>3. CASE ~(executor = "open" /\ orgEnabled /\ per # 0)
    BY <1>3, <2>1, <2>3 DEF CreatePipeline
  <2> QED
    BY <2>2, <2>3
<1>5. TypeOK'
  BY <1>1, <1>4 DEF TypeOK, CreatePipeline, execVars, Good
<1>6. PipelinesInv'
  <2>1. IsFiniteSet(Existing')
    BY <1>2, FS_AddElement DEF PipelinesInv
  <2>2. \A q \in Existing' : pipelines'[q].period \in Periods \cup {0}
    BY <1>1, <1>2 DEF PipelinesInv, Existing
  <2> QED
    BY <2>1, <2>2 DEF PipelinesInv
<1>7. DeletedInv'
  BY <1>2, <1>4 DEF DeletedInv, CreatePipeline, execVars
<1>8. DueInv'
  <2>1. \A q \in Pipelines \ {p} : Due(q)' <=> Due(q)
    BY <1>1, <1>2 DEF Due, Periodic, CreatePipeline, execVars
  <2>2. \A q \in Pipelines : Due(q)' => pe'.indexes[q] = pipelines'[q].period
    BY <1>1, <1>4, <2>1 DEF DueInv
  <2>3. executor' = "open" => \A q \in Has(pe') : q \in removals' \/ Due(q)'
    BY <1>4, <2>1 DEF DueInv, CreatePipeline, execVars, Has
  <2> QED
    BY <2>2, <2>3 DEF DueInv
<1> QED
  BY <1>4, <1>5, <1>6, <1>7, <1>8

\* The removal of deleted pipelines is on its way, if they were scheduled.
LEMMA DeletePipelinesIndInv ==
  ASSUME IndInv, NEW ps, DeletePipelines(ps)
  PROVE  IndInv'
<1> USE DEF IndInv
<1>1. /\ pipelines' = [p \in Pipelines |-> IF p \in ps THEN None ELSE pipelines[p]]
      /\ ps \subseteq Existing /\ deleted' = deleted \cup ps
      /\ removals' = removals \cup ToRemove(ps)
      /\ executor' = executor /\ orgEnabled' = orgEnabled
  BY DEF DeletePipelines
<1>2. Existing' = Existing \ ps
  BY <1>1 DEF Existing
<1>3. Good(pe') /\ Has(pe') = Has(pe) /\ pe'.indexes = pe.indexes
  BY DetachedGood DEF DeletePipelines, TypeOK
<1>4. TypeOK'
  <2>1. pipelines' \in [Pipelines -> Pipeline \cup {None}]
    BY <1>1 DEF TypeOK
  <2>2. ps \subseteq Pipelines /\ ToRemove(ps) \subseteq Pipelines
    BY <1>1 DEF Existing, ToRemove
  <2> QED
    BY <1>1, <1>3, <2>1, <2>2 DEF TypeOK, DeletePipelines, Good
<1>5. PipelinesInv'
  <2>1. IsFiniteSet(Existing')
    BY <1>2, FS_Subset DEF PipelinesInv
  <2>2. \A q \in Existing' : pipelines'[q].period \in Periods \cup {0}
    BY <1>1, <1>2 DEF PipelinesInv, Existing
  <2> QED
    BY <2>1, <2>2 DEF PipelinesInv
<1>6. DeletedInv'
  BY <1>1, <1>2, <1>3 DEF DeletedInv, ToRemove
<1>7. DueInv'
  <2>1. \A q \in Pipelines : Due(q)' <=> Due(q) /\ q \notin ps
    BY <1>1, <1>2 DEF Due, Periodic, Existing
  <2>2. \A q \in Pipelines : Due(q)' => pe'.indexes[q] = pipelines'[q].period
    BY <1>1, <1>3, <2>1 DEF DueInv
  <2>3. ASSUME executor = "open", NEW q \in Has(pe) PROVE q \in removals' \/ Due(q)'
    <3>1. q \in removals \/ Due(q)
      BY <2>3 DEF DueInv
    <3>2. CASE Due(q) /\ q \in ps
      BY <1>1, <3>2 DEF Due, ToRemove
    <3> QED
      BY <1>1, <2>1, <3>1, <3>2, q \in Pipelines DEF Has
  <2> QED
    BY <1>1, <1>3, <2>2, <2>3 DEF DueInv
<1> QED
  BY <1>3, <1>4, <1>5, <1>6, <1>7

\* A change of a pipeline that leaves its period, to which the executor has
\* no pointer any more: its status, and the end of its run.
LEMMA ReplacedIndInv ==
  ASSUME IndInv, NEW ps \in SUBSET Existing,
         pipelines' \in [Pipelines -> Pipeline \cup {None}],
         \A p \in Pipelines \ ps : pipelines'[p] = pipelines[p],
         \A p \in ps : pipelines'[p] # None /\ pipelines'[p].period = pipelines[p].period,
         pe' = Detached(pe, ps), changes' \in 0 .. MaxChanges,
         UNCHANGED <<deleted, orgEnabled, mode, execVars>>
  PROVE  IndInv'
<1> USE DEF IndInv
<1>1. Existing' = Existing
  BY DEF Existing
<1>2. Good(pe') /\ Has(pe') = Has(pe) /\ pe'.indexes = pe.indexes
  BY DetachedGood DEF TypeOK
<1>3. \A q \in Existing : pipelines'[q].period = pipelines[q].period
  BY DEF Existing
<1>4. TypeOK'
  BY <1>2 DEF TypeOK, execVars, Good
<1>5. PipelinesInv'
  BY <1>1, <1>3 DEF PipelinesInv
<1>6. DeletedInv'
  BY <1>1, <1>2 DEF DeletedInv, execVars
<1>7. DueInv'
  <2>1. \A q \in Pipelines : Due(q)' <=> Due(q)
    BY <1>1, <1>3 DEF Due, Periodic, execVars
  <2>2. \A q \in Pipelines : Due(q) => q \in Existing
    BY DEF Due, Periodic
  <2>3. \A q \in Pipelines : Due(q)' => pe'.indexes[q] = pipelines'[q].period
    BY <1>2, <1>3, <2>1, <2>2 DEF DueInv
  <2>4. executor' = "open" => \A q \in Has(pe') : q \in removals' \/ Due(q)'
    BY <1>2, <2>1 DEF DueInv, execVars, Has
  <2> QED
    BY <2>3, <2>4 DEF DueInv
<1> QED
  BY <1>2, <1>4, <1>5, <1>6, <1>7

\* A change counts.
LEMMA ChangeType ==
  ASSUME TypeOK, Change PROVE changes' \in 0 .. MaxChanges
  BY SchedulerAssumption DEF TypeOK, Change

\* The status of a pipeline, and the end of a run.
LEMMA SetStatusIndInv ==
  ASSUME IndInv, NEW p \in Pipelines, SetStatus(p) \/ EndRun(p)
  PROVE  IndInv'
<1>1. p \in Existing /\ pipelines[p] \in Pipeline
  BY ExistingType DEF IndInv, SetStatus, EndRun
<1>2. /\ pipelines' \in [Pipelines -> Pipeline \cup {None}]
      /\ pipelines'[p] \in Pipeline /\ pipelines'[p].period = pipelines[p].period
      /\ \A q \in Pipelines \ {p} : pipelines'[q] = pipelines[q]
  <2>1. CASE SetStatus(p)
    BY <1>1, <2>1 DEF SetStatus, IndInv, TypeOK, Pipeline
  <2>2. CASE EndRun(p)
    BY <1>1, <2>2 DEF EndRun, IndInv, TypeOK, Pipeline
  <2> QED
    BY <2>1, <2>2
<1>3. pipelines'[p] # None
  BY <1>2, SchedulerAssumption
<1>4. /\ pe' = Detached(pe, {p}) /\ Change
      /\ UNCHANGED <<deleted, orgEnabled, mode, execVars>>
  BY DEF SetStatus, EndRun
<1>5. changes' \in 0 .. MaxChanges
  BY <1>4, ChangeType DEF IndInv
<1> DEFINE ps == {p}
<1>6. ps \in SUBSET Existing
  BY <1>1
<1>7. \A q \in ps : pipelines'[q] # None /\ pipelines'[q].period = pipelines[q].period
  BY <1>2, <1>3
<1>8. pe' = Detached(pe, ps) /\ \A q \in Pipelines \ ps : pipelines'[q] = pipelines[q]
  BY <1>2, <1>4
<1> HIDE DEF ps
<1> QED
  BY <1>2, <1>4, <1>5, <1>6, <1>7, <1>8, ReplacedIndInv

\* A pipeline moves to the bucket of its new period.
LEMMA SetSchedulePeriodIndInv ==
  ASSUME IndInv, NEW p \in Pipelines, NEW per \in PeriodsOf[p], SetSchedulePeriod(p, per)
  PROVE  IndInv'
<1> USE DEF IndInv
<1>1. p \in Existing /\ pipelines[p] \in Pipeline /\ per \in Periods \cup {0} /\ per \in Nat
  BY ExistingType, PeriodOf DEF SetSchedulePeriod
<1>2. /\ pipelines' \in [Pipelines -> Pipeline \cup {None}]
      /\ pipelines'[p] \in Pipeline /\ pipelines'[p].period = per
      /\ \A q \in Pipelines \ {p} : pipelines'[q] = pipelines[q]
  BY <1>1 DEF SetSchedulePeriod, TypeOK, Pipeline
<1>3. pipelines'[p] # None
  BY <1>2, SchedulerAssumption
<1>4. Existing' = Existing
  BY <1>1, <1>2, <1>3 DEF Existing
<1>5. /\ UNCHANGED <<deleted, orgEnabled, mode, execVars>>
      /\ changes' \in 0 .. MaxChanges
      /\ executor' = executor /\ removals' = removals /\ orgEnabled' = orgEnabled
      /\ deleted' = deleted
  BY ChangeType DEF SetSchedulePeriod, execVars
<1> DEFINE d == Detached(pe, {p})
<1>6. Good(d) /\ Has(d) = Has(pe) /\ d.indexes = pe.indexes
  BY DetachedGood DEF TypeOK
<1>7. pe' = IF executor = "open" /\ orgEnabled THEN SetPeriod(d, p, per) ELSE d
  BY DEF SetSchedulePeriod
<1> HIDE DEF d
<1>8. /\ Good(pe') /\ Has(pe') \subseteq Has(pe) \cup {p}
      /\ \A q \in Pipelines \ {p} : pe'.indexes[q] = pe.indexes[q]
      /\ executor = "open" /\ orgEnabled =>
           /\ per # 0 => pe'.indexes[p] = per
           /\ per = 0 => p \notin Has(pe')
  <2>1. CASE executor = "open" /\ orgEnabled
    BY <1>1, <1>6, <1>7, <2>1, SetPeriodGood
  <2>2. CASE ~(executor = "open" /\ orgEnabled)
    BY <1>6, <1>7, <2>2
  <2> QED
    BY <2>1, <2>2
<1>9. TypeOK'
  BY <1>2, <1>5, <1>8 DEF TypeOK, execVars, Good
<1>10. PipelinesInv'
  BY <1>1, <1>2, <1>4 DEF PipelinesInv, Existing
<1>11. DeletedInv'
  BY <1>1, <1>4, <1>5, <1>8 DEF DeletedInv
<1>12. DueInv'
  <2>1. \A q \in Pipelines \ {p} : Due(q)' <=> Due(q)
    BY <1>2, <1>4, <1>5 DEF Due, Periodic
  <2>2. Due(p)' <=> executor = "open" /\ orgEnabled /\ per # 0
    BY <1>1, <1>2, <1>4, <1>5 DEF Due, Periodic
  <2>3. \A q \in Pipelines : Due(q)' => pe'.indexes[q] = pipelines'[q].period
    BY <1>2, <1>8, <2>1, <2>2 DEF DueInv
  <2>4. ASSUME executor = "open", NEW q \in Has(pe') PROVE q \in removals \/ Due(q)'
    <3>1. q \in Pipelines
      BY DEF Has
    <3>2. CASE q # p
      BY <1>8, <2>1, <2>4, <3>1, <3>2 DEF DueInv
    <3>3. CASE q = p /\ orgEnabled
      BY <1>8, <2>2, <2>4, <3>3
    <3>4. CASE q = p /\ ~orgEnabled
      <4>1. p \in Has(pe)
        BY <1>6, <1>7, <2>4, <3>4
      <4> QED
        BY <2>4, <3>4, <4>1 DEF DueInv, Due
    <3> QED
      BY <3>2, <3>3, <3>4
  <2> QED
    BY <1>5, <2>3, <2>4 DEF DueInv
<1> QED
  BY <1>8, <1>9, <1>10, <1>11, <1>12

\* The pipelines with a period are finitely many.
LEMMA PeriodicFinite ==
  ASSUME PipelinesInv
  PROVE  /\ IsFiniteSet(Periodic) /\ Periodic \subseteq Existing
         /\ Periodic \in SUBSET Pipelines
         /\ \A p \in Periodic : pipelines[p].period \in Periods
<1>1. Periodic \subseteq Existing /\ Existing \subseteq Pipelines
  BY DEF Periodic, Existing
<1>2. IsFiniteSet(Periodic)
  BY <1>1, FS_Subset DEF PipelinesInv
<1> QED
  BY <1>1, <1>2 DEF PipelinesInv, Periodic

\* The start and the end of runs leave the pipelines that exist and their
\* periods.
LEMMA SamePeriods ==
  ASSUME TypeOK, NEW ps \in SUBSET Existing, NEW b \in BOOLEAN,
         pipelines' = [p \in Pipelines |->
           IF p \in ps THEN [pipelines[p] EXCEPT !.run = b] ELSE pipelines[p]]
  PROVE  /\ pipelines' \in [Pipelines -> Pipeline \cup {None}]
         /\ Existing' = Existing /\ Periodic' = Periodic
         /\ \A p \in Existing : pipelines'[p].period = pipelines[p].period
<1>1. ASSUME NEW p \in ps
      PROVE  /\ pipelines'[p] \in Pipeline /\ pipelines'[p] # None
             /\ pipelines'[p].period = pipelines[p].period
  <2>1. p \in Pipelines /\ pipelines[p] \in Pipeline
    BY ExistingType
  <2>2. pipelines'[p] = [pipelines[p] EXCEPT !.run = b]
    BY <2>1
  <2>3. pipelines'[p] \in Pipeline /\ pipelines'[p].period = pipelines[p].period
    BY <2>1, <2>2 DEF Pipeline
  <2> QED
    BY <2>3, SchedulerAssumption
<1>2. \A p \in Pipelines \ ps : pipelines'[p] = pipelines[p]
  OBVIOUS
<1>3. pipelines' \in [Pipelines -> Pipeline \cup {None}]
  <2>1. \A p \in Pipelines : pipelines'[p] \in Pipeline \cup {None}
    BY <1>1, <1>2 DEF TypeOK
  <2> QED
    BY <2>1
<1>4. Existing' = Existing
  BY <1>1, <1>2 DEF Existing
<1>5. \A p \in Existing : pipelines'[p].period = pipelines[p].period
  BY <1>1, <1>2 DEF Existing
<1>6. Periodic' = Periodic
  BY <1>4, <1>5 DEF Periodic
<1> QED
  BY <1>3, <1>4, <1>5, <1>6

\* A disabled organization has no scheduled pipelines.
LEMMA DisableOrganizationIndInv ==
  ASSUME IndInv, DisableOrganization
  PROVE  IndInv'
<1> USE DEF IndInv
<1> DEFINE ended == {p \in Existing : pipelines[p].run}
           d == Detached(pe, ended)
<1>1. /\ pipelines' = [p \in Pipelines |->
           IF p \in ended THEN [pipelines[p] EXCEPT !.run = FALSE] ELSE pipelines[p]]
      /\ UNCHANGED <<deleted, mode, execVars>> /\ orgEnabled' = FALSE
      /\ changes' \in 0 .. MaxChanges
      /\ executor' = executor /\ removals' = removals /\ deleted' = deleted
      /\ pe' = IF executor = "open" THEN RemoveAll(d, Periodic) ELSE d
  BY ChangeType DEF DisableOrganization, execVars
<1>2. Good(d) /\ Has(d) = Has(pe) /\ d.indexes = pe.indexes
  BY DetachedGood DEF TypeOK
<1>3. ended \in SUBSET Existing
  OBVIOUS
<1> HIDE DEF ended, d
<1>4. /\ pipelines' \in [Pipelines -> Pipeline \cup {None}]
      /\ Existing' = Existing
      /\ \A p \in Existing : pipelines'[p].period = pipelines[p].period
  BY <1>1, <1>3, SamePeriods
<1>5. /\ Good(pe') /\ Has(pe') \subseteq Has(pe)
      /\ executor = "open" => Has(pe') \cap Periodic = {}
  BY <1>1, <1>2, PeriodicFinite, RemoveAllGood
<1>6. TypeOK'
  BY <1>1, <1>4, <1>5 DEF TypeOK, execVars, Good
<1>7. PipelinesInv'
  BY <1>4 DEF PipelinesInv
<1>8. DeletedInv'
  BY <1>1, <1>4, <1>5 DEF DeletedInv
<1>9. DueInv'
  <2>1. \A q \in Pipelines : ~Due(q)'
    BY <1>1 DEF Due
  <2>2. ASSUME executor = "open", NEW q \in Has(pe') PROVE q \in removals
    BY <1>5, <2>2 DEF DueInv, Due
  <2> QED
    BY <1>1, <2>1, <2>2 DEF DueInv
<1> QED
  BY <1>5, <1>6, <1>7, <1>8, <1>9

\* The pipelines of an enabled organization are scheduled: none of them is.
LEMMA EnableOrganizationIndInv ==
  ASSUME IndInv, EnableOrganization
  PROVE  IndInv'
<1> USE DEF IndInv
<1>1. /\ pipelines' = pipelines /\ deleted' = deleted /\ executor' = executor
      /\ removals' = removals /\ orgEnabled' = TRUE /\ ~orgEnabled
      /\ UNCHANGED <<mode, execVars>>
      /\ changes' \in 0 .. MaxChanges
      /\ pe' = IF executor = "open" THEN AddAll(pe, Periodic) ELSE pe
  BY ChangeType DEF EnableOrganization, execVars
<1>2. Existing' = Existing /\ Periodic' = Periodic
  BY <1>1 DEF Existing, Periodic
<1>3. executor = "open" => Periodic \cap Has(pe) = {}
  BY <1>1, PeriodicFinite DEF DueInv, Due, DeletedInv
<1>4. /\ Good(pe') /\ Has(pe') \subseteq Has(pe) \cup Periodic
      /\ executor = "open" => \A p \in Periodic : pe'.indexes[p] = pipelines[p].period
  <2>1. CASE executor = "open"
    BY <1>1, <1>3, <2>1, PeriodicFinite, AddAllGood
  <2>2. CASE executor # "open"
    BY <1>1, <2>2
  <2> QED
    BY <2>1, <2>2
<1>5. TypeOK'
  BY <1>1, <1>4 DEF TypeOK, execVars, Good
<1>6. PipelinesInv'
  BY <1>1, <1>2 DEF PipelinesInv
<1>7. DeletedInv'
  BY <1>1, <1>2, <1>4, PeriodicFinite DEF DeletedInv
<1>8. DueInv'
  <2>1. \A q \in Pipelines : Due(q)' <=> executor = "open" /\ q \in Periodic
    BY <1>1, <1>2 DEF Due
  <2>2. ASSUME executor = "open", NEW q \in Has(pe') PROVE q \in removals \/ q \in Periodic
    BY <1>1, <1>4, <2>2 DEF DueInv, Due
  <2>3. \A q \in Pipelines : Due(q)' => pe'.indexes[q] = pipelines'[q].period
    BY <1>1, <1>4, <2>1
  <2>4. executor' = "open" => \A q \in Has(pe') : q \in removals' \/ Due(q)'
    BY <1>1, <2>1, <2>2 DEF Has
  <2> QED
    BY <2>3, <2>4 DEF DueInv
<1> QED
  BY <1>4, <1>5, <1>6, <1>7, <1>8

\* A new executor has the pipelines that are due.
LEMMA BecomeLeaderIndInv ==
  ASSUME IndInv, BecomeLeader
  PROVE  IndInv'
<1> USE DEF IndInv
<1> DEFINE e == [pe EXCEPT !.buckets = EmptyExecutor.buckets,
                           !.indexes = EmptyExecutor.indexes,
                           !.shared = FALSE]
           ps == IF orgEnabled THEN Periodic ELSE {}
<1>1. /\ pipelines' = pipelines /\ deleted' = deleted /\ executor' = "open"
      /\ removals' = {} /\ orgEnabled' = orgEnabled /\ mode' = mode
      /\ UNCHANGED <<closed, creating, panicked>>
      /\ changes' \in 0 .. MaxChanges
      /\ pe' = AddAll(e, ps)
  BY ChangeType DEF BecomeLeader, stateVars
<1>2. /\ e.buckets = [per \in Periods |-> <<>>] /\ e.indexes = [p \in Pipelines |-> 0]
      /\ e.shared = FALSE
      /\ e.iterating = pe.iterating /\ e.slice = pe.slice /\ e.next = pe.next
  BY DEF EmptyExecutor, TypeOK, Executor
<1>3. e \in Executor
  <2>1. /\ e.buckets \in [Periods -> Seq(Pointer)]
        /\ e.indexes \in [Pipelines -> Periods \cup {0}]
    <3>1. <<>> \in Seq(Pointer)
      BY EmptySeq
    <3> HIDE DEF e
    <3>2. e.buckets \in [Periods -> Seq(Pointer)]
      BY <1>2, <3>1
    <3>3. e.indexes \in [Pipelines -> Periods \cup {0}]
      BY <1>2
    <3> QED
      BY <3>2, <3>3
  <2>2. pe \in Executor
    BY DEF TypeOK
  <2> QED
    BY <1>2, <2>1, <2>2, ExecutorFields DEF Executor
<1>4. Good(e) /\ Has(e) = {}
  BY <1>2, <1>3 DEF Good, Placed, SliceOK, Has
<1>5. /\ ps \in SUBSET Pipelines /\ IsFiniteSet(ps) /\ ps \subseteq Existing
      /\ \A p \in ps : pipelines[p].period \in Periods
  BY PeriodicFinite, FS_EmptySet
<1>6. Existing' = Existing /\ Periodic' = Periodic
  BY <1>1 DEF Existing, Periodic
<1>7. \A q \in Pipelines : Due(q)' <=> q \in ps
  BY <1>1, <1>6 DEF Due
<1> HIDE DEF e, ps
<1>8. /\ Good(pe') /\ Has(pe') = ps
      /\ \A p \in ps : pe'.indexes[p] = pipelines[p].period
  <2>1. ps \cap Has(e) = {}
    BY <1>4
  <2>2. Added(e, ps, AddAll(e, ps))
    BY <1>4, <1>5, <2>1, AddAllGood DEF Added
  <2> QED
    BY <1>1, <1>4, <2>2 DEF Added
<1>9. TypeOK'
  BY <1>1, <1>8 DEF TypeOK, Good
<1>10. PipelinesInv'
  BY <1>1, <1>6 DEF PipelinesInv
<1>11. DeletedInv'
  BY <1>1, <1>5, <1>6, <1>8 DEF DeletedInv
<1>12. DueInv'
  BY <1>1, <1>5, <1>7, <1>8 DEF DueInv
<1> QED
  BY <1>8, <1>9, <1>10, <1>11, <1>12

\* What does not touch the pipelines or the buckets, the indexes and the
\* removals keeps the invariant.
LEMMA TickerIndInv ==
  ASSUME IndInv, UNCHANGED <<stateVars, executor, closed, removals, changes>>,
         pe' \in Executor, pe'.buckets = pe.buckets, pe'.indexes = pe.indexes,
         SliceOK(pe'), creating' \subseteq Pipelines, panicked' \in BOOLEAN
  PROVE  IndInv'
<1> USE DEF IndInv
<1>1. /\ pipelines' = pipelines /\ deleted' = deleted /\ executor' = executor
      /\ removals' = removals /\ orgEnabled' = orgEnabled /\ mode' = mode
  BY DEF stateVars
<1>2. Existing' = Existing /\ Periodic' = Periodic
  BY <1>1 DEF Existing, Periodic
<1>3. Good(pe') /\ Has(pe') = Has(pe)
  BY DEF Good, Placed, Has
<1>4. TypeOK'
  BY <1>1 DEF TypeOK
<1>5. PipelinesInv'
  BY <1>1, <1>2 DEF PipelinesInv
<1>6. DeletedInv'
  BY <1>1, <1>2, <1>3 DEF DeletedInv
<1>7. \A q \in Pipelines : Due(q)' <=> Due(q)
  BY <1>1, <1>2 DEF Due
<1>8. DueInv'
  <2>1. \A q \in Pipelines : Due(q)' => pe'.indexes[q] = pipelines'[q].period
    BY <1>1, <1>7 DEF DueInv
  <2>2. executor' = "open" => \A q \in Has(pe') : q \in removals' \/ Due(q)'
    BY <1>1, <1>3, <1>7 DEF DueInv, Has
  <2> QED
    BY <2>1, <2>2 DEF DueInv
<1> QED
  BY <1>3, <1>4, <1>5, <1>6, <1>8

\* The ticker reads the slice of a period.
LEMMA TickIndInv ==
  ASSUME IndInv, NEW per \in Periods, Tick(per)
  PROVE  IndInv'
<1> USE DEF IndInv
<1> DEFINE b == pe.buckets[per]
<1>1. /\ pe'.buckets = pe.buckets /\ pe'.indexes = pe.indexes
      /\ pe'.iterating = per /\ pe'.slice = b /\ pe'.next = 1 /\ pe'.shared = TRUE
  BY DEF Tick, TypeOK, Executor
<1>2. b \in Seq(Pointer) /\ b # <<>>
  BY Bucket DEF Tick, TypeOK
<1>3. Len(b) \in Nat \ {0}
  BY <1>2, EmptySeq
<1>4. b \in Seq(Pointer \cup {None})
  <2> DEFINE Elements == Pointer \cup {None}
  <2> HIDE DEF b
  <2>1. b \in [1 .. Len(b) -> Pointer]
    BY <1>2, LenProperties
  <2>2. b \in [1 .. Len(b) -> Elements]
    BY <2>1
  <2> HIDE DEF Elements
  <2>3. b \in Seq(Elements)
    BY <1>3, <2>2, SeqDef
  <2> QED
    BY <2>3 DEF Elements
<1>5. pe' \in Executor
  BY <1>1, <1>4 DEF Tick, TypeOK, Executor
<1>6. SliceOK(pe')
  BY <1>1, <1>3, PeriodsPositive DEF SliceOK
<1>7. UNCHANGED <<stateVars, executor, closed, removals, changes, creating, panicked>>
  BY DEF Tick, execVars
<1> HIDE DEF b
<1> QED
  BY <1>1, <1>5, <1>6, <1>7, TickerIndInv DEF TypeOK

\* The ticker moves on within its slice, or is done with it.
LEMMA TickNextIndInv ==
  ASSUME IndInv, TickNext
  PROVE  IndInv'
<1> USE DEF IndInv
<1>1. /\ pe.iterating # 0 /\ pe.slice \in Seq(Pointer \cup {None})
      /\ pe.next \in 1 .. Len(pe.slice) /\ Len(pe.slice) \in Nat
  BY ExecutorFields, LenProperties DEF TickNext, TypeOK, Good, SliceOK
<1>2. UNCHANGED <<stateVars, executor, closed, removals, changes>> /\ panicked' \in BOOLEAN
  BY DEF TickNext
<1>3. creating' \subseteq Pipelines
  <2>1. pe.slice[pe.next] \in Pointer \cup {None}
    BY <1>1, ElementOfSeq
  <2> QED
    BY <2>1 DEF TickNext, TypeOK, Pointer
<1>4. CASE pe.next = Len(pe.slice)
  <2>1. /\ pe'.buckets = pe.buckets /\ pe'.indexes = pe.indexes
        /\ pe'.iterating = 0 /\ pe'.slice = <<>> /\ pe'.next = 1 /\ pe'.shared = FALSE
    BY <1>4 DEF TickNext, TypeOK, Executor
  <2>2. <<>> \in Seq(Pointer \cup {None})
    BY EmptySeq
  <2>3. pe' \in Executor
    BY <1>4, <2>1, <2>2 DEF TickNext, TypeOK, Executor
  <2>4. SliceOK(pe')
    BY <2>1 DEF SliceOK
  <2> QED
    BY <1>2, <1>3, <2>1, <2>3, <2>4, TickerIndInv
<1>5. CASE pe.next # Len(pe.slice)
  <2>1. /\ pe'.buckets = pe.buckets /\ pe'.indexes = pe.indexes
        /\ pe'.iterating = pe.iterating /\ pe'.slice = pe.slice
        /\ pe'.next = pe.next + 1 /\ pe'.shared = pe.shared
    BY <1>5 DEF TickNext, TypeOK, Executor
  <2>2. pe' \in Executor
    <3>1. pe' = [pe EXCEPT !.next = @ + 1]
      BY <1>5 DEF TickNext
    <3>2. pe.next + 1 \in Nat
      BY <1>1
    <3> QED
      BY <3>1, <3>2 DEF TypeOK, Executor
  <2>3. SliceOK(pe')
    BY <1>1, <1>5, <2>1 DEF Good, SliceOK
  <2> QED
    BY <1>2, <1>3, <2>1, <2>2, <2>3, TickerIndInv
<1> QED
  BY <1>4, <1>5

\* The executor is closed: nothing is due.
LEMMA LoseExecutorIndInv ==
  ASSUME IndInv, NEW close \in BOOLEAN, LoseExecutor(close)
  PROVE  IndInv'
<1> USE DEF IndInv
<1>1. /\ pipelines' = pipelines /\ deleted' = deleted /\ orgEnabled' = orgEnabled
      /\ removals' = removals /\ pe' = pe /\ mode' = mode
      /\ executor' \in {"none", "closed"}
      /\ UNCHANGED <<creating, panicked>> /\ closed' = close
      /\ changes' \in 0 .. MaxChanges
  BY ChangeType DEF LoseExecutor, stateVars, TypeOK
<1>2. Existing' = Existing
  BY <1>1 DEF Existing
<1>3. TypeOK'
  BY <1>1 DEF TypeOK
<1>4. PipelinesInv' /\ DeletedInv'
  BY <1>1, <1>2 DEF PipelinesInv, DeletedInv
<1>5. DueInv'
  BY <1>1 DEF DueInv, Due
<1> QED
  BY <1>1, <1>3, <1>4, <1>5

\* The last iteration of a closed executor ended.
LEMMA TickerEndsIndInv ==
  ASSUME IndInv, TickerEnds
  PROVE  IndInv'
<1> USE DEF IndInv
<1>1. /\ pipelines' = pipelines /\ deleted' = deleted /\ orgEnabled' = orgEnabled
      /\ mode' = mode /\ removals' = {} /\ pe' = EmptyExecutor /\ executor' = "none"
      /\ UNCHANGED <<closed, creating, panicked, changes>>
  BY DEF TickerEnds, stateVars
<1>2. Existing' = Existing
  BY <1>1 DEF Existing
<1>3. Good(pe') /\ Has(pe') = {}
  BY <1>1, EmptyGood
<1>4. TypeOK'
  BY <1>1, <1>3 DEF TypeOK, Good
<1>5. PipelinesInv' /\ DeletedInv'
  BY <1>1, <1>2, <1>3 DEF PipelinesInv, DeletedInv
<1>6. DueInv'
  BY <1>1 DEF DueInv, Due
<1> QED
  BY <1>3, <1>4, <1>5, <1>6

\* A deleted pipeline is removed.
LEMMA RemoveDeletedIndInv ==
  ASSUME IndInv, NEW p \in Pipelines, RemoveDeleted(p)
  PROVE  IndInv'
<1> USE DEF IndInv
<1>1. /\ pipelines' = pipelines /\ deleted' = deleted /\ orgEnabled' = orgEnabled
      /\ mode' = mode /\ removals' = removals \ {p} /\ pe' = RemovePipeline(pe, p)
      /\ UNCHANGED <<executor, closed, creating, panicked, changes>>
  BY DEF RemoveDeleted, stateVars
<1>2. Existing' = Existing /\ Periodic' = Periodic
  BY <1>1 DEF Existing, Periodic
<1>3. Good(pe') /\ Has(pe') = Has(pe) \ {p} /\ pe'.indexes = pe.indexes
  BY <1>1, RemoveGood
<1>4. TypeOK'
  BY <1>1, <1>3 DEF TypeOK, Good
<1>5. PipelinesInv' /\ DeletedInv'
  BY <1>1, <1>2, <1>3 DEF PipelinesInv, DeletedInv
<1>6. \A q \in Pipelines : Due(q)' <=> Due(q)
  BY <1>1, <1>2 DEF Due
<1>7. DueInv'
  <2>1. \A q \in Pipelines : Due(q)' => pe'.indexes[q] = pipelines'[q].period
    BY <1>1, <1>3, <1>6 DEF DueInv
  <2>2. executor' = "open" => \A q \in Has(pe') : q \in removals' \/ Due(q)'
    BY <1>1, <1>3, <1>6 DEF DueInv, Has
  <2> QED
    BY <2>1, <2>2 DEF DueInv
<1> QED
  BY <1>3, <1>4, <1>5, <1>7

\* A run starts, or does not.
LEMMA RunIndInv ==
  ASSUME IndInv, NEW p \in Pipelines, CreateRun(p) \/ RunNow(p)
  PROVE  IndInv'
<1> USE DEF IndInv
<1>1. /\ deleted' = deleted /\ orgEnabled' = orgEnabled /\ mode' = mode
      /\ removals' = removals /\ pe' = pe /\ executor' = executor
      /\ creating' \subseteq Pipelines
      /\ UNCHANGED <<closed, panicked, changes>>
  BY DEF CreateRun, RunNow, execVars, TypeOK
<1>2. /\ pipelines' \in [Pipelines -> Pipeline \cup {None}]
      /\ Existing' = Existing /\ Periodic' = Periodic
      /\ \A q \in Existing : pipelines'[q].period = pipelines[q].period
  <2>1. CASE pipelines' = pipelines
    BY <2>1 DEF TypeOK, Existing, Periodic
  <2>2. CASE CanRun(p) /\ pipelines' = [pipelines EXCEPT ![p].run = TRUE]
    <3> DEFINE ps == {p}
    <3>1. ps \in SUBSET Existing
      BY <2>2 DEF CanRun
    <3>2. pipelines' = [q \in Pipelines |->
            IF q \in ps THEN [pipelines[q] EXCEPT !.run = TRUE] ELSE pipelines[q]]
      BY <2>2 DEF TypeOK
    <3> HIDE DEF ps
    <3> QED
      BY <3>1, <3>2, SamePeriods
  <2> QED
    BY <2>1, <2>2 DEF CreateRun, RunNow
<1>3. TypeOK'
  BY <1>1, <1>2 DEF TypeOK
<1>4. PipelinesInv' /\ DeletedInv'
  BY <1>1, <1>2 DEF PipelinesInv, DeletedInv
<1>5. \A q \in Pipelines : (Due(q)' <=> Due(q)) /\ (Due(q) => q \in Existing)
  BY <1>1, <1>2 DEF Due, Periodic
<1>6. DueInv'
  <2>1. \A q \in Pipelines : Due(q)' => pe'.indexes[q] = pipelines'[q].period
    BY <1>1, <1>2, <1>5 DEF DueInv
  <2>2. executor' = "open" => \A q \in Has(pe') : q \in removals' \/ Due(q)'
    BY <1>1, <1>5 DEF DueInv, Has
  <2> QED
    BY <2>1, <2>2 DEF DueInv
<1> QED
  BY <1>1, <1>3, <1>4, <1>6

\* Every step keeps the invariant.
LEMMA NextIndInv == IndInv /\ [Next]_vars => IndInv'
<1> SUFFICES ASSUME IndInv, [Next]_vars PROVE IndInv'
  OBVIOUS
<1>1. ASSUME NEW p \in Pipelines, NEW per \in PeriodsOf[p], NEW enabled \in BOOLEAN,
             CreatePipeline(p, per, enabled)
      PROVE  IndInv'
  BY <1>1, CreatePipelineIndInv
<1>2. ASSUME NEW p \in Pipelines, DeletePipelines({p}) PROVE IndInv'
  BY <1>2, DeletePipelinesIndInv
<1>3. ASSUME NEW p \in Pipelines, SetStatus(p) \/ EndRun(p) PROVE IndInv'
  BY <1>3, SetStatusIndInv
<1>4. ASSUME NEW p \in Pipelines, NEW per \in PeriodsOf[p], SetSchedulePeriod(p, per)
      PROVE  IndInv'
  BY <1>4, SetSchedulePeriodIndInv
<1>5. ASSUME NEW p \in Pipelines, RemoveDeleted(p) PROVE IndInv'
  BY <1>5, RemoveDeletedIndInv
<1>6. ASSUME NEW p \in Pipelines, CreateRun(p) \/ RunNow(p) PROVE IndInv'
  BY <1>6, RunIndInv
<1>7. CASE DeletePipelines(Existing)
  BY <1>7, DeletePipelinesIndInv
<1>8. CASE DisableOrganization
  BY <1>8, DisableOrganizationIndInv
<1>9. CASE EnableOrganization
  BY <1>9, EnableOrganizationIndInv
<1>10. CASE UpdateWarehouseMode
  <2>1. /\ UNCHANGED <<pipelines, deleted, orgEnabled, executor, closed, removals,
                       creating, panicked, pe>>
        /\ mode' \in {"normal", "other"} /\ changes' \in 0 .. MaxChanges
    BY <1>10, ChangeType DEF UpdateWarehouseMode, execVars, IndInv
  <2>2. Existing' = Existing
    BY <2>1 DEF Existing
  <2>3. TypeOK' /\ PipelinesInv' /\ DeletedInv'
    BY <2>1, <2>2 DEF IndInv, TypeOK, PipelinesInv, DeletedInv
  <2>4. DueInv'
    BY <2>1, <2>2 DEF IndInv, DueInv, Due, Periodic
  <2> QED
    BY <2>1, <2>3, <2>4 DEF IndInv
<1>11. CASE BecomeLeader
  BY <1>11, BecomeLeaderIndInv
<1>12. ASSUME NEW close \in BOOLEAN, LoseExecutor(close) PROVE IndInv'
  BY <1>12, LoseExecutorIndInv
<1>13. ASSUME NEW per \in Periods, Tick(per) PROVE IndInv'
  BY <1>13, TickIndInv
<1>14. CASE TickNext
  BY <1>14, TickNextIndInv
<1>15. CASE TickerEnds
  BY <1>15, TickerEndsIndInv
<1>16. CASE UNCHANGED vars
  <2>1. UNCHANGED <<pipelines, deleted, orgEnabled, mode, executor, closed, pe,
                    removals, creating, panicked, changes>>
    BY <1>16 DEF vars, stateVars, execVars
  <2>2. Existing' = Existing
    BY <2>1 DEF Existing
  <2>3. TypeOK' /\ PipelinesInv' /\ DeletedInv'
    BY <2>1, <2>2 DEF IndInv, TypeOK, PipelinesInv, DeletedInv
  <2>4. DueInv'
    BY <2>1, <2>2 DEF IndInv, DueInv, Due, Periodic
  <2> QED
    BY <2>1, <2>3, <2>4 DEF IndInv
<1> QED
  BY <1>1, <1>2, <1>3, <1>4, <1>5, <1>6, <1>7, <1>8, <1>9, <1>10, <1>11, <1>12,
     <1>13, <1>14, <1>15, <1>16 DEF Next

-----------------------------------------------------------------------------
(* The theorems.                                                           *)

\* The inductive invariant holds in every state.
THEOREM Invariance == Spec => []IndInv
  BY InitIndInv, NextIndInv, PTL DEF Spec

\* What the scheduler and its executor keep has the types of the code's
\* fields, whatever the ticker and the listeners do in between.
THEOREM TypeCorrect == Spec => []TypeOK
<1>1. IndInv => TypeOK
  BY DEF IndInv
<1> QED
  BY <1>1, Invariance, PTL

\* The leader schedules a pipeline at most once, in the bucket of the period
\* it has now, and no pipeline that is not due, unless its removal is on its
\* way: onCreatePipeline, onSetPipelineSchedulePeriod,
\* onSetOrganizationStatus, the deletions and elections, in every order.
THEOREM ScheduledOnce == Spec => []ScheduledForPeriod
<1>1. IndInv => ScheduledForPeriod
  <2> SUFFICES ASSUME IndInv, executor = "open", NEW p \in Pipelines,
                      NEW a \in Entries(p), NEW b \in Entries(p)
               PROVE  a = b /\ (p \in removals \/ (Due(p) /\ a[1] = pipelines[p].period))
    BY DEF ScheduledForPeriod
  <2>0. \A x \in Entries(p) : \E q \in Periods : \E i \in DOMAIN pe.buckets[q] :
          x = <<q, i>> /\ pe.buckets[q][i].id = p
    BY DEF Entries
  <2>1. PICK per \in Periods : \E i \in DOMAIN pe.buckets[per] :
          a = <<per, i>> /\ pe.buckets[per][i].id = p
    BY <2>0
  <2>2. PICK k \in DOMAIN pe.buckets[per] : a = <<per, k>> /\ pe.buckets[per][k].id = p
    BY <2>1
  <2>3. PICK other \in Periods : \E i \in DOMAIN pe.buckets[other] :
          b = <<other, i>> /\ pe.buckets[other][i].id = p
    BY <2>0
  <2>4. PICK j \in DOMAIN pe.buckets[other] : b = <<other, j>> /\ pe.buckets[other][j].id = p
    BY <2>3
  <2>5. pe.indexes[p] = per /\ pe.indexes[p] = other
    BY <2>2, <2>4 DEF IndInv, Good, Placed
  <2>6. j = k
    BY <2>2, <2>4, <2>5 DEF IndInv, Good, Placed
  <2>7. p \in Has(pe)
    BY <2>2 DEF Has
  <2>8. p \in removals \/ (Due(p) /\ per = pipelines[p].period)
    BY <2>5, <2>7 DEF IndInv, DueInv
  <2> QED
    BY <2>2, <2>4, <2>5, <2>6, <2>8
<1> QED
  BY <1>1, Invariance, PTL

\* A pipeline that is due is in the executor, but for the index that
\* RemovePipeline leaves behind and SetPeriod trusts.
THEOREM NotLost == Spec => []DueScheduled
<1>1. IndInv => DueScheduled
  BY DEF IndInv, DueInv, DueScheduled
<1> QED
  BY <1>1, Invariance, PTL
=============================================================================
