-------------------------- MODULE ReplicationProofs --------------------------
(***************************************************************************)
(* Proofs about Replication, for every set of nodes, any number of         *)
(* notifications, whichever of them are long, and any number of failures.  *)
(***************************************************************************)
EXTENDS Replication, SequenceTheorems, TLAPS

\* What is in the table: a node is not ahead of it, and the fragments on their
\* way, the announced version and the versions waited for are in it.
CommittedInv ==
  \A n \in Nodes :
    /\ version[n] <= committed
    /\ targetVersion[n] <= committed
    /\ \A k \in DOMAIN queue[n] : queue[n][k].version <= committed

\* The rows of a replay follow the version of the node without a gap, up to
\* the announced version at least, and are in the table.
ReplayInv ==
  \A n \in Nodes : pc[n] \in Replaying =>
    /\ \A k \in DOMAIN rows[n] : rows[n][k] = version[n] + k
    /\ targetVersion[n] <= version[n] + Len(rows[n])
    /\ version[n] + Len(rows[n]) <= committed

\* The inductive invariant.
IndInv == TypeOK /\ CommittedInv /\ ReplayInv /\ AppliedInOrder /\ NeverTerminal

-----------------------------------------------------------------------------
(* Sequences.                                                              *)

\* The versions from m + 1 to m + n, in order.
LEMMA Consecutive ==
  ASSUME NEW m \in Nat, NEW n \in Nat, NEW b \in Nat, m + n <= b
  PROVE  /\ [k \in 1 .. n |-> m + k] \in Seq(1 .. b)
         /\ Len([k \in 1 .. n |-> m + k]) = n
OBVIOUS

\* The versions up to n, in order.
LEMMA Upto ==
  ASSUME NEW n \in Nat, NEW b \in Nat, n <= b
  PROVE  [v \in 1 .. n |-> v] \in Seq(1 .. b) /\ Len([v \in 1 .. n |-> v]) = n
OBVIOUS

\* One more version.
LEMMA AppendUpto ==
  ASSUME NEW n \in Nat
  PROVE  Append([v \in 1 .. n |-> v], n + 1) = [v \in 1 .. n + 1 |-> v]
OBVIOUS

\* What is left of a sequence without one of its elements.
LEMMA RemoveAtLemma ==
  ASSUME NEW S, NEW s \in Seq(S), NEW k \in DOMAIN s
  PROVE  /\ RemoveAt(s, k) \in Seq(S)
         /\ \A i \in DOMAIN RemoveAt(s, k) : \E j \in DOMAIN s : RemoveAt(s, k)[i] = s[j]
<1>1. k \in 1 .. Len(s) /\ Len(s) \in Nat /\ DOMAIN s = 1 .. Len(s)
  BY LenProperties
<1> DEFINE T == {s[j] : j \in DOMAIN s}
<1>2. SubSeq(s, 1, k - 1) \in Seq(T) /\ SubSeq(s, k + 1, Len(s)) \in Seq(T)
  BY <1>1, SubSeqProperties
<1>3. RemoveAt(s, k) \in Seq(T)
  BY <1>2, ConcatProperties DEF RemoveAt
<1>4. T \subseteq S
  BY <1>1, ElementOfSeq
<1>5. RemoveAt(s, k) \in Seq(S)
  BY <1>3, <1>4, SeqMonotonic
<1>6. \A i \in DOMAIN RemoveAt(s, k) : RemoveAt(s, k)[i] \in T
  BY <1>3, LenProperties, ElementOfSeq
<1>7. QED
  BY <1>5, <1>6

\* The first elements of a sequence.
LEMMA PrefixLemma ==
  ASSUME NEW S, NEW s \in Seq(S), NEW k \in 0 .. Len(s)
  PROVE  /\ SubSeq(s, 1, k) \in Seq(S)
         /\ \A i \in DOMAIN SubSeq(s, 1, k) :
              i \in DOMAIN s /\ SubSeq(s, 1, k)[i] = s[i]
<1>1. Len(s) \in Nat /\ DOMAIN s = 1 .. Len(s) /\ \A i \in 1 .. Len(s) : s[i] \in S
  BY LenProperties, ElementOfSeq
<1>2. /\ SubSeq(s, 1, k) \in Seq(S)
      /\ Len(SubSeq(s, 1, k)) = k
      /\ \A i \in 1 .. k : SubSeq(s, 1, k)[i] = s[i]
  BY <1>1, SubSeqProperties
<1>3. QED
  BY <1>1, <1>2, LenProperties

\* The fragments of a notification.
LEMMA FragmentsType ==
  ASSUME NEW v \in 1 .. MaxVersion
  PROVE  /\ Fragments(v) \in Seq(Fragment)
         /\ \A k \in DOMAIN Fragments(v) : Fragments(v)[k].version = v
<1> DEFINE a == [version |-> v, last |-> FALSE]
           b == [version |-> v, last |-> TRUE]
<1>1. a \in Fragment /\ b \in Fragment /\ a.version = v /\ b.version = v
  BY DEF Fragment
<1>2. Fragments(v) \in {<<a, b>>, <<b>>}
  BY DEF Fragments
<1> HIDE DEF a, b
<1>3. <<a, b>> \in Seq(Fragment) /\ \A k \in DOMAIN <<a, b>> : <<a, b>>[k].version = v
  BY <1>1
<1>4. <<b>> \in Seq(Fragment) /\ \A k \in DOMAIN <<b>> : <<b>>[k].version = v
  BY <1>1
<1>5. QED
  BY <1>2, <1>3, <1>4

\* Fragments are added to a queue.
LEMMA QueueConcat ==
  ASSUME NEW s \in Seq(Fragment), NEW v \in 1 .. MaxVersion
  PROVE  /\ s \o Fragments(v) \in Seq(Fragment)
         /\ \A i \in DOMAIN (s \o Fragments(v)) :
              \/ (s \o Fragments(v))[i].version = v
              \/ \E j \in DOMAIN s : (s \o Fragments(v))[i] = s[j]
<1> DEFINE t == Fragments(v)
<1>1. t \in Seq(Fragment) /\ \A k \in DOMAIN t : t[k].version = v
  BY FragmentsType
<1>2. /\ s \o t \in Seq(Fragment)
      /\ Len(s \o t) = Len(s) + Len(t)
      /\ \A i \in 1 .. Len(s) + Len(t) :
           (s \o t)[i] = IF i <= Len(s) THEN s[i] ELSE t[i - Len(s)]
  BY <1>1, ConcatProperties
<1> HIDE DEF t
<1>3. /\ Len(s) \in Nat /\ Len(t) \in Nat
      /\ DOMAIN s = 1 .. Len(s) /\ DOMAIN t = 1 .. Len(t)
      /\ DOMAIN (s \o t) = 1 .. Len(s) + Len(t)
  BY <1>1, <1>2, LenProperties
<1>4. ASSUME NEW i \in DOMAIN (s \o t)
      PROVE  \/ (s \o t)[i].version = v
             \/ \E j \in DOMAIN s : (s \o t)[i] = s[j]
  <2>1. CASE i <= Len(s)
    BY <1>2, <1>3, <2>1
  <2>2. CASE i > Len(s)
    <3>1. i - Len(s) \in DOMAIN t /\ (s \o t)[i] = t[i - Len(s)]
      BY <1>2, <1>3, <2>2
    <3>2. QED
      BY <1>1, <3>1
  <2>3. QED
    BY <1>3, <2>1, <2>2
<1>5. QED
  BY <1>2, <1>4 DEF t
-----------------------------------------------------------------------------
(* The steps.                                                              *)

\* A process that ends loses what it had.
LEMMA StoppedInd ==
  ASSUME IndInv, NEW n \in Nodes, Stopped(n), pc' = [pc EXCEPT ![n] = "down"],
         UNCHANGED committed, failures' \in 0 .. MaxFailures
  PROVE  IndInv'
<1>1. TypeOK'
  BY ReplicationAssumption, EmptySeq DEF IndInv, Stopped, TypeOK, Places
<1>2. CommittedInv'
  <2>1. /\ version'[n] = 0 /\ targetVersion'[n] = 0 /\ queue'[n] = <<>>
        /\ \A m \in Nodes \ {n} : /\ version'[m] = version[m]
                                  /\ targetVersion'[m] = targetVersion[m]
                                  /\ queue'[m] = queue[m]
    BY DEF IndInv, TypeOK, Stopped
  <2>2. 0 <= committed
    BY DEF IndInv, TypeOK
  <2>3. QED
    BY <2>1, <2>2 DEF IndInv, CommittedInv
<1>3. ReplayInv' /\ NeverTerminal'
  BY DEF IndInv, TypeOK, Stopped, ReplayInv, NeverTerminal, Replaying
<1>4. AppliedInOrder'
  <2>1. /\ applied'[n] = <<>> /\ version'[n] = 0
        /\ \A m \in Nodes \ {n} : applied'[m] = applied[m] /\ version'[m] = version[m]
    BY DEF IndInv, TypeOK, Stopped
  <2>2. <<>> = [v \in 1 .. 0 |-> v]
    OBVIOUS
  <2>3. QED
    BY <2>1, <2>2 DEF IndInv, AppliedInOrder
<1>5. QED
  BY <1>1, <1>2, <1>3, <1>4 DEF IndInv

\* The query of a replay returns the versions that follow.
LEMMA QueryInd ==
  ASSUME IndInv, NEW n \in Nodes, UNCHANGED <<committed, failures, sessionVars,
         stateVars, targetVersion, waiting>>,
         rows' = [rows EXCEPT ![n] = [k \in 1 .. committed - version[n] |-> version[n] + k]],
         NEW p \in Replaying, pc' = [pc EXCEPT ![n] = p]
  PROVE  IndInv'
<1>1. /\ committed \in Nat /\ version[n] \in Nat /\ MaxVersion \in Nat
      /\ version[n] <= committed /\ committed <= MaxVersion /\ targetVersion[n] <= committed
      /\ targetVersion \in [Nodes -> 0 .. MaxVersion] /\ version \in [Nodes -> 0 .. MaxVersion]
      /\ rows \in [Nodes -> Seq(1 .. MaxVersion)] /\ pc \in [Nodes -> Places]
  BY ReplicationAssumption DEF IndInv, TypeOK, CommittedInv
<1> DEFINE rs == [k \in 1 .. committed - version[n] |-> version[n] + k]
<1>2. rs \in Seq(1 .. MaxVersion) /\ Len(rs) = committed - version[n]
  <2>1. PICK d \in Nat : d = committed - version[n] /\ version[n] + d <= MaxVersion
    BY <1>1
  <2>2. rs = [k \in 1 .. d |-> version[n] + k]
    BY <2>1
  <2>3. QED
    BY <1>1, <2>1, <2>2, Consecutive
<1>3. \A k \in DOMAIN rs : rs[k] = version[n] + k
  OBVIOUS
<1>4. rows'[n] = rs /\ \A m \in Nodes \ {n} : rows'[m] = rows[m]
  BY <1>1
<1> HIDE DEF rs
<1>5. TypeOK'
  BY <1>1, <1>2 DEF IndInv, TypeOK, Places, Replaying, sessionVars, stateVars, rs
<1>6. ReplayInv'
  <2>1. UNCHANGED <<version, targetVersion>>
    BY DEF stateVars
  <2>2. version[n] + Len(rs) = committed
    BY <1>1, <1>2
  <2>3. \A m \in Nodes \ {n} : pc'[m] = pc[m]
    BY <1>1
  <2>4. QED
    BY <1>1, <1>3, <1>4, <2>1, <2>2, <2>3 DEF IndInv, ReplayInv
<1>7. CommittedInv' /\ AppliedInOrder' /\ NeverTerminal'
  BY <1>1 DEF IndInv, CommittedInv, AppliedInOrder, NeverTerminal, Replaying, sessionVars,
     stateVars
<1>8. QED
  BY <1>5, <1>6, <1>7 DEF IndInv

\* Applying the next version.
LEMMA ApplyInd ==
  ASSUME IndInv, NEW n \in Nodes, NEW v, v = version[n] + 1, v <= committed, Apply(n, v)
  PROVE  /\ applied' \in [Nodes -> Seq(1 .. MaxVersion)]
         /\ version' \in [Nodes -> 0 .. MaxVersion]
         /\ version'[n] = version[n] + 1
         /\ \A m \in Nodes \ {n} : version'[m] = version[m]
         /\ AppliedInOrder'
<1>1. /\ committed \in Nat /\ version[n] \in Nat /\ MaxVersion \in Nat
      /\ committed <= MaxVersion
      /\ version \in [Nodes -> 0 .. MaxVersion]
      /\ applied \in [Nodes -> Seq(1 .. MaxVersion)]
  BY ReplicationAssumption DEF IndInv, TypeOK
<1>2. /\ version' \in [Nodes -> 0 .. MaxVersion]
      /\ version'[n] = version[n] + 1
      /\ \A m \in Nodes \ {n} : version'[m] = version[m]
  BY <1>1 DEF Apply
<1>3. applied[n] = [u \in 1 .. version[n] |-> u]
  BY DEF IndInv, AppliedInOrder
<1>4. applied'[n] = [u \in 1 .. version[n] + 1 |-> u]
  BY <1>1, <1>3, AppendUpto DEF Apply
<1>5. [u \in 1 .. version[n] + 1 |-> u] \in Seq(1 .. MaxVersion)
  BY <1>1, Upto
<1>6. applied' = [applied EXCEPT ![n] = [u \in 1 .. version[n] + 1 |-> u]]
  BY <1>1, <1>3, AppendUpto DEF Apply
<1>7. applied' \in [Nodes -> Seq(1 .. MaxVersion)]
  BY <1>1, <1>5, <1>6
<1>8. AppliedInOrder'
  BY <1>1, <1>2, <1>4, <1>6 DEF IndInv, AppliedInOrder
<1>9. QED
  BY <1>2, <1>7, <1>8

\* A fragment arrives.
LEMMA ReceiveInd ==
  ASSUME IndInv, NEW n \in Nodes, Receive(n)
  PROVE  IndInv'
<1> DEFINE f == Head(queue[n])
<1>1. /\ committed \in Nat /\ MaxVersion \in Nat /\ committed <= MaxVersion
      /\ queue \in [Nodes -> Seq(Fragment)] /\ queue[n] # <<>>
      /\ fragments \in [Nodes -> 0 .. MaxVersion] /\ pc \in [Nodes -> Places]
      /\ version \in [Nodes -> 0 .. MaxVersion]
      /\ targetVersion \in [Nodes -> 0 .. MaxVersion]
      /\ pc[n] = "wait"
      /\ UNCHANGED <<committed, failures, conn, rows, waiting>>
  BY ReplicationAssumption DEF IndInv, TypeOK, Receive
<1>2. /\ f \in Fragment /\ Tail(queue[n]) \in Seq(Fragment)
      /\ \A k \in DOMAIN Tail(queue[n]) : \E j \in DOMAIN queue[n] :
           Tail(queue[n])[k] = queue[n][j]
      /\ f.version <= committed
  <2>1. queue[n] \in Seq(Fragment)
    BY <1>1
  <2>2. /\ Tail(queue[n]) \in Seq(Fragment)
        /\ Len(Tail(queue[n])) = Len(queue[n]) - 1
        /\ \A k \in 1 .. Len(Tail(queue[n])) : Tail(queue[n])[k] = queue[n][k + 1]
    BY <1>1, <2>1, HeadTailProperties
  <2>3. /\ DOMAIN queue[n] = 1 .. Len(queue[n]) /\ Len(queue[n]) \in Nat \ {0}
        /\ DOMAIN Tail(queue[n]) = 1 .. Len(queue[n]) - 1
    BY <1>1, <2>1, <2>2, EmptySeq, LenProperties
  <2>4. f = queue[n][1] /\ 1 \in DOMAIN queue[n] /\ f \in Fragment
    BY <1>1, <2>1, <2>3, HeadTailProperties
  <2>5. f.version <= committed
    BY <2>4 DEF IndInv, CommittedInv
  <2>6. \A k \in DOMAIN Tail(queue[n]) : k + 1 \in DOMAIN queue[n]
    BY <2>3
  <2>7. QED
    BY <2>2, <2>3, <2>4, <2>5, <2>6
<1>3. f.version \in 1 .. MaxVersion
  BY <1>2 DEF Fragment
<1>4. queue' \in [Nodes -> Seq(Fragment)] /\ fragments' \in [Nodes -> 0 .. MaxVersion]
  BY <1>1, <1>2, <1>3 DEF Receive
<1>5. \A m \in Nodes : \A k \in DOMAIN queue'[m] : \E j \in DOMAIN queue[m] :
        queue'[m][k] = queue[m][j]
  BY <1>1, <1>2 DEF Receive
<1>6. \A m \in Nodes : \A k \in DOMAIN queue'[m] : queue'[m][k].version <= committed'
  BY <1>1, <1>5 DEF IndInv, CommittedInv
<1>7. CASE pc' = [pc EXCEPT ![n] = "error"] /\ UNCHANGED <<stateVars, targetVersion>>
  <2>1. TypeOK'
    BY <1>1, <1>4, <1>7 DEF IndInv, TypeOK, Places, stateVars
  <2>2. CommittedInv' /\ AppliedInOrder' /\ ReplayInv' /\ NeverTerminal'
    BY <1>1, <1>6, <1>7 DEF IndInv, CommittedInv, AppliedInOrder, ReplayInv,
       NeverTerminal, Replaying, stateVars
  <2>3. QED
    BY <2>1, <2>2 DEF IndInv
<1>8. CASE /\ Applicable(n, f.version) /\ Apply(n, f.version)
           /\ UNCHANGED <<pc, targetVersion>>
  <2>1. /\ applied' \in [Nodes -> Seq(1 .. MaxVersion)]
        /\ version' \in [Nodes -> 0 .. MaxVersion]
        /\ version'[n] = version[n] + 1
        /\ \A m \in Nodes \ {n} : version'[m] = version[m]
        /\ AppliedInOrder'
    BY <1>2, <1>8, ApplyInd DEF Applicable
  <2>2. TypeOK'
    BY <1>1, <1>4, <1>8, <2>1 DEF IndInv, TypeOK
  <2>3. version'[n] <= committed
    BY <1>2, <1>8, <2>1 DEF Applicable
  <2>4. CommittedInv'
    BY <1>1, <1>6, <1>8, <2>1, <2>3 DEF IndInv, CommittedInv
  <2>5. ReplayInv' /\ NeverTerminal'
    BY <1>1, <1>8, <2>1 DEF IndInv, ReplayInv, NeverTerminal, Replaying
  <2>6. QED
    BY <2>1, <2>2, <2>4, <2>5 DEF IndInv
<1>9. CASE /\ targetVersion' = [targetVersion EXCEPT ![n] = f.version]
           /\ pc' = [pc EXCEPT ![n] = "top"] /\ UNCHANGED stateVars
  <2>1. TypeOK'
    BY <1>1, <1>3, <1>4, <1>9, SMTT(30) DEF IndInv, TypeOK, Places, stateVars
  <2>2. CommittedInv'
    BY <1>1, <1>2, <1>6, <1>9 DEF IndInv, CommittedInv, stateVars
  <2>3. AppliedInOrder' /\ ReplayInv' /\ NeverTerminal'
    BY <1>1, <1>9 DEF IndInv, AppliedInOrder, ReplayInv, NeverTerminal, Replaying, stateVars
  <2>4. QED
    BY <2>1, <2>2, <2>3 DEF IndInv
<1>10. CASE UNCHANGED <<pc, stateVars, targetVersion>>
  <2>1. TypeOK'
    BY <1>1, <1>4, <1>10 DEF IndInv, TypeOK, stateVars
  <2>2. CommittedInv' /\ AppliedInOrder' /\ ReplayInv' /\ NeverTerminal'
    BY <1>1, <1>6, <1>10 DEF IndInv, CommittedInv, AppliedInOrder, ReplayInv,
       NeverTerminal, stateVars
  <2>3. QED
    BY <2>1, <2>2 DEF IndInv
<1>11. QED
  BY <1>7, <1>8, <1>9, <1>10, Zenon DEF Receive

\* The next row of a replay.
LEMMA ReplayRowInd ==
  ASSUME IndInv, NEW n \in Nodes, ReplayRow(n)
  PROVE  IndInv'
<1>1. /\ committed \in Nat /\ MaxVersion \in Nat /\ committed <= MaxVersion
      /\ rows \in [Nodes -> Seq(1 .. MaxVersion)] /\ rows[n] # <<>>
      /\ pc \in [Nodes -> Places] /\ pc[n] \in Replaying
      /\ version \in [Nodes -> 0 .. MaxVersion]
      /\ targetVersion \in [Nodes -> 0 .. MaxVersion]
      /\ UNCHANGED <<committed, failures, conn, queue, fragments, targetVersion, waiting>>
  BY ReplicationAssumption, SMTT(30) DEF IndInv, TypeOK, ReplayRow, sessionVars
<1>2. /\ Tail(rows[n]) \in Seq(1 .. MaxVersion)
      /\ Len(Tail(rows[n])) = Len(rows[n]) - 1 /\ Len(rows[n]) \in Nat
      /\ Head(rows[n]) = version[n] + 1
      /\ \A k \in DOMAIN Tail(rows[n]) : Tail(rows[n])[k] = (version[n] + 1) + k
  <2>1. rows[n] \in Seq(1 .. MaxVersion)
    BY <1>1
  <2>2. /\ Tail(rows[n]) \in Seq(1 .. MaxVersion)
        /\ Len(Tail(rows[n])) = Len(rows[n]) - 1
        /\ \A k \in 1 .. Len(Tail(rows[n])) : Tail(rows[n])[k] = rows[n][k + 1]
    BY <1>1, <2>1, HeadTailProperties
  <2>3. /\ DOMAIN rows[n] = 1 .. Len(rows[n]) /\ Len(rows[n]) \in Nat \ {0}
        /\ DOMAIN Tail(rows[n]) = 1 .. Len(rows[n]) - 1
    BY <1>1, <2>1, <2>2, EmptySeq, LenProperties
  <2>4. Head(rows[n]) = rows[n][1] /\ 1 \in DOMAIN rows[n]
    BY <1>1, <2>1, <2>3
  <2>5. \A k \in DOMAIN rows[n] : rows[n][k] = version[n] + k
    BY <1>1 DEF IndInv, ReplayInv
  <2>6. \A k \in DOMAIN Tail(rows[n]) : k + 1 \in DOMAIN rows[n] /\ k \in Nat
    BY <2>3
  <2>7. \A k \in DOMAIN Tail(rows[n]) : Tail(rows[n])[k] = version[n] + (k + 1)
    BY <2>2, <2>3, <2>5, <2>6
  <2>8. version[n] \in Nat
    BY <1>1
  <2>9. QED
    <3>1. \A k \in DOMAIN Tail(rows[n]) : Tail(rows[n])[k] = (version[n] + 1) + k
      BY <2>6, <2>7, <2>8, SMTT(30)
    <3>2. Head(rows[n]) = version[n] + 1
      BY <2>4, <2>5
    <3>3. QED
      BY <2>2, <2>3, <3>1, <3>2
<1>3. CASE /\ Apply(n, Head(rows[n])) /\ rows' = [rows EXCEPT ![n] = Tail(@)]
           /\ UNCHANGED pc
  <2>1. /\ version[n] + Len(rows[n]) <= committed
        /\ targetVersion[n] <= version[n] + Len(rows[n])
    BY <1>1 DEF IndInv, ReplayInv
  <2>2. Len(rows[n]) >= 1 /\ version[n] \in Nat
    BY <1>1, <1>2
  <2>3. Head(rows[n]) <= committed
    BY <1>1, <1>2, <2>1, <2>2
  <2>4. /\ applied' \in [Nodes -> Seq(1 .. MaxVersion)]
        /\ version' \in [Nodes -> 0 .. MaxVersion]
        /\ version'[n] = version[n] + 1
        /\ \A m \in Nodes \ {n} : version'[m] = version[m]
        /\ AppliedInOrder'
    BY <1>2, <1>3, <2>3, ApplyInd
  <2>5. /\ rows' \in [Nodes -> Seq(1 .. MaxVersion)]
        /\ rows'[n] = Tail(rows[n])
        /\ \A m \in Nodes \ {n} : rows'[m] = rows[m]
    BY <1>1, <1>2, <1>3
  <2>6. TypeOK'
    BY <1>1, <1>3, <2>4, <2>5 DEF IndInv, TypeOK
  <2>7. CommittedInv'
    BY <1>1, <1>2, <2>3, <2>4 DEF IndInv, CommittedInv
  <2>8. /\ version'[n] + Len(rows'[n]) <= committed
        /\ targetVersion[n] <= version'[n] + Len(rows'[n])
        /\ \A k \in DOMAIN rows'[n] : rows'[n][k] = version'[n] + k
    BY <1>1, <1>2, <2>1, <2>2, <2>4, <2>5
  <2>9. ReplayInv' /\ NeverTerminal'
    BY <1>1, <1>3, <2>4, <2>5, <2>8, SMTT(30) DEF IndInv, ReplayInv, NeverTerminal
  <2>10. QED
    BY <2>4, <2>6, <2>7, <2>9 DEF IndInv
<1>4. QED
  BY <1>2, <1>3 DEF ReplayRow

\* The session breaks in a replay.
LEMMA ReplayFailsInd ==
  ASSUME IndInv, NEW n \in Nodes, ReplayFails(n)
  PROVE  IndInv'
<1>1. /\ rows \in [Nodes -> Seq(1 .. MaxVersion)] /\ pc \in [Nodes -> Places]
      /\ failures \in 0 .. MaxFailures /\ MaxFailures \in Nat
      /\ UNCHANGED <<committed, failures>>
  BY ReplicationAssumption DEF IndInv, TypeOK, ReplayFails
<1>2. CASE pc[n] = "replay"
  <2>1. /\ pc' = [pc EXCEPT ![n] = "error"] /\ rows' = [rows EXCEPT ![n] = <<>>]
        /\ UNCHANGED <<conn, queue, fragments, applied, version, targetVersion, waiting>>
    BY <1>2 DEF ReplayFails, sessionVars, stateVars
  <2>2. TypeOK'
    BY <1>1, <2>1, EmptySeq DEF IndInv, TypeOK, Places
  <2>3. CommittedInv' /\ AppliedInOrder' /\ ReplayInv' /\ NeverTerminal'
    BY <1>1, <2>1 DEF IndInv, CommittedInv, AppliedInOrder, ReplayInv, NeverTerminal,
       Replaying
  <2>4. QED
    BY <2>2, <2>3 DEF IndInv
<1>3. CASE pc[n] # "replay"
  <2>1. pc' = [pc EXCEPT ![n] = "down"] /\ Stopped(n)
    BY <1>3 DEF ReplayFails
  <2>2. QED
    BY <1>1, <2>1, StoppedInd
<1>4. QED
  BY <1>2, <1>3

\* A step that moves a worker to a place outside a replay, not to the exit, and
\* changes at most its session and its announced version.
LEMMA MoveInd ==
  ASSUME IndInv, NEW n \in Nodes, NEW p \in Places \ (Replaying \cup {"exit"}),
         pc' = [pc EXCEPT ![n] = p],
         conn' \in [Nodes -> {"none", "open", "broken"}],
         fragments' \in [Nodes -> 0 .. MaxVersion],
         \/ UNCHANGED queue
         \/ queue' = [queue EXCEPT ![n] = <<>>],
         \/ UNCHANGED targetVersion
         \/ targetVersion' = [targetVersion EXCEPT ![n] = 0],
         UNCHANGED <<committed, failures, stateVars, rows, waiting>>
  PROVE  IndInv'
<1>1. /\ queue \in [Nodes -> Seq(Fragment)] /\ pc \in [Nodes -> Places]
      /\ targetVersion \in [Nodes -> 0 .. MaxVersion] /\ committed \in Nat
      /\ MaxVersion \in Nat
  BY ReplicationAssumption DEF IndInv, TypeOK
<1>2. /\ queue' \in [Nodes -> Seq(Fragment)]
      /\ \A m \in Nodes : queue'[m] \in {queue[m], <<>>}
  BY <1>1, EmptySeq, ZenonT(60)
<1>3. /\ targetVersion' \in [Nodes -> 0 .. MaxVersion]
      /\ \A m \in Nodes : targetVersion'[m] \in {targetVersion[m], 0}
      /\ \A m \in Nodes \ {n} : targetVersion'[m] = targetVersion[m]
  <2>1. 0 \in 0 .. MaxVersion
    BY <1>1
  <2>2. QED
    BY <1>1, <2>1
<1>4. TypeOK'
  BY <1>1, <1>2, <1>3 DEF IndInv, TypeOK, stateVars
<1>5. CommittedInv'
  BY <1>1, <1>2, <1>3 DEF IndInv, CommittedInv, stateVars
<1>6. AppliedInOrder' /\ ReplayInv' /\ NeverTerminal'
  BY <1>1, <1>3 DEF IndInv, AppliedInOrder, ReplayInv, NeverTerminal, Replaying, stateVars
<1>7. QED
  BY <1>4, <1>5, <1>6 DEF IndInv

\* A step that leaves the workers alone: only what is queued for them and the
\* versions waited for change, and nothing queued is ahead of the table.
LEMMA QueueInd ==
  ASSUME IndInv,
         committed' \in 0 .. MaxVersion, committed <= committed',
         failures' \in 0 .. MaxFailures,
         conn' \in [Nodes -> {"none", "open", "broken"}],
         queue' \in [Nodes -> Seq(Fragment)],
         \A m \in Nodes : \A k \in DOMAIN queue'[m] : queue'[m][k].version <= committed',
         waiting' \in [Nodes -> SUBSET (1 .. MaxVersion)],
         UNCHANGED <<fragments, pc, stateVars, loopVars>>
  PROVE  IndInv'
<1>1. /\ version \in [Nodes -> 0 .. MaxVersion] /\ committed \in Nat /\ committed' \in Nat
      /\ targetVersion \in [Nodes -> 0 .. MaxVersion] /\ MaxVersion \in Nat
      /\ rows \in [Nodes -> Seq(1 .. MaxVersion)]
  BY ReplicationAssumption DEF IndInv, TypeOK
<1>2. TypeOK'
  BY DEF IndInv, TypeOK, stateVars, loopVars
<1>3. CommittedInv'
  BY <1>1 DEF IndInv, CommittedInv, stateVars, loopVars
<1>4. ASSUME NEW m \in Nodes, pc[m] \in Replaying
      PROVE  version[m] + Len(rows[m]) <= committed'
  <2>1. version[m] + Len(rows[m]) <= committed
    BY <1>4 DEF IndInv, ReplayInv
  <2>2. Len(rows[m]) \in Nat /\ version[m] \in Nat
    BY <1>1, LenProperties
  <2>3. QED
    BY <1>1, <2>1, <2>2
<1>5. ReplayInv'
  BY <1>4 DEF IndInv, ReplayInv, stateVars, loopVars
<1>6. AppliedInOrder' /\ NeverTerminal'
  BY DEF IndInv, AppliedInOrder, NeverTerminal, stateVars, loopVars
<1>7. QED
  BY <1>2, <1>3, <1>5, <1>6 DEF IndInv

\* A change is committed.
LEMMA TransactionInd ==
  ASSUME IndInv, NEW n \in Nodes, Transaction(n)
  PROVE  IndInv'
<1>1. /\ committed \in Nat /\ MaxVersion \in Nat /\ committed < MaxVersion
      /\ committed' = committed + 1
      /\ queue \in [Nodes -> Seq(Fragment)]
      /\ waiting \in [Nodes -> SUBSET (1 .. MaxVersion)]
  BY ReplicationAssumption DEF IndInv, TypeOK, Transaction
<1>2. committed' \in 1 .. MaxVersion
  BY <1>1
<1>3. waiting' \in [Nodes -> SUBSET (1 .. MaxVersion)]
  BY <1>1, <1>2 DEF Transaction
<1>4. ASSUME NEW m \in Nodes
      PROVE  /\ queue[m] \o Fragments(committed') \in Seq(Fragment)
             /\ \A k \in DOMAIN (queue[m] \o Fragments(committed')) :
                  (queue[m] \o Fragments(committed'))[k].version <= committed'
  <2> DEFINE c == committed'
             q == queue[m] \o Fragments(c)
  <2>1. queue[m] \in Seq(Fragment) /\ c \in 1 .. MaxVersion
    BY <1>1, <1>2
  <2> HIDE DEF c
  <2>2. /\ q \in Seq(Fragment)
        /\ \A i \in DOMAIN q : \/ q[i].version = c
                               \/ \E j \in DOMAIN queue[m] : q[i] = queue[m][j]
    BY <2>1, QueueConcat
  <2>3. \A j \in DOMAIN queue[m] : /\ queue[m][j].version <= committed
                                   /\ queue[m][j].version \in Nat
    <3>1. \A j \in DOMAIN queue[m] : queue[m][j].version <= committed
      BY DEF IndInv, CommittedInv
    <3>2. \A j \in DOMAIN queue[m] : queue[m][j] \in Fragment
      BY <2>1, LenProperties, ElementOfSeq
    <3>3. QED
      BY <3>1, <3>2 DEF Fragment
  <2>4. c = committed + 1 /\ c \in Nat
    BY <1>1 DEF c
  <2>5. \A i \in DOMAIN q : q[i].version <= c
    <3> HIDE DEF q
    <3>1. \A j \in DOMAIN queue[m] : queue[m][j].version <= c
      BY <1>1, <2>3, <2>4
    <3>2. QED
      BY <2>2, <2>4, <3>1
  <2>6. QED
    BY <2>2, <2>5 DEF c
<1>5. /\ queue' \in [Nodes -> Seq(Fragment)]
      /\ \A m \in Nodes : queue'[m] \in {queue[m], queue[m] \o Fragments(committed')}
  <2>1. queue' = [m \in Nodes |->
                    IF conn[m] = "open" THEN queue[m] \o Fragments(committed')
                    ELSE queue[m]]
    BY DEF Transaction
  <2>2. QED
    BY <1>1, <1>4, <2>1, Zenon
<1>6. \A m \in Nodes : \A k \in DOMAIN queue[m] : queue[m][k].version <= committed'
  <2>1. \A m \in Nodes : \A k \in DOMAIN queue[m] : queue[m][k] \in Fragment
    BY <1>1, LenProperties, ElementOfSeq
  <2>2. \A m \in Nodes : \A k \in DOMAIN queue[m] : queue[m][k].version \in Nat
    BY <2>1 DEF Fragment
  <2>3. \A m \in Nodes : \A k \in DOMAIN queue[m] : queue[m][k].version <= committed
    BY DEF IndInv, CommittedInv
  <2>4. QED
    BY <1>1, <2>2, <2>3
<1>7. \A m \in Nodes : \A k \in DOMAIN queue'[m] : queue'[m][k].version <= committed'
  <2>1. ASSUME NEW m \in Nodes, NEW k \in DOMAIN queue'[m]
        PROVE  queue'[m][k].version <= committed'
    <3>1. CASE queue'[m] = queue[m]
      BY <1>6, <3>1, Zenon
    <3>2. CASE queue'[m] = queue[m] \o Fragments(committed')
      BY <1>4, <3>2, Zenon
    <3>3. QED
      BY <1>5, <3>1, <3>2, Zenon
  <2>2. QED
    BY <2>1, Zenon
<1>8. /\ conn' \in [Nodes -> {"none", "open", "broken"}] /\ failures' \in 0 .. MaxFailures
      /\ UNCHANGED <<fragments, pc, stateVars, loopVars>>
  BY DEF IndInv, TypeOK, Transaction
<1>9. committed' \in 0 .. MaxVersion /\ committed <= committed'
  BY <1>1
<1>10. QED
  BY <1>3, <1>5, <1>7, <1>8, <1>9, QueueInd

\* A session breaks, or a fragment is lost.
LEMMA LossInd ==
  ASSUME IndInv, NEW n \in Nodes, Break(n) \/ Lose(n)
  PROVE  IndInv'
<1>1. /\ queue \in [Nodes -> Seq(Fragment)] /\ queue[n] \in Seq(Fragment)
      /\ MaxFailures \in Nat /\ failures \in 0 .. MaxFailures /\ failures < MaxFailures
      /\ failures' = failures + 1
      /\ conn \in [Nodes -> {"none", "open", "broken"}]
      /\ committed \in 0 .. MaxVersion /\ committed \in Nat
      /\ waiting \in [Nodes -> SUBSET (1 .. MaxVersion)]
      /\ UNCHANGED <<committed, fragments, pc, stateVars, loopVars, waiting>>
  BY ReplicationAssumption DEF IndInv, TypeOK, Break, Lose
<1>2. PICK q \in Seq(Fragment) :
        /\ queue' = [queue EXCEPT ![n] = q]
        /\ \A i \in DOMAIN q : \E j \in DOMAIN queue[n] : q[i] = queue[n][j]
  <2>1. CASE Break(n)
    <3>1. PICK k \in 0 .. Len(queue[n]) : queue' = [queue EXCEPT ![n] = SubSeq(@, 1, k)]
      BY <2>1 DEF Break
    <3>2. queue' = [queue EXCEPT ![n] = SubSeq(queue[n], 1, k)]
      BY <1>1, <3>1
    <3>3. QED
      <4>1. /\ SubSeq(queue[n], 1, k) \in Seq(Fragment)
            /\ \A i \in DOMAIN SubSeq(queue[n], 1, k) :
                 i \in DOMAIN queue[n] /\ SubSeq(queue[n], 1, k)[i] = queue[n][i]
        BY <1>1, PrefixLemma
      <4>2. QED
        BY <3>2, <4>1, Zenon
  <2>2. CASE Lose(n)
    <3>1. PICK k \in DOMAIN queue[n] : queue' = [queue EXCEPT ![n] = RemoveAt(@, k)]
      BY <2>2 DEF Lose
    <3>2. queue' = [queue EXCEPT ![n] = RemoveAt(queue[n], k)]
      BY <1>1, <3>1
    <3>3. QED
      <4>1. /\ RemoveAt(queue[n], k) \in Seq(Fragment)
            /\ \A i \in DOMAIN RemoveAt(queue[n], k) : \E j \in DOMAIN queue[n] :
                 RemoveAt(queue[n], k)[i] = queue[n][j]
        BY <1>1, RemoveAtLemma
      <4>2. QED
        BY <3>2, <4>1, Zenon
  <2>3. QED
    BY <2>1, <2>2
<1>3. queue' \in [Nodes -> Seq(Fragment)]
  BY <1>1, <1>2
<1>4. \A m \in Nodes : \A k \in DOMAIN queue'[m] : queue'[m][k].version <= committed'
  <2>1. \A m \in Nodes : \A k \in DOMAIN queue[m] : queue[m][k].version <= committed
    BY DEF IndInv, CommittedInv
  <2>2. queue'[n] = q /\ \A m \in Nodes \ {n} : queue'[m] = queue[m]
    BY <1>1, <1>2
  <2>3. \A k \in DOMAIN q : q[k].version <= committed
    BY <1>2, <2>1
  <2>4. QED
    BY <1>1, <2>1, <2>2, <2>3
<1>5. conn' \in [Nodes -> {"none", "open", "broken"}]
  BY <1>1 DEF Break, Lose
<1>6. failures' \in 0 .. MaxFailures /\ committed' \in 0 .. MaxVersion /\ committed <= committed'
      /\ waiting' \in [Nodes -> SUBSET (1 .. MaxVersion)]
  BY <1>1
<1>7. QED
  BY <1>1, <1>3, <1>4, <1>5, <1>6, QueueInd

\* The snapshot of load.
LEMMA LoadInd ==
  ASSUME IndInv, NEW n \in Nodes, Load(n)
  PROVE  IndInv'
<1>1. /\ committed \in 0 .. MaxVersion /\ committed \in Nat /\ MaxVersion \in Nat
      /\ applied \in [Nodes -> Seq(1 .. MaxVersion)]
      /\ version \in [Nodes -> 0 .. MaxVersion] /\ pc \in [Nodes -> Places]
      /\ UNCHANGED <<committed, failures, conn, queue, fragments, rows, targetVersion,
                     waiting>>
  BY ReplicationAssumption DEF IndInv, TypeOK, Load, sessionVars, loopVars
<1> DEFINE up == [v \in 1 .. committed |-> v]
<1>2. up \in Seq(1 .. MaxVersion)
  BY <1>1, Upto
<1>3. applied' = [applied EXCEPT ![n] = up]
  BY DEF Load
<1>4. applied'[n] = up /\ \A m \in Nodes \ {n} : applied'[m] = applied[m]
  BY <1>1, <1>3
<1>5. applied' \in [Nodes -> Seq(1 .. MaxVersion)]
  <2> HIDE DEF up
  <2>1. QED
    BY <1>1, <1>2, <1>3
<1>6. /\ version' \in [Nodes -> 0 .. MaxVersion] /\ version'[n] = committed
      /\ \A m \in Nodes \ {n} : version'[m] = version[m]
  BY <1>1 DEF Load
<1>7. /\ pc' \in [Nodes -> Places] /\ pc'[n] = "boot"
      /\ \A m \in Nodes \ {n} : pc'[m] = pc[m]
  BY <1>1 DEF Load, Places
<1>8. TypeOK'
  BY <1>1, <1>5, <1>6, <1>7 DEF IndInv, TypeOK
<1>9. CommittedInv'
  <2>1. \A m \in Nodes : version'[m] <= committed
    <3>1. \A m \in Nodes : version[m] <= committed
      BY DEF IndInv, CommittedInv
    <3>2. committed <= committed
      BY <1>1
    <3>3. QED
      BY <1>6, <3>1, <3>2, Zenon
  <2>2. QED
    BY <1>1, <2>1 DEF IndInv, CommittedInv
<1>10. AppliedInOrder'
  BY <1>4, <1>6 DEF IndInv, AppliedInOrder
<1>11. ReplayInv' /\ NeverTerminal'
  BY <1>1, <1>6, <1>7 DEF IndInv, ReplayInv, NeverTerminal, Replaying
<1>12. QED
  BY <1>8, <1>9, <1>10, <1>11 DEF IndInv

\* The table has what was announced: a replay does not end early.
LEMMA ReplayComplete ==
  ASSUME IndInv, NEW n \in Nodes, pc[n] \in Replaying, rows[n] = <<>>
  PROVE  ~LogEndedEarly(n)
<1>1. version[n] \in Nat /\ targetVersion[n] \in Nat
  BY ReplicationAssumption DEF IndInv, TypeOK
<1>2. Len(rows[n]) = 0
  BY EmptySeq
<1>3. targetVersion[n] <= version[n] + Len(rows[n])
  BY DEF IndInv, ReplayInv
<1>4. QED
  BY <1>1, <1>2, <1>3 DEF LogEndedEarly

\* Every step of a worker.
LEMMA WorkerInd ==
  ASSUME IndInv, NEW n \in Nodes, Worker(n)
  PROVE  IndInv'
<1>1. /\ conn \in [Nodes -> {"none", "open", "broken"}] /\ failures \in 0 .. MaxFailures
      /\ fragments \in [Nodes -> 0 .. MaxVersion] /\ MaxVersion \in Nat
      /\ pc \in [Nodes -> Places]
  BY ReplicationAssumption DEF IndInv, TypeOK
<1>2. CASE BootReplay(n)
  <2>1. CASE conn[n] = "open"
    BY <1>2, <2>1, QueryInd DEF BootReplay, Replaying
  <2>2. CASE conn[n] # "open"
    BY <1>1, <1>2, <2>2, StoppedInd DEF BootReplay
  <2>3. QED
    BY <2>1, <2>2
<1>3. CASE Recover(n)
  <2>1. conn' \in [Nodes -> {"none", "open", "broken"}] /\ fragments' \in [Nodes -> 0 .. MaxVersion]
    <3>1. CASE UNCHANGED sessionVars
      BY <1>1, <3>1 DEF sessionVars
    <3>2. CASE /\ conn' = [conn EXCEPT ![n] = "none"]
               /\ fragments' = [fragments EXCEPT ![n] = 0]
      <4>1. 0 \in 0 .. MaxVersion
        BY <1>1
      <4>2. QED
        BY <1>1, <3>2, <4>1
    <3>3. QED
      BY <1>3, <3>1, <3>2 DEF Recover
  <2>2. /\ pc' = [pc EXCEPT ![n] = "top"]
        /\ UNCHANGED queue \/ queue' = [queue EXCEPT ![n] = <<>>]
        /\ UNCHANGED <<committed, failures, stateVars, rows, waiting>>
        /\ UNCHANGED targetVersion
    BY <1>3 DEF Recover, sessionVars
  <2>3. QED
    BY <2>1, <2>2, MoveInd DEF Places, Replaying
<1>4. CASE Reconnect(n)
  <2>1. conn' \in [Nodes -> {"none", "open", "broken"}] /\ fragments' \in [Nodes -> 0 .. MaxVersion]
    BY <1>1, <1>4 DEF Reconnect
  <2>2. pc' = [pc EXCEPT ![n] = "top"]
    BY <1>1, <1>4 DEF Reconnect
  <2>3. UNCHANGED <<queue, targetVersion>> /\ UNCHANGED <<committed, failures, stateVars, rows, waiting>>
    BY <1>4 DEF Reconnect, loopVars
  <2>4. QED
    BY <2>1, <2>2, <2>3, MoveInd DEF Places, Replaying
<1>5. CASE StartReplay(n)
  <2>1. CASE conn[n] = "open"
    BY <1>5, <2>1, QueryInd DEF StartReplay, Replaying
  <2>2. CASE conn[n] # "open"
    <3>1. /\ pc' = [pc EXCEPT ![n] = "error"]
          /\ UNCHANGED <<conn, queue, fragments, targetVersion>>
          /\ UNCHANGED <<committed, failures, stateVars, rows, waiting>>
      BY <1>5, <2>2 DEF StartReplay, sessionVars
    <3>2. QED
      BY <1>1, <3>1, MoveInd DEF Places, Replaying
  <2>3. QED
    BY <2>1, <2>2
<1>6. CASE ReplayEnds(n)
  <2>1. ~LogEndedEarly(n)
    BY <1>6, ReplayComplete DEF ReplayEnds
  <2>2. /\ pc' = [pc EXCEPT ![n] = "wait"]
        /\ targetVersion' = [targetVersion EXCEPT ![n] = 0]
        /\ UNCHANGED <<conn, queue, fragments>>
        /\ UNCHANGED <<committed, failures, stateVars, rows, waiting>>
    BY <1>6, <2>1 DEF ReplayEnds, sessionVars
  <2>3. QED
    BY <1>1, <2>2, MoveInd DEF Places, Replaying
<1>7. CASE WaitEnds(n)
  <2>1. PICK p \in {"top", "error"} : pc' = [pc EXCEPT ![n] = p]
    BY <1>7 DEF WaitEnds, AfterDeadline
  <2>2. /\ UNCHANGED <<conn, queue, fragments, targetVersion>>
        /\ UNCHANGED <<committed, failures, stateVars, rows, waiting>>
    BY <1>7 DEF WaitEnds, sessionVars, loopVars
  <2>3. p \in Places \ (Replaying \cup {"exit"})
    BY DEF Places, Replaying
  <2>4. QED
    BY <1>1, <2>1, <2>2, <2>3, MoveInd
<1>8. QED
  BY <1>2, <1>3, <1>4, <1>5, <1>6, <1>7, LoadInd, ReplayRowInd, ReplayFailsInd, ReceiveInd,
     Zenon DEF Worker

\* The inductive invariant holds in every reachable state.
THEOREM Invariance == Spec => []IndInv
<1>1. Init => IndInv
  <2> SUFFICES ASSUME Init PROVE IndInv
    OBVIOUS
  <2>1. TypeOK
    BY ReplicationAssumption, EmptySeq DEF Init, TypeOK, Places
  <2>2. <<>> = [v \in 1 .. 0 |-> v]
    OBVIOUS
  <2>3. AppliedInOrder
    BY <2>2 DEF Init, AppliedInOrder
  <2>4. CommittedInv /\ ReplayInv /\ NeverTerminal
    BY DEF Init, CommittedInv, ReplayInv, NeverTerminal, Replaying
  <2>5. QED
    BY <2>1, <2>3, <2>4 DEF IndInv
<1>2. IndInv /\ [Next]_vars => IndInv'
  <2> SUFFICES ASSUME IndInv, [Next]_vars PROVE IndInv'
    OBVIOUS
  <2>1. CASE UNCHANGED vars
    BY <2>1 DEF vars, sessionVars, stateVars, loopVars, IndInv, TypeOK, CommittedInv,
       ReplayInv, AppliedInOrder, NeverTerminal
  <2>2. ASSUME NEW n \in Nodes, Crash(n)
        PROVE  IndInv'
    <3>1. failures' \in 0 .. MaxFailures
      BY <2>2, ReplicationAssumption DEF IndInv, TypeOK, Crash
    <3>2. QED
      BY <2>2, <3>1, StoppedInd DEF Crash
  <2>3. ASSUME NEW n \in Nodes, Listen(n)
        PROVE  IndInv'
    <3>1. conn' \in [Nodes -> {"none", "open", "broken"}] /\ fragments' \in [Nodes -> 0 .. MaxVersion]
      BY <2>3 DEF IndInv, TypeOK, Listen
    <3>2. /\ pc' = [pc EXCEPT ![n] = "load"] /\ UNCHANGED <<queue, targetVersion>>
          /\ UNCHANGED <<committed, failures, stateVars, rows, waiting>>
      BY <2>3 DEF Listen, loopVars
    <3>3. QED
      BY <3>1, <3>2, MoveInd DEF Places, Replaying
  <2>4. ASSUME NEW n \in Nodes, NEW v \in 1 .. MaxVersion, TransactionReturns(n, v)
        PROVE  IndInv'
    <3>1. waiting' \in [Nodes -> SUBSET (1 .. MaxVersion)]
      BY <2>4 DEF IndInv, TypeOK, TransactionReturns
    <3>2. TypeOK'
      BY <2>4, <3>1 DEF IndInv, TypeOK, TransactionReturns, sessionVars, stateVars, loopVars
    <3>3. CommittedInv' /\ ReplayInv' /\ AppliedInOrder' /\ NeverTerminal'
      BY <2>4 DEF IndInv, TransactionReturns, sessionVars, stateVars, loopVars,
         CommittedInv, ReplayInv, AppliedInOrder, NeverTerminal
    <3>4. QED
      BY <3>2, <3>3 DEF IndInv
  <2>5. QED
    BY <2>1, <2>2, <2>3, <2>4, TransactionInd, LossInd, WorkerInd, Zenon DEF Next
<1>3. QED
  BY <1>1, <1>2, PTL DEF Spec

\* Whatever is lost, broken or read twice, a node's state reflects the
\* notifications up to its version, each once and in order.
THEOREM InOrder == Spec => []AppliedInOrder
<1>1. IndInv => AppliedInOrder
  BY DEF IndInv
<1>2. QED
  BY <1>1, Invariance, PTL

\* No node exits because it takes lost notifications for a corrupt table.
THEOREM NoTerminalError == Spec => []NeverTerminal
<1>1. IndInv => NeverTerminal
  BY DEF IndInv
<1>2. QED
  BY <1>1, Invariance, PTL

\* When Transaction returns, the state of its node reflects the change.
THEOREM TransactionVisible == Spec => ReadYourWrites
<1> DEFINE Visible ==
      \A n \in Nodes : \A v \in waiting[n] \ waiting'[n] :
        pc'[n] # "down" => \E k \in DOMAIN applied'[n] : applied'[n][k] = v
<1>1. IndInv /\ [Next]_vars => [Visible]_vars
  <2> SUFFICES ASSUME IndInv, Next, NEW n \in Nodes, NEW v \in waiting[n] \ waiting'[n],
                      pc'[n] # "down"
               PROVE  \E k \in DOMAIN applied'[n] : applied'[n][k] = v
    OBVIOUS
  <2>1. PICK u \in 1 .. MaxVersion : TransactionReturns(n, u) /\ u = v
    <3>1. waiting \in [Nodes -> SUBSET (1 .. MaxVersion)] /\ pc \in [Nodes -> Places]
      BY DEF IndInv, TypeOK
    <3>2. ASSUME NEW m \in Nodes, Transaction(m)
          PROVE  FALSE
      BY <3>1, <3>2 DEF Transaction
    <3>3. ASSUME NEW m \in Nodes, Crash(m)
          PROVE  FALSE
      <4>1. m = n
        BY <3>1, <3>3 DEF Crash, Stopped
      <4>2. QED
        BY <3>1, <3>3, <4>1 DEF Crash
    <3>4. ASSUME NEW m \in Nodes, BootReplay(m) \/ ReplayFails(m)
          PROVE  FALSE
      <4>1. m = n /\ pc' = [pc EXCEPT ![m] = "down"]
        BY <3>1, <3>4 DEF BootReplay, ReplayFails, Stopped
      <4>2. QED
        BY <3>1, <4>1
    <3>5. ASSUME NEW m \in Nodes, NEW u \in 1 .. MaxVersion, TransactionReturns(m, u)
          PROVE  m = n /\ u = v
      BY <3>1, <3>5 DEF TransactionReturns
    <3>6. ASSUME NEW m \in Nodes,
                 \/ Break(m) \/ Lose(m) \/ Listen(m) \/ Load(m) \/ Recover(m)
                 \/ Reconnect(m) \/ StartReplay(m) \/ ReplayRow(m) \/ ReplayEnds(m)
                 \/ WaitEnds(m) \/ Receive(m)
          PROVE  FALSE
      BY <3>6 DEF Break, Lose, Listen, Load, Recover, Reconnect, StartReplay, ReplayRow,
         ReplayEnds, WaitEnds, Receive
    <3>7. QED
      BY <3>2, <3>3, <3>4, <3>5, <3>6, Zenon DEF Next, Worker
  <2>2. /\ version[n] >= v /\ version[n] \in Nat /\ v \in 1 .. MaxVersion
        /\ applied[n] = [k \in 1 .. version[n] |-> k] /\ applied'[n] = applied[n]
    BY <2>1 DEF IndInv, TypeOK, AppliedInOrder, TransactionReturns, Reached, stateVars
  <2>3. v \in DOMAIN applied[n] /\ applied[n][v] = v
    BY <2>2, ReplicationAssumption
  <2>4. QED
    BY <2>2, <2>3
<1>2. QED
  BY <1>1, Invariance, PTL DEF Spec, ReadYourWrites

=============================================================================
