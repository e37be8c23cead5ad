--------------------------- MODULE ElectionProofs ---------------------------
(***************************************************************************)
(* Proofs about Election, for every set of nodes and every choice of the   *)
(* intervals that ElectionAssumption allows.                               *)
(***************************************************************************)
EXTENDS Election, SequenceTheorems, TLAPS

Ntf == [kind : {"ElectLeader", "SeeLeader"}, number : 0 .. MaxElections,
        leader : ID, age : Nat, clock : 0 .. leaderClockSkew]

\* The types that the proofs need: those of TypeOK, without the bounds of times.
TypeInv ==
  /\ row \in [number : 0 .. MaxElections, leader : ID]
  /\ offset \in [Nodes -> 0 .. leaderClockSkew]
  /\ queue \in [Nodes -> Seq(Ntf)]
  /\ pc \in [Nodes -> Places]
  /\ timer \in [Nodes -> Nat]
  /\ local \in [Nodes -> 0 .. MaxElections]
  /\ view \in [Nodes -> [number : 0 .. MaxElections, leader : ID, valid : Nat]]
  /\ slow \subseteq Nodes
  /\ events \in Nat

\* A node knows an election from the moment when it has read the row, and has
\* no session before New.
PlaceInv ==
  \A n \in Nodes :
    /\ pc[n] = "down" => view[n].number = 0 /\ queue[n] = <<>>
    /\ Running(n) => view[n].number # 0

\* Someone says that l is the leader of the election k: the row, a node, or an
\* ElectLeader that is on its way.
Claim(k, l) ==
  \/ k = row.number /\ l = row.leader
  \/ \E n \in Nodes : /\ view[n].number # 0
                      /\ k = view[n].number /\ l = view[n].leader
  \/ \E n \in Nodes : \E i \in DOMAIN queue[n] :
       /\ queue[n][i].kind = "ElectLeader"
       /\ k = queue[n][i].number /\ l = queue[n][i].leader

\* All of them agree, and none is ahead of the row.
ClaimInv ==
  \A k \in 0 .. MaxElections, l \in ID : Claim(k, l) =>
    /\ k <= row.number
    /\ \A m \in ID : Claim(k, m) => l = m

\* A node that lost no ElectLeader knows the last election, or is about to.
FollowInv ==
  \A n \in Nodes : view[n].number # 0 /\ n \notin missed =>
    \/ view[n].number = row.number
    \/ \E i \in DOMAIN queue[n] :
         queue[n][i].kind = "ElectLeader" /\ queue[n][i].number = row.number

\* The inductive invariant of the elections.
IndInv == TypeInv /\ PlaceInv /\ ClaimInv /\ FollowInv

-----------------------------------------------------------------------------
(* Operators.                                                              *)

\* The larger of two numbers.
LEMMA MaxOfTwo ==
  ASSUME NEW a \in Int, NEW b \in Int
  PROVE  Max({a, b}) \in {a, b} /\ Max({a, b}) >= a /\ Max({a, b}) >= b
<1>1. \E x \in {a, b} : \A y \in {a, b} : x >= y
  <2>1. CASE a >= b
    BY <2>1
  <2>2. CASE b >= a
    BY <2>2
  <2>3. QED
    BY <2>1, <2>2
<1>2. QED
  BY <1>1 DEF Max

\* Send adds one notification, at the end, to the queue of each node with a session.
LEMMA SendLemma ==
  ASSUME queue \in [Nodes -> Seq(Ntf)], NEW ntf \in Ntf, Send(ntf)
  PROVE  /\ queue' \in [Nodes -> Seq(Ntf)]
         /\ \A m \in Nodes : pc[m] = "down" => queue'[m] = queue[m]
         /\ \A m \in Nodes : pc[m] # "down" => \E e \in Nat :
              /\ DOMAIN queue'[m] = DOMAIN queue[m] \cup {e}
              /\ \A k \in DOMAIN queue[m] : k \in Nat /\ k < e /\ queue'[m][k] = queue[m][k]
              /\ queue'[m][e] = ntf
<1>1. ASSUME NEW m \in Nodes
      PROVE  /\ Append(queue[m], ntf) \in Seq(Ntf)
             /\ \E e \in Nat :
                  /\ DOMAIN Append(queue[m], ntf) = DOMAIN queue[m] \cup {e}
                  /\ \A k \in DOMAIN queue[m] : /\ k \in Nat /\ k < e
                                                /\ Append(queue[m], ntf)[k] = queue[m][k]
                  /\ Append(queue[m], ntf)[e] = ntf
  <2>1. queue[m] \in Seq(Ntf)
    OBVIOUS
  <2>2. /\ Append(queue[m], ntf) \in Seq(Ntf)
        /\ Len(Append(queue[m], ntf)) = Len(queue[m]) + 1
        /\ \A i \in 1 .. Len(queue[m]) : Append(queue[m], ntf)[i] = queue[m][i]
        /\ Append(queue[m], ntf)[Len(queue[m]) + 1] = ntf
    BY <2>1, AppendProperties
  <2>3. /\ DOMAIN queue[m] = 1 .. Len(queue[m]) /\ Len(queue[m]) \in Nat
        /\ DOMAIN Append(queue[m], ntf) = 1 .. Len(queue[m]) + 1
    BY <2>1, <2>2, LenProperties
  <2>4. 1 .. Len(queue[m]) + 1 = (1 .. Len(queue[m])) \cup {Len(queue[m]) + 1}
    BY <2>3
  <2>5. \A k \in 1 .. Len(queue[m]) : k \in Nat /\ k < Len(queue[m]) + 1
    BY <2>3
  <2>6. Len(queue[m]) + 1 \in Nat
    BY <2>3
  <2>7. QED
    BY <2>2, <2>3, <2>4, <2>5, <2>6, Zenon
<1>2. queue' = [m \in Nodes |-> IF pc[m] = "down" THEN queue[m] ELSE Append(queue[m], ntf)]
  BY DEF Send
<1>3. QED
  BY <1>1, <1>2, Zenon

\* Receive takes the first notification.
LEMMA TailLemma ==
  ASSUME NEW s \in Seq(Ntf), s # <<>>
  PROVE  /\ Tail(s) \in Seq(Ntf) /\ Head(s) \in Ntf /\ 1 \in DOMAIN s /\ Head(s) = s[1]
         /\ \A k \in DOMAIN Tail(s) : k + 1 \in DOMAIN s /\ Tail(s)[k] = s[k + 1] /\ k \in Nat
         /\ \A k \in DOMAIN s : k # 1 => k - 1 \in DOMAIN Tail(s) /\ Tail(s)[k - 1] = s[k]
<1>1. /\ Tail(s) \in Seq(Ntf) /\ Head(s) \in Ntf
      /\ Len(Tail(s)) = Len(s) - 1
      /\ \A k \in 1 .. Len(Tail(s)) : Tail(s)[k] = s[k + 1]
  BY HeadTailProperties
<1>2. /\ DOMAIN s = 1 .. Len(s) /\ Len(s) \in Nat \ {0}
      /\ DOMAIN Tail(s) = 1 .. Len(s) - 1
  BY <1>1, EmptySeq, LenProperties
<1>3. Head(s) = s[1]
  BY <1>2
<1>4. \A k \in DOMAIN Tail(s) : k + 1 \in DOMAIN s /\ Tail(s)[k] = s[k + 1] /\ k \in Nat
  BY <1>1, <1>2
<1>5. ASSUME NEW k \in DOMAIN s, k # 1
      PROVE  k - 1 \in DOMAIN Tail(s) /\ Tail(s)[k - 1] = s[k]
  <2>1. k - 1 \in DOMAIN Tail(s) /\ (k - 1) + 1 = k
    BY <1>2, <1>5
  <2>2. QED
    BY <1>4, <2>1
<1>6. QED
  BY <1>1, <1>2, <1>3, <1>4, <1>5

\* What is left of a queue without one of its notifications.
LEMMA RemoveAtLemma ==
  ASSUME NEW s \in Seq(Ntf), NEW k \in DOMAIN s
  PROVE  /\ RemoveAt(s, k) \in Seq(Ntf)
         /\ \A i \in DOMAIN RemoveAt(s, k) : \E j \in DOMAIN s : RemoveAt(s, k)[i] = s[j]
         /\ \A j \in DOMAIN s \ {k} : \E i \in DOMAIN RemoveAt(s, k) : RemoveAt(s, k)[i] = s[j]
<1>1. k \in 1 .. Len(s) /\ Len(s) \in Nat /\ DOMAIN s = 1 .. Len(s)
  BY LenProperties
<1> DEFINE a == SubSeq(s, 1, k - 1)
           b == SubSeq(s, k + 1, Len(s))
<1>2. /\ a \in Seq(Ntf) /\ Len(a) = k - 1
      /\ \A i \in 1 .. k - 1 : a[i] = s[i]
  <2>1. \A i \in 1 .. k - 1 : i \in 1 .. Len(s) /\ 1 + i - 1 = i
    BY <1>1
  <2>2. \A i \in 1 .. Len(s) : s[i] \in Ntf
    BY <1>1, ElementOfSeq
  <2>3. QED
    BY <1>1, <2>1, <2>2, SubSeqProperties
<1>3. /\ b \in Seq(Ntf) /\ Len(b) = Len(s) - k
      /\ \A i \in 1 .. Len(s) - k : b[i] = s[k + i]
  <2>2. \A i \in 1 .. Len(s) : s[i] \in Ntf
    BY <1>1, ElementOfSeq
  <2>1. \A i \in 1 .. Len(s) - k : k + 1 + i - 1 = k + i
    BY <1>1
  <2>3. QED
    BY <1>1, <2>1, <2>2, SubSeqProperties
<1>4. /\ a \o b \in Seq(Ntf) /\ Len(a \o b) = Len(s) - 1
      /\ \A i \in 1 .. Len(s) - 1 : (a \o b)[i] = IF i <= k - 1 THEN a[i] ELSE b[i - (k - 1)]
  <2> HIDE DEF a, b
  <2>1. Len(a) + Len(b) = Len(s) - 1
    BY <1>1, <1>2, <1>3
  <2>2. /\ a \o b \in Seq(Ntf) /\ Len(a \o b) = Len(a) + Len(b)
        /\ \A i \in 1 .. Len(a) + Len(b) :
             (a \o b)[i] = IF i <= Len(a) THEN a[i] ELSE b[i - Len(a)]
    BY <1>2, <1>3, ConcatProperties
  <2>3. QED
    BY <1>2, <2>1, <2>2, Zenon
<1>5. RemoveAt(s, k) = a \o b
  BY DEF RemoveAt
<1> HIDE DEF a, b
<1> DEFINE r == RemoveAt(s, k)
<1>6. r \in Seq(Ntf) /\ DOMAIN r = 1 .. Len(s) - 1
  BY <1>1, <1>4, <1>5, LenProperties
<1>7. \A i \in 1 .. Len(s) - 1 : r[i] = IF i <= k - 1 THEN s[i] ELSE s[i + 1]
  <2> SUFFICES ASSUME NEW i \in 1 .. Len(s) - 1
               PROVE  r[i] = IF i <= k - 1 THEN s[i] ELSE s[i + 1]
    OBVIOUS
  <2>1. CASE i <= k - 1
    <3>1. i \in 1 .. k - 1
      BY <1>1, <2>1
    <3>2. QED
      BY <1>2, <1>4, <1>5, <2>1, <3>1
  <2>2. CASE i > k - 1
    <3>1. i - (k - 1) \in 1 .. Len(s) - k /\ k + (i - (k - 1)) = i + 1 /\ ~(i <= k - 1)
      BY <1>1, <2>2
    <3>2. b[i - (k - 1)] = s[i + 1]
      BY <1>3, <3>1
    <3>3. QED
      BY <1>4, <1>5, <3>1, <3>2
  <2>3. QED
    BY <1>1, <2>1, <2>2
<1> HIDE DEF r
<1>8. \A i \in DOMAIN r : \E j \in DOMAIN s : r[i] = s[j]
  <2>1. \A i \in 1 .. Len(s) - 1 : i \in DOMAIN s /\ i + 1 \in DOMAIN s
    BY <1>1
  <2>2. QED
    BY <1>6, <1>7, <2>1
<1>9. ASSUME NEW j \in DOMAIN s \ {k}
      PROVE  \E i \in DOMAIN r : r[i] = s[j]
  <2>1. CASE j < k
    <3>1. j \in 1 .. Len(s) - 1 /\ j <= k - 1
      BY <1>1, <2>1
    <3>2. QED
      BY <1>6, <1>7, <3>1
  <2>2. CASE j > k
    <3>1. j - 1 \in 1 .. Len(s) - 1 /\ ~(j - 1 <= k - 1) /\ (j - 1) + 1 = j
      BY <1>1, <2>2
    <3>2. r[j - 1] = s[j]
      BY <1>7, <3>1
    <3>3. QED
      BY <1>6, <3>1, <3>2
  <2>3. QED
    BY <1>1, <2>1, <2>2
<1>10. QED
  BY <1>6, <1>8, <1>9 DEF r
\* The parameters are natural numbers.
LEMMA Params ==
  /\ Gone \notin Nodes
  /\ leaderInterval \in Nat /\ grantedLeaderInterval \in Nat
  /\ electionRandomInterval \in Nat /\ leaderClockSkew \in Nat
  /\ MaxDelay \in Nat /\ MaxElections \in Nat /\ MaxStops \in Nat /\ MaxEvents \in Nat
  /\ leaderInterval + MaxDelay < grantedLeaderInterval /\ MaxElections # 0
BY ElectionAssumption

\* Sleep moves one node.
LEMMA SleepLemma ==
  ASSUME TypeInv, NEW n \in Nodes, NEW place \in Places, NEW d \in Nat, Sleep(n, place, d)
  PROVE  /\ pc' \in [Nodes -> Places] /\ timer' \in [Nodes -> Nat]
         /\ pc'[n] = place /\ timer'[n] = d
         /\ \A m \in Nodes \ {n} : pc'[m] = pc[m] /\ timer'[m] = timer[m]
<1>1. pc \in [Nodes -> Places] /\ timer \in [Nodes -> Nat]
  BY DEF TypeInv
<1>2. QED
  BY <1>1 DEF Sleep

\* The types of the notifications that are sent.
LEMMA SentType ==
  ASSUME NEW number \in 0 .. MaxElections, NEW n \in Nodes, NEW c \in 0 .. leaderClockSkew
  PROVE  ElectLeader(number, n) \in Ntf /\ SeeLeader(number, c) \in Ntf
BY Params DEF ElectLeader, SeeLeader, Ntf, ID

\* A heartbeat is sent, or fails.
LEMMA LeaderLemma ==
  ASSUME TypeInv, NEW n \in Nodes, NEW number \in 0 .. MaxElections,
         NEW after \in {"sleep", "elected"}, leader(n, number, after)
  PROVE  /\ queue' \in [Nodes -> Seq(Ntf)] /\ pc' \in [Nodes -> Places]
         /\ timer' \in [Nodes -> Nat] /\ local' \in [Nodes -> 0 .. MaxElections]
         /\ events' \in Nat /\ events <= events'
         /\ local'[n] \in {local[n], number} /\ \A m \in Nodes \ {n} : local'[m] = local[m]
         /\ \A m \in Nodes \ {n} : pc'[m] = pc[m] /\ timer'[m] = timer[m]
         /\ \/ /\ Send(SeeLeader(number, offset[n])) /\ SeeLeader(number, offset[n]) \in Ntf
               /\ pc'[n] = after /\ timer'[n] = leaderInterval /\ UNCHANGED local
            \/ /\ UNCHANGED queue /\ pc'[n] \in {"retry", "retryElected"}
               /\ events' > 0
<1>1. /\ local \in [Nodes -> 0 .. MaxElections] /\ events \in Nat
      /\ queue \in [Nodes -> Seq(Ntf)] /\ offset[n] \in 0 .. leaderClockSkew
  BY DEF TypeInv
<1>2. CASE /\ Send(SeeLeader(number, offset[n]))
           /\ Sleep(n, after, leaderInterval)
           /\ UNCHANGED <<local, events>>
  <2>1. after \in Places /\ leaderInterval \in Nat
    BY Params DEF Places
  <2>2. SeeLeader(number, offset[n]) \in Ntf
    BY <1>1, SentType
  <2>3. queue' \in [Nodes -> Seq(Ntf)]
    BY <1>1, <1>2, <2>2, SendLemma
  <2>4. events <= events
    BY <1>1
  <2>5. /\ pc' \in [Nodes -> Places] /\ timer' \in [Nodes -> Nat]
        /\ pc'[n] = after /\ timer'[n] = leaderInterval
        /\ \A m \in Nodes \ {n} : pc'[m] = pc[m] /\ timer'[m] = timer[m]
    BY <1>2, <2>1, SleepLemma, Zenon
  <2>6. QED
    BY <1>1, <1>2, <2>2, <2>3, <2>4, <2>5, Zenon
<1>3. CASE /\ Event /\ UNCHANGED queue
           /\ \E d \in 1 .. leaderInterval :
                Sleep(n, IF after = "sleep" THEN "retry" ELSE "retryElected", d)
           /\ local' = [local EXCEPT ![n] = number]
  <2>1. PICK d \in 1 .. leaderInterval :
                Sleep(n, IF after = "sleep" THEN "retry" ELSE "retryElected", d)
    BY <1>3
  <2>2. PICK p \in {"retry", "retryElected"} : Sleep(n, p, d)
    BY <2>1
  <2>3. p \in Places /\ d \in Nat
    BY Params DEF Places
  <2>4. events' = events + 1
    BY <1>3 DEF Event
  <2>5. events' \in Nat /\ events <= events' /\ events' > 0
    BY <1>1, <2>4
  <2>6. /\ local' \in [Nodes -> 0 .. MaxElections]
        /\ local'[n] = number /\ \A m \in Nodes \ {n} : local'[m] = local[m]
    BY <1>1, <1>3
  <2>7. /\ pc' \in [Nodes -> Places] /\ timer' \in [Nodes -> Nat] /\ pc'[n] = p
        /\ \A m \in Nodes \ {n} : pc'[m] = pc[m] /\ timer'[m] = timer[m]
    BY <2>2, <2>3, SleepLemma, Zenon
  <2>8. QED
    BY <1>1, <1>3, <2>5, <2>6, <2>7, Zenon
<1>4. QED
  BY <1>2, <1>3, Zenon DEF leader

-----------------------------------------------------------------------------
(* The elections.                                                          *)

\* A step that neither changes what a node knows nor elects anyone: it takes
\* no ElectLeader from a node, other than from one that missed it, and adds none.
LEMMA QuietInd ==
  ASSUME IndInv, UNCHANGED row, missed \subseteq missed',
         \A m \in Nodes : view'[m].number = view[m].number /\ view'[m].leader = view[m].leader,
         \A m \in Nodes : pc'[m] = "down" => pc[m] = "down" /\ queue'[m] = queue[m],
         \A m \in Nodes : Running(m)' => view[m].number # 0,
         \A m \in Nodes : \A i \in DOMAIN queue'[m] : queue'[m][i].kind = "ElectLeader" =>
           \E j \in DOMAIN queue[m] : /\ queue[m][j].kind = "ElectLeader"
                                      /\ queue[m][j].number = queue'[m][i].number
                                      /\ queue[m][j].leader = queue'[m][i].leader,
         \A m \in Nodes \ missed' : \A j \in DOMAIN queue[m] : queue[m][j].kind = "ElectLeader" =>
           \E i \in DOMAIN queue'[m] : /\ queue'[m][i].kind = "ElectLeader"
                                       /\ queue'[m][i].number = queue[m][j].number
  PROVE  PlaceInv' /\ ClaimInv' /\ FollowInv'
<1>1. PlaceInv'
  BY ZenonT(60) DEF IndInv, PlaceInv
<1>2. \A k, l : Claim(k, l)' => Claim(k, l)
  <2> SUFFICES ASSUME NEW k, NEW l, Claim(k, l)'
               PROVE  Claim(k, l)
    OBVIOUS
  <2>1. CASE k = row'.number /\ l = row'.leader
    BY <2>1 DEF Claim
  <2>2. CASE \E n \in Nodes : /\ view'[n].number # 0
                              /\ k = view'[n].number /\ l = view'[n].leader
    <3>1. PICK n \in Nodes : /\ view'[n].number # 0
                             /\ k = view'[n].number /\ l = view'[n].leader
      BY <2>2
    <3>2. view[n].number # 0 /\ k = view[n].number /\ l = view[n].leader
      BY <3>1, Zenon
    <3>3. QED
      BY <3>2, Zenon DEF Claim
  <2>3. CASE \E n \in Nodes : \E i \in DOMAIN queue'[n] :
               /\ queue'[n][i].kind = "ElectLeader"
               /\ k = queue'[n][i].number /\ l = queue'[n][i].leader
    <3>1. PICK n \in Nodes : \E i \in DOMAIN queue'[n] :
               /\ queue'[n][i].kind = "ElectLeader"
               /\ k = queue'[n][i].number /\ l = queue'[n][i].leader
      BY <2>3
    <3>2. PICK i \in DOMAIN queue'[n] :
               /\ queue'[n][i].kind = "ElectLeader"
               /\ k = queue'[n][i].number /\ l = queue'[n][i].leader
      BY <3>1
    <3>3. PICK j \in DOMAIN queue[n] : /\ queue[n][j].kind = "ElectLeader"
                                       /\ queue[n][j].number = queue'[n][i].number
                                       /\ queue[n][j].leader = queue'[n][i].leader
      BY <3>2, Zenon
    <3>4. k = queue[n][j].number /\ l = queue[n][j].leader
      BY <3>2, <3>3
    <3>5. QED
      BY <3>3, <3>4, Zenon DEF Claim
  <2>4. QED
    BY <2>1, <2>2, <2>3, Zenon DEF Claim
<1>3. ClaimInv'
  BY <1>2, Zenon DEF IndInv, ClaimInv
<1>4. FollowInv'
  <2> SUFFICES ASSUME NEW n \in Nodes, view'[n].number # 0, n \notin missed',
                      view'[n].number # row'.number
               PROVE  \E i \in DOMAIN queue'[n] : /\ queue'[n][i].kind = "ElectLeader"
                                                  /\ queue'[n][i].number = row'.number
    BY Zenon DEF FollowInv
  <2>1. n \notin missed /\ view[n].number # 0 /\ view[n].number # row.number
    BY Zenon
  <2>2. PICK j \in DOMAIN queue[n] : /\ queue[n][j].kind = "ElectLeader"
                                     /\ queue[n][j].number = row.number
    BY <2>1, Zenon DEF IndInv, FollowInv
  <2>3. PICK i \in DOMAIN queue'[n] : /\ queue'[n][i].kind = "ElectLeader"
                                      /\ queue'[n][i].number = queue[n][j].number
    BY <2>2, Zenon
  <2>4. queue'[n][i].number = row'.number
    BY <2>2, <2>3
  <2>5. QED
    BY <2>3, <2>4, Zenon
<1>5. QED
  BY <1>1, <1>3, <1>4

\* Notifications other than ElectLeader are sent.
LEMMA SendQuiet ==
  ASSUME TypeInv, NEW ntf \in Ntf, ntf.kind # "ElectLeader", Send(ntf)
  PROVE  /\ \A m \in Nodes : \A i \in DOMAIN queue'[m] : queue'[m][i].kind = "ElectLeader" =>
              \E j \in DOMAIN queue[m] : /\ queue[m][j].kind = "ElectLeader"
                                         /\ queue[m][j].number = queue'[m][i].number
                                         /\ queue[m][j].leader = queue'[m][i].leader
         /\ \A m \in Nodes : \A j \in DOMAIN queue[m] : queue[m][j].kind = "ElectLeader" =>
              \E i \in DOMAIN queue'[m] : /\ queue'[m][i].kind = "ElectLeader"
                                          /\ queue'[m][i].number = queue[m][j].number
         /\ \A m \in Nodes : pc[m] = "down" => queue'[m] = queue[m]
<1>1. queue \in [Nodes -> Seq(Ntf)]
  BY DEF TypeInv
<1>2. /\ \A m \in Nodes : pc[m] = "down" => queue'[m] = queue[m]
      /\ \A m \in Nodes : pc[m] # "down" => \E e \in Nat :
           /\ DOMAIN queue'[m] = DOMAIN queue[m] \cup {e}
           /\ \A k \in DOMAIN queue[m] : k \in Nat /\ k < e /\ queue'[m][k] = queue[m][k]
           /\ queue'[m][e] = ntf
  BY <1>1, SendLemma
<1>3. ASSUME NEW m \in Nodes, pc[m] # "down"
      PROVE  /\ \A i \in DOMAIN queue'[m] : queue'[m][i].kind = "ElectLeader" =>
                  i \in DOMAIN queue[m] /\ queue'[m][i] = queue[m][i]
             /\ \A j \in DOMAIN queue[m] : j \in DOMAIN queue'[m] /\ queue'[m][j] = queue[m][j]
  <2>1. PICK e \in Nat :
           /\ DOMAIN queue'[m] = DOMAIN queue[m] \cup {e}
           /\ \A k \in DOMAIN queue[m] : k \in Nat /\ k < e /\ queue'[m][k] = queue[m][k]
           /\ queue'[m][e] = ntf
    BY <1>2, <1>3
  <2>2. QED
    BY <2>1, Zenon
<1>4. QED
  BY <1>2, <1>3, Zenon

\* Typing facts for the claims.
LEMMA ClaimTypes ==
  ASSUME TypeInv
  PROVE  /\ row.number \in 0 .. MaxElections /\ row.leader \in ID
         /\ \A n \in Nodes : /\ view[n].number \in 0 .. MaxElections
                             /\ view[n].leader \in ID /\ view[n].valid \in Nat
         /\ \A n \in Nodes : \A i \in DOMAIN queue[n] :
              /\ queue[n][i] \in Ntf
              /\ queue[n][i].number \in 0 .. MaxElections /\ queue[n][i].leader \in ID
              /\ queue[n][i].age \in Nat /\ queue[n][i].clock \in 0 .. leaderClockSkew
<1>1. \A n \in Nodes : queue[n] \in Seq(Ntf)
  BY DEF TypeInv
<1>2. \A n \in Nodes : \A i \in DOMAIN queue[n] : queue[n][i] \in Ntf
  BY <1>1, LenProperties, ElementOfSeq
<1>3. QED
  BY <1>2 DEF TypeInv, Ntf

\* What the claims say to each other: the ones of the row, of the nodes and of
\* the notifications.
LEMMA ClaimFacts ==
  ASSUME IndInv
  PROVE  /\ \A n \in Nodes : view[n].number # 0 =>
              /\ view[n].number <= row.number
              /\ view[n].number = row.number => view[n].leader = row.leader
         /\ \A n \in Nodes : \A i \in DOMAIN queue[n] : queue[n][i].kind = "ElectLeader" =>
              /\ queue[n][i].number <= row.number
         /\ \A m, n \in Nodes : view[m].number = view[n].number /\ view[m].number # 0 =>
              view[m].leader = view[n].leader
<1>1. TypeInv
  BY DEF IndInv
<1>2. ASSUME NEW n \in Nodes, view[n].number # 0
      PROVE  /\ view[n].number <= row.number
             /\ view[n].number = row.number => view[n].leader = row.leader
  <2>1. Claim(view[n].number, view[n].leader)
    BY <1>2, Zenon DEF Claim
  <2>2. view[n].number = row.number => Claim(view[n].number, row.leader)
    BY DEF Claim
  <2>3. QED
    BY <1>1, <2>1, <2>2, ClaimTypes, Zenon DEF IndInv, ClaimInv
<1>3. ASSUME NEW n \in Nodes, NEW i \in DOMAIN queue[n], queue[n][i].kind = "ElectLeader"
      PROVE  queue[n][i].number <= row.number
  <2>1. Claim(queue[n][i].number, queue[n][i].leader)
    BY <1>3, Zenon DEF Claim
  <2>2. QED
    BY <1>1, <2>1, ClaimTypes, Zenon DEF IndInv, ClaimInv
<1>4. ASSUME NEW m \in Nodes, NEW n \in Nodes,
             view[m].number = view[n].number, view[m].number # 0
      PROVE  view[m].leader = view[n].leader
  <2>1. Claim(view[m].number, view[m].leader)
    BY <1>4, Zenon DEF Claim
  <2>2. Claim(view[n].number, view[n].leader)
    BY <1>4, Zenon DEF Claim
  <2>3. Claim(view[m].number, view[n].leader)
    BY <1>4, <2>2
  <2>4. QED
    BY <1>1, <2>1, <2>3, ClaimTypes, Zenon DEF IndInv, ClaimInv
<1>5. QED
  BY <1>2, <1>3, <1>4, Zenon

\* A step of keepElections that elects nobody: at most a heartbeat is sent.
LEMMA WorkInd ==
  ASSUME IndInv, NEW n \in Nodes,
         queue' \in [Nodes -> Seq(Ntf)], pc' \in [Nodes -> Places],
         timer' \in [Nodes -> Nat], local' \in [Nodes -> 0 .. MaxElections], events' \in Nat,
         slow' \subseteq Nodes, UNCHANGED <<row, offset, view, missed>>,
         Running(n) \/ UNCHANGED pc, pc'[n] \notin {"down", "load"} \/ UNCHANGED pc,
         \A m \in Nodes \ {n} : pc'[m] = pc[m],
         \/ UNCHANGED queue
         \/ \E ntf \in Ntf : ntf.kind # "ElectLeader" /\ Send(ntf)
  PROVE  IndInv'
<1>1. TypeInv /\ TypeInv'
  BY DEF IndInv, TypeInv
<1>2. \A m \in Nodes : pc'[m] = "down" <=> pc[m] = "down"
  BY DEF Running
<1>3. \A m \in Nodes : Running(m)' => Running(m)
  BY DEF Running
<1>4. \A m \in Nodes : Running(m)' => view[m].number # 0
  BY <1>3 DEF IndInv, PlaceInv
<1>5. /\ \A m \in Nodes : \A i \in DOMAIN queue'[m] : queue'[m][i].kind = "ElectLeader" =>
           \E j \in DOMAIN queue[m] : /\ queue[m][j].kind = "ElectLeader"
                                      /\ queue[m][j].number = queue'[m][i].number
                                      /\ queue[m][j].leader = queue'[m][i].leader
      /\ \A m \in Nodes : \A j \in DOMAIN queue[m] : queue[m][j].kind = "ElectLeader" =>
           \E i \in DOMAIN queue'[m] : /\ queue'[m][i].kind = "ElectLeader"
                                       /\ queue'[m][i].number = queue[m][j].number
      /\ \A m \in Nodes : pc[m] = "down" => queue'[m] = queue[m]
  <2>1. CASE UNCHANGED queue
    BY <2>1
  <2>2. CASE \E ntf \in Ntf : ntf.kind # "ElectLeader" /\ Send(ntf)
    <3>1. PICK ntf \in Ntf : ntf.kind # "ElectLeader" /\ Send(ntf)
      BY <2>2
    <3>2. QED
      BY <1>1, <3>1, SendQuiet
  <2>3. QED
    BY <2>1, <2>2
<1>6. PlaceInv' /\ ClaimInv' /\ FollowInv'
  <2>1. \A m \in Nodes : view'[m].number = view[m].number /\ view'[m].leader = view[m].leader
    OBVIOUS
  <2>2. \A m \in Nodes : pc'[m] = "down" => pc[m] = "down" /\ queue'[m] = queue[m]
    BY <1>2, <1>5, Zenon
  <2>3. missed \subseteq missed' /\ row' = row
    OBVIOUS
  <2>4. \A m \in Nodes \ missed' : \A j \in DOMAIN queue[m] : queue[m][j].kind = "ElectLeader" =>
           \E i \in DOMAIN queue'[m] : /\ queue'[m][i].kind = "ElectLeader"
                                       /\ queue'[m][i].number = queue[m][j].number
    BY <1>5, Zenon
  <2>5. QED
    BY <1>4, <1>5, <2>1, <2>2, <2>3, <2>4, QuietInd, Zenon
<1>7. QED
  BY <1>1, <1>6 DEF IndInv

\* The steps of keepElections other than an election.
LEMMA KeepInd ==
  ASSUME IndInv, NEW n \in Nodes,
         \/ Loop(n) \/ Wake(n) \/ Retry(n) \/ AwaitElection(n) \/ SlowDown(n) \/ CatchUp(n)
         \/ TryElection(n) /\ UNCHANGED row
  PROVE  IndInv'
<1>1. /\ queue \in [Nodes -> Seq(Ntf)] /\ pc \in [Nodes -> Places]
      /\ timer \in [Nodes -> Nat] /\ local \in [Nodes -> 0 .. MaxElections]
      /\ events \in Nat /\ slow \subseteq Nodes /\ TypeInv
      /\ view[n].number \in 0 .. MaxElections /\ view[n].valid \in Nat
      /\ local[n] \in 0 .. MaxElections /\ row.number \in Nat
  BY DEF IndInv, TypeInv
<1>2. ASSUME NEW number \in 0 .. MaxElections, NEW after \in {"sleep", "elected"},
             leader(n, number, after)
      PROVE  /\ queue' \in [Nodes -> Seq(Ntf)] /\ pc' \in [Nodes -> Places]
             /\ timer' \in [Nodes -> Nat] /\ local' \in [Nodes -> 0 .. MaxElections]
             /\ events' \in Nat /\ pc'[n] \notin {"down", "load"}
             /\ \A m \in Nodes \ {n} : pc'[m] = pc[m]
             /\ \/ UNCHANGED queue
                \/ \E ntf \in Ntf : ntf.kind # "ElectLeader" /\ Send(ntf)
  <2>1. SeeLeader(number, offset[n]).kind # "ElectLeader"
    BY DEF SeeLeader
  <2>2. QED
    BY <1>1, <1>2, <2>1, LeaderLemma, ZenonT(60)
<1>3. ASSUME NEW place \in {"loop", "sleep", "random"}, NEW d \in Nat, Sleep(n, place, d)
      PROVE  /\ pc' \in [Nodes -> Places] /\ timer' \in [Nodes -> Nat]
             /\ pc'[n] \notin {"down", "load"}
             /\ \A m \in Nodes \ {n} : pc'[m] = pc[m]
  <2>1. place \in Places
    BY DEF Places
  <2>2. QED
    BY <1>1, <1>3, <2>1, SleepLemma
<1>4. CASE Loop(n)
  <2>1. Running(n) /\ slow' \subseteq Nodes /\ UNCHANGED <<row, offset, view, missed>>
    BY <1>1, <1>4 DEF Loop, Running
  <2>2. CASE leader(n, view[n].number, "sleep")
    BY <1>1, <1>2, <2>1, <2>2, WorkInd
  <2>3. CASE Sleep(n, "sleep", view[n].valid) /\ UNCHANGED <<queue, local, events>>
    BY <1>1, <1>3, <2>1, <2>3, WorkInd
  <2>4. CASE /\ \E d \in 0 .. electionRandomInterval : Sleep(n, "random", d)
             /\ local' = [local EXCEPT ![n] = view[n].number]
             /\ UNCHANGED <<queue, events>>
    <3>1. PICK d \in Nat : Sleep(n, "random", d)
      BY <2>4, Params
    <3>2. local' \in [Nodes -> 0 .. MaxElections]
      BY <1>1, <2>4
    <3>3. QED
      BY <1>1, <1>3, <2>1, <2>4, <3>1, <3>2, WorkInd
  <2>5. QED
    BY <1>4, <2>2, <2>3, <2>4, Zenon DEF Loop
<1>5. CASE Wake(n)
  <2>1. /\ Running(n) /\ slow' \subseteq Nodes /\ UNCHANGED <<row, offset, view, missed>>
        /\ Sleep(n, "loop", 0) /\ UNCHANGED <<queue, local, events>>
    BY <1>1, <1>5 DEF Wake, Running, bounds
  <2>2. QED
    BY <1>1, <1>3, <2>1, WorkInd
<1>6. CASE Retry(n)
  <2>1. Running(n) /\ slow' \subseteq Nodes /\ UNCHANGED <<row, offset, view, missed>>
    BY <1>1, <1>6 DEF Retry, Running
  <2>2. PICK after \in {"sleep", "elected"} : leader(n, local[n], after)
    BY <1>6 DEF Retry
  <2>3. QED
    BY <1>1, <1>2, <2>1, <2>2, WorkInd
<1>7. CASE AwaitElection(n)
  <2>1. Running(n) /\ slow' \subseteq Nodes /\ UNCHANGED <<row, offset, view, missed>>
    BY <1>1, <1>7 DEF AwaitElection, Running
  <2>2. CASE Sleep(n, "loop", 0) /\ UNCHANGED <<queue, local, events>>
    BY <1>1, <1>3, <2>1, <2>2, WorkInd
  <2>3. CASE leader(n, local[n], "elected")
    BY <1>1, <1>2, <2>1, <2>3, WorkInd
  <2>4. QED
    BY <1>7, <2>2, <2>3, Zenon DEF AwaitElection
<1>8. CASE SlowDown(n) \/ CatchUp(n)
  <2>1. /\ slow' \subseteq Nodes /\ UNCHANGED <<row, offset, view, missed>>
        /\ UNCHANGED <<queue, pc, timer, local>>
        /\ events' \in Nat
    BY <1>1, <1>8 DEF SlowDown, CatchUp, nodeVars, Event, bounds
  <2>2. QED
    BY <1>1, <2>1, WorkInd
<1>9. CASE TryElection(n) /\ UNCHANGED row
  <2>1. Running(n) /\ slow' \subseteq Nodes /\ UNCHANGED <<row, offset, view, missed>>
    BY <1>1, <1>9 DEF TryElection, Running
  <2>2. Sleep(n, "loop", 0) /\ UNCHANGED <<row, queue, local, events>>
    <3>1. ~(row' = [number |-> local[n] + 1, leader |-> n] /\ Electable(n))
      BY <1>1, <1>9 DEF Electable
    <3>2. QED
      BY <1>9, <3>1, Zenon DEF TryElection
  <2>3. QED
    BY <1>1, <1>3, <2>1, <2>2, WorkInd
<1>10. QED
  BY <1>4, <1>5, <1>6, <1>7, <1>8, <1>9

\* What an election changes.
LEMMA ElectionLemma ==
  ASSUME TypeInv, NEW n \in Nodes, TryElection(n), row' # row
  PROVE  /\ local[n] >= view[n].number /\ view[n].valid = 0 /\ row.number = local[n]
         /\ row'.number = row.number + 1 /\ row'.leader = n
         /\ row' \in [number : 0 .. MaxElections, leader : ID]
         /\ Send(ElectLeader(row'.number, n)) /\ ElectLeader(row'.number, n) \in Ntf
         /\ UNCHANGED <<offset, view, slow, missed>>
         /\ TypeInv'
         /\ pc[n] = "random" /\ pc'[n] \in {"elected", "loop"}
         /\ \A m \in Nodes \ {n} : pc'[m] = pc[m] /\ timer'[m] = timer[m]
         /\ \/ /\ UNCHANGED events /\ pc'[n] = "elected" /\ timer'[n] = leaderInterval
               /\ local'[n] = row'.number
            \/ events' > 0
<1>1. /\ queue \in [Nodes -> Seq(Ntf)] /\ local \in [Nodes -> 0 .. MaxElections]
      /\ local[n] \in 0 .. MaxElections /\ events \in Nat /\ row.number \in 0 .. MaxElections
  BY DEF TypeInv
<1>2. /\ local[n] >= view[n].number /\ view[n].valid = 0 /\ Electable(n)
      /\ local[n] < MaxElections
      /\ row' = [number |-> local[n] + 1, leader |-> n]
      /\ Send(ElectLeader(row'.number, n))
      /\ \/ /\ Sleep(n, "elected", leaderInterval)
            /\ local' = [local EXCEPT ![n] = row'.number]
            /\ UNCHANGED events
         \/ /\ Event
            /\ Sleep(n, "loop", 0)
            /\ UNCHANGED local
  BY Zenon DEF TryElection
<1>3. /\ row.number = local[n] /\ row'.number = local[n] + 1 /\ row'.leader = n
      /\ row'.number \in 0 .. MaxElections /\ n \in ID
  BY <1>1, <1>2, Params DEF Electable, ID
<1>4. row' \in [number : 0 .. MaxElections, leader : ID]
  BY <1>2, <1>3
<1>5. ElectLeader(row'.number, n) \in Ntf
  <2>1. 0 \in 0 .. leaderClockSkew
    BY Params
  <2>2. ASSUME NEW k \in 0 .. MaxElections
        PROVE  ElectLeader(k, n) \in Ntf
    BY <2>1, SentType
  <2>3. QED
    BY <1>3, <2>2
<1>6. queue' \in [Nodes -> Seq(Ntf)]
  <2>1. ASSUME NEW ntf \in Ntf, Send(ntf)
        PROVE  queue' \in [Nodes -> Seq(Ntf)]
    BY <1>1, <2>1, SendLemma
  <2>2. QED
    BY <1>2, <1>5, <2>1
<1>7. UNCHANGED <<offset, view, slow, missed>> /\ pc[n] = "random"
  BY DEF TryElection
<1>8. /\ pc' \in [Nodes -> Places] /\ timer' \in [Nodes -> Nat]
      /\ local' \in [Nodes -> 0 .. MaxElections] /\ events' \in Nat
      /\ pc'[n] \in {"elected", "loop"}
      /\ \A m \in Nodes \ {n} : pc'[m] = pc[m] /\ timer'[m] = timer[m]
      /\ \/ /\ UNCHANGED events /\ pc'[n] = "elected" /\ timer'[n] = leaderInterval
            /\ local'[n] = row'.number
         \/ events' > 0
  <2>1. CASE /\ Sleep(n, "elected", leaderInterval)
             /\ local' = [local EXCEPT ![n] = row'.number] /\ UNCHANGED events
    <3>1. "elected" \in Places /\ leaderInterval \in Nat
      BY Params DEF Places
    <3>2. /\ pc' \in [Nodes -> Places] /\ timer' \in [Nodes -> Nat]
          /\ pc'[n] = "elected" /\ timer'[n] = leaderInterval
          /\ \A m \in Nodes \ {n} : pc'[m] = pc[m] /\ timer'[m] = timer[m]
      BY <2>1, <3>1, SleepLemma
    <3>3. local' \in [Nodes -> 0 .. MaxElections] /\ local'[n] = row'.number
      BY <1>1, <1>3, <2>1
    <3>4. QED
      BY <1>1, <2>1, <3>2, <3>3
  <2>2. CASE Event /\ Sleep(n, "loop", 0) /\ UNCHANGED local
    <3>1. "loop" \in Places /\ 0 \in Nat
      BY DEF Places
    <3>2. /\ pc' \in [Nodes -> Places] /\ timer' \in [Nodes -> Nat] /\ pc'[n] = "loop"
          /\ \A m \in Nodes \ {n} : pc'[m] = pc[m] /\ timer'[m] = timer[m]
      BY <2>2, <3>1, SleepLemma
    <3>3. events' \in Nat /\ events' > 0
      BY <1>1, <2>2 DEF Event
    <3>4. QED
      BY <1>1, <2>2, <3>2, <3>3
  <2>3. QED
    BY <1>2, <2>1, <2>2, Zenon
<1>9. TypeInv'
  BY <1>4, <1>6, <1>7, <1>8 DEF TypeInv
<1>10. QED
  BY <1>2, <1>3, <1>4, <1>5, <1>7, <1>8, <1>9

\* An election makes the only claim to its number.
LEMMA ElectionInd ==
  ASSUME IndInv, NEW n \in Nodes, TryElection(n), row' # row
  PROVE  IndInv'
<1>1. TypeInv
  BY DEF IndInv
<1> DEFINE ntf == ElectLeader(row'.number, n)
<1>2. /\ row'.number = row.number + 1 /\ row'.leader = n /\ Send(ntf) /\ ntf \in Ntf
      /\ UNCHANGED <<view, missed>> /\ TypeInv' /\ pc[n] = "random"
      /\ pc'[n] \in {"elected", "loop"} /\ \A m \in Nodes \ {n} : pc'[m] = pc[m]
  BY <1>1, ElectionLemma
<1>3. /\ ntf.kind = "ElectLeader" /\ ntf.number = row'.number /\ ntf.leader = n
  BY DEF ElectLeader
<1>4. queue \in [Nodes -> Seq(Ntf)] /\ row.number \in Nat /\ row'.number \in Nat
  BY <1>1, <1>2 DEF TypeInv
<1> HIDE DEF ntf
<1>5. /\ \A m \in Nodes : pc[m] = "down" => queue'[m] = queue[m]
      /\ \A m \in Nodes : pc[m] # "down" => \E e \in Nat :
           /\ DOMAIN queue'[m] = DOMAIN queue[m] \cup {e}
           /\ \A k \in DOMAIN queue[m] : k \in Nat /\ k < e /\ queue'[m][k] = queue[m][k]
           /\ queue'[m][e] = ntf
  BY <1>2, <1>4, SendLemma
<1>6. PlaceInv'
  <2>1. \A m \in Nodes : pc'[m] = "down" => pc[m] = "down" /\ queue'[m] = queue[m]
    BY <1>2, <1>5
  <2>2. \A m \in Nodes : Running(m)' => Running(m)
    BY <1>2 DEF Running
  <2>3. QED
    BY <1>2, <2>1, <2>2 DEF IndInv, PlaceInv
<1>7. ASSUME NEW k, NEW l, Claim(k, l)'
      PROVE  Claim(k, l) \/ (k = row'.number /\ l = n)
  <2>1. CASE k = row'.number /\ l = row'.leader
    BY <1>2, <2>1
  <2>2. CASE \E m \in Nodes : view'[m].number # 0 /\ k = view'[m].number /\ l = view'[m].leader
    BY <1>2, <2>2 DEF Claim
  <2>3. ASSUME NEW m \in Nodes, NEW i \in DOMAIN queue'[m],
               queue'[m][i].kind = "ElectLeader",
               k = queue'[m][i].number, l = queue'[m][i].leader
        PROVE  Claim(k, l) \/ (k = row'.number /\ l = n)
    <3>1. CASE i \in DOMAIN queue[m] /\ queue'[m][i] = queue[m][i]
      BY <2>3, <3>1 DEF Claim
    <3>2. CASE queue'[m][i] = ntf
      BY <1>3, <2>3, <3>2
    <3>3. QED
      BY <1>5, <2>3, <3>1, <3>2
  <2>4. QED
    BY <1>7, <2>1, <2>2, <2>3, Zenon DEF Claim
<1>8. \A k \in 0 .. MaxElections, l \in ID : Claim(k, l) => k <= row.number /\ k # row'.number
  BY <1>2, <1>4 DEF IndInv, ClaimInv
<1>9. ClaimInv'
  <2> SUFFICES ASSUME NEW k \in 0 .. MaxElections, NEW l \in ID, Claim(k, l)',
                      NEW m \in ID
               PROVE  k <= row'.number /\ (Claim(k, m)' => l = m)
    BY DEF ClaimInv
  <2>1. CASE k = row'.number /\ l = n
    <3>1. Claim(k, m)' => m = n
      BY <1>7, <1>8, <2>1
    <3>2. QED
      BY <1>4, <2>1, <3>1
  <2>2. CASE Claim(k, l)
    <3>1. k <= row.number /\ k # row'.number
      BY <1>8, <2>2
    <3>2. Claim(k, m)' => Claim(k, m)
      BY <1>7, <3>1
    <3>3. Claim(k, m) => l = m
      BY <2>2 DEF IndInv, ClaimInv
    <3>4. k <= row'.number
      BY <1>2, <1>4, <3>1
    <3>5. QED
      BY <3>2, <3>3, <3>4
  <2>3. QED
    BY <1>7, <2>1, <2>2
<1>10. FollowInv'
  <2> SUFFICES ASSUME NEW m \in Nodes, view'[m].number # 0
               PROVE  \E i \in DOMAIN queue'[m] : /\ queue'[m][i].kind = "ElectLeader"
                                                  /\ queue'[m][i].number = row'.number
    BY DEF FollowInv
  <2>1. pc[m] # "down"
    BY <1>2 DEF IndInv, PlaceInv
  <2>2. PICK e \in DOMAIN queue'[m] : queue'[m][e] = ntf
    BY <1>5, <2>1
  <2>3. QED
    BY <1>3, <2>2
<1>11. QED
  BY <1>2, <1>6, <1>9, <1>10 DEF IndInv

\* The two kinds of notifications that a node receives.
LEMMA ReceiveLemma ==
  ASSUME TypeInv, NEW n \in Nodes, Receive(n)
  PROVE  /\ queue' \in [Nodes -> Seq(Ntf)] /\ 1 \in DOMAIN queue[n]
         /\ \A k \in DOMAIN queue'[n] : /\ k + 1 \in DOMAIN queue[n] /\ k \in Nat
                                        /\ queue'[n][k] = queue[n][k + 1]
         /\ \A k \in DOMAIN queue[n] : k # 1 => /\ k - 1 \in DOMAIN queue'[n]
                                                /\ queue'[n][k - 1] = queue[n][k]
         /\ \A m \in Nodes \ {n} : queue'[m] = queue[m]
         /\ \/ /\ queue[n][1].kind = "ElectLeader"
               /\ electLeader(n, queue[n][1])
            \/ /\ queue[n][1].kind = "SeeLeader"
               /\ seeLeader(n, queue[n][1])
<1>1. queue \in [Nodes -> Seq(Ntf)] /\ queue[n] \in Seq(Ntf) /\ queue[n] # <<>>
  BY DEF TypeInv, Receive
<1>2. /\ Tail(queue[n]) \in Seq(Ntf) /\ 1 \in DOMAIN queue[n] /\ Head(queue[n]) = queue[n][1]
      /\ \A k \in DOMAIN Tail(queue[n]) :
           k + 1 \in DOMAIN queue[n] /\ Tail(queue[n])[k] = queue[n][k + 1] /\ k \in Nat
      /\ \A k \in DOMAIN queue[n] : k # 1 =>
           k - 1 \in DOMAIN Tail(queue[n]) /\ Tail(queue[n])[k - 1] = queue[n][k]
  BY <1>1, TailLemma
<1>3. queue' \in [Nodes -> Seq(Ntf)] /\ queue'[n] = Tail(queue[n])
      /\ \A m \in Nodes \ {n} : queue'[m] = queue[m]
  <2>1. queue' = [queue EXCEPT ![n] = Tail(queue[n])]
    BY <1>1 DEF Receive
  <2> DEFINE t == Tail(queue[n])
  <2>2. t \in Seq(Ntf) /\ queue' = [queue EXCEPT ![n] = t]
    BY <1>2, <2>1
  <2> HIDE DEF t
  <2>3. queue' \in [Nodes -> Seq(Ntf)] /\ queue'[n] = t
        /\ \A m \in Nodes \ {n} : queue'[m] = queue[m]
    BY <1>1, <2>2
  <2>4. QED
    BY <2>3 DEF t
<1>4. \/ Head(queue[n]).kind = "ElectLeader" /\ electLeader(n, Head(queue[n]))
      \/ Head(queue[n]).kind = "SeeLeader" /\ seeLeader(n, Head(queue[n]))
  BY DEF Receive
<1>5. \/ queue[n][1].kind = "ElectLeader" /\ electLeader(n, queue[n][1])
      \/ queue[n][1].kind = "SeeLeader" /\ seeLeader(n, queue[n][1])
  BY <1>2, <1>4
<1>6. QED
  BY <1>2, <1>3, <1>5

ViewType == [number : 0 .. MaxElections, leader : ID, valid : Nat]

\* A heartbeat extends the validity of the leader, or is ignored: the age of one
\* that is not too old leaves some of it.
LEMMA SeeLemma ==
  ASSUME TypeInv, NEW n \in Nodes, NEW ntf \in Ntf, seeLeader(n, ntf)
  PROVE  /\ view' \in [Nodes -> ViewType]
         /\ \A m \in Nodes : view'[m].number = view[m].number /\ view'[m].leader = view[m].leader
         /\ \A m \in Nodes \ {n} : view'[m] = view[m]
         /\ view'[n].valid >= view[n].valid
         /\ ntf.number = view[n].number /\ ntf.age < grantedLeaderInterval
              => view'[n].valid >= grantedLeaderInterval - ntf.age
<1> DEFINE age == ntf.age + offset[n] - ntf.clock
           accepted == /\ ntf.number = view[n].number
                       /\ age >= -leaderClockSkew
                       /\ age < grantedLeaderInterval + leaderClockSkew
<1>1. /\ view \in [Nodes -> ViewType] /\ view[n] \in ViewType /\ view[n].valid \in Nat
      /\ offset[n] \in 0 .. leaderClockSkew
  BY DEF TypeInv, ViewType
<1>2. ntf.age \in Nat /\ ntf.clock \in 0 .. leaderClockSkew
  BY DEF Ntf
<1>3. age \in Int /\ ValidFor(age) \in Int /\ age <= ntf.age + leaderClockSkew
      /\ age >= -leaderClockSkew /\ ValidFor(age) = grantedLeaderInterval + leaderClockSkew - age
  BY <1>1, <1>2, Params DEF ValidFor
<1>4. view' = IF accepted THEN [view EXCEPT ![n].valid = Max({@, ValidFor(age)})] ELSE view
  BY DEF seeLeader
<1>5. CASE accepted
  <2> DEFINE v == Max({view[n].valid, ValidFor(age)})
  <2>1. v \in {view[n].valid, ValidFor(age)} /\ v >= view[n].valid /\ v >= ValidFor(age)
    <3>1. view[n].valid \in Int /\ ValidFor(age) \in Int
      BY <1>1, <1>3
    <3> HIDE DEF age
    <3>2. QED
      BY <3>1, MaxOfTwo
  <2>2. view' = [view EXCEPT ![n].valid = v]
    BY <1>1, <1>4, <1>5
  <2> HIDE DEF v, age, accepted
  <2>3. v \in Nat
    BY <1>1, <1>3, <2>1
  <2>4. /\ view' \in [Nodes -> ViewType]
        /\ view'[n].valid = v /\ view'[n].number = view[n].number
        /\ view'[n].leader = view[n].leader
        /\ \A m \in Nodes \ {n} : view'[m] = view[m]
    BY <1>1, <2>2, <2>3 DEF ViewType
  <2>5. v >= grantedLeaderInterval - ntf.age
    BY <1>2, <1>3, <2>1, <2>3, Params
  <2>6. QED
    BY <1>1, <2>1, <2>4, <2>5
<1>6. CASE ~accepted
  <2>1. ~(ntf.number = view[n].number /\ ntf.age < grantedLeaderInterval)
    BY <1>2, <1>3, <1>6, Params
  <2>2. view' = view
    BY <1>4, <1>6
  <2>3. view[n].valid >= view[n].valid
    BY <1>1
  <2>4. QED
    BY <1>1, <2>1, <2>2, <2>3
<1>7. QED
  BY <1>5, <1>6

\* An election that is later than the one the node knows replaces it.
LEMMA ElectLemma ==
  ASSUME TypeInv, NEW n \in Nodes, NEW ntf \in Ntf, electLeader(n, ntf)
  PROVE  /\ view' \in [Nodes -> ViewType]
         /\ \A m \in Nodes \ {n} : view'[m] = view[m]
         /\ \/ /\ ntf.number > view[n].number
               /\ view'[n].number = ntf.number /\ view'[n].leader = ntf.leader
               /\ view'[n].valid = grantedLeaderInterval
            \/ /\ ntf.number <= view[n].number /\ view'[n] = view[n]
<1>1. /\ view \in [Nodes -> ViewType] /\ view[n].number \in Nat
      /\ ntf.number \in 0 .. MaxElections /\ ntf.leader \in ID
  BY DEF TypeInv, ViewType, Ntf
<1>2. CASE AcceptedElection(n, ntf)
  <2> DEFINE r == [number |-> ntf.number, leader |-> ntf.leader,
                   valid |-> grantedLeaderInterval]
  <2>1. view' = [view EXCEPT ![n] = r]
    BY <1>2 DEF electLeader
  <2>2. r \in ViewType /\ r.number = ntf.number /\ r.leader = ntf.leader
        /\ r.valid = grantedLeaderInterval
    BY <1>1, Params DEF ViewType
  <2> HIDE DEF r
  <2>3. view' \in [Nodes -> ViewType] /\ view'[n] = r
        /\ \A m \in Nodes \ {n} : view'[m] = view[m]
    BY <1>1, <2>1, <2>2
  <2>4. QED
    BY <1>2, <2>2, <2>3 DEF AcceptedElection
<1>3. CASE ~AcceptedElection(n, ntf)
  <2>1. view' = view
    BY <1>3 DEF electLeader
  <2>2. QED
    BY <1>1, <1>3, <2>1, Params DEF AcceptedElection
<1>4. QED
  BY <1>2, <1>3

\* A notification arrives.
LEMMA ReceiveInd ==
  ASSUME IndInv, NEW n \in Nodes, Receive(n)
  PROVE  IndInv'
<1>1. TypeInv /\ UNCHANGED <<row, offset, pc, timer, local, slow, missed, events>>
      /\ pc[n] # "down"
  BY DEF IndInv, Receive, bounds, Running
<1>2. /\ queue' \in [Nodes -> Seq(Ntf)] /\ 1 \in DOMAIN queue[n]
      /\ \A k \in DOMAIN queue'[n] : /\ k + 1 \in DOMAIN queue[n] /\ k \in Nat
                                     /\ queue'[n][k] = queue[n][k + 1]
      /\ \A k \in DOMAIN queue[n] : k # 1 => /\ k - 1 \in DOMAIN queue'[n]
                                             /\ queue'[n][k - 1] = queue[n][k]
      /\ \A m \in Nodes \ {n} : queue'[m] = queue[m]
      /\ \/ queue[n][1].kind = "ElectLeader" /\ electLeader(n, queue[n][1])
         \/ queue[n][1].kind = "SeeLeader" /\ seeLeader(n, queue[n][1])
  BY <1>1, ReceiveLemma
<1> DEFINE ntf == queue[n][1]
<1>3. ntf \in Ntf /\ ntf.number \in 0 .. MaxElections
  BY <1>1, <1>2, ClaimTypes
<1> HIDE DEF ntf
<1>4. \A m \in Nodes : \A i \in DOMAIN queue'[m] : \E j \in DOMAIN queue[m] :
        queue'[m][i] = queue[m][j]
  BY <1>2
<1>5. CASE ntf.kind = "SeeLeader" /\ seeLeader(n, ntf)
  <2>1. /\ view' \in [Nodes -> ViewType]
        /\ \A m \in Nodes : view'[m].number = view[m].number /\ view'[m].leader = view[m].leader
    BY <1>1, <1>3, <1>5, SeeLemma
  <2>2. TypeInv'
    BY <1>1, <1>2, <2>1 DEF TypeInv, ViewType
  <2>3. \A m \in Nodes : pc'[m] = "down" => pc[m] = "down" /\ queue'[m] = queue[m]
    BY <1>1, <1>2
  <2>4. \A m \in Nodes : Running(m)' => view[m].number # 0
    BY <1>1 DEF IndInv, PlaceInv, Running
  <2>5. \A m \in Nodes : \A i \in DOMAIN queue'[m] : queue'[m][i].kind = "ElectLeader" =>
           \E j \in DOMAIN queue[m] : /\ queue[m][j].kind = "ElectLeader"
                                      /\ queue[m][j].number = queue'[m][i].number
                                      /\ queue[m][j].leader = queue'[m][i].leader
    BY <1>4
  <2>6. \A m \in Nodes : \A j \in DOMAIN queue[m] : queue[m][j].kind = "ElectLeader" =>
           \E i \in DOMAIN queue'[m] : /\ queue'[m][i].kind = "ElectLeader"
                                       /\ queue'[m][i].number = queue[m][j].number
    <3>1. \A j \in DOMAIN queue[n] : queue[n][j].kind = "ElectLeader" => j # 1
      BY <1>5 DEF ntf
    <3>2. ASSUME NEW j \in DOMAIN queue[n], queue[n][j].kind = "ElectLeader"
          PROVE  j - 1 \in DOMAIN queue'[n] /\ queue'[n][j - 1] = queue[n][j]
      BY <1>2, <3>1, <3>2
    <3>3. \A j \in DOMAIN queue[n] : queue[n][j].kind = "ElectLeader" =>
            \E i \in DOMAIN queue'[n] : queue'[n][i] = queue[n][j]
      BY <3>2, Zenon
    <3>4. \A m \in Nodes : \A j \in DOMAIN queue[m] : queue[m][j].kind = "ElectLeader" =>
            \E i \in DOMAIN queue'[m] : queue'[m][i] = queue[m][j]
      BY <1>2, <3>3, SMTT(30)
    <3>5. QED
      BY <3>4
  <2>7. QED
    BY <1>1, <2>1, <2>2, <2>3, <2>4, <2>5, <2>6, QuietInd DEF IndInv
<1>6. CASE ntf.kind = "ElectLeader" /\ electLeader(n, ntf)
  <2>1. /\ view' \in [Nodes -> ViewType]
        /\ \A m \in Nodes \ {n} : view'[m] = view[m]
        /\ \/ /\ ntf.number > view[n].number
              /\ view'[n].number = ntf.number /\ view'[n].leader = ntf.leader
           \/ /\ ntf.number <= view[n].number /\ view'[n] = view[n]
    BY <1>1, <1>3, <1>6, ElectLemma
  <2>2. TypeInv'
    BY <1>1, <1>2, <2>1 DEF TypeInv, ViewType
  <2>3. view[n].number # 0 /\ view[n].number \in Nat /\ view[n].number <= row.number
        /\ row.number \in Nat /\ ntf.number <= row.number
    BY <1>1, <1>2, <1>6, ClaimFacts, ClaimTypes DEF IndInv, PlaceInv, Receive, ntf
  <2>4. view'[n].number # 0
    BY <1>3, <2>1, <2>3
  <2>5. PlaceInv'
    BY <1>1, <1>2, <2>1, <2>4 DEF IndInv, PlaceInv, Running
  <2>6. ASSUME NEW k, NEW l, Claim(k, l)'
        PROVE  Claim(k, l)
    <3>1. CASE k = row'.number /\ l = row'.leader
      BY <1>1, <3>1 DEF Claim
    <3>2. ASSUME NEW m \in Nodes, view'[m].number # 0,
                 k = view'[m].number, l = view'[m].leader
          PROVE  Claim(k, l)
      <4>1. CASE view'[m] = view[m]
        BY <3>2, <4>1 DEF Claim
      <4>2. CASE m = n /\ view'[n].number = ntf.number /\ view'[n].leader = ntf.leader
        BY <1>2, <1>6, <3>2, <4>2 DEF Claim, ntf
      <4>3. QED
        BY <2>1, <4>1, <4>2
    <3>3. ASSUME NEW m \in Nodes, NEW i \in DOMAIN queue'[m],
                 queue'[m][i].kind = "ElectLeader",
                 k = queue'[m][i].number, l = queue'[m][i].leader
          PROVE  Claim(k, l)
      <4>1. PICK j \in DOMAIN queue[m] : queue'[m][i] = queue[m][j]
        BY <1>4
      <4>2. QED
        BY <3>3, <4>1 DEF Claim
    <3>4. QED
      BY <2>6, <3>1, <3>2, <3>3, Zenon DEF Claim
  <2>7. ClaimInv'
    BY <1>1, <2>6 DEF IndInv, ClaimInv
  <2>8. FollowInv'
    <3> SUFFICES ASSUME NEW m \in Nodes, view'[m].number # 0, m \notin missed',
                        view'[m].number # row'.number
                 PROVE  \E i \in DOMAIN queue'[m] : /\ queue'[m][i].kind = "ElectLeader"
                                                    /\ queue'[m][i].number = row'.number
      BY DEF FollowInv
    <3>1. CASE m # n
      BY <1>1, <1>2, <2>1, <3>1, SMTT(30) DEF IndInv, FollowInv
    <3>2. CASE m = n
      <4>1. view[n].number # row.number /\ ntf.number # row.number
        BY <1>1, <1>3, <2>1, <2>3, <3>2
      <4>2. PICK j \in DOMAIN queue[n] : /\ queue[n][j].kind = "ElectLeader"
                                         /\ queue[n][j].number = row.number
        BY <1>1, <2>3, <3>2, <4>1 DEF IndInv, FollowInv
      <4>3. j # 1
        BY <4>1, <4>2 DEF ntf
      <4>4. QED
        BY <1>1, <1>2, <3>2, <4>2, <4>3
    <3>3. QED
      BY <3>1, <3>2
  <2>9. QED
    BY <2>2, <2>5, <2>7, <2>8 DEF IndInv
<1>7. QED
  BY <1>2, <1>5, <1>6 DEF ntf

\* A notification is lost.
LEMMA LoseInd ==
  ASSUME IndInv, NEW n \in Nodes, Lose(n)
  PROVE  IndInv'
<1>1. /\ TypeInv /\ UNCHANGED <<row, offset, view, pc, timer, local, slow>>
      /\ queue \in [Nodes -> Seq(Ntf)] /\ queue[n] \in Seq(Ntf)
      /\ events \in Nat /\ events' = events + 1
  BY DEF IndInv, TypeInv, Lose, nodeVars, Event
<1>2. PICK k \in DOMAIN queue[n] :
        /\ queue' = [queue EXCEPT ![n] = RemoveAt(@, k)]
        /\ missed' = IF queue[n][k].kind = "ElectLeader" THEN missed \cup {n} ELSE missed
  BY DEF Lose
<1> DEFINE q == RemoveAt(queue[n], k)
<1>3. /\ q \in Seq(Ntf)
      /\ \A i \in DOMAIN q : \E j \in DOMAIN queue[n] : q[i] = queue[n][j]
      /\ \A j \in DOMAIN queue[n] \ {k} : \E i \in DOMAIN q : q[i] = queue[n][j]
  BY <1>1, RemoveAtLemma
<1>4. queue' = [queue EXCEPT ![n] = q]
  BY <1>1, <1>2
<1> HIDE DEF q
<1>5. /\ queue' \in [Nodes -> Seq(Ntf)] /\ queue'[n] = q
      /\ \A m \in Nodes \ {n} : queue'[m] = queue[m]
  BY <1>1, <1>3, <1>4
<1>6. TypeInv'
  BY <1>1, <1>5 DEF TypeInv
<1>7. missed \subseteq missed' /\ (n \notin missed' => queue[n][k].kind # "ElectLeader")
  BY <1>2
<1>8. pc[n] # "down"
  <2>1. queue[n] # <<>>
    BY <1>2
  <2>2. QED
    BY <2>1 DEF IndInv, PlaceInv
<1>9. \A m \in Nodes : \A i \in DOMAIN queue'[m] : \E j \in DOMAIN queue[m] :
        queue'[m][i] = queue[m][j]
  BY <1>3, <1>5
<1>10. \A m \in Nodes : \A i \in DOMAIN queue'[m] : queue'[m][i].kind = "ElectLeader" =>
         \E j \in DOMAIN queue[m] : /\ queue[m][j].kind = "ElectLeader"
                                    /\ queue[m][j].number = queue'[m][i].number
                                    /\ queue[m][j].leader = queue'[m][i].leader
  BY <1>9
<1>11. \A m \in Nodes \ missed' : \A j \in DOMAIN queue[m] : queue[m][j].kind = "ElectLeader" =>
         \E i \in DOMAIN queue'[m] : queue'[m][i] = queue[m][j]
  BY <1>3, <1>5, <1>7
<1>12. \A m \in Nodes \ missed' : \A j \in DOMAIN queue[m] : queue[m][j].kind = "ElectLeader" =>
         \E i \in DOMAIN queue'[m] : /\ queue'[m][i].kind = "ElectLeader"
                                     /\ queue'[m][i].number = queue[m][j].number
  BY <1>11
<1>13. \A m \in Nodes : pc'[m] = "down" => pc[m] = "down" /\ queue'[m] = queue[m]
  BY <1>1, <1>5, <1>8
<1>14. \A m \in Nodes : Running(m)' => view[m].number # 0
  BY <1>1 DEF IndInv, PlaceInv, Running
<1>15. \A m \in Nodes : view'[m].number = view[m].number /\ view'[m].leader = view[m].leader
  BY <1>1
<1>16. QED
  BY <1>1, <1>6, <1>7, <1>10, <1>12, <1>13, <1>14, <1>15, QuietInd DEF IndInv

\* New: LISTEN, the row, and the start of keepElections.
LEMMA NewInd ==
  ASSUME IndInv, NEW n \in Nodes, Listen(n) \/ Load(n) \/ New(n)
  PROVE  IndInv'
<1>1. /\ TypeInv /\ pc \in [Nodes -> Places] /\ timer \in [Nodes -> Nat]
      /\ view \in [Nodes -> ViewType] /\ queue \in [Nodes -> Seq(Ntf)]
      /\ row.number \in 0 .. MaxElections /\ row.leader \in ID
  BY DEF IndInv, TypeInv, ViewType
<1>2. ASSUME UNCHANGED <<row, queue, missed>>, TypeInv',
             \A m \in Nodes : view'[m].number = view[m].number /\ view'[m].leader = view[m].leader,
             \A m \in Nodes : pc'[m] = "down" => pc[m] = "down",
             \A m \in Nodes : Running(m)' => view[m].number # 0
      PROVE  IndInv'
  <2>1. /\ \A m \in Nodes : \A i \in DOMAIN queue'[m] : queue'[m][i].kind = "ElectLeader" =>
             \E j \in DOMAIN queue[m] : /\ queue[m][j].kind = "ElectLeader"
                                        /\ queue[m][j].number = queue'[m][i].number
                                        /\ queue[m][j].leader = queue'[m][i].leader
        /\ \A m \in Nodes \ missed' : \A j \in DOMAIN queue[m] : queue[m][j].kind = "ElectLeader" =>
             \E i \in DOMAIN queue'[m] : /\ queue'[m][i].kind = "ElectLeader"
                                         /\ queue'[m][i].number = queue[m][j].number
    BY <1>2
  <2>2. \A m \in Nodes : pc'[m] = "down" => pc[m] = "down" /\ queue'[m] = queue[m]
    BY <1>2
  <2>3. QED
    BY <1>2, <2>1, <2>2, QuietInd DEF IndInv
<1>3. CASE Listen(n)
  <2>1. /\ UNCHANGED <<row, queue, missed, view, offset, timer, local, slow, events>>
        /\ pc' = [pc EXCEPT ![n] = "load"]
    BY <1>3 DEF Listen, bounds
  <2>2. pc' \in [Nodes -> Places]
    BY <1>1, <2>1 DEF Places
  <2>3. TypeInv'
    BY <1>1, <2>1, <2>2 DEF TypeInv
  <2>4. pc'[n] = "load" /\ \A m \in Nodes \ {n} : pc'[m] = pc[m]
    BY <1>1, <2>1
  <2>5. \A m \in Nodes : pc'[m] = "down" => pc[m] = "down"
    BY <2>4
  <2>6. \A m \in Nodes : Running(m)' => view[m].number # 0
    BY <2>4 DEF IndInv, PlaceInv, Running
  <2>7. \A m \in Nodes : view'[m].number = view[m].number /\ view'[m].leader = view[m].leader
    BY <2>1
  <2>8. QED
    BY <1>2, <2>1, <2>3, <2>5, <2>6, <2>7
<1>4. CASE New(n)
  <2>1. /\ UNCHANGED <<row, missed, offset, local, slow, events>>
        /\ view[n].number # 0 /\ Sleep(n, "loop", 0)
        /\ view' = [view EXCEPT ![n].valid = grantedLeaderInterval]
        /\ queue' = queue
    BY <1>1, <1>4 DEF New, bounds, Listened
  <2>2. "loop" \in Places /\ 0 \in Nat
    BY DEF Places
  <2>3. /\ pc' \in [Nodes -> Places] /\ timer' \in [Nodes -> Nat]
        /\ pc'[n] = "loop" /\ \A m \in Nodes \ {n} : pc'[m] = pc[m]
    BY <1>1, <2>1, <2>2, SleepLemma
  <2>4. /\ view' \in [Nodes -> ViewType]
        /\ \A m \in Nodes : view'[m].number = view[m].number /\ view'[m].leader = view[m].leader
    BY <1>1, <2>1, Params DEF ViewType
  <2>5. TypeInv'
    BY <1>1, <2>1, <2>3, <2>4 DEF TypeInv, ViewType
  <2>6. \A m \in Nodes : pc'[m] = "down" => pc[m] = "down"
    BY <2>3
  <2>7. \A m \in Nodes : Running(m)' => view[m].number # 0
    BY <2>1, <2>3 DEF IndInv, PlaceInv, Running
  <2>8. QED
    BY <1>2, <2>1, <2>4, <2>5, <2>6, <2>7
<1>5. CASE Load(n)
  <2>1. /\ UNCHANGED <<row, missed, queue, pc, timer, offset, local, slow, events>>
        /\ pc[n] = "load"
        /\ view' = [view EXCEPT ![n].number = row.number, ![n].leader = row.leader]
    BY <1>5 DEF Load, bounds
  <2>2. /\ view' \in [Nodes -> ViewType]
        /\ view'[n].number = row.number /\ view'[n].leader = row.leader
        /\ \A m \in Nodes \ {n} : view'[m] = view[m]
    BY <1>1, <2>1 DEF ViewType
  <2>3. TypeInv'
    BY <1>1, <2>1, <2>2 DEF TypeInv, ViewType
  <2>4. PlaceInv'
    BY <2>1, <2>2 DEF IndInv, PlaceInv, Running
  <2>5. ASSUME NEW k, NEW l, Claim(k, l)'
        PROVE  Claim(k, l)
    <3>1. ASSUME NEW m \in Nodes, view'[m].number # 0,
                 k = view'[m].number, l = view'[m].leader
          PROVE  Claim(k, l)
      BY <2>2, <3>1 DEF Claim
    <3>2. QED
      BY <2>1, <2>5, <3>1 DEF Claim
  <2>6. ClaimInv'
    BY <2>1, <2>5 DEF IndInv, ClaimInv
  <2>7. FollowInv'
    BY <2>1, <2>2 DEF IndInv, FollowInv
  <2>8. QED
    BY <2>3, <2>4, <2>6, <2>7 DEF IndInv
<1>6. QED
  BY <1>3, <1>4, <1>5

\* Only the empty queue has nothing in it.
LEMMA NoElement ==
  ASSUME NEW s \in Seq(Ntf), DOMAIN s = {}
  PROVE  s = <<>>
<1>1. DOMAIN s = 1 .. Len(s) /\ Len(s) \in Nat
  BY LenProperties
<1>2. 1 \notin 1 .. Len(s)
  BY <1>1
<1>3. Len(s) = 0
  BY <1>1, <1>2
<1>4. QED
  BY <1>3, EmptySeq

\* A function with the domain of a queue is a queue.
LEMMA SameDomain ==
  ASSUME NEW s \in Seq(Ntf), NEW f \in [DOMAIN s -> Ntf]
  PROVE  f \in Seq(Ntf)
<1>1. DOMAIN s = 1 .. Len(s) /\ Len(s) \in Nat
  BY LenProperties
<1>2. QED
  BY <1>1

\* Time passes: only ages, timers and validities change.
LEMMA TickLemma ==
  ASSUME TypeInv, Tick
  PROVE  /\ TypeInv' /\ UNCHANGED <<row, pc, local, missed, slow, offset, events>>
         /\ \A m \in Nodes : /\ view'[m].number = view[m].number
                             /\ view'[m].leader = view[m].leader
                             /\ view'[m].valid >= view[m].valid - 1
         /\ \A m \in Nodes : timer[m] > 0 => timer'[m] = timer[m] - 1
         /\ \A m \in Nodes : /\ DOMAIN queue'[m] = DOMAIN queue[m]
                             /\ \A k \in DOMAIN queue[m] :
                                  /\ queue'[m][k].kind = queue[m][k].kind
                                  /\ queue'[m][k].number = queue[m][k].number
                                  /\ queue'[m][k].leader = queue[m][k].leader
                                  /\ queue'[m][k].clock = queue[m][k].clock
                                  /\ queue'[m][k].age = queue[m][k].age + 1
<1>1. /\ UNCHANGED <<row, offset, pc, local, slow, missed, events>>
      /\ timer \in [Nodes -> Nat] /\ view \in [Nodes -> ViewType]
      /\ queue \in [Nodes -> Seq(Ntf)]
  BY DEF TypeInv, ViewType, Tick, bounds
<1>2. timer' \in [Nodes -> Nat] /\ \A m \in Nodes : timer[m] > 0 => timer'[m] = timer[m] - 1
  <2>1. timer' = [m \in Nodes |-> IF timer[m] > 0 THEN timer[m] - 1 ELSE 0]
    BY DEF Tick
  <2>2. QED
    BY <1>1, <2>1
<1>3. /\ view' \in [Nodes -> ViewType]
      /\ \A m \in Nodes : /\ view'[m].number = view[m].number
                          /\ view'[m].leader = view[m].leader
                          /\ view'[m].valid >= view[m].valid - 1
  <2>1. view' = [m \in Nodes |-> [view[m] EXCEPT !.valid = Max({@ - 1, 0})]]
    BY DEF Tick
  <2>2. ASSUME NEW m \in Nodes
        PROVE  /\ view'[m] \in ViewType /\ view'[m].number = view[m].number
               /\ view'[m].leader = view[m].leader /\ view'[m].valid >= view[m].valid - 1
    <3> DEFINE v == Max({view[m].valid - 1, 0})
    <3>1. view[m] \in ViewType /\ view[m].valid - 1 \in Int /\ view[m].valid \in Nat /\ 0 \in Int
      BY <1>1 DEF ViewType
    <3>2. v \in {view[m].valid - 1, 0} /\ v >= 0 /\ v >= view[m].valid - 1
      <4>1. \A x, y \in Int : Max({x, y}) \in {x, y} /\ Max({x, y}) >= x /\ Max({x, y}) >= y
        BY MaxOfTwo
      <4>2. QED
        BY <3>1, <4>1, Zenon
    <3>3. view'[m] = [view[m] EXCEPT !.valid = v]
      BY <2>1, <3>1
    <3> HIDE DEF v
    <3>4. v \in Nat
      BY <3>1, <3>2
    <3>5. QED
      BY <3>1, <3>2, <3>3, <3>4 DEF ViewType
  <2>3. QED
    BY <2>1, <2>2
<1>4. ASSUME NEW m \in Nodes
      PROVE  /\ queue'[m] \in Seq(Ntf) /\ DOMAIN queue'[m] = DOMAIN queue[m]
             /\ \A k \in DOMAIN queue[m] :
                  /\ queue'[m][k].kind = queue[m][k].kind
                  /\ queue'[m][k].number = queue[m][k].number
                  /\ queue'[m][k].leader = queue[m][k].leader
                  /\ queue'[m][k].clock = queue[m][k].clock
                  /\ queue'[m][k].age = queue[m][k].age + 1
  <2>1. queue'[m] = [k \in DOMAIN queue[m] |-> [queue[m][k] EXCEPT !.age = @ + 1]]
    BY DEF Tick
  <2>2. \A k \in DOMAIN queue[m] : queue[m][k] \in Ntf
    BY ClaimTypes
  <2>3. \A k \in DOMAIN queue[m] : /\ [queue[m][k] EXCEPT !.age = @ + 1] \in Ntf
                                   /\ queue'[m][k] = [queue[m][k] EXCEPT !.age = @ + 1]
    BY <2>1, <2>2 DEF Ntf
  <2>4. queue'[m] \in [DOMAIN queue[m] -> Ntf]
    BY <2>1, <2>3
  <2>5. queue'[m] \in Seq(Ntf)
    BY <1>1, <2>4, SameDomain
  <2>6. \A k \in DOMAIN queue[m] :
                  /\ queue'[m][k].kind = queue[m][k].kind
                  /\ queue'[m][k].number = queue[m][k].number
                  /\ queue'[m][k].leader = queue[m][k].leader
                  /\ queue'[m][k].clock = queue[m][k].clock
                  /\ queue'[m][k].age = queue[m][k].age + 1
    BY <2>2, <2>3 DEF Ntf
  <2>7. QED
    BY <2>1, <2>5, <2>6
<1>5. queue' \in [Nodes -> Seq(Ntf)]
  <2>1. queue' = [m \in Nodes |-> queue'[m]]
    BY DEF Tick
  <2>2. QED
    BY <1>4, <2>1
<1>6. TypeInv'
  BY <1>1, <1>2, <1>3, <1>5 DEF TypeInv, ViewType
<1>7. QED
  BY <1>1, <1>2, <1>3, <1>4, <1>6

\* Time passes.
LEMMA TickInd ==
  ASSUME IndInv, Tick
  PROVE  IndInv'
<1>1. TypeInv
  BY DEF IndInv
<1>2. /\ TypeInv' /\ UNCHANGED <<row, pc, missed>>
      /\ \A m \in Nodes : view'[m].number = view[m].number /\ view'[m].leader = view[m].leader
      /\ \A m \in Nodes : /\ DOMAIN queue'[m] = DOMAIN queue[m]
                          /\ \A k \in DOMAIN queue[m] :
                               /\ queue'[m][k].kind = queue[m][k].kind
                               /\ queue'[m][k].number = queue[m][k].number
                               /\ queue'[m][k].leader = queue[m][k].leader
  BY <1>1, TickLemma
<1>3. \A m \in Nodes : pc'[m] = "down" => pc[m] = "down" /\ queue'[m] = queue[m]
  <2> SUFFICES ASSUME NEW m \in Nodes, pc[m] = "down"
               PROVE  queue'[m] = queue[m]
    BY <1>2
  <2>1. queue[m] = <<>>
    BY DEF IndInv, PlaceInv
  <2>2. queue'[m] \in Seq(Ntf) /\ DOMAIN queue'[m] = {}
    BY <1>2, <2>1 DEF TypeInv
  <2>3. QED
    BY <2>1, <2>2, NoElement
<1>4. \A m \in Nodes : Running(m)' => view[m].number # 0
  BY <1>2 DEF IndInv, PlaceInv, Running
<1>5. missed \subseteq missed'
  BY <1>2
<1>6. /\ \A m \in Nodes : \A i \in DOMAIN queue'[m] : queue'[m][i].kind = "ElectLeader" =>
           \E j \in DOMAIN queue[m] : /\ queue[m][j].kind = "ElectLeader"
                                      /\ queue[m][j].number = queue'[m][i].number
                                      /\ queue[m][j].leader = queue'[m][i].leader
      /\ \A m \in Nodes \ missed' : \A j \in DOMAIN queue[m] : queue[m][j].kind = "ElectLeader" =>
           \E i \in DOMAIN queue'[m] : /\ queue'[m][i].kind = "ElectLeader"
                                       /\ queue'[m][i].number = queue[m][j].number
  BY <1>2
<1>7. QED
  BY <1>2, <1>3, <1>4, <1>5, <1>6, QuietInd DEF IndInv

\* What a stop changes: the ID of the node is Gone wherever it was.
LEMMA StopLemma ==
  ASSUME TypeInv, NEW n \in Nodes, Stop(n)
  PROVE  /\ TypeInv' /\ UNCHANGED events /\ slow' \subseteq slow
         /\ row'.number = row.number
         /\ row'.leader = IF row.leader = n THEN Gone ELSE row.leader
         /\ view'[n].number = 0 /\ queue'[n] = <<>> /\ missed' = missed \ {n}
         /\ pc'[n] = "down"
         /\ \A m \in Nodes \ {n} : /\ pc'[m] = pc[m] /\ timer'[m] = timer[m]
                                   /\ local'[m] = local[m]
         /\ \A m \in Nodes \ {n} :
              /\ view'[m].number = view[m].number /\ view'[m].valid = view[m].valid
              /\ view'[m].leader = IF view[m].leader = n THEN Gone ELSE view[m].leader
         /\ \A m \in Nodes \ {n} :
              /\ DOMAIN queue'[m] = DOMAIN queue[m]
              /\ \A k \in DOMAIN queue[m] :
                   /\ queue'[m][k].kind = queue[m][k].kind
                   /\ queue'[m][k].number = queue[m][k].number
                   /\ queue'[m][k].clock = queue[m][k].clock
                   /\ queue'[m][k].age = queue[m][k].age
                   /\ queue'[m][k].leader = IF queue[m][k].leader = n THEN Gone
                                            ELSE queue[m][k].leader
<1> DEFINE Renamed(l) == IF l = n THEN Gone ELSE l
<1>1. /\ UNCHANGED <<offset, events>> /\ missed' = missed \ {n} /\ slow' = slow \ {n}
      /\ local' = [local EXCEPT ![n] = 0] /\ Sleep(n, "down", 0)
      /\ row' = [row EXCEPT !.leader = Renamed(@)]
  BY DEF Stop
<1>2. /\ row \in [number : 0 .. MaxElections, leader : ID]
      /\ local \in [Nodes -> 0 .. MaxElections] /\ view \in [Nodes -> ViewType]
      /\ queue \in [Nodes -> Seq(Ntf)] /\ Gone \in ID /\ n \in ID /\ slow \subseteq Nodes
  BY DEF TypeInv, ViewType, ID
<1>3. /\ row' \in [number : 0 .. MaxElections, leader : ID]
      /\ row'.number = row.number /\ row'.leader = Renamed(row.leader)
  BY <1>1, <1>2
<1>4. local' \in [Nodes -> 0 .. MaxElections] /\ \A m \in Nodes \ {n} : local'[m] = local[m]
  <2>1. 0 \in 0 .. MaxElections
    BY Params
  <2>2. QED
    BY <1>1, <1>2, <2>1
<1>5. /\ pc' \in [Nodes -> Places] /\ timer' \in [Nodes -> Nat] /\ pc'[n] = "down"
      /\ \A m \in Nodes \ {n} : pc'[m] = pc[m] /\ timer'[m] = timer[m]
  <2>1. "down" \in Places /\ 0 \in Nat
    BY DEF Places
  <2>2. QED
    BY <1>1, <2>1, SleepLemma
<1>6. /\ view' \in [Nodes -> ViewType] /\ view'[n].number = 0
      /\ \A m \in Nodes \ {n} :
              /\ view'[m].number = view[m].number /\ view'[m].valid = view[m].valid
              /\ view'[m].leader = Renamed(view[m].leader)
  <2>1. view' = [m \in Nodes |->
                   IF m = n THEN [number |-> 0, leader |-> Gone, valid |-> 0]
                   ELSE [view[m] EXCEPT !.leader = Renamed(@)]]
    BY DEF Stop
  <2>2. [number |-> 0, leader |-> Gone, valid |-> 0] \in ViewType
    BY <1>2, Params DEF ViewType
  <2>3. \A m \in Nodes : [view[m] EXCEPT !.leader = Renamed(@)] \in ViewType
    BY <1>2 DEF ViewType
  <2>4. view' \in [Nodes -> ViewType]
    BY <2>1, <2>2, <2>3
  <2>5. \A m \in Nodes \ {n} : view'[m] = [view[m] EXCEPT !.leader = Renamed(@)] /\ view[m] \in ViewType
    BY <1>2, <2>1
  <2>6. QED
    BY <2>1, <2>4, <2>5 DEF ViewType
<1>7. queue' = [m \in Nodes |->
                  IF m = n THEN <<>>
                  ELSE [k \in DOMAIN queue[m] |-> [queue[m][k] EXCEPT !.leader = Renamed(@)]]]
  BY DEF Stop
<1>8. ASSUME NEW m \in Nodes \ {n}
      PROVE  /\ queue'[m] \in Seq(Ntf) /\ DOMAIN queue'[m] = DOMAIN queue[m]
             /\ \A k \in DOMAIN queue[m] :
                   /\ queue'[m][k].kind = queue[m][k].kind
                   /\ queue'[m][k].number = queue[m][k].number
                   /\ queue'[m][k].clock = queue[m][k].clock
                   /\ queue'[m][k].age = queue[m][k].age
                   /\ queue'[m][k].leader = Renamed(queue[m][k].leader)
  <2>1. queue'[m] = [k \in DOMAIN queue[m] |-> [queue[m][k] EXCEPT !.leader = Renamed(@)]]
    BY <1>7
  <2>2. \A k \in DOMAIN queue[m] : queue[m][k] \in Ntf
    BY ClaimTypes
  <2>3. ASSUME NEW k \in DOMAIN queue[m]
        PROVE  /\ queue'[m][k] \in Ntf
               /\ queue'[m][k].kind = queue[m][k].kind
               /\ queue'[m][k].number = queue[m][k].number
               /\ queue'[m][k].clock = queue[m][k].clock
               /\ queue'[m][k].age = queue[m][k].age
               /\ queue'[m][k].leader = Renamed(queue[m][k].leader)
    <3>1. PICK l \in ID : l = Renamed(queue[m][k].leader)
      BY <1>2, <2>2 DEF Ntf
    <3>2. queue'[m][k] = [queue[m][k] EXCEPT !.leader = l]
      BY <2>1, <2>2, <3>1 DEF Ntf
    <3>3. QED
      BY <2>2, <3>1, <3>2 DEF Ntf
  <2>4. queue'[m] \in [DOMAIN queue[m] -> Ntf]
    BY <2>1, <2>3
  <2>5. queue'[m] \in Seq(Ntf)
    BY <1>2, <2>4, SameDomain
  <2>6. QED
    BY <2>1, <2>3, <2>5
<1>9. queue'[n] = <<>> /\ queue' \in [Nodes -> Seq(Ntf)]
  <2>1. queue'[n] = <<>> /\ <<>> \in Seq(Ntf)
    BY <1>7, EmptySeq
  <2>2. queue' = [m \in Nodes |-> queue'[m]]
    BY <1>7
  <2>3. \A m \in Nodes : queue'[m] \in Seq(Ntf)
    BY <1>8, <2>1
  <2>4. QED
    BY <2>1, <2>2, <2>3
<1>10. TypeInv'
  BY <1>1, <1>2, <1>3, <1>4, <1>5, <1>6, <1>9 DEF TypeInv, ViewType
<1>11. QED
  BY <1>1, <1>3, <1>4, <1>5, <1>6, <1>8, <1>9, <1>10

\* A node stops: every claim of its ID becomes one of Gone.
LEMMA StopInd ==
  ASSUME IndInv, NEW n \in Nodes, Stop(n)
  PROVE  IndInv'
<1> DEFINE Renamed(l) == IF l = n THEN Gone ELSE l
<1>1. /\ TypeInv /\ TypeInv' /\ row'.number = row.number /\ row'.leader = Renamed(row.leader)
      /\ view'[n].number = 0 /\ queue'[n] = <<>> /\ missed' = missed \ {n}
      /\ pc'[n] = "down" /\ \A m \in Nodes \ {n} : pc'[m] = pc[m]
      /\ \A m \in Nodes \ {n} : /\ view'[m].number = view[m].number
                                /\ view'[m].leader = Renamed(view[m].leader)
      /\ \A m \in Nodes \ {n} :
              /\ DOMAIN queue'[m] = DOMAIN queue[m]
              /\ \A k \in DOMAIN queue[m] :
                   /\ queue'[m][k].kind = queue[m][k].kind
                   /\ queue'[m][k].number = queue[m][k].number
                   /\ queue'[m][k].leader = Renamed(queue[m][k].leader)
  BY StopLemma DEF IndInv
<1>2. PlaceInv'
  <2>1. ASSUME NEW m \in Nodes, m # n, pc[m] = "down"
        PROVE  queue'[m] = <<>>
    <3>1. queue[m] = <<>>
      BY <2>1 DEF IndInv, PlaceInv
    <3>2. queue'[m] \in Seq(Ntf) /\ DOMAIN queue'[m] = {}
      BY <1>1, <2>1, <3>1 DEF TypeInv
    <3>3. QED
      BY <3>2, NoElement
  <2>2. QED
    BY <1>1, <2>1 DEF IndInv, PlaceInv, Running
<1>3. ASSUME NEW k, NEW l, Claim(k, l)'
      PROVE  \E a : Claim(k, a) /\ l = Renamed(a)
  <2>1. CASE k = row'.number /\ l = row'.leader
    BY <1>1, <2>1 DEF Claim
  <2>2. ASSUME NEW m \in Nodes, view'[m].number # 0, k = view'[m].number, l = view'[m].leader
        PROVE  \E a : Claim(k, a) /\ l = Renamed(a)
    <3>1. Claim(k, view[m].leader) /\ l = Renamed(view[m].leader)
      BY <1>1, <2>2 DEF Claim
    <3>2. QED
      BY <3>1
  <2>3. ASSUME NEW m \in Nodes, NEW i \in DOMAIN queue'[m], queue'[m][i].kind = "ElectLeader",
               k = queue'[m][i].number, l = queue'[m][i].leader
        PROVE  \E a : Claim(k, a) /\ l = Renamed(a)
    <3>1. Claim(k, queue[m][i].leader) /\ l = Renamed(queue[m][i].leader)
      BY <1>1, <2>3 DEF Claim
    <3>2. QED
      BY <3>1
  <2>4. QED
    <3>1. \/ k = row'.number /\ l = row'.leader
          \/ \E m \in Nodes : view'[m].number # 0 /\ k = view'[m].number /\ l = view'[m].leader
          \/ \E m \in Nodes : \E i \in DOMAIN queue'[m] : /\ queue'[m][i].kind = "ElectLeader"
               /\ k = queue'[m][i].number /\ l = queue'[m][i].leader
      BY <1>3 DEF Claim
    <3> HIDE DEF Renamed
    <3>2. QED
      BY <2>1, <2>2, <2>3, <3>1, Zenon
<1>4. ASSUME NEW k, NEW l, Claim(k, l)
      PROVE  k \in 0 .. MaxElections /\ l \in ID
  BY <1>1, <1>4, ClaimTypes DEF Claim
<1>5. ClaimInv'
  <2> SUFFICES ASSUME NEW k \in 0 .. MaxElections, NEW l \in ID, Claim(k, l)', NEW m \in ID
               PROVE  k <= row'.number /\ (Claim(k, m)' => l = m)
    BY DEF ClaimInv
  <2>1. PICK a : Claim(k, a) /\ l = Renamed(a)
    BY <1>3
  <2>2. a \in ID /\ k <= row.number
    BY <1>4, <2>1 DEF IndInv, ClaimInv
  <2>3. ASSUME Claim(k, m)'
        PROVE  l = m
    <3>1. PICK b : Claim(k, b) /\ m = Renamed(b)
      BY <1>3, <2>3
    <3>2. b \in ID
      BY <1>4, <3>1
    <3>3. a = b
      BY <2>1, <2>2, <3>1, <3>2 DEF IndInv, ClaimInv
    <3>4. QED
      BY <2>1, <3>1, <3>3
  <2>4. QED
    BY <1>1, <2>2, <2>3
<1>6. FollowInv'
  BY <1>1 DEF IndInv, FollowInv
<1>7. QED
  BY <1>1, <1>2, <1>5, <1>6 DEF IndInv

\* The invariant at the start.
LEMMA InitInd == Init => IndInv
<1> SUFFICES ASSUME Init PROVE IndInv
  OBVIOUS
<1>1. TypeInv
  <2>1. row \in [number : 0 .. MaxElections, leader : ID]
    BY Params DEF Init, ID
  <2>2. QED
    BY <2>1, Params, EmptySeq DEF Init, TypeInv, Places, ID
<1>2. PlaceInv /\ FollowInv
  BY DEF Init, PlaceInv, FollowInv, Running
<1>3. \A k, l : Claim(k, l) <=> k = 1 /\ l = Gone
  BY DEF Init, Claim
<1>4. ClaimInv
  BY <1>3 DEF Init, ClaimInv
<1>5. QED
  BY <1>1, <1>2, <1>4 DEF IndInv

\* Every step keeps the invariant.
LEMMA NextInd == IndInv /\ [Next]_vars => IndInv'
<1> SUFFICES ASSUME IndInv, [Next]_vars PROVE IndInv'
  OBVIOUS
<1>1. CASE UNCHANGED vars
  <2>1. UNCHANGED <<row, offset, queue, pc, timer, local, view, slow, missed, events>>
    BY <1>1 DEF vars, nodeVars, bounds
  <2>2. TypeInv' /\ PlaceInv' /\ FollowInv'
    BY <2>1 DEF IndInv, TypeInv, PlaceInv, FollowInv, Running
  <2>3. \A k, l : Claim(k, l)' <=> Claim(k, l)
    BY <2>1 DEF Claim
  <2>4. QED
    BY <2>1, <2>2, <2>3 DEF IndInv, ClaimInv
<1>2. ASSUME NEW n \in Nodes, TryElection(n)
      PROVE  IndInv'
  BY <1>2, KeepInd, ElectionInd
<1>3. QED
  BY <1>1, <1>2, KeepInd, ReceiveInd, LoseInd, NewInd, StopInd, TickInd, Zenon
     DEF Next, Progress, keepElections

\* The inductive invariant holds in every reachable state.
THEOREM Invariance == Spec => []IndInv
BY InitInd, NextInd, PTL DEF Spec

\* Two nodes never know different leaders of the same election: only one UPDATE
\* of the row succeeds for a number.
THEOREM LeaderUnique == Spec => []OneLeader
<1>1. IndInv => OneLeader
  BY ClaimFacts DEF OneLeader
<1>2. QED
  BY <1>1, Invariance, PTL

\* A node that lost no ElectLeader and has none on its way knows the leader of
\* the row, whenever it started.
THEOREM LeaderKnown == Spec => []ViewFollows
<1>1. IndInv => ViewFollows
  <2> SUFFICES ASSUME IndInv, NEW n \in Nodes, Running(n), n \notin missed,
                      \A k \in DOMAIN queue[n] : queue[n][k].kind # "ElectLeader"
               PROVE  view[n].number = row.number /\ view[n].leader = row.leader
    BY DEF ViewFollows
  <2>1. view[n].number # 0
    BY DEF IndInv, PlaceInv
  <2>2. view[n].number = row.number
    BY <2>1 DEF IndInv, FollowInv
  <2>3. QED
    BY <2>1, <2>2, ClaimFacts
<1>2. QED
  BY <1>1, Invariance, PTL

-----------------------------------------------------------------------------
(* The timing: no election in the place of a leader that runs.             *)

\* Nothing is about an election that is later than the row, and an attempt is
\* about one that the node knows.
NumberInv ==
  \A n \in Nodes :
    /\ local[n] <= row.number
    /\ pc[n] = "random" => local[n] <= view[n].number
    /\ \A k \in DOMAIN queue[n] : queue[n][k].number <= row.number

\* The leader l of the row sends its heartbeats.
LeaderInv(l) ==
  /\ pc[l] \in {"elected", "loop", "sleep"}
  /\ timer[l] <= leaderInterval
  /\ pc[l] = "loop" => timer[l] = 0
  /\ pc[l] = "elected" => local[l] = row.number
  /\ pc[l] # "elected" => view[l].number = row.number

\* The notification k of n is a heartbeat of the leader of the row.
Beat(n, k) == queue[n][k].kind = "SeeLeader" /\ queue[n][k].number = row.number

\* What n knows of the leader l is valid until a heartbeat arrives, one that is
\* on its way or the next one.
FreshInv(l, n) ==
  Running(n) /\ view[n].number = row.number =>
    \/ view[n].valid > timer[l] + MaxDelay
    \/ \E k \in DOMAIN queue[n] : Beat(n, k) /\ view[n].valid + queue[n][k].age > MaxDelay

\* A heartbeat that is on its way to n is followed, within leaderInterval, by
\* another one, that is on its way too or is the next one of the leader l.
ChainInv(l, n) ==
  \A k \in DOMAIN queue[n] : Beat(n, k) =>
    \/ queue[n][k].age + timer[l] <= leaderInterval
    \/ \E j \in DOMAIN queue[n] :
         j > k /\ Beat(n, j) /\ queue[n][k].age <= queue[n][j].age + leaderInterval

\* The leader l of the row keeps the others from an election.
LedBy(l) ==
  /\ LeaderInv(l)
  /\ \A n \in Nodes \ {l} : FreshInv(l, n)
  /\ \A n \in Nodes : ChainInv(l, n)

\* Nothing is late.
AgeInv == \A n \in Nodes : \A k \in DOMAIN queue[n] : queue[n][k].age <= MaxDelay

\* As long as nothing was lost or late and no heartbeat failed, every
\* notification arrives in time and a leader of the row is heard.
TimedInv ==
  events = 0 =>
    /\ slow = {}
    /\ AgeInv
    /\ row.leader # Gone => LedBy(row.leader)

\* Both invariants.
FullInv == IndInv /\ NumberInv /\ TimedInv

\* The numbers of the views.
LEMMA ViewNumbers ==
  ASSUME IndInv
  PROVE  \A n \in Nodes : view[n].number <= row.number
<1>1. TypeInv /\ row.number \in Nat
  BY DEF IndInv, TypeInv
<1>2. QED
  BY <1>1, ClaimFacts, ClaimTypes

\* What NumberInv needs of a step of n.
LEMMA NumberStep ==
  ASSUME TypeInv, TypeInv', NumberInv, NEW n \in Nodes, row'.number >= row.number,
         \A m \in Nodes \ {n} : /\ local'[m] = local[m] /\ view'[m].number = view[m].number
                                /\ pc'[m] = "random" => pc[m] = "random",
         local'[n] <= row'.number, pc'[n] = "random" => local'[n] <= view'[n].number,
         \A m \in Nodes : \A i \in DOMAIN queue'[m] :
           \/ queue'[m][i].number <= row'.number
           \/ \E j \in DOMAIN queue[m] : queue'[m][i].number = queue[m][j].number
  PROVE  NumberInv'
<1>1. /\ row.number \in Nat /\ row'.number \in Nat
      /\ \A m \in Nodes : local[m] \in Nat
      /\ \A m \in Nodes : \A j \in DOMAIN queue[m] : queue[m][j].number \in Nat
  <2>1. /\ row.number \in Nat /\ row'.number \in Nat
        /\ \A m \in Nodes : local[m] \in Nat
    BY DEF TypeInv
  <2>2. \A m \in Nodes : \A j \in DOMAIN queue[m] : queue[m][j].number \in Nat
    BY ClaimTypes
  <2>3. QED
    BY <2>1, <2>2
<1>2. \A m \in Nodes : local'[m] <= row'.number
  BY <1>1 DEF NumberInv
<1>3. \A m \in Nodes : pc'[m] = "random" => local'[m] <= view'[m].number
  BY DEF NumberInv
<1>4. \A m \in Nodes : \A i \in DOMAIN queue'[m] : queue'[m][i].number <= row'.number
  <2>1. \A m \in Nodes : \A j \in DOMAIN queue[m] : queue[m][j].number <= row'.number
    BY <1>1 DEF NumberInv
  <2>2. QED
    BY <2>1
<1>5. QED
  BY <1>2, <1>3, <1>4 DEF NumberInv

\* What Send puts into the queues.
LEMMA SendNumbers ==
  ASSUME TypeInv, NEW ntf \in Ntf, Send(ntf)
  PROVE  \A m \in Nodes : \A i \in DOMAIN queue'[m] :
           \/ queue'[m][i] = ntf
           \/ i \in DOMAIN queue[m] /\ queue'[m][i] = queue[m][i]
<1>1. queue \in [Nodes -> Seq(Ntf)]
  BY DEF TypeInv
<1>2. QED
  BY <1>1, SendLemma

\* The steps of keepElections keep NumberInv.
LEMMA KeepNumber ==
  ASSUME IndInv, IndInv', NumberInv, NEW n \in Nodes,
         \/ Loop(n) \/ Wake(n) \/ Retry(n) \/ AwaitElection(n) \/ SlowDown(n) \/ CatchUp(n)
         \/ TryElection(n)
  PROVE  NumberInv'
<1>1. /\ TypeInv /\ TypeInv' /\ local[n] \in 0 .. MaxElections /\ local[n] <= row.number
      /\ view[n].number \in 0 .. MaxElections /\ view[n].number <= row.number
      /\ row.number \in Nat /\ row.number >= row.number
      /\ local \in [Nodes -> 0 .. MaxElections] /\ pc \in [Nodes -> Places]
  <2>1. TypeInv /\ TypeInv'
    BY DEF IndInv
  <2>2. local[n] <= row.number /\ view[n].number <= row.number
    BY ViewNumbers DEF NumberInv
  <2>3. /\ local \in [Nodes -> 0 .. MaxElections] /\ pc \in [Nodes -> Places]
        /\ row.number \in Nat /\ view[n].number \in 0 .. MaxElections
    BY <2>1 DEF TypeInv
  <2>4. QED
    BY <2>1, <2>2, <2>3
<1>2. ASSUME NEW number \in 0 .. MaxElections, NEW after \in {"sleep", "elected"},
             leader(n, number, after), number <= row.number, UNCHANGED <<row, view>>
      PROVE  NumberInv'
  <2>1. /\ local'[n] \in {local[n], number} /\ \A m \in Nodes \ {n} : local'[m] = local[m]
        /\ \A m \in Nodes \ {n} : pc'[m] = pc[m]
        /\ pc'[n] # "random"
        /\ \/ Send(SeeLeader(number, offset[n])) /\ SeeLeader(number, offset[n]) \in Ntf
           \/ UNCHANGED queue
    BY <1>1, <1>2, LeaderLemma, ZenonT(60)
  <2>2. SeeLeader(number, offset[n]).number = number
    BY DEF SeeLeader
  <2>3. \A m \in Nodes : \A i \in DOMAIN queue'[m] :
          \/ queue'[m][i].number <= row'.number
          \/ \E j \in DOMAIN queue[m] : queue'[m][i].number = queue[m][j].number
    <3>1. CASE UNCHANGED queue
      BY <3>1
    <3>2. CASE Send(SeeLeader(number, offset[n])) /\ SeeLeader(number, offset[n]) \in Ntf
      <4>1. \A m \in Nodes : \A i \in DOMAIN queue'[m] :
              \/ queue'[m][i] = SeeLeader(number, offset[n])
              \/ i \in DOMAIN queue[m] /\ queue'[m][i] = queue[m][i]
        BY <1>1, <3>2, SendNumbers
      <4>2. QED
        BY <1>2, <2>2, <4>1
    <3>3. QED
      BY <2>1, <3>1, <3>2
  <2>4. local'[n] <= row'.number
    BY <1>1, <1>2, <2>1
  <2>5. QED
    BY <1>1, <1>2, <2>1, <2>3, <2>4, NumberStep
<1>3. ASSUME UNCHANGED <<row, view, queue>>, \A m \in Nodes \ {n} : local'[m] = local[m],
             local'[n] \in {local[n], view[n].number},
             pc'[n] = "random" => \/ local'[n] = view[n].number
                                  \/ pc[n] = "random" /\ local' = local,
             \A m \in Nodes \ {n} : pc'[m] = pc[m]
      PROVE  NumberInv'
  <2>1. local'[n] <= row'.number
    BY <1>1, <1>3
  <2>2. pc'[n] = "random" => local'[n] <= view'[n].number
    BY <1>1, <1>3 DEF NumberInv
  <2>3. \A m \in Nodes : \A i \in DOMAIN queue'[m] :
          \E j \in DOMAIN queue[m] : queue'[m][i].number = queue[m][j].number
    BY <1>3
  <2>4. QED
    BY <1>1, <1>3, <2>1, <2>2, <2>3, NumberStep
<1>4. CASE Loop(n)
  <2>1. UNCHANGED <<row, view>>
    BY <1>4 DEF Loop
  <2>2. CASE leader(n, view[n].number, "sleep")
    BY <1>1, <1>2, <2>1, <2>2
  <2>3. CASE Sleep(n, "sleep", view[n].valid) /\ UNCHANGED <<queue, local, events>>
    BY <1>1, <1>3, <2>1, <2>3 DEF Sleep
  <2>4. CASE /\ \E d \in 0 .. electionRandomInterval : Sleep(n, "random", d)
             /\ local' = [local EXCEPT ![n] = view[n].number]
             /\ UNCHANGED <<queue, events>>
    <3>1. \A m \in Nodes \ {n} : pc'[m] = pc[m]
      BY <1>1, <2>4 DEF Sleep
    <3>2. local'[n] = view[n].number /\ \A m \in Nodes \ {n} : local'[m] = local[m]
      BY <1>1, <2>4
    <3>3. UNCHANGED <<row, view, queue>>
      BY <2>1, <2>4
    <3>4. local'[n] \in {local[n], view[n].number}
      BY <3>2
    <3> HIDE <2>4
    <3>5. QED
      BY <1>3, <3>1, <3>2, <3>3, <3>4
  <2>5. QED
    BY <1>4, <2>2, <2>3, <2>4, Zenon DEF Loop
<1>5. CASE Wake(n)
  BY <1>1, <1>3, <1>5 DEF Wake, Sleep
<1>6. CASE Retry(n)
  BY <1>1, <1>2, <1>6 DEF Retry
<1>7. CASE AwaitElection(n)
  <2>1. CASE Sleep(n, "loop", 0) /\ UNCHANGED <<queue, local, events>>
    BY <1>1, <1>3, <1>7, <2>1 DEF AwaitElection, Sleep
  <2>2. CASE leader(n, local[n], "elected")
    BY <1>1, <1>2, <1>7, <2>2 DEF AwaitElection
  <2>3. QED
    BY <1>7, <2>1, <2>2, Zenon DEF AwaitElection
<1>8. CASE SlowDown(n) \/ CatchUp(n)
  BY <1>1, <1>3, <1>8 DEF SlowDown, CatchUp, nodeVars
<1>9. CASE TryElection(n) /\ row' = row
  <2>1. Sleep(n, "loop", 0) /\ UNCHANGED <<row, queue, local, events>>
    <3>1. ~(row' = [number |-> local[n] + 1, leader |-> n] /\ Electable(n))
      BY <1>1, <1>9 DEF Electable
    <3>2. QED
      BY <1>9, <3>1, Zenon DEF TryElection
  <2>2. QED
    BY <1>1, <1>3, <1>9, <2>1 DEF TryElection, Sleep
<1>10. CASE TryElection(n) /\ row' # row
  <2>1. /\ row'.number = row.number + 1 /\ row.number = local[n]
        /\ Send(ElectLeader(row'.number, n)) /\ ElectLeader(row'.number, n) \in Ntf
        /\ UNCHANGED view /\ pc'[n] \in {"elected", "loop"}
        /\ \A m \in Nodes \ {n} : pc'[m] = pc[m]
    BY <1>1, <1>10, ElectionLemma
  <2>2. ElectLeader(row'.number, n).number = row'.number /\ row'.number <= row'.number
    BY <1>1, <2>1 DEF ElectLeader
  <2>3. \A m \in Nodes : \A i \in DOMAIN queue'[m] :
              \/ queue'[m][i] = ElectLeader(row'.number, n)
              \/ i \in DOMAIN queue[m] /\ queue'[m][i] = queue[m][i]
    <3>1. ASSUME NEW ntf \in Ntf, Send(ntf)
          PROVE  \A m \in Nodes : \A i \in DOMAIN queue'[m] :
                   \/ queue'[m][i] = ntf
                   \/ i \in DOMAIN queue[m] /\ queue'[m][i] = queue[m][i]
      BY <1>1, <3>1, SendNumbers
    <3>2. QED
      BY <2>1, <3>1
  <2>4. \A m \in Nodes : \A i \in DOMAIN queue'[m] :
          \/ queue'[m][i].number <= row'.number
          \/ \E j \in DOMAIN queue[m] : queue'[m][i].number = queue[m][j].number
    BY <2>2, <2>3
  <2>5. /\ local'[n] \in {local[n], row'.number}
        /\ \A m \in Nodes \ {n} : local'[m] = local[m]
    BY <1>1, <1>10 DEF TryElection
  <2>6. local'[n] <= row'.number /\ row'.number >= row.number
    BY <1>1, <2>1, <2>5
  <2>7. QED
    BY <1>1, <2>1, <2>4, <2>5, <2>6, NumberStep
<1>11. QED
  BY <1>4, <1>5, <1>6, <1>7, <1>8, <1>9, <1>10

\* Every step keeps NumberInv.
LEMMA NumberNext ==
  ASSUME IndInv, IndInv', NumberInv, [Next]_vars
  PROVE  NumberInv'
<1>1. /\ TypeInv /\ TypeInv' /\ row.number \in Nat /\ row.number >= row.number
      /\ \A m \in Nodes : local[m] <= row.number
  BY DEF IndInv, TypeInv, NumberInv
<1>2. CASE UNCHANGED vars
  BY <1>2 DEF vars, nodeVars, NumberInv
<1>3. ASSUME NEW n \in Nodes, row'.number = row.number, local'[n] \in {local[n], 0},
             \A m \in Nodes \ {n} : local'[m] = local[m],
             \A m \in Nodes \ {n} : view'[m].number = view[m].number,
             \A m \in Nodes \ {n} : pc'[m] = pc[m],
             pc'[n] = "random" => /\ pc[n] = "random" /\ local'[n] = local[n]
                                  /\ view'[n].number >= view[n].number,
             \A m \in Nodes : \A i \in DOMAIN queue'[m] :
               \E j \in DOMAIN queue[m] : queue'[m][i].number = queue[m][j].number
      PROVE  NumberInv'
  <2>1. local'[n] <= row'.number
    BY <1>1, <1>3
  <2>2. pc'[n] = "random" => local'[n] <= view'[n].number
    <3>1. local[n] \in Nat /\ view[n].number \in Nat /\ view'[n].number \in Nat
      BY <1>1, ClaimTypes DEF TypeInv
    <3>2. QED
      BY <1>3, <3>1 DEF NumberInv
  <2>3. QED
    BY <1>1, <1>3, <2>1, <2>2, NumberStep
<1>4. CASE Tick
  <2>1. /\ UNCHANGED <<row, pc, local>>
        /\ \A m \in Nodes : view'[m].number = view[m].number
        /\ \A m \in Nodes : /\ DOMAIN queue'[m] = DOMAIN queue[m]
                            /\ \A k \in DOMAIN queue[m] : queue'[m][k].number = queue[m][k].number
    BY <1>1, <1>4, TickLemma
  <2>2. QED
    BY <2>1 DEF NumberInv
<1>5. ASSUME NEW n \in Nodes, Receive(n)
      PROVE  NumberInv'
  <2>1. UNCHANGED <<row, pc, local>>
    BY <1>5 DEF Receive
  <2>2. /\ 1 \in DOMAIN queue[n]
        /\ \A k \in DOMAIN queue'[n] : k + 1 \in DOMAIN queue[n] /\ queue'[n][k] = queue[n][k + 1]
        /\ \A m \in Nodes \ {n} : queue'[m] = queue[m]
        /\ \/ electLeader(n, queue[n][1])
           \/ seeLeader(n, queue[n][1])
    BY <1>1, <1>5, ReceiveLemma
  <2>3. \A m \in Nodes : \A i \in DOMAIN queue'[m] :
          \E j \in DOMAIN queue[m] : queue'[m][i].number = queue[m][j].number
    BY <2>2
  <2>4. /\ queue[n][1] \in Ntf /\ queue[n][1].number \in Nat /\ view[n].number \in Nat
        /\ view[n].number >= view[n].number
    BY <1>1, <2>2, ClaimTypes
  <2>5. /\ \A m \in Nodes \ {n} : view'[m].number = view[m].number
        /\ view'[n].number >= view[n].number
    <3>1. CASE electLeader(n, queue[n][1])
      <4>1. /\ \A m \in Nodes \ {n} : view'[m] = view[m]
            /\ \/ queue[n][1].number > view[n].number /\ view'[n].number = queue[n][1].number
               \/ view'[n] = view[n]
        BY <1>1, <2>4, <3>1, ElectLemma
      <4>2. QED
        BY <2>4, <4>1
    <3>2. CASE seeLeader(n, queue[n][1])
      <4>1. \A m \in Nodes : view'[m].number = view[m].number
        BY <1>1, <2>4, <3>2, SeeLemma
      <4>2. QED
        BY <2>4, <4>1
    <3>3. QED
      BY <2>2, <3>1, <3>2
  <2>6. QED
    BY <1>3, <2>1, <2>3, <2>5
<1>6. ASSUME NEW n \in Nodes, Lose(n)
      PROVE  NumberInv'
  <2>1. /\ UNCHANGED <<row, pc, local, view>> /\ queue \in [Nodes -> Seq(Ntf)]
        /\ queue[n] \in Seq(Ntf) /\ view[n].number \in Nat
    BY <1>1, <1>6 DEF Lose, nodeVars, TypeInv
  <2>2. PICK k \in DOMAIN queue[n] : queue' = [queue EXCEPT ![n] = RemoveAt(@, k)]
    BY <1>6 DEF Lose
  <2>3. queue'[n] = RemoveAt(queue[n], k) /\ \A m \in Nodes \ {n} : queue'[m] = queue[m]
    BY <2>1, <2>2
  <2>4. \A i \in DOMAIN queue'[n] : \E j \in DOMAIN queue[n] : queue'[n][i] = queue[n][j]
    BY <2>1, <2>3, RemoveAtLemma
  <2>5. \A m \in Nodes : \A i \in DOMAIN queue'[m] :
          \E j \in DOMAIN queue[m] : queue'[m][i].number = queue[m][j].number
    BY <2>3, <2>4
  <2>6. view'[n].number >= view[n].number
    BY <2>1
  <2>7. QED
    BY <1>3, <2>1, <2>5, <2>6
<1>7. ASSUME NEW n \in Nodes, Listen(n) \/ Load(n) \/ New(n)
      PROVE  NumberInv'
  <2>1. /\ UNCHANGED <<row, local>> /\ queue' = queue
        /\ pc'[n] # "random" /\ \A m \in Nodes \ {n} : pc'[m] = pc[m]
        /\ \A m \in Nodes \ {n} : view'[m] = view[m]
    <3>1. pc \in [Nodes -> Places] /\ view \in [Nodes -> ViewType] /\ queue \in [Nodes -> Seq(Ntf)]
      BY <1>1 DEF TypeInv, ViewType
    <3>2. CASE Listen(n)
      BY <3>1, <3>2 DEF Listen
    <3>3. CASE Load(n)
      BY <3>1, <3>3 DEF Load
    <3>4. CASE New(n)
      BY <3>1, <3>4 DEF New, Sleep, Listened
    <3>5. QED
      BY <1>7, <3>2, <3>3, <3>4
  <2>2. QED
    BY <1>3, <2>1
<1>8. ASSUME NEW n \in Nodes, Stop(n)
      PROVE  NumberInv'
  <2>1. /\ row'.number = row.number /\ queue'[n] = <<>> /\ pc'[n] = "down"
        /\ \A m \in Nodes \ {n} : pc'[m] = pc[m] /\ local'[m] = local[m]
        /\ \A m \in Nodes \ {n} : view'[m].number = view[m].number
        /\ \A m \in Nodes \ {n} : /\ DOMAIN queue'[m] = DOMAIN queue[m]
                                  /\ \A k \in DOMAIN queue[m] :
                                       queue'[m][k].number = queue[m][k].number
    BY <1>1, <1>8, StopLemma
  <2>2. local'[n] = 0
    BY <1>1, <1>8 DEF Stop, TypeInv
  <2>3. \A m \in Nodes : \A i \in DOMAIN queue'[m] :
          \E j \in DOMAIN queue[m] : queue'[m][i].number = queue[m][j].number
    BY <2>1
  <2>4. QED
    BY <1>3, <2>1, <2>2, <2>3
<1>9. QED
  BY <1>2, <1>4, <1>5, <1>6, <1>7, <1>8, KeepNumber, Zenon DEF Next, Progress, keepElections
\* The types of the times.
LEMMA TimeTypes ==
  ASSUME TypeInv
  PROVE  /\ \A n \in Nodes : timer[n] \in Nat /\ view[n].valid \in Nat
         /\ \A n \in Nodes : \A k \in DOMAIN queue[n] :
              queue[n][k].age \in Nat /\ queue[n][k].number \in Nat /\ k \in Nat
<1>1. \A n \in Nodes : queue[n] \in Seq(Ntf)
  BY DEF TypeInv
<1>2. \A n \in Nodes : \A k \in DOMAIN queue[n] : k \in Nat
  BY <1>1, LenProperties
<1>3. \A n \in Nodes : timer[n] \in Nat
  BY DEF TypeInv
<1>4. QED
  BY <1>2, <1>3, ClaimTypes

\* A step that leaves the notifications and the timer of the leader as they are.
LEMMA SameLed ==
  ASSUME NEW l \in Nodes, LedBy(l), LeaderInv(l)', timer'[l] = timer[l],
         row'.number = row.number,
         \A m \in Nodes : \/ queue'[m] = <<>>
                          \/ /\ DOMAIN queue'[m] = DOMAIN queue[m]
                             /\ \A k \in DOMAIN queue[m] :
                                  /\ queue'[m][k].kind = queue[m][k].kind
                                  /\ queue'[m][k].number = queue[m][k].number
                                  /\ queue'[m][k].age = queue[m][k].age,
         \A m \in Nodes \ {l} : Running(m)' /\ view'[m].number = row'.number =>
           \/ view'[m].valid > timer[l] + MaxDelay
           \/ /\ queue'[m] # <<>> \/ queue'[m] = queue[m]
              /\ Running(m)
              /\ view'[m].number = view[m].number /\ view'[m].valid = view[m].valid
  PROVE  LedBy(l)'
<1>1. ASSUME NEW m \in Nodes
      PROVE  ChainInv(l, m)'
  <2>1. ChainInv(l, m)
    BY DEF LedBy
  <2>2. CASE queue'[m] = <<>>
    BY <2>2 DEF ChainInv
  <2>3. CASE /\ DOMAIN queue'[m] = DOMAIN queue[m]
             /\ \A k \in DOMAIN queue[m] :
                  /\ queue'[m][k].kind = queue[m][k].kind
                  /\ queue'[m][k].number = queue[m][k].number
                  /\ queue'[m][k].age = queue[m][k].age
    <3>1. \A k \in DOMAIN queue[m] : Beat(m, k)' <=> Beat(m, k)
      BY <2>3 DEF Beat
    <3>2. QED
      BY <2>1, <2>3, <3>1 DEF ChainInv
  <2>4. QED
    BY <2>2, <2>3
<1>2. ASSUME NEW m \in Nodes \ {l}
      PROVE  FreshInv(l, m)'
  <2>1. FreshInv(l, m)
    BY DEF LedBy
  <2> SUFFICES ASSUME Running(m)', view'[m].number = row'.number,
                      ~(view'[m].valid > timer[l] + MaxDelay)
               PROVE  \E k \in DOMAIN queue'[m] :
                        Beat(m, k)' /\ view'[m].valid + queue'[m][k].age > MaxDelay
    BY DEF FreshInv
  <2>2. /\ Running(m) /\ view'[m].number = view[m].number /\ view'[m].valid = view[m].valid
        /\ queue'[m] # <<>> \/ queue'[m] = queue[m]
    OBVIOUS
  <2>3. PICK k \in DOMAIN queue[m] : Beat(m, k) /\ view[m].valid + queue[m][k].age > MaxDelay
    BY <2>1, <2>2 DEF FreshInv
  <2>4. /\ k \in DOMAIN queue'[m] /\ queue'[m][k].kind = queue[m][k].kind
        /\ queue'[m][k].number = queue[m][k].number
        /\ queue'[m][k].age = queue[m][k].age
    BY <2>2
  <2>5. QED
    BY <2>2, <2>3, <2>4 DEF Beat
<1>3. QED
  BY <1>1, <1>2 DEF LedBy

\* A heartbeat is sent, by the leader when it is due, or by another node.
LEMMA BeatLed ==
  ASSUME IndInv, TypeInv', NEW l \in Nodes, LedBy(l), LeaderInv(l)', UNCHANGED <<row, view>>,
         NEW number, NEW c, SeeLeader(number, c) \in Ntf, Send(SeeLeader(number, c)),
         \A m \in Nodes : Running(m)' => Running(m),
         \/ timer'[l] = timer[l]
         \/ timer[l] = 0 /\ timer'[l] = leaderInterval /\ number = row.number
  PROVE  LedBy(l)'
<1> DEFINE ntf == SeeLeader(number, c)
<1>1. ntf.kind = "SeeLeader" /\ ntf.number = number /\ ntf.age = 0 /\ ntf \in Ntf
  BY DEF SeeLeader
<1>2. /\ TypeInv /\ queue \in [Nodes -> Seq(Ntf)] /\ timer[l] \in Nat /\ timer'[l] \in Nat
      /\ \A m \in Nodes : \A k \in DOMAIN queue[m] : queue[m][k].age \in Nat /\ k \in Nat
      /\ \A m \in Nodes : view[m].valid \in Nat
  BY TimeTypes DEF IndInv, TypeInv
<1> HIDE DEF ntf
<1>3. /\ \A m \in Nodes : pc[m] = "down" => queue'[m] = queue[m]
      /\ \A m \in Nodes : pc[m] # "down" => \E e \in Nat :
           /\ DOMAIN queue'[m] = DOMAIN queue[m] \cup {e}
           /\ \A k \in DOMAIN queue[m] : k \in Nat /\ k < e /\ queue'[m][k] = queue[m][k]
           /\ queue'[m][e] = ntf
  BY <1>1, <1>2, SendLemma DEF ntf
<1>4. timer'[l] <= leaderInterval
  BY DEF LeaderInv
<1>5. ASSUME NEW m \in Nodes
      PROVE  ChainInv(l, m)'
  <2>1. CASE pc[m] = "down"
    <3>1. queue'[m] = <<>>
      BY <1>3, <2>1 DEF IndInv, PlaceInv
    <3>2. QED
      BY <3>1 DEF ChainInv
  <2>2. CASE pc[m] # "down"
    <3>1. PICK e \in Nat :
            /\ DOMAIN queue'[m] = DOMAIN queue[m] \cup {e}
            /\ \A k \in DOMAIN queue[m] : k \in Nat /\ k < e /\ queue'[m][k] = queue[m][k]
            /\ queue'[m][e] = ntf
      BY <1>3, <2>2
    <3>2. \A k \in DOMAIN queue[m] : Beat(m, k)' <=> Beat(m, k)
      BY <3>1 DEF Beat
    <3>3. number = row.number => Beat(m, e)'
      BY <1>1, <3>1 DEF Beat
    <3>4. queue'[m][e].age = 0
      BY <1>1, <3>1
    <3>5. ASSUME NEW k \in DOMAIN queue'[m], Beat(m, k)'
          PROVE  \/ queue'[m][k].age + timer'[l] <= leaderInterval
                 \/ \E j \in DOMAIN queue'[m] :
                      j > k /\ Beat(m, j)' /\ queue'[m][k].age <= queue'[m][j].age + leaderInterval
      <4>1. CASE k = e
        BY <1>2, <1>4, <3>4, <4>1, Params
      <4>2. CASE k \in DOMAIN queue[m]
        <5>1. /\ Beat(m, k) /\ queue'[m][k].age = queue[m][k].age /\ k < e /\ k \in Nat
              /\ queue[m][k].age \in Nat
          BY <1>2, <3>1, <3>2, <3>5, <4>2
        <5>2. \/ queue[m][k].age + timer[l] <= leaderInterval
              \/ \E j \in DOMAIN queue[m] :
                   j > k /\ Beat(m, j) /\ queue[m][k].age <= queue[m][j].age + leaderInterval
          BY <4>2, <5>1 DEF LedBy, ChainInv
        <5>3. CASE \E j \in DOMAIN queue[m] :
                   j > k /\ Beat(m, j) /\ queue[m][k].age <= queue[m][j].age + leaderInterval
          BY <3>1, <3>2, <5>1, <5>3
        <5>4. CASE queue[m][k].age + timer[l] <= leaderInterval
          <6>1. CASE timer'[l] = timer[l]
            BY <5>1, <5>4, <6>1
          <6>2. CASE timer[l] = 0 /\ number = row.number
            <7>1. e > k /\ queue'[m][k].age <= queue'[m][e].age + leaderInterval
              BY <1>2, <3>4, <5>1, <5>4, <6>2, Params
            <7>2. QED
              BY <3>1, <3>3, <6>2, <7>1
          <6>3. QED
            BY <6>1, <6>2
        <5>5. QED
          BY <5>2, <5>3, <5>4
      <4>3. QED
        BY <3>1, <4>1, <4>2
    <3>6. QED
      BY <3>5 DEF ChainInv
  <2>3. QED
    BY <2>1, <2>2
<1>6. ASSUME NEW m \in Nodes \ {l}
      PROVE  FreshInv(l, m)'
  <2> SUFFICES ASSUME Running(m)', view'[m].number = row'.number
               PROVE  \/ view'[m].valid > timer'[l] + MaxDelay
                      \/ \E k \in DOMAIN queue'[m] :
                           Beat(m, k)' /\ view'[m].valid + queue'[m][k].age > MaxDelay
    BY DEF FreshInv
  <2>1. Running(m) /\ view'[m].valid = view[m].valid /\ view[m].number = row.number
    OBVIOUS
  <2>2. PICK e \in Nat :
            /\ DOMAIN queue'[m] = DOMAIN queue[m] \cup {e}
            /\ \A k \in DOMAIN queue[m] : k \in Nat /\ k < e /\ queue'[m][k] = queue[m][k]
            /\ queue'[m][e] = ntf
    BY <1>3, <2>1 DEF Running
  <2>3. CASE \E k \in DOMAIN queue[m] : Beat(m, k) /\ view[m].valid + queue[m][k].age > MaxDelay
    <3>1. \A k \in DOMAIN queue[m] : Beat(m, k)' <=> Beat(m, k)
      BY <2>2 DEF Beat
    <3>2. QED
      BY <2>1, <2>2, <2>3, <3>1
  <2>4. CASE view[m].valid > timer[l] + MaxDelay
    <3>1. CASE timer'[l] = timer[l]
      BY <2>1, <2>4, <3>1
    <3>2. CASE timer[l] = 0 /\ number = row.number
      <4>1. Beat(m, e)' /\ queue'[m][e].age = 0
        BY <1>1, <2>2, <3>2 DEF Beat
      <4>2. view'[m].valid + queue'[m][e].age > MaxDelay
        BY <1>2, <2>1, <2>4, <3>2, <4>1, Params
      <4>3. QED
        BY <2>2, <4>1, <4>2
    <3>3. QED
      BY <3>1, <3>2
  <2>5. QED
    BY <2>1, <2>3, <2>4 DEF LedBy, FreshInv
<1>7. QED
  BY <1>5, <1>6 DEF LedBy

\* A notification arrives: a heartbeat is followed by another one before what
\* it says is no longer valid.
LEMMA ReceiveLed ==
  ASSUME IndInv, IndInv', NumberInv, AgeInv, NEW l \in Nodes, LedBy(l),
         NEW n \in Nodes, Receive(n)
  PROVE  LedBy(l)' /\ AgeInv'
<1>1. /\ TypeInv /\ TypeInv' /\ UNCHANGED <<row, pc, timer, local>> /\ timer[l] \in Nat
      /\ row.number \in Nat
      /\ \A m \in Nodes : \A k \in DOMAIN queue[m] :
           queue[m][k].age \in Nat /\ k \in Nat /\ queue[m][k].number \in Nat
      /\ \A m \in Nodes : view[m].valid \in Nat /\ view'[m].valid \in Nat
      /\ \A m \in Nodes : view[m].number \in Nat
  <2>1. TypeInv /\ TypeInv' /\ UNCHANGED <<row, pc, timer, local>>
    BY DEF IndInv, Receive
  <2>2. \A m \in Nodes : view'[m].valid \in Nat
    BY <2>1 DEF TypeInv
  <2>3. row.number \in Nat /\ \A m \in Nodes : view[m].number \in Nat
    BY <2>1 DEF TypeInv
  <2>4. QED
    BY <2>1, <2>2, <2>3, TimeTypes
<1>2. /\ 1 \in DOMAIN queue[n]
      /\ \A k \in DOMAIN queue'[n] : /\ k + 1 \in DOMAIN queue[n] /\ k \in Nat
                                     /\ queue'[n][k] = queue[n][k + 1]
      /\ \A k \in DOMAIN queue[n] : k # 1 => /\ k - 1 \in DOMAIN queue'[n]
                                             /\ queue'[n][k - 1] = queue[n][k]
      /\ \A m \in Nodes \ {n} : queue'[m] = queue[m]
      /\ \/ queue[n][1].kind = "ElectLeader" /\ electLeader(n, queue[n][1])
         \/ queue[n][1].kind = "SeeLeader" /\ seeLeader(n, queue[n][1])
  BY <1>1, ReceiveLemma
<1>3. AgeInv'
  BY <1>2 DEF AgeInv
<1>4. /\ queue[n][1] \in Ntf /\ queue[n][1].number <= row.number
      /\ queue[n][1].number \in Nat
  BY <1>1, <1>2, ClaimTypes DEF NumberInv
<1>5. /\ \A m \in Nodes \ {n} : view'[m] = view[m]
      /\ \/ /\ queue[n][1].kind = "SeeLeader"
            /\ view'[n].number = view[n].number /\ view'[n].valid >= view[n].valid
            /\ queue[n][1].number = view[n].number /\ queue[n][1].age < grantedLeaderInterval
                 => view'[n].valid >= grantedLeaderInterval - queue[n][1].age
         \/ /\ queue[n][1].kind = "ElectLeader"
            /\ \/ view'[n] = view[n]
               \/ /\ queue[n][1].number > view[n].number
                  /\ view'[n].number = queue[n][1].number
                  /\ view'[n].valid = grantedLeaderInterval
  <2>1. CASE queue[n][1].kind = "ElectLeader" /\ electLeader(n, queue[n][1])
    BY <1>1, <1>4, <2>1, ElectLemma
  <2>2. CASE queue[n][1].kind = "SeeLeader" /\ seeLeader(n, queue[n][1])
    BY <1>1, <1>4, <2>2, SeeLemma
  <2>3. QED
    BY <1>2, <2>1, <2>2
<1>6. LeaderInv(l)'
  <2>1. pc[l] # "elected" => view'[l].number = row.number
    <3>1. pc[l] # "elected" => view[l].number = row.number
      BY DEF LedBy, LeaderInv
    <3>2. QED
      BY <1>1, <1>4, <1>5, <3>1
  <2>2. QED
    BY <1>1, <2>1 DEF LedBy, LeaderInv
<1>7. ASSUME NEW m \in Nodes \ {n}
      PROVE  ChainInv(l, m)' /\ (m # l => FreshInv(l, m)')
  <2>1. queue'[m] = queue[m] /\ view'[m] = view[m]
    BY <1>2, <1>5
  <2>2. \A k : Beat(m, k)' <=> Beat(m, k)
    BY <1>1, <2>1 DEF Beat
  <2>3. ChainInv(l, m)'
    BY <1>1, <2>1, <2>2 DEF LedBy, ChainInv
  <2>4. m # l => FreshInv(l, m)'
    BY <1>1, <2>1, <2>2 DEF LedBy, FreshInv, Running
  <2>5. QED
    BY <2>3, <2>4
<1>8. \A k \in DOMAIN queue[n] : k # 1 /\ Beat(n, k) => Beat(n, k - 1)'
  BY <1>1, <1>2 DEF Beat
<1>9. ChainInv(l, n)'
  <2> SUFFICES ASSUME NEW k \in DOMAIN queue'[n], Beat(n, k)'
               PROVE  \/ queue'[n][k].age + timer'[l] <= leaderInterval
                      \/ \E j \in DOMAIN queue'[n] :
                           j > k /\ Beat(n, j)' /\ queue'[n][k].age <= queue'[n][j].age + leaderInterval
    BY DEF ChainInv
  <2>1. k + 1 \in DOMAIN queue[n] /\ queue'[n][k] = queue[n][k + 1] /\ k \in Nat
    BY <1>2
  <2>2. Beat(n, k + 1)
    BY <1>1, <2>1 DEF Beat
  <2>3. \/ queue[n][k + 1].age + timer[l] <= leaderInterval
        \/ \E j \in DOMAIN queue[n] :
             j > k + 1 /\ Beat(n, j) /\ queue[n][k + 1].age <= queue[n][j].age + leaderInterval
    BY <2>1, <2>2 DEF LedBy, ChainInv
  <2>4. CASE queue[n][k + 1].age + timer[l] <= leaderInterval
    BY <1>1, <2>1, <2>4
  <2>5. CASE \E j \in DOMAIN queue[n] :
             j > k + 1 /\ Beat(n, j) /\ queue[n][k + 1].age <= queue[n][j].age + leaderInterval
    <3>1. PICK j \in DOMAIN queue[n] :
             j > k + 1 /\ Beat(n, j) /\ queue[n][k + 1].age <= queue[n][j].age + leaderInterval
      BY <2>5
    <3>2. j # 1 /\ j \in Nat /\ j - 1 > k
      BY <1>1, <2>1, <3>1
    <3>3. j - 1 \in DOMAIN queue'[n] /\ queue'[n][j - 1] = queue[n][j] /\ Beat(n, j - 1)'
      BY <1>2, <1>8, <3>1, <3>2
    <3>4. QED
      BY <2>1, <3>1, <3>2, <3>3
  <2>6. QED
    BY <2>3, <2>4, <2>5
<1>10. ASSUME n # l PROVE FreshInv(l, n)'
  <2> SUFFICES ASSUME Running(n)', view'[n].number = row'.number
               PROVE  \/ view'[n].valid > timer'[l] + MaxDelay
                      \/ \E k \in DOMAIN queue'[n] :
                           Beat(n, k)' /\ view'[n].valid + queue'[n][k].age > MaxDelay
    BY DEF FreshInv
  <2>1. timer[l] <= leaderInterval /\ Running(n)
    BY <1>1 DEF LedBy, LeaderInv, Running
  <2>2. CASE view'[n].number = view[n].number /\ view'[n].valid >= view[n].valid
    <3>1. view[n].number = row.number
      BY <1>1, <2>2
    <3>2. CASE view[n].valid > timer[l] + MaxDelay
      BY <1>1, <2>2, <3>2, Params
    <3>3. ASSUME NEW k \in DOMAIN queue[n], k # 1,
                 Beat(n, k), view[n].valid + queue[n][k].age > MaxDelay
          PROVE  \E j \in DOMAIN queue'[n] :
                   Beat(n, j)' /\ view'[n].valid + queue'[n][j].age > MaxDelay
      <4>1. k - 1 \in DOMAIN queue'[n] /\ queue'[n][k - 1] = queue[n][k] /\ Beat(n, k - 1)'
        BY <1>2, <1>8, <3>3
      <4>2. view'[n].valid + queue'[n][k - 1].age > MaxDelay
        <5>1. queue'[n][k - 1].age = queue[n][k].age /\ queue[n][k].age \in Nat
          BY <1>1, <4>1
        <5>2. QED
          BY <1>1, <2>2, <3>3, <5>1, Params
      <4>3. QED
        BY <4>1, <4>2
    <3>4. CASE Beat(n, 1)
      <4> DEFINE a == queue[n][1].age
      <4>1. queue[n][1].kind = "SeeLeader" /\ queue[n][1].number = view[n].number
        BY <3>1, <3>4 DEF Beat
      <4>2. a \in Nat /\ a <= MaxDelay
        BY <1>1, <1>2 DEF AgeInv
      <4>3. a < grantedLeaderInterval
        BY <4>2, Params
      <4>4. view'[n].valid >= grantedLeaderInterval - a
        BY <1>5, <4>1, <4>3
      <4>5. \/ a + timer[l] <= leaderInterval
            \/ \E j \in DOMAIN queue[n] :
                 j > 1 /\ Beat(n, j) /\ a <= queue[n][j].age + leaderInterval
        BY <1>2, <3>4 DEF LedBy, ChainInv
      <4> HIDE DEF a
      <4>6. CASE a + timer[l] <= leaderInterval
        <5>1. view'[n].valid > timer[l] + MaxDelay
          BY <1>1, <4>2, <4>4, <4>6, Params
        <5>2. QED
          BY <1>1, <5>1
      <4>7. ASSUME NEW j \in DOMAIN queue[n], j > 1, Beat(n, j),
                   a <= queue[n][j].age + leaderInterval
            PROVE  \E k \in DOMAIN queue'[n] :
                     Beat(n, k)' /\ view'[n].valid + queue'[n][k].age > MaxDelay
        <5>1. j # 1 /\ queue[n][j].age \in Nat
          BY <1>1, <4>7
        <5>2. j - 1 \in DOMAIN queue'[n] /\ queue'[n][j - 1] = queue[n][j] /\ Beat(n, j - 1)'
          BY <1>2, <1>8, <4>7, <5>1
        <5>3. view'[n].valid + queue[n][j].age > MaxDelay
          BY <1>1, <4>2, <4>4, <4>7, <5>1, Params
        <5>4. QED
          BY <5>2, <5>3
      <4>8. QED
        BY <4>5, <4>6, <4>7
    <3>5. \/ view[n].valid > timer[l] + MaxDelay
          \/ \E k \in DOMAIN queue[n] : Beat(n, k) /\ view[n].valid + queue[n][k].age > MaxDelay
      BY <1>10, <2>1, <3>1 DEF LedBy, FreshInv
    <3>6. QED
      BY <3>2, <3>3, <3>4, <3>5
  <2>3. CASE view'[n].valid = grantedLeaderInterval
    BY <1>1, <2>1, <2>3, Params
  <2>4. view'[n] = view[n] => view'[n].number = view[n].number /\ view'[n].valid >= view[n].valid
    BY <1>1
  <2>5. QED
    BY <1>5, <2>2, <2>3, <2>4
<1>11. QED
  BY <1>3, <1>6, <1>7, <1>9, <1>10 DEF LedBy

\* Time passes: nothing is due, so the heartbeats that are on their way are
\* younger than MaxDelay and the leader still sleeps.
LEMMA TickLed ==
  ASSUME IndInv, slow = {}, AgeInv, Tick
  PROVE  /\ AgeInv'
         /\ \A l \in Nodes : LedBy(l) => LedBy(l)'
<1>1. TypeInv
  BY DEF IndInv
<1>2. /\ TypeInv' /\ UNCHANGED <<row, pc, local>>
      /\ \A m \in Nodes : /\ view'[m].number = view[m].number
                          /\ view'[m].valid >= view[m].valid - 1
      /\ \A m \in Nodes : timer[m] > 0 => timer'[m] = timer[m] - 1
      /\ \A m \in Nodes : /\ DOMAIN queue'[m] = DOMAIN queue[m]
                          /\ \A k \in DOMAIN queue[m] :
                               /\ queue'[m][k].kind = queue[m][k].kind
                               /\ queue'[m][k].number = queue[m][k].number
                               /\ queue'[m][k].age = queue[m][k].age + 1
  BY <1>1, TickLemma
<1>3. /\ \A m \in Nodes : timer[m] \in Nat /\ view[m].valid \in Nat
      /\ \A m \in Nodes : view'[m].valid \in Nat /\ timer'[m] \in Nat
      /\ \A m \in Nodes : \A k \in DOMAIN queue[m] : queue[m][k].age \in Nat
  BY <1>1, <1>2, TimeTypes DEF TypeInv
<1>4. \A m \in Nodes : \A k \in DOMAIN queue[m] : queue[m][k].age < MaxDelay
  <2> SUFFICES ASSUME NEW m \in Nodes, NEW k \in DOMAIN queue[m]
               PROVE  queue[m][k].age < MaxDelay
    OBVIOUS
  <2>1. pc[m] # "down"
    BY DEF IndInv, PlaceInv
  <2>2. Idle(m)
    BY DEF Tick
  <2>3. QED
    BY <2>1, <2>2 DEF Idle
<1>5. AgeInv'
  BY <1>2, <1>3, <1>4, Params DEF AgeInv
<1>6. ASSUME NEW l \in Nodes, LedBy(l)
      PROVE  LedBy(l)'
  <2>1. timer[l] > 0 /\ timer'[l] = timer[l] - 1 /\ timer[l] <= leaderInterval /\ pc[l] # "loop"
    <3>1. Idle(l) /\ pc[l] \in {"elected", "loop", "sleep"} /\ timer[l] <= leaderInterval
      BY <1>6 DEF Tick, LedBy, LeaderInv
    <3>2. timer[l] > 0 /\ pc[l] # "loop"
      BY <3>1 DEF Idle
    <3>3. QED
      BY <1>2, <3>1, <3>2
  <2>2. LeaderInv(l)'
    <3>1. timer'[l] <= leaderInterval
      BY <1>3, <2>1, Params
    <3>2. QED
      BY <1>2, <1>6, <2>1, <3>1 DEF LedBy, LeaderInv
  <2>3. \A m \in Nodes : \A k \in DOMAIN queue[m] : Beat(m, k)' <=> Beat(m, k)
    BY <1>2 DEF Beat
  <2>4. ASSUME NEW m \in Nodes
        PROVE  ChainInv(l, m)'
    <3> SUFFICES ASSUME NEW k \in DOMAIN queue[m], Beat(m, k)
                 PROVE  \/ queue'[m][k].age + timer'[l] <= leaderInterval
                        \/ \E j \in DOMAIN queue[m] :
                             j > k /\ Beat(m, j) /\ queue'[m][k].age <= queue'[m][j].age + leaderInterval
      BY <1>2, <2>3 DEF ChainInv
    <3>1. \/ queue[m][k].age + timer[l] <= leaderInterval
          \/ \E j \in DOMAIN queue[m] :
               j > k /\ Beat(m, j) /\ queue[m][k].age <= queue[m][j].age + leaderInterval
      BY <1>6 DEF LedBy, ChainInv
    <3>2. CASE queue[m][k].age + timer[l] <= leaderInterval
      BY <1>2, <1>3, <2>1, <3>2, Params
    <3>3. ASSUME NEW j \in DOMAIN queue[m],
                 queue[m][k].age <= queue[m][j].age + leaderInterval
          PROVE  queue'[m][k].age <= queue'[m][j].age + leaderInterval
      BY <1>2, <1>3, <3>3, Params
    <3>4. QED
      BY <3>1, <3>2, <3>3
  <2>5. ASSUME NEW m \in Nodes \ {l}
        PROVE  FreshInv(l, m)'
    <3> SUFFICES ASSUME Running(m)', view'[m].number = row'.number
                 PROVE  \/ view'[m].valid > timer'[l] + MaxDelay
                        \/ \E k \in DOMAIN queue'[m] :
                             Beat(m, k)' /\ view'[m].valid + queue'[m][k].age > MaxDelay
      BY DEF FreshInv
    <3>1. \/ view[m].valid > timer[l] + MaxDelay
          \/ \E k \in DOMAIN queue[m] : Beat(m, k) /\ view[m].valid + queue[m][k].age > MaxDelay
      BY <1>2, <1>6 DEF LedBy, FreshInv, Running
    <3>2. CASE view[m].valid > timer[l] + MaxDelay
      BY <1>2, <1>3, <2>1, <3>2, Params
    <3>3. ASSUME NEW k \in DOMAIN queue[m], view[m].valid + queue[m][k].age > MaxDelay
          PROVE  view'[m].valid + queue'[m][k].age > MaxDelay
      <4>1. queue'[m][k].age = queue[m][k].age + 1 /\ view'[m].valid >= view[m].valid - 1
        BY <1>2
      <4>2. QED
        BY <1>2, <1>3, <3>3, <4>1, Params
    <3>4. QED
      BY <1>2, <2>3, <3>1, <3>2, <3>3
  <2>6. QED
    BY <2>2, <2>4, <2>5 DEF LedBy
<1>7. QED
  BY <1>5, <1>6

\* A heartbeat does not make anything late.
LEMMA SendAge ==
  ASSUME TypeInv, AgeInv, NEW ntf \in Ntf, ntf.age = 0, Send(ntf)
  PROVE  AgeInv'
<1>1. \A m \in Nodes : \A i \in DOMAIN queue'[m] :
        \/ queue'[m][i] = ntf
        \/ i \in DOMAIN queue[m] /\ queue'[m][i] = queue[m][i]
  BY SendNumbers
<1>2. QED
  BY <1>1, Params DEF AgeInv

\* The steps of keepElections, when no heartbeat fails and nobody is elected.
LEMMA KeepLed ==
  ASSUME IndInv, IndInv', AgeInv, NEW n \in Nodes, events' = 0,
         \/ Loop(n) \/ Wake(n) \/ Retry(n) \/ AwaitElection(n)
         \/ TryElection(n) /\ UNCHANGED row
  PROVE  /\ AgeInv'
         /\ \A l \in Nodes : row.leader = l /\ LedBy(l) => LedBy(l)'
<1>1. /\ TypeInv /\ TypeInv' /\ pc \in [Nodes -> Places] /\ timer \in [Nodes -> Nat]
      /\ local \in [Nodes -> 0 .. MaxElections] /\ row.number \in Nat
      /\ view[n].number \in 0 .. MaxElections /\ local[n] \in 0 .. MaxElections
      /\ UNCHANGED <<row, view>> /\ Running(n) /\ view[n].valid \in Nat
  <2>1. UNCHANGED <<row, view>> /\ Running(n)
    BY DEF Loop, Wake, Retry, AwaitElection, TryElection, Running
  <2>2. TypeInv /\ TypeInv'
    BY DEF IndInv
  <2>3. /\ pc \in [Nodes -> Places] /\ timer \in [Nodes -> Nat]
        /\ local \in [Nodes -> 0 .. MaxElections] /\ row.number \in Nat
        /\ view[n].number \in 0 .. MaxElections /\ view[n].valid \in Nat
    BY <2>2 DEF TypeInv
  <2>4. QED
    BY <2>1, <2>2, <2>3
<1>2. ASSUME UNCHANGED queue, \A m \in Nodes \ {n} : pc'[m] = pc[m] /\ timer'[m] = timer[m],
             \A l \in Nodes : row.leader = l /\ LedBy(l) => LeaderInv(l)' /\ timer'[l] = timer[l]
      PROVE  /\ AgeInv'
             /\ \A l \in Nodes : row.leader = l /\ LedBy(l) => LedBy(l)'
  <2>1. AgeInv'
    BY <1>2 DEF AgeInv
  <2>2. \A m \in Nodes : Running(m)' => Running(m)
    BY <1>1, <1>2 DEF Running
  <2>3. ASSUME NEW l \in Nodes, row.leader = l, LedBy(l)
        PROVE  LedBy(l)'
    <3>1. LeaderInv(l)' /\ timer'[l] = timer[l]
      BY <1>2, <2>3
    <3>2. QED
      BY <1>1, <1>2, <2>2, <2>3, <3>1, SameLed
  <2>4. QED
    BY <2>1, <2>3
<1>3. ASSUME NEW number \in 0 .. MaxElections, NEW after \in {"sleep", "elected"},
             leader(n, number, after),
             ASSUME row.leader = n, LedBy(n)
             PROVE  /\ number = row.number /\ timer[n] = 0
                    /\ after = "elected" => local[n] = row.number
                    /\ after = "sleep" => view[n].number = row.number
      PROVE  /\ AgeInv'
             /\ \A l \in Nodes : row.leader = l /\ LedBy(l) => LedBy(l)'
  <2> DEFINE ntf == SeeLeader(number, offset[n])
  <2>1. /\ \A m \in Nodes \ {n} : local'[m] = local[m]
        /\ \A m \in Nodes \ {n} : pc'[m] = pc[m] /\ timer'[m] = timer[m]
        /\ Send(ntf) /\ ntf \in Ntf
        /\ pc'[n] = after /\ timer'[n] = leaderInterval /\ UNCHANGED local
    <3>1. ~(events' > 0)
      OBVIOUS
    <3>2. QED
      BY <1>1, <1>3, <3>1, LeaderLemma
  <2>2. AgeInv'
    BY <1>1, <2>1, SendAge DEF SeeLeader
  <2>3. \A m \in Nodes : Running(m)' => Running(m)
    BY <1>1, <2>1 DEF Running
  <2>4. ASSUME NEW l \in Nodes, row.leader = l, LedBy(l)
        PROVE  LedBy(l)'
    <3>1. CASE l # n
      <4>1. LeaderInv(l)' /\ timer'[l] = timer[l]
        BY <1>1, <2>1, <2>4, <3>1 DEF LedBy, LeaderInv
      <4>2. QED
        BY <1>1, <2>1, <2>3, <2>4, <4>1, BeatLed
    <3>2. CASE l = n
      <4>1. /\ number = row.number /\ timer[n] = 0
            /\ after = "elected" => local[n] = row.number
            /\ after = "sleep" => view[n].number = row.number
        BY <1>3, <2>4, <3>2
      <4>2. LeaderInv(l)'
        <5>1. leaderInterval <= leaderInterval
          BY Params
        <5>2. QED
          BY <1>1, <2>1, <3>2, <4>1, <5>1 DEF LeaderInv
      <4>3. QED
        BY <1>1, <2>1, <2>3, <2>4, <3>2, <4>1, <4>2, BeatLed
    <3>3. QED
      BY <3>1, <3>2
  <2>5. QED
    BY <2>2, <2>4
<1>4. ASSUME LedBy(n), row.leader = n
      PROVE  /\ pc[n] \in {"elected", "loop", "sleep"}
             /\ pc[n] = "loop" => timer[n] = 0
             /\ pc[n] = "elected" => local[n] = row.number
             /\ pc[n] # "elected" => view[n].number = row.number /\ view[n].leader = n
  <2>1. /\ pc[n] \in {"elected", "loop", "sleep"}
        /\ pc[n] = "loop" => timer[n] = 0
        /\ pc[n] = "elected" => local[n] = row.number
        /\ pc[n] # "elected" => view[n].number = row.number
    BY <1>4 DEF LedBy, LeaderInv
  <2>2. view[n].number # 0
    BY <1>1 DEF IndInv, PlaceInv
  <2>3. view[n].number = row.number => view[n].leader = n
    BY <1>4, <2>2, ClaimFacts
  <2>4. QED
    BY <2>1, <2>3
<1>5. ASSUME \A m \in Nodes \ {n} : pc'[m] = pc[m] /\ timer'[m] = timer[m] /\ local'[m] = local[m],
             NEW l \in Nodes, LedBy(l), l # n
      PROVE  LeaderInv(l)' /\ timer'[l] = timer[l]
  BY <1>1, <1>5 DEF LedBy, LeaderInv
<1>6. ASSUME NEW place, NEW d, Sleep(n, place, d)
      PROVE  /\ \A m \in Nodes \ {n} : pc'[m] = pc[m] /\ timer'[m] = timer[m]
             /\ pc'[n] = place /\ timer'[n] = d
  BY <1>1, <1>6 DEF Sleep
<1>7. CASE Loop(n)
  <2>1. pc[n] = "loop"
    BY <1>7 DEF Loop
  <2>2. CASE leader(n, view[n].number, "sleep")
    BY <1>1, <1>3, <1>4, <2>1, <2>2
  <2>3. CASE /\ view[n].leader # n /\ UNCHANGED queue
             /\ \E place \in {"sleep", "random"} : \E d \in Nat : Sleep(n, place, d)
             /\ \A m \in Nodes \ {n} : local'[m] = local[m]
    <3>1. \A m \in Nodes \ {n} : pc'[m] = pc[m] /\ timer'[m] = timer[m] /\ local'[m] = local[m]
      BY <1>6, <2>3
    <3>2. \A l \in Nodes : row.leader = l /\ LedBy(l) => l # n
      BY <1>4, <2>1, <2>3
    <3>3. QED
      BY <1>2, <1>5, <2>3, <3>1, <3>2
  <2>4. \/ leader(n, view[n].number, "sleep")
        \/ /\ view[n].leader # n /\ UNCHANGED queue
           /\ \E place \in {"sleep", "random"} : \E d \in Nat : Sleep(n, place, d)
           /\ \A m \in Nodes \ {n} : local'[m] = local[m]
    <3>1. CASE Sleep(n, "sleep", view[n].valid) /\ UNCHANGED <<queue, local, events>>
      BY <1>1, <1>7, <3>1 DEF Loop
    <3>2. CASE /\ view[n].leader # n
               /\ \E d \in 0 .. electionRandomInterval : Sleep(n, "random", d)
               /\ local' = [local EXCEPT ![n] = view[n].number]
               /\ UNCHANGED <<queue, events>>
      <4>1. PICK d \in Nat : Sleep(n, "random", d)
        BY <3>2, Params
      <4>2. \A m \in Nodes \ {n} : local'[m] = local[m]
        BY <1>1, <3>2
      <4>3. QED
        BY <3>2, <4>1, <4>2
    <3>3. CASE leader(n, view[n].number, "sleep")
      BY <3>3
    <3>4. QED
      BY <1>7, <3>1, <3>2, <3>3, Zenon DEF Loop
  <2>5. QED
    BY <2>2, <2>3, <2>4
<1>8. CASE Wake(n)
  <2>1. pc[n] = "sleep" /\ timer[n] = 0 /\ Sleep(n, "loop", 0) /\ UNCHANGED <<queue, local>>
    BY <1>8 DEF Wake
  <2>2. /\ \A m \in Nodes \ {n} : pc'[m] = pc[m] /\ timer'[m] = timer[m] /\ local'[m] = local[m]
        /\ pc'[n] = "loop" /\ timer'[n] = 0
    BY <1>6, <2>1
  <2>3. ASSUME NEW l \in Nodes, row.leader = l, LedBy(l)
        PROVE  LeaderInv(l)' /\ timer'[l] = timer[l]
    <3>1. CASE l # n
      BY <1>5, <2>2, <2>3, <3>1
    <3>2. CASE l = n
      <4>1. view[n].number = row.number
        BY <1>4, <2>1, <2>3, <3>2
      <4>2. QED
        BY <1>1, <2>1, <2>2, <3>2, <4>1, Params DEF LeaderInv
    <3>3. QED
      BY <3>1, <3>2
  <2>4. QED
    BY <1>2, <2>1, <2>2, <2>3
<1>9. CASE Retry(n)
  <2>1. PICK after \in {"sleep", "elected"} : leader(n, local[n], after)
    BY <1>9 DEF Retry
  <2>2. ~(row.leader = n /\ LedBy(n))
    BY <1>4, <1>9 DEF Retry
  <2>3. QED
    BY <1>1, <1>3, <2>1, <2>2
<1>10. CASE AwaitElection(n)
  <2>1. pc[n] = "elected" /\ timer[n] = 0
    BY <1>10 DEF AwaitElection
  <2>2. CASE local[n] <= view[n].number /\ Sleep(n, "loop", 0) /\ UNCHANGED <<queue, local, events>>
    <3>1. /\ \A m \in Nodes \ {n} : pc'[m] = pc[m] /\ timer'[m] = timer[m] /\ local'[m] = local[m]
          /\ pc'[n] = "loop" /\ timer'[n] = 0
      BY <1>6, <2>2
    <3>2. ASSUME NEW l \in Nodes, row.leader = l, LedBy(l)
          PROVE  LeaderInv(l)' /\ timer'[l] = timer[l]
      <4>1. CASE l # n
        BY <1>5, <3>1, <3>2, <4>1
      <4>2. CASE l = n
        <5>1. local[n] = row.number
          BY <1>4, <2>1, <3>2, <4>2
        <5>2. view[n].number <= row.number
          BY ViewNumbers
        <5>3. view[n].number = row.number
          BY <1>1, <2>2, <5>1, <5>2
        <5>4. QED
          BY <1>1, <2>1, <3>1, <4>2, <5>3, Params DEF LeaderInv
      <4>3. QED
        BY <4>1, <4>2
    <3>3. QED
      BY <1>2, <2>2, <3>1, <3>2
  <2>3. CASE leader(n, local[n], "elected")
    BY <1>1, <1>3, <1>4, <2>1, <2>3
  <2>4. QED
    BY <1>10, <2>2, <2>3, Zenon DEF AwaitElection
<1>11. CASE TryElection(n) /\ UNCHANGED row
  <2>1. pc[n] = "random" /\ Sleep(n, "loop", 0) /\ UNCHANGED <<row, queue, local, events>>
    <3>1. ~(row' = [number |-> local[n] + 1, leader |-> n] /\ Electable(n))
      BY <1>1, <1>11 DEF Electable
    <3>2. QED
      BY <1>11, <3>1, Zenon DEF TryElection
  <2>2. \A m \in Nodes \ {n} : pc'[m] = pc[m] /\ timer'[m] = timer[m] /\ local'[m] = local[m]
    BY <1>6, <2>1
  <2>3. \A l \in Nodes : row.leader = l /\ LedBy(l) => l # n
    BY <1>4, <2>1
  <2>4. QED
    BY <1>2, <1>5, <2>1, <2>2, <2>3
<1>12. QED
  BY <1>7, <1>8, <1>9, <1>10, <1>11

\* Nobody is elected in the place of a leader that is heard.
LEMMA NoAttempt ==
  ASSUME IndInv, NumberInv, TimedInv, events = 0, NEW n \in Nodes, TryElection(n), row' # row
  PROVE  row.leader = Gone
<1> SUFFICES ASSUME row.leader # Gone PROVE FALSE
  OBVIOUS
<1>1. TypeInv
  BY DEF IndInv
<1>2. PICK l \in Nodes : row.leader = l
  BY <1>1 DEF TypeInv, ID
<1>3. LedBy(l) /\ AgeInv
  BY <1>2 DEF TimedInv
<1>4. /\ local[n] >= view[n].number /\ view[n].valid = 0 /\ row.number = local[n]
      /\ pc[n] = "random"
  BY <1>1, ElectionLemma
<1>5. l # n
  BY <1>3, <1>4 DEF LedBy, LeaderInv
<1>6. view[n].number = row.number
  <2>1. local[n] \in Nat /\ view[n].number \in Nat
    BY <1>1 DEF TypeInv
  <2>2. local[n] <= view[n].number
    BY <1>4 DEF NumberInv
  <2>3. QED
    BY <1>4, <2>1, <2>2
<1>7. \/ 0 > timer[l] + MaxDelay
      \/ \E k \in DOMAIN queue[n] : 0 + queue[n][k].age > MaxDelay
  BY <1>3, <1>4, <1>5, <1>6 DEF LedBy, FreshInv, Running
<1>8. timer[l] \in Nat /\ \A k \in DOMAIN queue[n] : /\ queue[n][k].age \in Nat
                                                    /\ queue[n][k].age <= MaxDelay
  BY <1>1, <1>3, TimeTypes DEF AgeInv
<1>9. QED
  BY <1>7, <1>8, Params

\* A node that was elected is heard: the others hear of it with its ElectLeader.
LEMMA ElectLed ==
  ASSUME IndInv, NumberInv, AgeInv, events' = 0, NEW n \in Nodes, TryElection(n), row' # row
  PROVE  row'.leader = n /\ AgeInv' /\ LedBy(n)'
<1> DEFINE ntf == ElectLeader(row'.number, n)
<1>1. /\ TypeInv /\ row.number \in Nat
      /\ \A m \in Nodes : \A k \in DOMAIN queue[m] :
           queue[m][k].number \in Nat /\ queue[m][k].number <= row.number
      /\ \A m \in Nodes : view[m].number \in Nat /\ view[m].number <= row.number
  <2>1. TypeInv
    BY DEF IndInv
  <2>2. row.number \in Nat /\ \A m \in Nodes : view[m].number \in Nat
    BY <2>1 DEF TypeInv
  <2>3. QED
    BY <2>1, <2>2, TimeTypes, ViewNumbers DEF NumberInv
<1>2. /\ row'.number = row.number + 1 /\ row'.leader = n
      /\ Send(ntf) /\ ntf \in Ntf /\ UNCHANGED view
      /\ pc'[n] = "elected" /\ timer'[n] = leaderInterval /\ local'[n] = row'.number
  <2>1. ~(events' > 0)
    OBVIOUS
  <2>2. QED
    BY <1>1, <2>1, ElectionLemma
<1>3. ntf.kind = "ElectLeader" /\ ntf.age = 0
  BY DEF ElectLeader
<1> HIDE DEF ntf
<1>4. /\ AgeInv'
      /\ \A m \in Nodes : \A i \in DOMAIN queue'[m] :
           \/ queue'[m][i].kind = "ElectLeader"
           \/ i \in DOMAIN queue[m] /\ queue'[m][i] = queue[m][i]
  <2>1. ASSUME NEW x \in Ntf, Send(x), x.age = 0, x.kind = "ElectLeader"
        PROVE  /\ AgeInv'
               /\ \A m \in Nodes : \A i \in DOMAIN queue'[m] :
                    \/ queue'[m][i].kind = "ElectLeader"
                    \/ i \in DOMAIN queue[m] /\ queue'[m][i] = queue[m][i]
    BY <1>1, <2>1, SendAge, SendNumbers
  <2>2. QED
    BY <1>2, <1>3, <2>1
<1>5. LeaderInv(n)'
  <2>1. leaderInterval <= leaderInterval
    BY Params
  <2>2. QED
    BY <1>2, <2>1 DEF LeaderInv
<1>6. \A m \in Nodes : view'[m].number # row'.number
  BY <1>1, <1>2
<1>7. \A m \in Nodes : \A k \in DOMAIN queue'[m] : ~Beat(m, k)'
  <2> SUFFICES ASSUME NEW m \in Nodes, NEW k \in DOMAIN queue'[m], Beat(m, k)'
               PROVE  FALSE
    OBVIOUS
  <2>1. queue'[m][k].kind = "SeeLeader" /\ queue'[m][k].number = row'.number
    BY DEF Beat
  <2>2. k \in DOMAIN queue[m] /\ queue'[m][k] = queue[m][k]
    BY <1>4, <2>1
  <2>3. QED
    BY <1>1, <1>2, <2>1, <2>2
<1>8. LedBy(n)'
  BY <1>5, <1>6, <1>7 DEF LedBy, FreshInv, ChainInv
<1>9. QED
  BY <1>2, <1>4, <1>8

\* A node starts: it grants the leader a whole interval.
LEMMA NewLed ==
  ASSUME IndInv, AgeInv, NEW n \in Nodes, Listen(n) \/ Load(n) \/ New(n)
  PROVE  /\ AgeInv'
         /\ \A l \in Nodes : LedBy(l) => LedBy(l)'
<1>1. /\ TypeInv /\ pc \in [Nodes -> Places] /\ view \in [Nodes -> ViewType]
      /\ queue \in [Nodes -> Seq(Ntf)] /\ timer \in [Nodes -> Nat]
      /\ pc[n] \in {"down", "load"}
  <2>1. TypeInv
    BY DEF IndInv
  <2>2. /\ pc \in [Nodes -> Places] /\ view \in [Nodes -> ViewType]
        /\ queue \in [Nodes -> Seq(Ntf)] /\ timer \in [Nodes -> Nat]
    BY <2>1 DEF TypeInv, ViewType
  <2>3. QED
    BY <2>1, <2>2 DEF Listen, Load, New
<1>2. /\ UNCHANGED <<row, local>> /\ queue' = queue
      /\ \A m \in Nodes \ {n} : pc'[m] = pc[m] /\ timer'[m] = timer[m] /\ view'[m] = view[m]
      /\ Running(n)' => view'[n].valid = grantedLeaderInterval
  <2>1. CASE Listen(n)
    BY <1>1, <2>1 DEF Listen, Running
  <2>2. CASE Load(n)
    BY <1>1, <2>2 DEF Load, Running
  <2>3. CASE New(n)
    <3>1. view' = [view EXCEPT ![n].valid = grantedLeaderInterval] /\ queue' = queue
      BY <1>1, <2>3 DEF New, Listened
    <3>2. view'[n].valid = grantedLeaderInterval /\ \A m \in Nodes \ {n} : view'[m] = view[m]
      BY <1>1, <3>1 DEF ViewType
    <3>3. QED
      BY <1>1, <2>3, <3>1, <3>2 DEF New, Sleep
  <2>4. QED
    BY <2>1, <2>2, <2>3
<1>3. AgeInv'
  BY <1>2 DEF AgeInv
<1>4. ASSUME NEW l \in Nodes, LedBy(l)
      PROVE  LedBy(l)'
  <2>1. l # n /\ timer[l] <= leaderInterval /\ timer[l] \in Nat
    BY <1>1, <1>4 DEF LedBy, LeaderInv
  <2>2. LeaderInv(l)' /\ timer'[l] = timer[l]
    BY <1>2, <1>4, <2>1 DEF LedBy, LeaderInv
  <2>3. grantedLeaderInterval > timer[l] + MaxDelay
    BY <2>1, Params
  <2>4. \A m \in Nodes \ {l} : Running(m)' /\ view'[m].number = row'.number =>
          \/ view'[m].valid > timer[l] + MaxDelay
          \/ /\ queue'[m] # <<>> \/ queue'[m] = queue[m]
             /\ Running(m)
             /\ view'[m].number = view[m].number /\ view'[m].valid = view[m].valid
    <3> SUFFICES ASSUME NEW m \in Nodes \ {l}, Running(m)'
                 PROVE  \/ view'[m].valid > timer[l] + MaxDelay
                        \/ /\ queue'[m] = queue[m] /\ Running(m)
                           /\ view'[m].number = view[m].number /\ view'[m].valid = view[m].valid
      OBVIOUS
    <3>1. CASE m = n
      BY <1>2, <2>3, <3>1
    <3>2. CASE m # n
      BY <1>2, <3>2 DEF Running
    <3>3. QED
      BY <3>1, <3>2
  <2>5. QED
    BY <1>2, <1>4, <2>2, <2>4, SameLed
<1>5. QED
  BY <1>3, <1>4

\* A node stops, other than the leader.
LEMMA StopLed ==
  ASSUME IndInv, AgeInv, NEW n \in Nodes, Stop(n)
  PROVE  /\ AgeInv'
         /\ \A l \in Nodes : row'.leader = l /\ row.leader = l /\ LedBy(l) => LedBy(l)'
<1>1. TypeInv
  BY DEF IndInv
<1>2. /\ row'.number = row.number
      /\ row'.leader = IF row.leader = n THEN Gone ELSE row.leader
      /\ queue'[n] = <<>> /\ pc'[n] = "down"
      /\ \A m \in Nodes \ {n} : /\ pc'[m] = pc[m] /\ timer'[m] = timer[m]
                                /\ local'[m] = local[m]
      /\ \A m \in Nodes \ {n} :
              view'[m].number = view[m].number /\ view'[m].valid = view[m].valid
      /\ \A m \in Nodes \ {n} :
              /\ DOMAIN queue'[m] = DOMAIN queue[m]
              /\ \A k \in DOMAIN queue[m] :
                   /\ queue'[m][k].kind = queue[m][k].kind
                   /\ queue'[m][k].number = queue[m][k].number
                   /\ queue'[m][k].age = queue[m][k].age
  BY <1>1, StopLemma
<1>3. AgeInv'
  BY <1>2 DEF AgeInv
<1>4. ASSUME NEW l \in Nodes, row'.leader = l, row.leader = l, LedBy(l)
      PROVE  LedBy(l)'
  <2>1. l # n
    BY <1>2, <1>4, Params
  <2>2. LeaderInv(l)' /\ timer'[l] = timer[l]
    BY <1>2, <1>4, <2>1 DEF LedBy, LeaderInv
  <2>3. ASSUME NEW m \in Nodes \ {l}
        PROVE  FreshInv(l, m)'
    <3>1. CASE m = n
      BY <1>2, <3>1 DEF FreshInv, Running
    <3>2. CASE m # n
      <4>1. \A k \in DOMAIN queue[m] : Beat(m, k)' <=> Beat(m, k)
        BY <1>2, <3>2 DEF Beat
      <4>2. QED
        BY <1>2, <1>4, <2>2, <3>2, <4>1 DEF LedBy, FreshInv, Running
    <3>3. QED
      BY <3>1, <3>2
  <2>4. ASSUME NEW m \in Nodes
        PROVE  ChainInv(l, m)'
    <3>1. CASE m = n
      BY <1>2, <3>1 DEF ChainInv
    <3>2. CASE m # n
      <4>1. \A k \in DOMAIN queue[m] : Beat(m, k)' <=> Beat(m, k)
        BY <1>2, <3>2 DEF Beat
      <4>2. QED
        BY <1>2, <1>4, <2>2, <3>2, <4>1 DEF LedBy, ChainInv
    <3>3. QED
      BY <3>1, <3>2
  <2>5. QED
    BY <2>2, <2>3, <2>4 DEF LedBy
<1>5. QED
  BY <1>3, <1>4

\* Every step keeps TimedInv.
LEMMA TimedNext ==
  ASSUME IndInv, IndInv', NumberInv, TimedInv, [Next]_vars
  PROVE  TimedInv'
<1> SUFFICES ASSUME events' = 0
             PROVE  slow' = {} /\ AgeInv' /\ (row'.leader # Gone => LedBy(row.leader)')
  BY DEF TimedInv
<1>1. TypeInv /\ TypeInv' /\ events \in Nat /\ row.leader \in ID /\ row'.leader \in ID
  <2>1. TypeInv /\ TypeInv'
    BY DEF IndInv
  <2>2. QED
    BY <2>1 DEF TypeInv
<1>2. ASSUME events = 0
      PROVE  /\ slow = {} /\ AgeInv
             /\ \A l \in Nodes : row.leader = l => LedBy(l)
  BY <1>2, Params DEF TimedInv
<1>3. ASSUME events = 0, slow' = {}, AgeInv', row'.leader \in {row.leader, Gone},
             \A l \in Nodes : row'.leader = l /\ row.leader = l /\ LedBy(l) => LedBy(l)'
      PROVE  slow' = {} /\ AgeInv' /\ (row'.leader # Gone => LedBy(row.leader)')
  <2>1. ASSUME row'.leader # Gone
        PROVE  LedBy(row.leader)'
    <3>1. PICK l \in Nodes : row'.leader = l /\ row.leader = l
      BY <1>1, <1>3, <2>1 DEF ID
    <3>2. LedBy(l)'
      BY <1>2, <1>3, <3>1
    <3>3. QED
      BY <3>1, <3>2
  <2>2. QED
    BY <1>3, <2>1
<1>4. CASE UNCHANGED vars
  <2>1. UNCHANGED <<row, queue, pc, timer, local, view, slow, events>>
    BY <1>4 DEF vars, nodeVars, bounds
  <2>2. events = 0 /\ slow' = {} /\ AgeInv'
    BY <1>2, <2>1 DEF AgeInv
  <2>3. ASSUME NEW l \in Nodes, LedBy(l)
        PROVE  LedBy(l)'
    BY <2>1, <2>3 DEF LedBy, LeaderInv, FreshInv, ChainInv, Beat, Running
  <2>4. QED
    BY <1>3, <2>1, <2>2, <2>3
<1>5. CASE Tick
  <2>1. UNCHANGED <<row, slow, events>>
    BY <1>5 DEF Tick, bounds
  <2>2. QED
    BY <1>2, <1>3, <1>5, <2>1, TickLed
<1>6. ASSUME NEW n \in Nodes, Receive(n)
      PROVE  slow' = {} /\ AgeInv' /\ (row'.leader # Gone => LedBy(row.leader)')
  <2>1. UNCHANGED <<row, slow, events>>
    BY <1>6 DEF Receive, bounds
  <2>2. slow' = {} /\ AgeInv /\ events = 0
    BY <1>2, <2>1
  <2>3. AgeInv'
    <3>1. \A m \in Nodes \ {n} : queue'[m] = queue[m]
      BY <1>1, <1>6, ReceiveLemma
    <3>2. \A k \in DOMAIN queue'[n] : k + 1 \in DOMAIN queue[n] /\ queue'[n][k] = queue[n][k + 1]
      BY <1>1, <1>6, ReceiveLemma
    <3>3. QED
      BY <2>2, <3>1, <3>2 DEF AgeInv
  <2>4. \A l \in Nodes : LedBy(l) => LedBy(l)'
    BY <1>6, <2>2, ReceiveLed
  <2>5. QED
    BY <1>3, <2>1, <2>2, <2>3, <2>4
<1>7. ASSUME NEW n \in Nodes, Loop(n) \/ Wake(n) \/ Retry(n) \/ AwaitElection(n)
      PROVE  slow' = {} /\ AgeInv' /\ (row'.leader # Gone => LedBy(row.leader)')
  <2>1. UNCHANGED <<row, slow>>
    BY <1>7 DEF Loop, Wake, Retry, AwaitElection
  <2>2. events = 0
    BY <1>1, <1>7 DEF Loop, Wake, Retry, AwaitElection, leader, Event, bounds
  <2>3. QED
    BY <1>2, <1>3, <1>7, <2>1, <2>2, KeepLed
<1>8. ASSUME NEW n \in Nodes, TryElection(n)
      PROVE  slow' = {} /\ AgeInv' /\ (row'.leader # Gone => LedBy(row.leader)')
  <2>1. slow' = slow
    BY <1>8 DEF TryElection
  <2>2. events = 0
    BY <1>1, <1>8 DEF TryElection, Event
  <2>3. CASE row' = row
    BY <1>2, <1>3, <1>8, <2>1, <2>2, <2>3, KeepLed
  <2>4. CASE row' # row
    <3>1. row'.leader = n /\ AgeInv' /\ LedBy(n)'
      BY <1>2, <1>8, <2>2, <2>4, ElectLed
    <3>2. QED
      BY <1>2, <2>1, <2>2, <3>1
  <2>5. QED
    BY <2>3, <2>4
<1>9. ASSUME NEW n \in Nodes, Listen(n) \/ Load(n) \/ New(n)
      PROVE  slow' = {} /\ AgeInv' /\ (row'.leader # Gone => LedBy(row.leader)')
  <2>1. UNCHANGED <<row, slow, events>>
    BY <1>9 DEF Listen, Load, New, bounds
  <2>2. QED
    BY <1>2, <1>3, <1>9, <2>1, NewLed
<1>10. ASSUME NEW n \in Nodes, Stop(n)
       PROVE  slow' = {} /\ AgeInv' /\ (row'.leader # Gone => LedBy(row.leader)')
  <2>1. /\ UNCHANGED events /\ slow' \subseteq slow
        /\ row'.leader \in {row.leader, Gone}
    BY <1>1, <1>10, StopLemma
  <2>2. slow' = {} /\ events = 0 /\ AgeInv
    BY <1>2, <2>1
  <2>3. /\ AgeInv'
        /\ \A l \in Nodes : row'.leader = l /\ row.leader = l /\ LedBy(l) => LedBy(l)'
    BY <1>10, <2>2, StopLed
  <2>4. QED
    BY <1>3, <2>1, <2>2, <2>3
<1>11. ASSUME NEW n \in Nodes, Lose(n) \/ SlowDown(n) \/ CatchUp(n)
       PROVE  FALSE
  <2>1. ~Lose(n) /\ ~SlowDown(n)
    BY <1>1 DEF Lose, SlowDown, Event
  <2>2. CASE CatchUp(n)
    <3>1. UNCHANGED events /\ n \in slow
      BY <2>2 DEF CatchUp, bounds
    <3>2. QED
      BY <1>2, <3>1
  <2>3. QED
    BY <1>11, <2>1, <2>2
<1>12. QED
  BY <1>4, <1>5, <1>6, <1>7, <1>8, <1>9, <1>10, <1>11, Zenon DEF Next, Progress, keepElections

\* The invariants hold in every reachable state.
THEOREM FullInvariance == Spec => []FullInv
<1>1. Init => FullInv
  <2> SUFFICES ASSUME Init PROVE FullInv
    OBVIOUS
  <2>1. IndInv
    BY InitInd
  <2>2. NumberInv /\ TimedInv
    BY DEF Init, NumberInv, TimedInv, AgeInv
  <2>3. QED
    BY <2>1, <2>2 DEF FullInv
<1>2. FullInv /\ [Next]_vars => FullInv'
  BY NextInd, NumberNext, TimedNext DEF FullInv
<1>3. QED
  BY <1>1, <1>2, PTL DEF Spec

\* As long as no notification is lost or late and no heartbeat fails, nobody is
\* elected in the place of a leader that runs, for any intervals of which the
\* granted one is longer than a heartbeat and its delay, and any clocks that
\* differ by leaderClockSkew at most.
THEOREM ElectionNeeded == Spec => NoNeedlessElection
<1>1. FullInv /\ [Next]_vars
        => [row'.number # row.number /\ events = 0 => row.leader = Gone]_vars
  <2> SUFFICES ASSUME FullInv, Next, row'.number # row.number, events = 0
               PROVE  row.leader = Gone
    OBVIOUS
  <2>1. PICK n \in Nodes : TryElection(n) /\ row' # row
    <3>1. row' # row
      OBVIOUS
    <3>2. TypeInv
      BY DEF FullInv, IndInv
    <3>3. \A n \in Nodes : ~Stop(n)
      BY <3>2, StopLemma
    <3>4. ~Tick
      BY <3>1 DEF Tick
    <3>5. \A n \in Nodes : ~(\/ Receive(n) \/ CatchUp(n) \/ Loop(n) \/ Wake(n) \/ Retry(n)
                             \/ AwaitElection(n) \/ Listen(n) \/ Load(n) \/ New(n)
                             \/ Lose(n) \/ SlowDown(n))
      BY <3>1 DEF Receive, CatchUp, Loop, Wake, Retry, AwaitElection, Listen, Load, New,
         Lose, SlowDown
    <3>6. QED
      BY <3>1, <3>3, <3>4, <3>5, Zenon DEF Next, Progress, keepElections
  <2>2. QED
    BY <2>1, NoAttempt DEF FullInv
<1>2. QED
  BY <1>1, FullInvariance, PTL DEF Spec, NoNeedlessElection

=============================================================================
