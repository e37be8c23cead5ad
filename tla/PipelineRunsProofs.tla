------------------------- MODULE PipelineRunsProofs -------------------------
(***************************************************************************)
(* Proofs about PipelineRuns, for every set of nodes and any number of     *)
(* runs.                                                                   *)
(***************************************************************************)
EXTENDS PipelineRuns, SequenceTheorems, TLAPS

\* As long as the pipeline exists, a run that was not created has no node.
NotAcquired ==
  exists => \A r \in Runs : row[r].end = "none" => row[r].node = None

\* The goroutine of node n has run r, and pings it once it executes it.
Active(n, r) ==
  \/ task[n][r] = "acquired"
  \/ task[n][r] \in {"execute", "end"} /\ r \in localLiveRuns[n]

\* What the notifications and the goroutines are as long as no node stops or
\* stalls, and nothing is disabled or deleted: a run is announced once, before
\* any node tries it, its end is announced when it has ended, and a live run
\* that was acquired is active on its node.
LogInv ==
  /\ \A k \in DOMAIN log :
       /\ log[k].kind \in {"run", "end"}
       /\ row[log[k].run].end # "none"
       /\ log[k].kind = "end" => row[log[k].run].end # "live"
  /\ \A j, k \in DOMAIN log :
       log[j].kind = "run" /\ log[k].kind = "run" /\ log[j].run = log[k].run => j = k

TaskInv ==
  /\ \A n \in Nodes : Up(n) /\ ending[n] = {}
  /\ \A n \in Nodes, r \in Runs : task[n][r] # "none" => row[r].end # "none"
  /\ \A n \in Nodes, k \in DOMAIN log :
       applied[n] < k /\ log[k].kind = "run" => task[n][log[k].run] = "none"

LiveInv ==
  \A r \in Runs :
    /\ row[r].end # "orphaned"
    /\ \A n \in Nodes :
         row[r].end = "live" /\ row[r].node = n => row[r].fresh /\ Active(n, r)

Undisturbed == events = 0 => LogInv /\ TaskInv /\ LiveInv

-----------------------------------------------------------------------------
(* Types.                                                                  *)

\* Events are counted up to their bound.
LEMMA EventType == ASSUME TypeOK, Event PROVE events' \in 0 .. MaxEvents /\ events' # 0
BY PipelineRunsAssumption DEF TypeOK, Event

\* A notification that is appended is one, and the ones that are applied stay
\* applied.
LEMMA NotifyType ==
  ASSUME TypeOK, NEW ntf \in Notification, log' = Append(log, ntf)
  PROVE  /\ log' \in Seq(Notification)
         /\ Len(log') = Len(log) + 1
         /\ applied \in [Nodes -> -1 .. Len(log')]
         /\ DOMAIN log \subseteq DOMAIN log'
         /\ \A k \in DOMAIN log : log'[k] = log[k]
         /\ \A k \in DOMAIN log' \ DOMAIN log : k = Len(log) + 1 /\ log'[k] = ntf
<1>1. log \in Seq(Notification) /\ applied \in [Nodes -> -1 .. Len(log)]
  BY DEF TypeOK
<1>2. /\ log' \in Seq(Notification)
      /\ Len(log') = Len(log) + 1
      /\ \A k \in 1 .. Len(log) : log'[k] = log[k]
      /\ log'[Len(log')] = ntf
  BY <1>1, AppendProperties
<1>3. -1 .. Len(log) \subseteq -1 .. Len(log')
  BY <1>1, <1>2, LenProperties
<1>4. /\ DOMAIN log = 1 .. Len(log) /\ DOMAIN log' = 1 .. Len(log) + 1
      /\ Len(log) \in Nat
  BY <1>1, <1>2, LenProperties
<1>5. QED
  BY <1>1, <1>2, <1>3, <1>4

\* A row stays one when its run ends.
LEMMA RowEnd ==
  ASSUME NEW w \in Row, NEW end \in {"none", "disabled"}
  PROVE  [w EXCEPT !.end = end, !.fresh = FALSE] \in Row
BY DEF Row

\* The row of a run when the run ends, ...
LEMMA RowEnds ==
  ASSUME TypeOK, NEW r \in Runs,
         NEW outcome \in {"completed", "failed", "orphaned"},
         row' = [row EXCEPT ![r].end = outcome, ![r].fresh = FALSE]
  PROVE  /\ row' \in [Runs -> Row]
         /\ row'[r].node = row[r].node /\ row'[r].end = outcome
         /\ \A q \in Runs \ {r} : row'[q] = row[q]
<1>1. row \in [Runs -> Row]
  BY DEF TypeOK
<1>2. QED
  BY <1>1 DEF Row

\* ... when a node acquires it, ...
LEMMA RowAcquired ==
  ASSUME TypeOK, NEW r \in Runs, NEW n \in Nodes,
         row' = [row EXCEPT ![r].node = n, ![r].fresh = row[r].end = "live"]
  PROVE  /\ row' \in [Runs -> Row]
         /\ row'[r].node = n /\ row'[r].end = row[r].end
         /\ row'[r].fresh <=> row[r].end = "live"
         /\ \A q \in Runs \ {r} : row'[q] = row[q]
<1>1. row \in [Runs -> Row]
  BY DEF TypeOK
<1>2. PICK f \in BOOLEAN : f = (row[r].end = "live")
  OBVIOUS
<1>3. row' = [row EXCEPT ![r].node = n, ![r].fresh = f]
  BY <1>2, Zenon
<1>4. /\ row'[r].node = n /\ row'[r].end = row[r].end
      /\ row'[r].fresh = f
      /\ \A q \in Runs \ {r} : row'[q] = row[q]
  BY <1>1, <1>3 DEF Row
<1>5. row' \in [Runs -> Row]
  <2>1. row[r] \in Row
    BY <1>1
  <2>2. [row[r] EXCEPT !.node = n, !.fresh = f] \in Row
    BY <2>1 DEF Row
  <2>3. row' = [row EXCEPT ![r] = [row[r] EXCEPT !.node = n, !.fresh = f]]
    BY <1>1, <1>3
  <2>4. QED
    BY <1>1, <2>2, <2>3
<1>6. QED
  BY <1>2, <1>4, <1>5, Zenon

\* ... and when its ping time is set or grows old.
LEMMA RowPinged ==
  ASSUME TypeOK, NEW r \in Runs, NEW f \in BOOLEAN, row' = [row EXCEPT ![r].fresh = f]
  PROVE  /\ row' \in [Runs -> Row]
         /\ row'[r].node = row[r].node /\ row'[r].end = row[r].end
         /\ row'[r].fresh = f
         /\ \A q \in Runs \ {r} : row'[q] = row[q]
<1>1. row \in [Runs -> Row]
  BY DEF TypeOK
<1>2. QED
  BY <1>1 DEF Row

\* The goroutine of a run moves on or returns.
LEMMA TaskMoves ==
  ASSUME TypeOK, NEW n \in Nodes, NEW r \in Runs, NEW place \in Places,
         task' = [task EXCEPT ![n][r] = place]
  PROVE  /\ task' \in [Nodes -> [Runs -> Places]]
         /\ task'[n][r] = place
         /\ \A m \in Nodes, q \in Runs :
              m # n \/ q # r => task'[m][q] = task[m][q]
BY DEF TypeOK

\* The transaction of endLiveRun keeps the types.
LEMMA EndLiveRunType ==
  ASSUME TypeOK, NEW r \in Runs,
         NEW outcome \in {"completed", "failed", "orphaned"},
         endLiveRun(r, outcome), UNCHANGED <<exists, orgEnabled, applied>>
  PROVE  /\ row' \in [Runs -> Row]
         /\ cursor' \in {0} \cup Runs
         /\ log' \in Seq(Notification)
         /\ applied' \in [Nodes -> -1 .. Len(log')]
<1>1. CASE Endable(r) /\ Notify("end", r)
             /\ row' = [row EXCEPT ![r].end = outcome, ![r].fresh = FALSE]
             /\ cursor' = IF outcome = "completed" THEN r ELSE cursor
  <2>1. [kind |-> "end", run |-> r] \in Notification
    BY DEF Notification
  <2>2. log' \in Seq(Notification) /\ applied \in [Nodes -> -1 .. Len(log')]
    BY <1>1, <2>1, NotifyType DEF Notify
  <2>3. row' \in [Runs -> Row]
    BY <1>1, RowEnds
  <2>4. QED
    BY <1>1, <2>2, <2>3 DEF TypeOK
<1>2. CASE UNCHANGED <<row, cursor, log>>
  BY <1>2 DEF TypeOK
<1>3. QED
  BY <1>1, <1>2 DEF endLiveRun

\* What the two steps of createRun do: a run is inserted, or nothing but
\* `creating' changes.
LEMMA Creation ==
  ASSUME NEW n \in Nodes, CheckEnabled(n) \/ CreateRun(n)
  PROVE  /\ UNCHANGED <<cursor, exists, orgEnabled, applied, liveRuns, task, localLiveRuns,
                        ending, events>>
         /\ creating' \subseteq creating \cup {n}
         /\ \/ UNCHANGED <<row, log>>
            \/ exists /\ \E r \in Runs : InsertRun(r)
BY DEF CheckEnabled, CreateRun, Insertable, dbVars

\* The types are kept.
LEMMA TypeStep == ASSUME TypeOK, [Next]_vars PROVE TypeOK'
<1> USE PipelineRunsAssumption
<1>1. CASE UNCHANGED vars
  BY <1>1 DEF vars, dbVars, nodeVars, TypeOK
<1>2. ASSUME NEW n \in Nodes, CheckEnabled(n) \/ CreateRun(n)
      PROVE  TypeOK'
  <2>1. UNCHANGED <<cursor, exists, orgEnabled, applied, liveRuns, task, localLiveRuns,
                    ending, events>>
    BY <1>2, Creation
  <2>2. creating' \subseteq Nodes
    BY <1>2, Creation DEF TypeOK
  <2>3. CASE UNCHANGED <<row, log>>
    BY <2>1, <2>2, <2>3 DEF TypeOK
  <2>4. ASSUME NEW r \in Runs, InsertRun(r)
        PROVE  TypeOK'
    <3>1. [kind |-> "run", run |-> r] \in Notification
      BY DEF Notification
    <3>2. log' \in Seq(Notification) /\ applied \in [Nodes -> -1 .. Len(log')]
      BY <2>4, <3>1, NotifyType DEF InsertRun, Notify
    <3>3. row' \in [Runs -> Row]
      BY <2>4 DEF InsertRun, TypeOK, Row
    <3>4. QED
      BY <2>1, <2>2, <3>2, <3>3 DEF TypeOK
  <2>5. QED
    BY <1>2, <2>3, <2>4, Creation
<1>3. CASE DisableOrganization
  <2>1. [kind |-> "disable", run |-> 0] \in Notification
    BY DEF Notification
  <2>2. log' \in Seq(Notification) /\ applied \in [Nodes -> -1 .. Len(log')]
    BY <1>3, <2>1, NotifyType DEF DisableOrganization, Notify
  <2>3. row' \in [Runs -> Row]
    <3>1. \A r \in Runs : row[r] \in Row
      BY DEF TypeOK
    <3>2. \A r \in Runs : [row[r] EXCEPT !.end = "disabled", !.fresh = FALSE] \in Row
      BY <3>1, RowEnd, ZenonT(30)
    <3>3. QED
      BY <1>3, <3>1, <3>2, ZenonT(30) DEF DisableOrganization
  <2>4. QED
    BY <1>3, <2>2, <2>3, EventType DEF DisableOrganization, TypeOK, nodeVars
<1>4. CASE EnableOrganization
  BY <1>4 DEF EnableOrganization, TypeOK, nodeVars
<1>5. CASE DeletePipeline
  <2>1. [kind |-> "delete", run |-> 0] \in Notification
    BY DEF Notification
  <2>2. log' \in Seq(Notification) /\ applied \in [Nodes -> -1 .. Len(log')]
    BY <1>5, <2>1, NotifyType DEF DeletePipeline, Notify
  <2>3. row' \in [Runs -> Row]
    <3>1. \A r \in Runs : row[r] \in Row
      BY DEF TypeOK
    <3>2. \A r \in Runs : [row[r] EXCEPT !.end = "none", !.fresh = FALSE] \in Row
      BY <3>1, RowEnd, ZenonT(30)
    <3>3. QED
      BY <1>5, <3>2, ZenonT(30) DEF DeletePipeline
  <2>4. QED
    BY <1>5, <2>2, <2>3, EventType DEF DeletePipeline, TypeOK, nodeVars
<1>6. ASSUME NEW n \in Nodes, Stop(n)
      PROVE  TypeOK'
  <2>1. applied' \in [Nodes -> -1 .. Len(log')]
    BY <1>6, LenProperties DEF Stop, dbVars, TypeOK
  <2>2. task' \in [Nodes -> [Runs -> Places]]
    BY <1>6 DEF Stop, TypeOK, Places
  <2>3. QED
    BY <1>6, <2>1, <2>2, EventType DEF Stop, dbVars, TypeOK
<1>7. ASSUME NEW n \in Nodes, ApplyNotification(n)
      PROVE  TypeOK'
  <2> DEFINE ntf == log[applied[n] + 1]
  <2>1. applied[n] \in Int /\ applied[n] >= 0 /\ applied[n] < Len(log)
    BY <1>7, LenProperties DEF ApplyNotification, Up, TypeOK
  <2>2. ntf \in Notification
    BY <2>1, ElementOfSeq, LenProperties DEF TypeOK
  <2>3. ntf.kind = "run" => ntf.run \in Runs
    BY <2>2 DEF Notification
  <2>4. applied' \in [Nodes -> -1 .. Len(log')]
    BY <1>7, <2>1, LenProperties DEF ApplyNotification, dbVars, TypeOK
  <2>5. liveRuns' \in [Nodes -> SUBSET Runs]
    BY <1>7, <2>3 DEF ApplyNotification, TypeOK
  <2>6. task' \in [Nodes -> [Runs -> Places]]
    BY <1>7 DEF ApplyNotification, TypeOK, Places
  <2>7. localLiveRuns' \in [Nodes -> SUBSET Runs]
    BY <1>7 DEF ApplyNotification, TypeOK
  <2>8. QED
    BY <1>7, <2>4, <2>5, <2>6, <2>7 DEF ApplyNotification, dbVars, TypeOK
<1>8. ASSUME NEW n \in Nodes, Start(n)
      PROVE  TypeOK'
  <2>1. applied' \in [Nodes -> -1 .. Len(log')]
    BY <1>8, LenProperties DEF Start, dbVars, TypeOK
  <2>2. task' \in [Nodes -> [Runs -> Places]]
    BY <1>8 DEF Start, TypeOK, Places
  <2>3. QED
    BY <1>8, <2>1, <2>2 DEF Start, Live, dbVars, TypeOK
<1>9. ASSUME NEW n \in Nodes, NEW r \in Runs, Acquire(n, r)
      PROVE  TypeOK'
  <2>1. row' \in [Runs -> Row]
    BY <1>9, RowAcquired DEF Acquire, TypeOK
  <2>2. task' \in [Nodes -> [Runs -> Places]]
    BY <1>9, TaskMoves DEF Acquire, Goto, Return, TypeOK, Places
  <2>3. localLiveRuns' \in [Nodes -> SUBSET Runs]
    <3>1. \/ localLiveRuns' = localLiveRuns
          \/ localLiveRuns' = [localLiveRuns EXCEPT ![n] = @ \ {r}]
      BY <1>9, Zenon DEF Acquire, Goto, Return
    <3>2. localLiveRuns \in [Nodes -> SUBSET Runs]
      BY DEF TypeOK
    <3>3. QED
      BY <3>1, <3>2
  <2>4. events' \in 0 .. MaxEvents
    BY <1>9, EventType DEF Acquire, TypeOK
  <2>5. QED
    BY <1>9, <2>1, <2>2, <2>3, <2>4 DEF Acquire, TypeOK
<1>10. ASSUME NEW n \in Nodes, NEW r \in Runs, WithCancel(n, r) \/ Execute(n, r)
       PROVE  TypeOK'
  <2>1. task' \in [Nodes -> [Runs -> Places]]
    BY <1>10, TaskMoves DEF WithCancel, Execute, Goto, Return, Places
  <2>2. localLiveRuns' \in [Nodes -> SUBSET Runs]
    <3>1. \/ localLiveRuns' = localLiveRuns
          \/ localLiveRuns' = [localLiveRuns EXCEPT ![n] = @ \cup {r}]
          \/ localLiveRuns' = [localLiveRuns EXCEPT ![n] = @ \ {r}]
      BY <1>10, Zenon DEF WithCancel, Execute, Goto, Return
    <3>2. localLiveRuns \in [Nodes -> SUBSET Runs]
      BY DEF TypeOK
    <3>3. QED
      BY <3>1, <3>2
  <2>3. QED
    BY <1>10, <2>1, <2>2 DEF WithCancel, Execute, dbVars, TypeOK
<1>11. ASSUME NEW n \in Nodes, NEW r \in Runs, EndRun(n, r)
       PROVE  TypeOK'
  <2>1. PICK outcome \in {"completed", "failed"} : endLiveRun(r, outcome)
    BY <1>11 DEF EndRun
  <2>2. /\ row' \in [Runs -> Row] /\ cursor' \in {0} \cup Runs
        /\ log' \in Seq(Notification) /\ applied' \in [Nodes -> -1 .. Len(log')]
    BY <1>11, <2>1, EndLiveRunType DEF EndRun
  <2>3. task' \in [Nodes -> [Runs -> Places]] /\ localLiveRuns' \in [Nodes -> SUBSET Runs]
    BY <1>11 DEF EndRun, Return, TypeOK, Places
  <2>4. QED
    BY <1>11, <2>2, <2>3 DEF EndRun, TypeOK
<1>12. ASSUME NEW n \in Nodes, NEW r \in Runs, FindOrphaned(n, r)
       PROVE  TypeOK'
  BY <1>12 DEF FindOrphaned, dbVars, TypeOK
<1>13. ASSUME NEW n \in Nodes, NEW r \in Runs, EndOrphaned(n, r)
       PROVE  TypeOK'
  <2>1. /\ row' \in [Runs -> Row] /\ cursor' \in {0} \cup Runs
        /\ log' \in Seq(Notification) /\ applied' \in [Nodes -> -1 .. Len(log')]
    BY <1>13, EndLiveRunType DEF EndOrphaned
  <2>2. QED
    BY <1>13, <2>1 DEF EndOrphaned, TypeOK
<1>14. ASSUME NEW r \in Runs, Ping(r) \/ PingExpires(r)
       PROVE  TypeOK'
  <2>1. row' \in [Runs -> Row]
    BY <1>14, RowPinged DEF Ping, PingExpires
  <2>2. QED
    BY <1>14, <2>1, EventType DEF Ping, PingExpires, nodeVars, TypeOK
<1>15. QED
  BY <1>1, <1>2, <1>3, <1>4, <1>5, <1>6, <1>7, <1>8, <1>9, <1>10, <1>11, <1>12,
     <1>13, <1>14 DEF Next, Progress, Task
-----------------------------------------------------------------------------
(* One owner.                                                              *)

\* A run belongs to the node its row names, also after a step.
LEMMA OwnerStep ==
  ASSUME TypeOK, ExecutedByOne, NotAcquired, [Next]_vars
  PROVE  ExecutedByOne' /\ NotAcquired'
<1> USE PipelineRunsAssumption
<1>0. /\ row \in [Runs -> Row] /\ task \in [Nodes -> [Runs -> Places]]
      /\ exists \in BOOLEAN
  BY DEF TypeOK
<1>1. CASE UNCHANGED <<row, task, exists>>
  BY <1>1 DEF ExecutedByOne, NotAcquired, Owns
\* Steps that keep the node of the rows and give no goroutine a run.
<1>2. ASSUME \A r \in Runs : row'[r].node = row[r].node,
             \A n \in Nodes, r \in Runs : Owns(n, r)' => Owns(n, r),
             exists' => exists /\ \A r \in Runs : row'[r].end = "none"
                                                    => row[r].end = "none"
      PROVE  ExecutedByOne' /\ NotAcquired'
  BY <1>2 DEF ExecutedByOne, NotAcquired
<1>3. ASSUME NEW m \in Nodes, CheckEnabled(m) \/ CreateRun(m)
      PROVE  ExecutedByOne' /\ NotAcquired'
  <2>1. UNCHANGED <<task, exists>>
    BY <1>3, Creation
  <2>2. ASSUME NEW r \in Runs, exists, InsertRun(r)
        PROVE  ExecutedByOne' /\ NotAcquired'
    <3>1. row[r].end = "none" /\ row[r].node = None
      BY <2>2 DEF InsertRun, NotAcquired, Runs
    <3>2. \A n \in Nodes : ~Owns(n, r)
      BY <3>1 DEF ExecutedByOne
    <3>3. /\ row'[r].node = None /\ row'[r].end = "live"
          /\ \A q \in Runs \ {r} : row'[q] = row[q]
      BY <1>0, <2>2 DEF InsertRun
    <3>4. QED
      BY <2>1, <3>2, <3>3 DEF ExecutedByOne, NotAcquired, Owns
  <2>3. QED
    BY <1>1, <1>3, <2>1, <2>2, Creation
<1>4. CASE DisableOrganization
  <2>1. /\ \A r \in Runs : row'[r].node = row[r].node
        /\ \A r \in Runs : row'[r].end = "none" => row[r].end = "none"
    BY <1>0, <1>4 DEF DisableOrganization, Live, Row
  <2>2. UNCHANGED <<task, exists>>
    BY <1>4 DEF DisableOrganization, nodeVars
  <2>3. QED
    BY <1>2, <2>1, <2>2 DEF Owns
<1>5. CASE EnableOrganization
  BY <1>1, <1>5 DEF EnableOrganization, nodeVars
<1>6. CASE DeletePipeline
  <2>1. \A r \in Runs : row'[r].node = row[r].node
    BY <1>0, <1>6 DEF DeletePipeline, Row
  <2>2. UNCHANGED task /\ ~exists'
    BY <1>6 DEF DeletePipeline, nodeVars
  <2>3. QED
    BY <1>2, <2>1, <2>2 DEF Owns
<1>7. ASSUME NEW n \in Nodes, Stop(n)
      PROVE  ExecutedByOne' /\ NotAcquired'
  <2>1. UNCHANGED <<row, exists>>
    BY <1>7 DEF Stop, dbVars
  <2>2. \A m \in Nodes, r \in Runs : task'[m][r] \in {task[m][r], "none"}
    BY <1>0, <1>7 DEF Stop
  <2>3. QED
    BY <1>2, <2>1, <2>2 DEF Owns
<1>8. ASSUME NEW n \in Nodes, ApplyNotification(n)
      PROVE  ExecutedByOne' /\ NotAcquired'
  <2>1. UNCHANGED <<row, exists>>
    BY <1>8 DEF ApplyNotification, dbVars
  <2>2. \A m \in Nodes, r \in Runs : task'[m][r] \in {task[m][r], "acquire"}
    BY <1>0, <1>8 DEF ApplyNotification
  <2>3. QED
    BY <1>2, <2>1, <2>2 DEF Owns
<1>9. ASSUME NEW n \in Nodes, Start(n)
      PROVE  ExecutedByOne' /\ NotAcquired'
  <2>1. UNCHANGED <<row, exists>>
    BY <1>9 DEF Start, dbVars
  <2>2. \A m \in Nodes, r \in Runs : task'[m][r] \in {task[m][r], "none", "acquire"}
    BY <1>0, <1>9 DEF Start
  <2>3. QED
    BY <1>2, <2>1, <2>2 DEF Owns
<1>10. ASSUME NEW n \in Nodes, NEW r \in Runs, Acquire(n, r)
       PROVE  ExecutedByOne' /\ NotAcquired'
  <2>1. task[n][r] = "acquire" /\ UNCHANGED exists
    BY <1>10 DEF Acquire
  <2>2. CASE Acquirable(r)
    <3>1. /\ row[r].node = None /\ row[r].end # "none"
          /\ row'[r].node = n /\ row'[r].end = row[r].end
          /\ \A q \in Runs \ {r} : row'[q] = row[q]
      BY <1>10, <2>2, RowAcquired DEF Acquire, Acquirable
    <3>2. \A m \in Nodes : ~Owns(m, r)
      BY <3>1 DEF ExecutedByOne
    <3>3. \A m \in Nodes, q \in Runs : m # n \/ q # r => task'[m][q] = task[m][q]
      BY <1>10, <2>2, TaskMoves DEF Acquire, Goto, Places
    <3>4. QED
      BY <2>1, <3>1, <3>2, <3>3 DEF ExecutedByOne, NotAcquired, Owns
  <2>3. CASE ~Acquirable(r)
    <3>1. UNCHANGED row /\ task' = [task EXCEPT ![n][r] = "none"]
      BY <1>10, <2>3 DEF Acquire, Return
    <3>2. \A m \in Nodes, q \in Runs : task'[m][q] \in {task[m][q], "none"}
      BY <3>1, TaskMoves DEF Places
    <3>3. QED
      BY <1>2, <2>1, <3>1, <3>2 DEF Owns
  <2>4. QED
    BY <2>2, <2>3
<1>11. ASSUME NEW n \in Nodes, NEW r \in Runs,
              WithCancel(n, r) \/ Execute(n, r) \/ EndRun(n, r)
       PROVE  ExecutedByOne' /\ NotAcquired'
  <2>1. PICK place \in Places : task' = [task EXCEPT ![n][r] = place]
    BY <1>11, Zenon DEF WithCancel, Execute, EndRun, Goto, Return, Places
  <2>2. task[n][r] \in {"acquired", "execute", "end"}
    BY <1>11, Zenon DEF WithCancel, Execute, EndRun
  <2>3. \A m \in Nodes, q \in Runs : Owns(m, q)' => Owns(m, q)
    BY <2>1, <2>2, TaskMoves DEF Owns
  <2>4. CASE UNCHANGED <<row, exists>>
    BY <1>2, <2>3, <2>4
  <2>5. CASE EndRun(n, r) /\ ~UNCHANGED row
    <3>1. PICK outcome \in {"completed", "failed"} :
            row' = [row EXCEPT ![r].end = outcome, ![r].fresh = FALSE]
      BY <2>5 DEF EndRun, endLiveRun
    <3>2. QED
      BY <1>2, <2>3, <2>5, <3>1, RowEnds DEF EndRun
  <2>6. QED
    BY <1>11, <2>4, <2>5 DEF WithCancel, Execute, EndRun, dbVars
<1>12. ASSUME NEW n \in Nodes, NEW r \in Runs, FindOrphaned(n, r)
       PROVE  ExecutedByOne' /\ NotAcquired'
  BY <1>1, <1>12 DEF FindOrphaned, dbVars
<1>13. ASSUME NEW n \in Nodes, NEW r \in Runs, EndOrphaned(n, r)
       PROVE  ExecutedByOne' /\ NotAcquired'
  <2>1. UNCHANGED <<task, exists>>
    BY <1>13 DEF EndOrphaned
  <2>2. CASE row' = [row EXCEPT ![r].end = "orphaned", ![r].fresh = FALSE]
    BY <1>2, <2>1, <2>2, RowEnds DEF Owns
  <2>3. QED
    BY <1>1, <1>13, <2>1, <2>2 DEF EndOrphaned, endLiveRun
<1>14. ASSUME NEW r \in Runs, Ping(r) \/ PingExpires(r)
       PROVE  ExecutedByOne' /\ NotAcquired'
  <2>1. PICK f \in BOOLEAN : row' = [row EXCEPT ![r].fresh = f]
    BY <1>14 DEF Ping, PingExpires
  <2>2. UNCHANGED <<task, exists>>
    BY <1>14 DEF Ping, PingExpires, nodeVars
  <2>3. QED
    BY <1>2, <2>1, <2>2, RowPinged DEF Owns
<1>15. QED
  BY <1>1, <1>3, <1>4, <1>5, <1>6, <1>7, <1>8, <1>9, <1>10, <1>11, <1>12, <1>13,
     <1>14 DEF Next, Progress, Task, vars, dbVars, nodeVars
-----------------------------------------------------------------------------
(* No run is given up.                                                     *)

\* As long as nothing disturbs the nodes, every notification is of a run.
LEMMA LogRuns ==
  ASSUME TypeOK, LogInv
  PROVE  \A k \in DOMAIN log : log[k].run \in Runs
<1>1. SUFFICES ASSUME NEW k \in DOMAIN log PROVE log[k].run \in Runs
  OBVIOUS
<1>2. log[k] \in Notification
  BY LenProperties, ElementOfSeq DEF TypeOK
<1>3. log[k].kind \in {"run", "end"}
  BY DEF LogInv
<1>4. QED
  BY <1>2, <1>3 DEF Notification

\* What the end of a run does as long as nothing disturbs the nodes: the run
\* leaves the live ones, and its end is announced.
LEMMA UndisturbedEnd ==
  ASSUME TypeOK, LogInv, LiveInv, NEW r \in Runs,
         NEW outcome \in {"completed", "failed"}, endLiveRun(r, outcome)
  PROVE  /\ LogInv'
         /\ \A q \in Runs : /\ row'[q].end # "orphaned"
                            /\ row'[q].end = "live" => row'[q] = row[q] /\ q # r
                            /\ row[q].end # "none" => row'[q].end # "none"
         /\ DOMAIN log \subseteq DOMAIN log'
         /\ \A k \in DOMAIN log' :
              log'[k].kind = "run" => k \in DOMAIN log /\ log[k] = log'[k]
<1>0. \A k \in DOMAIN log : log[k].run \in Runs
  BY LogRuns
<1>1. CASE Endable(r) /\ Notify("end", r)
             /\ row' = [row EXCEPT ![r].end = outcome, ![r].fresh = FALSE]
  <2>1. /\ row'[r].end = outcome
        /\ \A q \in Runs \ {r} : row'[q] = row[q]
    BY <1>1, RowEnds
  <2>2. [kind |-> "end", run |-> r] \in Notification
    BY DEF Notification
  <2>3. /\ DOMAIN log \subseteq DOMAIN log'
        /\ \A k \in DOMAIN log : log'[k] = log[k]
        /\ \A k \in DOMAIN log' \ DOMAIN log :
             log'[k] = [kind |-> "end", run |-> r]
    BY <1>1, <2>2, NotifyType DEF Notify
  <2>4. \A k \in DOMAIN log' \ DOMAIN log : log'[k].kind = "end" /\ log'[k].run = r
    BY <2>3
  <2>5. LogInv'
    <3>1. \A k \in DOMAIN log' :
            /\ log'[k].kind \in {"run", "end"}
            /\ log'[k].run \in Runs
            /\ log'[k].run # r => row'[log'[k].run] = row[log'[k].run]
      BY <1>0, <2>1, <2>3, <2>4 DEF LogInv
    <3>2. \A k \in DOMAIN log' :
            /\ row'[log'[k].run].end # "none"
            /\ log'[k].kind = "end" => row'[log'[k].run].end # "live"
      BY <1>0, <2>1, <2>3, <2>4, <3>1 DEF LogInv
    <3>3. \A j, k \in DOMAIN log' :
            log'[j].kind = "run" /\ log'[k].kind = "run" /\ log'[j].run = log'[k].run
              => j = k
      BY <2>3, <2>4 DEF LogInv
    <3>4. QED
      BY <3>1, <3>2, <3>3 DEF LogInv
  <2>6. QED
    BY <1>1, <2>1, <2>3, <2>4, <2>5 DEF LiveInv, Endable
<1>2. CASE ~Endable(r) /\ UNCHANGED <<row, cursor, log>>
  BY <1>2 DEF LogInv, LiveInv, Endable
<1>3. QED
  BY <1>1, <1>2 DEF endLiveRun

\* As long as nothing disturbs the nodes, a step keeps what Undisturbed says.
LEMMA UndisturbedStep ==
  ASSUME TypeOK, TypeOK', ExecutedByOne, Undisturbed, [Next]_vars
  PROVE  Undisturbed'
<1> USE PipelineRunsAssumption
<1>1. SUFFICES ASSUME events' = 0
               PROVE  LogInv' /\ TaskInv' /\ LiveInv'
  BY DEF Undisturbed
<1>2. ~Event
  BY <1>1, EventType
<1>3. CASE UNCHANGED vars
  BY <1>1, <1>3 DEF vars, dbVars, nodeVars, Undisturbed, LogInv, TaskInv, LiveInv,
     Active, Up
<1>4. SUFFICES ASSUME Next, events = 0
               PROVE  LogInv' /\ TaskInv' /\ LiveInv'
  <2>1. CASE Next
    <3>1. events = 0
      BY <1>1, <1>2, <2>1, Creation, ZenonT(60) DEF Next, Progress, Task, DisableOrganization,
         EnableOrganization, DeletePipeline, Stop, ApplyNotification, Start, Acquire,
         WithCancel, Execute, EndRun, FindOrphaned, EndOrphaned, Ping, PingExpires
    <3>2. QED
      BY <1>4, <2>1, <3>1
  <2>2. QED
    BY <1>3, <2>1
<1>5. LogInv /\ TaskInv /\ LiveInv
  BY <1>4 DEF Undisturbed
<1>6. /\ row \in [Runs -> Row] /\ task \in [Nodes -> [Runs -> Places]]
      /\ localLiveRuns \in [Nodes -> SUBSET Runs]
      /\ log \in Seq(Notification) /\ Len(log) \in Nat /\ DOMAIN log = 1 .. Len(log)
      /\ applied \in [Nodes -> Int] /\ \A n \in Nodes : applied[n] <= Len(log)
      /\ ending \in [Nodes -> SUBSET Runs]
  BY LenProperties DEF TypeOK
<1>7. \A k \in DOMAIN log : log[k].run \in Runs
  BY <1>5, LogRuns
<1>a. ASSUME NEW m \in Nodes, CheckEnabled(m) \/ CreateRun(m)
      PROVE  /\ UNCHANGED <<task, ending, applied, localLiveRuns>>
             /\ \/ UNCHANGED <<row, log>>
                \/ \E r \in Runs : InsertRun(r)
  BY <1>a, Creation
<1>b. CASE UNCHANGED <<row, log, task, ending, applied, localLiveRuns>>
  BY <1>5, <1>b DEF LogInv, TaskInv, LiveInv, Active, Up
<1>8. ASSUME NEW r \in Runs, InsertRun(r), UNCHANGED <<task, ending, applied, localLiveRuns>>
      PROVE  LogInv' /\ TaskInv' /\ LiveInv'
  <2>1. /\ row[r].end = "none"
        /\ row'[r].node = None /\ row'[r].end = "live"
        /\ \A q \in Runs \ {r} : row'[q] = row[q]
    BY <1>6, <1>8 DEF InsertRun, Runs
  <2>2. [kind |-> "run", run |-> r] \in Notification
    BY DEF Notification
  <2>3. /\ DOMAIN log \subseteq DOMAIN log'
        /\ \A k \in DOMAIN log : log'[k] = log[k]
        /\ \A k \in DOMAIN log' \ DOMAIN log :
             k = Len(log) + 1 /\ log'[k] = [kind |-> "run", run |-> r]
    BY <1>8, <2>2, NotifyType DEF InsertRun, Notify
  <2>4. \A k \in DOMAIN log' \ DOMAIN log :
          k = Len(log) + 1 /\ log'[k].kind = "run" /\ log'[k].run = r
    BY <2>3
  <2>5. \A k \in DOMAIN log : log[k].run # r
    BY <1>5, <2>1 DEF LogInv
  <2>6. LogInv'
    BY <1>5, <1>7, <2>1, <2>3, <2>4, <2>5 DEF LogInv
  <2>7. TaskInv'
    <3>1. \A n \in Nodes : task[n][r] = "none"
      BY <1>5, <2>1 DEF TaskInv
    <3>2. QED
      BY <1>5, <1>7, <1>8, <2>1, <2>3, <2>4, <3>1 DEF TaskInv, Up
  <2>8. LiveInv'
    BY <1>5, <1>8, <2>1 DEF LiveInv, Active
  <2>9. QED
    BY <2>6, <2>7, <2>8
<1>9. CASE EnableOrganization
  BY <1>5, <1>9 DEF EnableOrganization, nodeVars, LogInv, TaskInv, LiveInv, Active, Up
<1>10. ASSUME NEW n \in Nodes, ApplyNotification(n)
       PROVE  LogInv' /\ TaskInv' /\ LiveInv'
  <2> DEFINE ntf == log[applied[n] + 1]
  <2>1. applied[n] + 1 \in DOMAIN log /\ applied[n] \in Int
    BY <1>6, <1>10 DEF ApplyNotification, Up
  <2>2. /\ UNCHANGED <<row, log, ending>>
        /\ applied'[n] = applied[n] + 1
        /\ \A m \in Nodes \ {n} : applied'[m] = applied[m]
    BY <1>6, <1>10 DEF ApplyNotification, dbVars
  <2>3. \A m \in Nodes, r \in Runs :
          task'[m][r] = IF m = n /\ ntf.kind = "run" /\ r = ntf.run THEN "acquire"
                        ELSE task[m][r]
    BY <1>6, <1>10 DEF ApplyNotification
  <2>4. \A m \in Nodes, r \in Runs :
          r \in localLiveRuns[m] =>
            \/ r \in localLiveRuns'[m]
            \/ ntf.kind = "end" /\ r = ntf.run
    <3>1. ntf.kind \in {"run", "end"}
      BY <1>5, <2>1 DEF LogInv
    <3>2. EndedBy(n, ntf) = IF ntf.kind = "end" THEN {ntf.run} ELSE {}
      BY <3>1 DEF EndedBy
    <3>3. QED
      BY <1>6, <1>10, <3>2 DEF ApplyNotification
  <2>5. LogInv'
    BY <1>5, <2>2 DEF LogInv
  <2>6. TaskInv'
    <3>1. \A m \in Nodes : Up(m)'
      <4>1. applied[n] >= 0
        BY <1>5 DEF TaskInv, Up
      <4>2. applied'[n] >= 0
        BY <2>1, <2>2, <4>1
      <4>3. QED
        BY <1>5, <2>2, <4>2 DEF TaskInv, Up
    <3>2. \A m \in Nodes, r \in Runs : task'[m][r] # "none" => row[r].end # "none"
      BY <1>5, <2>1, <2>3 DEF TaskInv, LogInv
    <3>3. \A m \in Nodes, k \in DOMAIN log :
            applied'[m] < k /\ log[k].kind = "run" => task'[m][log[k].run] = "none"
      <4>1. SUFFICES ASSUME NEW m \in Nodes, NEW k \in DOMAIN log,
                            applied'[m] < k, log[k].kind = "run"
                     PROVE  task'[m][log[k].run] = "none"
        OBVIOUS
      <4>2. applied[m] < k /\ (m = n => k # applied[n] + 1)
        BY <1>6, <2>1, <2>2, <4>1
      <4>3. task[m][log[k].run] = "none" /\ log[k].run \in Runs
        BY <1>5, <1>7, <4>1, <4>2 DEF TaskInv
      <4>4. ~(m = n /\ ntf.kind = "run" /\ log[k].run = ntf.run)
        BY <1>5, <2>1, <4>1, <4>2 DEF LogInv
      <4>5. QED
        BY <2>3, <4>3, <4>4
    <3>4. QED
      BY <1>5, <2>2, <3>1, <3>2, <3>3 DEF TaskInv
  <2>7. LiveInv'
    <3>1. ASSUME NEW m \in Nodes, NEW r \in Runs,
                 row[r].end = "live", row[r].node = m
          PROVE  Active(m, r)'
      <4>1. Active(m, r)
        BY <1>5, <3>1 DEF LiveInv
      <4>2. ~(m = n /\ ntf.kind = "run" /\ r = ntf.run)
        BY <1>5, <1>6, <2>1, <4>1 DEF TaskInv, Active
      <4>3. ~(ntf.kind = "end" /\ r = ntf.run)
        BY <1>5, <2>1, <3>1 DEF LogInv
      <4>4. QED
        BY <2>3, <2>4, <4>1, <4>2, <4>3 DEF Active
    <3>2. QED
      BY <1>5, <2>2, <3>1 DEF LiveInv
  <2>8. QED
    BY <2>5, <2>6, <2>7
<1>11. ASSUME NEW n \in Nodes, Stop(n) \/ Start(n)
       PROVE  FALSE
  BY <1>2, <1>5, <1>11 DEF Stop, Start, TaskInv
<1>12. ASSUME NEW n \in Nodes, NEW r \in Runs, Acquire(n, r)
       PROVE  LogInv' /\ TaskInv' /\ LiveInv'
  <2>1. /\ task[n][r] = "acquire"
        /\ UNCHANGED <<log, applied, ending>>
    BY <1>12 DEF Acquire
  <2>2. CASE Acquirable(r)
    <3>1. /\ row[r].node = None /\ row[r].end # "none"
          /\ row'[r].node = n /\ row'[r].end = row[r].end
          /\ row'[r].fresh <=> row[r].end = "live"
          /\ \A q \in Runs \ {r} : row'[q] = row[q]
      BY <1>12, <2>2, RowAcquired DEF Acquire, Acquirable
    <3>2. task' = [task EXCEPT ![n][r] = "acquired"] /\ UNCHANGED localLiveRuns
      BY <1>2, <1>12, <2>2 DEF Acquire, Goto
    <3>3. /\ task'[n][r] = "acquired"
          /\ \A m \in Nodes, q \in Runs : m # n \/ q # r => task'[m][q] = task[m][q]
      BY <3>2, TaskMoves DEF Places
    <3>4. LogInv'
      BY <1>5, <1>7, <2>1, <3>1 DEF LogInv
    <3>5. TaskInv'
      BY <1>5, <1>7, <2>1, <3>1, <3>3 DEF TaskInv, Up
    <3>6. LiveInv'
      BY <1>5, <3>1, <3>2, <3>3 DEF LiveInv, Active
    <3>7. QED
      BY <3>4, <3>5, <3>6
  <2>3. CASE ~Acquirable(r)
    <3>1. /\ UNCHANGED row /\ task' = [task EXCEPT ![n][r] = "none"]
          /\ localLiveRuns' = [localLiveRuns EXCEPT ![n] = @ \ {r}]
      BY <1>12, <2>3 DEF Acquire, Return
    <3>2. /\ task'[n][r] = "none"
          /\ \A m \in Nodes, q \in Runs : m # n \/ q # r => task'[m][q] = task[m][q]
      BY <3>1, TaskMoves DEF Places
    <3>3. \A m \in Nodes, q \in Runs :
            m # n \/ q # r => (q \in localLiveRuns'[m] <=> q \in localLiveRuns[m])
      BY <1>6, <3>1
    <3>4. LogInv' /\ TaskInv'
      BY <1>5, <1>7, <2>1, <3>1, <3>2 DEF LogInv, TaskInv, Up
    <3>5. ~(row[r].end = "live" /\ row[r].node = n)
      BY <1>5, <2>1 DEF LiveInv, Active
    <3>6. LiveInv'
      BY <1>5, <3>1, <3>2, <3>3, <3>5 DEF LiveInv, Active
    <3>7. QED
      BY <3>4, <3>6
  <2>4. QED
    BY <2>2, <2>3
<1>13. ASSUME NEW n \in Nodes, NEW r \in Runs, WithCancel(n, r) \/ Execute(n, r)
       PROVE  LogInv' /\ TaskInv' /\ LiveInv'
  <2>1. /\ task[n][r] \in {"acquired", "execute"}
        /\ UNCHANGED <<row, log, applied, ending>>
    BY <1>13, Zenon DEF WithCancel, Execute, dbVars
  <2>2. PICK place \in Places : task' = [task EXCEPT ![n][r] = place]
    BY <1>13, Zenon DEF WithCancel, Execute, Goto, Return, Places
  <2>3. /\ task'[n][r] = place
        /\ \A m \in Nodes, q \in Runs : m # n \/ q # r => task'[m][q] = task[m][q]
    BY <1>6, <2>2
  <2>4. \A m \in Nodes, q \in Runs :
          m # n \/ q # r => (q \in localLiveRuns'[m] <=> q \in localLiveRuns[m])
    <3>1. \/ localLiveRuns' = localLiveRuns
          \/ localLiveRuns' = [localLiveRuns EXCEPT ![n] = @ \cup {r}]
          \/ localLiveRuns' = [localLiveRuns EXCEPT ![n] = @ \ {r}]
      BY <1>13, Zenon DEF WithCancel, Execute, Goto, Return
    <3>2. QED
      BY <1>6, <3>1
  <2>5. row[r].end # "none"
    BY <1>5, <2>1 DEF TaskInv
  <2>6. row[r].end = "live" /\ row[r].node = n => Active(n, r)'
    <3>1. CASE WithCancel(n, r)
      <4>1. localLiveRuns' = [localLiveRuns EXCEPT ![n] = @ \cup {r}]
            /\ task' = [task EXCEPT ![n][r] = "execute"]
        BY <2>5, <3>1 DEF WithCancel
      <4>2. r \in localLiveRuns'[n] /\ task'[n][r] = "execute"
        BY <1>6, <4>1
      <4>3. QED
        BY <4>2 DEF Active
    <3>2. CASE Execute(n, r) /\ row[r].end = "live" /\ row[r].node = n
      <4>1. r \in localLiveRuns[n]
        BY <1>5, <3>2 DEF LiveInv, Active, Execute
      <4>2. task' = [task EXCEPT ![n][r] = "end"] /\ UNCHANGED localLiveRuns
        BY <3>2, <4>1 DEF Execute, Cancelled, Goto
      <4>3. r \in localLiveRuns'[n] /\ task'[n][r] = "end"
        BY <1>6, <4>1, <4>2
      <4>4. QED
        BY <4>3 DEF Active
    <3>3. QED
      BY <1>13, <3>1, <3>2
  <2>7. LogInv' /\ TaskInv'
    BY <1>5, <1>7, <2>1, <2>3, <2>5 DEF LogInv, TaskInv, Up
  <2>8. LiveInv'
    BY <1>5, <2>1, <2>3, <2>4, <2>6 DEF LiveInv, Active
  <2>9. QED
    BY <2>7, <2>8
<1>14. ASSUME NEW n \in Nodes, NEW r \in Runs, EndRun(n, r)
       PROVE  LogInv' /\ TaskInv' /\ LiveInv'
  <2>1. PICK outcome \in {"completed", "failed"} : endLiveRun(r, outcome)
    BY <1>14 DEF EndRun
  <2>2. /\ LogInv'
        /\ \A q \in Runs : /\ row'[q].end # "orphaned"
                           /\ row'[q].end = "live" => row'[q] = row[q] /\ q # r
                           /\ row[q].end # "none" => row'[q].end # "none"
        /\ \A k \in DOMAIN log' :
             log'[k].kind = "run" => k \in DOMAIN log /\ log[k] = log'[k]
    BY <1>5, <2>1, UndisturbedEnd
  <2>3. /\ task' = [task EXCEPT ![n][r] = "none"]
        /\ localLiveRuns' = [localLiveRuns EXCEPT ![n] = @ \ {r}]
        /\ UNCHANGED <<applied, ending>>
    BY <1>14 DEF EndRun, Return
  <2>4. /\ task'[n][r] = "none"
        /\ \A m \in Nodes, q \in Runs : m # n \/ q # r => task'[m][q] = task[m][q]
    BY <2>3, TaskMoves DEF Places
  <2>5. \A m \in Nodes, q \in Runs :
          q # r => (q \in localLiveRuns'[m] <=> q \in localLiveRuns[m])
    BY <1>6, <2>3
  <2>6. TaskInv'
    BY <1>5, <1>7, <2>2, <2>3, <2>4 DEF TaskInv, Up
  <2>7. LiveInv'
    BY <1>5, <2>2, <2>4, <2>5 DEF LiveInv, Active
  <2>8. QED
    BY <2>2, <2>6, <2>7
<1>15. ASSUME NEW n \in Nodes, NEW r \in Runs, FindOrphaned(n, r) \/ EndOrphaned(n, r)
       PROVE  FALSE
  <2>1. ~EndOrphaned(n, r)
    BY <1>5 DEF EndOrphaned, TaskInv
  <2>2. ~Orphaned(r)
    BY <1>5, <1>6 DEF Orphaned, LiveInv, Row
  <2>3. QED
    BY <1>15, <2>1, <2>2 DEF FindOrphaned
<1>16. ASSUME NEW r \in Runs, Ping(r)
       PROVE  LogInv' /\ TaskInv' /\ LiveInv'
  <2>1. row' = [row EXCEPT ![r].fresh = TRUE] /\ UNCHANGED <<log, nodeVars>>
    BY <1>16 DEF Ping
  <2>2. /\ row'[r].node = row[r].node /\ row'[r].end = row[r].end /\ row'[r].fresh
        /\ \A q \in Runs \ {r} : row'[q] = row[q]
    BY <2>1, RowPinged
  <2>3. QED
    BY <1>5, <1>7, <2>1, <2>2 DEF nodeVars, LogInv, TaskInv, LiveInv, Active, Up
<1>17. ASSUME NEW r \in Runs, PingExpires(r)
       PROVE  LogInv' /\ TaskInv' /\ LiveInv'
  <2>1. row' = [row EXCEPT ![r].fresh = FALSE] /\ UNCHANGED <<log, nodeVars>>
    BY <1>17 DEF PingExpires
  <2>2. /\ row'[r].node = row[r].node /\ row'[r].end = row[r].end
        /\ \A q \in Runs \ {r} : row'[q] = row[q]
    BY <2>1, RowPinged
  <2>3. row[r].end = "live" /\ ~Starting(r) /\ ~Pinging(r)
    BY <1>2, <1>17 DEF PingExpires
  <2>4. \A n \in Nodes : ~Active(n, r)
    BY <2>3 DEF Starting, Pinging, Cancelled, Active
  <2>5. \A n \in Nodes : row[r].node # n
    BY <1>5, <2>3, <2>4 DEF LiveInv
  <2>6. QED
    BY <1>5, <1>7, <2>1, <2>2, <2>5 DEF nodeVars, LogInv, TaskInv, LiveInv, Active, Up
<1>18. CASE DisableOrganization \/ DeletePipeline
  BY <1>2, <1>18 DEF DisableOrganization, DeletePipeline
<1>19. QED
  BY <1>4, <1>a, <1>b, <1>8, <1>9, <1>10, <1>11, <1>12, <1>13, <1>14, <1>15, <1>16, <1>17,
     <1>18 DEF Next, Progress, Task

-----------------------------------------------------------------------------
(* Results.                                                                *)

\* The inductive invariant.
IndInv == TypeOK /\ ExecutedByOne /\ NotAcquired /\ Undisturbed

\* It holds initially: there are no runs.
LEMMA InitInd == Init => IndInv
<1> SUFFICES ASSUME Init PROVE IndInv
  OBVIOUS
<1>1. TypeOK
  BY PipelineRunsAssumption, EmptySeq
  DEF Init, TypeOK, Row, Places
<1>2. ExecutedByOne /\ NotAcquired
  BY DEF Init, ExecutedByOne, NotAcquired, Owns
<1>3. LogInv /\ TaskInv /\ LiveInv
  BY DEF Init, LogInv, TaskInv, LiveInv, Up
<1>4. QED
  BY <1>1, <1>2, <1>3 DEF IndInv, Undisturbed

\* The inductive invariant holds in every reachable state.
THEOREM Invariance == Spec => []IndInv
<1>1. ASSUME IndInv, [Next]_vars PROVE IndInv'
  BY <1>1, TypeStep, OwnerStep, UndisturbedStep DEF IndInv
<1>2. QED
  BY <1>1, InitInd, PTL DEF Spec

\* ExecutedByOne is an invariant: whatever nodes hear of a run, restart, retry
\* the UPDATE or are given up, only the node that its row names executes it.
THEOREM OneExecutor == Spec => []ExecutedByOne
<1>1. IndInv => ExecutedByOne
  BY DEF IndInv
<1>2. QED
  BY <1>1, Invariance, PTL

\* NotGivenUp is an invariant: the cleaner does not end a run as long as no
\* node stops or stalls.
THEOREM KeptWhileRunning == Spec => []NotGivenUp
<1>1. IndInv => NotGivenUp
  BY DEF IndInv, Undisturbed, LiveInv, NotGivenUp
<1>2. QED
  BY <1>1, Invariance, PTL

\* EndedOnce: no step changes the outcome of a run that has ended, or moves the
\* cursor to it.
THEOREM OutcomeDecidedOnce == Spec => EndedOnce
<1>1. ASSUME IndInv, [Next]_vars, NEW r \in Runs, row[r].end \notin {"none", "live"}
      PROVE  row'[r].end \in {row[r].end, "none"} /\ (cursor' = r => cursor = r)
  <2>1. TypeOK /\ row \in [Runs -> Row]
    BY <1>1 DEF IndInv, TypeOK
  <2>2. CASE UNCHANGED <<row, cursor>>
    BY <2>2
  <2>3. ASSUME NEW n \in Nodes, CheckEnabled(n) \/ CreateRun(n)
        PROVE  row'[r] = row[r] /\ cursor' = cursor
    <3>1. ASSUME NEW q \in Runs, InsertRun(q)
          PROVE  row'[r] = row[r]
      BY <1>1, <2>1, <3>1 DEF InsertRun, Runs
    <3>2. QED
      BY <2>3, <3>1, Creation
  <2>4. CASE DisableOrganization \/ DeletePipeline
    BY <1>1, <2>1, <2>4 DEF DisableOrganization, DeletePipeline, Live, Row
  <2>5. ASSUME NEW n \in Nodes, NEW q \in Runs, Acquire(n, q)
        PROVE  row'[r].end = row[r].end /\ cursor' = cursor
    <3>1. CASE Acquirable(q)
      BY <2>1, <2>5, <3>1, RowAcquired DEF Acquire
    <3>2. QED
      BY <2>5, <3>1 DEF Acquire
  <2>6. ASSUME NEW q \in Runs, NEW outcome \in {"completed", "failed", "orphaned"},
               endLiveRun(q, outcome)
        PROVE  row'[r].end = row[r].end /\ (cursor' = r => cursor = r)
    <3>1. CASE Endable(q)
      BY <1>1, <2>1, <2>6, <3>1, RowEnds DEF endLiveRun, Endable
    <3>2. QED
      BY <2>6, <3>1 DEF endLiveRun
  <2>7. ASSUME NEW q \in Runs, Ping(q) \/ PingExpires(q)
        PROVE  row'[r].end = row[r].end /\ cursor' = cursor
    BY <2>1, <2>7, RowPinged DEF Ping, PingExpires
  <2>8. QED
    BY <1>1, <2>2, <2>3, <2>4, <2>5, <2>6, <2>7
    DEF Next, Progress, Task, vars, dbVars, EnableOrganization, Stop,
        ApplyNotification, Start, WithCancel, Execute, EndRun, FindOrphaned,
        EndOrphaned
<1>2. IndInv /\ [Next]_vars =>
        [\A r \in Runs : row[r].end \notin {"none", "live"} =>
           /\ row'[r].end \in {row[r].end, "none"}
           /\ cursor' = r => cursor = r]_vars
  BY <1>1
<1>3. QED
  BY <1>2, Invariance, PTL DEF Spec, EndedOnce
=============================================================================
