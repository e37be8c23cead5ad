---------------------------- MODULE PipelineRuns ----------------------------
(***************************************************************************)
(* The runs of one pipeline (createRun in core/pipeline.go,                *)
(* tryStartPipelineRun, endLiveRun and the listeners in core/core.go,      *)
(* terminateOrphanedRuns in core/pipeline_cleaner.go, SetStatus in         *)
(* core/organization.go): a run is a row of pipelines_runs, the node that  *)
(* sets the node of the row executes it, pings the row and ends it, and    *)
(* any node ends a run whose pings stopped.                                *)
(*                                                                         *)
(* Nodes hear of a run and of its end from the notifications, which they   *)
(* apply in order, each at its own time (what Replication shows).          *)
(*                                                                         *)
(* Abstracted: the import or export itself, the metrics, the settings a    *)
(* run is created with; the ping time is fresh or older than 15 seconds;   *)
(* a node that starts loads its state, listens and tries the live runs in  *)
(* one step; a pipeline is enabled as long as it exists, and a node        *)
(* creates one run at a time. A node that stops, by a crash or by Close,   *)
(* ends none of its runs.                                                  *)
(***************************************************************************)
EXTENDS Integers, Sequences

CONSTANTS
  Nodes,
  MaxRuns,   \* bound: how many runs are created
  MaxEvents, \* bound: how many times the organization is disabled, the pipeline is
             \* deleted, a node stops, or its pings or the answer of the database
             \* to it are late
  None

ASSUME PipelineRunsAssumption ==
  /\ MaxRuns \in Nat /\ MaxEvents \in Nat
  /\ None \notin Nodes

Runs == 1 .. MaxRuns

VARIABLES
  \* the database
  row,         \* the row of each run, see Row
  cursor,      \* the run whose cursor the pipeline has, or 0
  exists,      \* whether the pipeline exists
  orgEnabled,  \* whether its organization is enabled
  log,         \* the committed notifications
  \* the nodes
  applied,     \* how many notifications the node applied, or -1 if it is down
  liveRuns,    \* state.liveRuns
  task,        \* where the goroutine of tryStartPipelineRun is, see Places
  localLiveRuns, \* the runs whose executionCtx is not cancelled
  ending,      \* the runs that the cleaner is ending
  creating,    \* the nodes whose createRun has found the organization enabled
  events       \* how many of the events that MaxEvents bounds there were

dbVars   == <<row, cursor, exists, orgEnabled, log>>
nodeVars == <<applied, liveRuns, task, localLiveRuns, ending, creating>>
vars     == <<dbVars, nodeVars, events>>

\* end: how the run ended, "live" while it did not, "none" if there is no row;
\* fresh: of a live run, whether ping_time is less than 15 seconds old.
Row == [node : Nodes \cup {None}, fresh : BOOLEAN,
        end : {"none", "live", "completed", "failed", "orphaned", "disabled"}]

\* acquired: the UPDATE succeeded; execute: in importUsers or exportProfiles;
\* end: in endLiveRun.
Places == {"none", "acquire", "acquired", "execute", "end"}

Notification == [kind : {"run", "end"}, run : Runs]
                  \cup [kind : {"disable", "delete"}, run : {0}]

Up(n) == applied[n] >= 0

Live == {r \in Runs : row[r].end = "live"}

Init ==
  /\ row = [r \in Runs |-> [node |-> None, fresh |-> FALSE, end |-> "none"]]
  /\ cursor = 0
  /\ exists = TRUE
  /\ orgEnabled = TRUE
  /\ log = <<>>
  /\ applied = [n \in Nodes |-> 0]
  /\ liveRuns = [n \in Nodes |-> {}]
  /\ task = [n \in Nodes |-> [r \in Runs |-> "none"]]
  /\ localLiveRuns = [n \in Nodes |-> {}]
  /\ ending = [n \in Nodes |-> {}]
  /\ creating = {}
  /\ events = 0

-----------------------------------------------------------------------------
(* The transactions that create, disable and delete.                       *)

\* One more event, within the bound.
Event == events < MaxEvents /\ events' = events + 1

Notify(kind, r) == log' = Append(log, [kind |-> kind, run |-> r])

\* The transaction of createRun reads that the pipeline exists and that its
\* organization is enabled. Nothing keeps it so until the run is inserted.
CheckEnabled(n) ==
  /\ Up(n) /\ n \notin creating
  /\ exists /\ orgEnabled
  /\ \E r \in Runs : row[r].end = "none"  \* the bound
  /\ creating' = creating \cup {n}
  /\ UNCHANGED <<dbVars, applied, liveRuns, task, localLiveRuns, ending, events>>

\* The pipeline is still there (pipelines_runs_pipeline_fkey) and no run of it
\* is live (pipelines_one_live_run_idx).
Insertable == exists /\ Live = {}

InsertRun(r) ==
  /\ \A q \in Runs : row[q].end = "none" <=> q >= r
  /\ row' = [row EXCEPT ![r] = [node |-> None, fresh |-> TRUE, end |-> "live"]]
  /\ Notify("run", r)

\* The rest of createRun: the run is inserted, or the creation fails.
CreateRun(n) ==
  /\ n \in creating
  /\ creating' = creating \ {n}
  /\ \/ Insertable /\ \E r \in Runs : InsertRun(r)
     \/ ~Insertable /\ UNCHANGED <<row, log>>
  /\ UNCHANGED <<cursor, exists, orgEnabled, applied, liveRuns, task,
                 localLiveRuns, ending, events>>

\* Organization.SetStatus to disabled: endOrganizationLiveRunsQuery ends the
\* live runs, acquired or not. A run that is being created is not among them.
DisableOrganization ==
  /\ exists /\ orgEnabled /\ Event
  /\ orgEnabled' = FALSE
  /\ row' = [r \in Runs |-> IF r \in Live
                         THEN [row[r] EXCEPT !.end = "disabled", !.fresh = FALSE]
                         ELSE row[r]]
  /\ Notify("disable", 0)
  /\ UNCHANGED <<cursor, exists, nodeVars>>

\* The same, to enabled. Its notification changes nothing about runs.
EnableOrganization ==
  /\ exists /\ ~orgEnabled
  /\ orgEnabled' = TRUE
  /\ UNCHANGED <<row, cursor, exists, log, nodeVars, events>>

\* The pipeline is deleted, alone or with its connection, workspace or
\* organization, and its runs with it.
DeletePipeline ==
  /\ exists /\ Event
  /\ exists' = FALSE
  /\ row' = [r \in Runs |-> [row[r] EXCEPT !.end = "none", !.fresh = FALSE]]
  /\ Notify("delete", 0)
  /\ UNCHANGED <<cursor, orgEnabled, nodeVars>>

-----------------------------------------------------------------------------
(* The notifications on a node.                                            *)

\* The runs that the notification ends in the state of node n.
EndedBy(n, ntf) ==
  CASE ntf.kind = "end" -> {ntf.run}
    [] ntf.kind \in {"disable", "delete"} -> liveRuns[n]
    [] ntf.kind = "run" -> {}

\* runPipeline and onRunPipeline, endPipelineRun and onEndPipelineRun,
\* setOrganizationStatus and onSetOrganizationStatus, deletePipeline and
\* onDeletePipeline (and the like for connections, workspaces and
\* organizations): the ended runs leave the state, and their local contexts
\* are cancelled, if they are there.
ApplyNotification(n) ==
  LET ntf == log[applied[n] + 1]
      started == IF ntf.kind = "run" THEN {ntf.run} ELSE {}
      ended == EndedBy(n, ntf)
  IN
  /\ Up(n) /\ applied[n] < Len(log)
  /\ applied' = [applied EXCEPT ![n] = @ + 1]
  /\ liveRuns' = [liveRuns EXCEPT ![n] = (@ \ ended) \cup started]
  /\ task' = [task EXCEPT ![n] = [r \in Runs |-> IF r \in started THEN "acquire"
                                                 ELSE @[r]]]
  /\ localLiveRuns' = [localLiveRuns EXCEPT ![n] = @ \ ended]
  /\ UNCHANGED <<dbVars, ending, creating, events>>

\* The node stops, with what it had in memory.
Stop(n) ==
  /\ Up(n) /\ Event
  /\ applied' = [applied EXCEPT ![n] = -1]
  /\ liveRuns' = [liveRuns EXCEPT ![n] = {}]
  /\ task' = [task EXCEPT ![n] = [r \in Runs |-> "none"]]
  /\ localLiveRuns' = [localLiveRuns EXCEPT ![n] = {}]
  /\ ending' = [ending EXCEPT ![n] = {}]
  /\ creating' = creating \ {n}
  /\ UNCHANGED dbVars


\* "Try to start live runs that have not started yet.": as nothing sets the
\* node of a run in the state, it tries all the live ones.
TriedAtStart == Live

Start(n) ==
  /\ ~Up(n)
  /\ applied' = [applied EXCEPT ![n] = Len(log)]
  /\ liveRuns' = [liveRuns EXCEPT ![n] = Live]
  /\ task' = [task EXCEPT ![n] = [r \in Runs |-> IF r \in TriedAtStart THEN "acquire"
                                                 ELSE "none"]]
  /\ UNCHANGED <<dbVars, localLiveRuns, ending, creating, events>>

-----------------------------------------------------------------------------
(* tryStartPipelineRun.                                                    *)

\* The goroutine returns, and its deferred calls cancel the context.
Return(n, r) ==
  /\ task' = [task EXCEPT ![n][r] = "none"]
  /\ localLiveRuns' = [localLiveRuns EXCEPT ![n] = @ \ {r}]

Goto(n, r, place) ==
  /\ task' = [task EXCEPT ![n][r] = place]
  /\ UNCHANGED localLiveRuns

\* Mutant: the node of the row is not compared.
AcquirableAny(r) == row[r].end # "none"

\* The UPDATE finds the row: it does not look at end_time.
Acquirable(r) == row[r].end # "none" /\ row[r].node = None

\* The UPDATE that acquires the run. If its answer is lost it is retried.
Acquire(n, r) ==
  /\ task[n][r] = "acquire"
  /\ \/ /\ Acquirable(r)
        /\ row' = [row EXCEPT ![r].node = n, ![r].fresh = row[r].end = "live"]
        /\ \/ Goto(n, r, "acquired") /\ UNCHANGED events
           \/ /\ Event
              /\ UNCHANGED <<task, localLiveRuns>>
     \/ /\ ~Acquirable(r)
        /\ Return(n, r)
        /\ UNCHANGED <<row, events>>
  /\ UNCHANGED <<cursor, exists, orgEnabled, log, applied, liveRuns, ending, creating>>

Cancelled(n, r) == r \notin localLiveRuns[n]

\* localLiveRuns.WithCancel, and the metrics are prepared in the row, if it is
\* still there.
WithCancel(n, r) ==
  /\ task[n][r] = "acquired"
  /\ \/ /\ row[r].end # "none"
        /\ task' = [task EXCEPT ![n][r] = "execute"]
        /\ localLiveRuns' = [localLiveRuns EXCEPT ![n] = @ \cup {r}]
     \/ row[r].end = "none" /\ Return(n, r)
  /\ UNCHANGED <<dbVars, applied, liveRuns, ending, creating, events>>

\* The import or the export returns.
Execute(n, r) ==
  /\ task[n][r] = "execute"
  /\ \/ ~Cancelled(n, r) /\ Goto(n, r, "end")
     \/ Cancelled(n, r) /\ Return(n, r)
  /\ UNCHANGED <<dbVars, applied, liveRuns, ending, creating, events>>

\* Mutant: a run that already ended is ended again.
EndableAny(r) == row[r].end # "none"

Endable(r) == row[r].end = "live"

\* The transaction of endLiveRun, which does nothing if the run has ended. Only
\* a run that completed moves the cursor of the pipeline.
endLiveRun(r, outcome) ==
  \/ /\ Endable(r)
     /\ row' = [row EXCEPT ![r].end = outcome, ![r].fresh = FALSE]
     /\ cursor' = IF outcome = "completed" THEN r ELSE cursor
     /\ Notify("end", r)
  \/ ~Endable(r) /\ UNCHANGED <<row, cursor, log>>

\* The goroutine ends the run, under the context of the core.
EndRun(n, r) ==
  /\ task[n][r] = "end"
  /\ \E outcome \in {"completed", "failed"} : endLiveRun(r, outcome)
  /\ Return(n, r)
  /\ UNCHANGED <<exists, orgEnabled, applied, liveRuns, ending, creating, events>>

\* The ping goroutine runs from WithCancel until the context is cancelled.
Pinging(r) ==
  \E n \in Nodes : /\ task[n][r] \in {"execute", "end"}
                   /\ ~Cancelled(n, r)

Ping(r) ==
  /\ row[r].end = "live" /\ Pinging(r) /\ ~row[r].fresh
  /\ row' = [row EXCEPT ![r].fresh = TRUE]
  /\ UNCHANGED <<cursor, exists, orgEnabled, log, nodeVars, events>>

\* A node has acquired the run and is not so far yet that it pings.
Starting(r) == \E n \in Nodes : task[n][r] = "acquired"

\* 15 seconds pass without a ping. While the goroutine runs, that is a stall.
PingExpires(r) ==
  /\ row[r].end = "live" /\ row[r].fresh
  /\ \/ (Starting(r) \/ Pinging(r)) /\ Event
     \/ ~Starting(r) /\ ~Pinging(r) /\ UNCHANGED events
  /\ row' = [row EXCEPT ![r].fresh = FALSE]
  /\ UNCHANGED <<cursor, exists, orgEnabled, log, nodeVars>>

-----------------------------------------------------------------------------
(* terminateOrphanedRuns.                                                  *)

\* Mutant: also runs that no node has acquired yet.
OrphanedPending(r) == row[r].end = "live" /\ ~row[r].fresh

Orphaned(r) == row[r].end = "live" /\ row[r].node # None /\ ~row[r].fresh

\* The query finds the run, which the state must have and which is not being
\* ended already.
FindOrphaned(n, r) ==
  /\ Up(n) /\ Orphaned(r)
  /\ r \in liveRuns[n] \ ending[n]
  /\ ending' = [ending EXCEPT ![n] = @ \cup {r}]
  /\ UNCHANGED <<dbVars, applied, liveRuns, task, localLiveRuns, creating, events>>

EndOrphaned(n, r) ==
  /\ r \in ending[n]
  /\ endLiveRun(r, "orphaned")
  /\ ending' = [ending EXCEPT ![n] = @ \ {r}]
  /\ UNCHANGED <<exists, orgEnabled, applied, liveRuns, task, localLiveRuns, creating, events>>

-----------------------------------------------------------------------------
Task(n, r) ==
  \/ Acquire(n, r) \/ WithCancel(n, r) \/ Execute(n, r) \/ EndRun(n, r)

\* What goes on by itself.
Progress ==
  \/ \E n \in Nodes : ApplyNotification(n) \/ Start(n)
  \/ \E n \in Nodes, r \in Runs : Task(n, r) \/ FindOrphaned(n, r) \/ EndOrphaned(n, r)
  \/ \E r \in Runs : Ping(r) \/ PingExpires(r)

Next ==
  \/ \E n \in Nodes : CheckEnabled(n) \/ CreateRun(n)
  \/ DisableOrganization \/ EnableOrganization \/ DeletePipeline
  \/ \E n \in Nodes : Stop(n)
  \/ Progress

Spec == Init /\ [][Next]_vars

\* Notifications arrive, goroutines and the cleaner run, an import or export
\* returns, a run is pinged or its ping time grows old, and nodes are restarted.
\* Each of these is over after finitely many steps, so that it is enough that
\* one of those that can happen does.
Fairness == WF_vars(Progress)

FairSpec == Spec /\ Fairness

-----------------------------------------------------------------------------
(* Properties.                                                             *)

\* The state has the types of the code's fields and columns.
TypeOK ==
  /\ row \in [Runs -> Row]
  /\ cursor \in {0} \cup Runs
  /\ exists \in BOOLEAN /\ orgEnabled \in BOOLEAN
  /\ log \in Seq(Notification)
  /\ applied \in [Nodes -> -1 .. Len(log)]
  /\ liveRuns \in [Nodes -> SUBSET Runs]
  /\ task \in [Nodes -> [Runs -> Places]]
  /\ localLiveRuns \in [Nodes -> SUBSET Runs]
  /\ ending \in [Nodes -> SUBSET Runs]
  /\ creating \subseteq Nodes
  /\ events \in 0 .. MaxEvents

\* Node n owns run r: it acquired it, and its goroutine has not returned.
Owns(n, r) == task[n][r] \notin {"none", "acquire"}

\* A run is executed by one node, the one its row names, whatever nodes hear
\* of it, restart or retry ("If already acquired by another node, return
\* early").
ExecutedByOne == \A n \in Nodes, r \in Runs : Owns(n, r) => row[r].node = n

\* The outcome of a run is decided once: a node that was given up and still
\* finishes, a cleaner that comes late, and a disabled organization do not end
\* it again, and only a run that completed moved the cursor.
EndedOnce ==
  [][\A r \in Runs : row[r].end \notin {"none", "live"} =>
       /\ row'[r].end \in {row[r].end, "none"}
       /\ cursor' = r => cursor = r]_vars

\* No run is given up for no reason: as long as no node stops or stalls, none
\* is ended as orphaned, however long it waits to be acquired ("so the cleaner
\* does not consider it stale while it waits to be acquired by a node") or runs.
NotGivenUp ==
  events = 0 => \A r \in Runs : row[r].end # "orphaned"

=============================================================================
