------------------------------ MODULE Scheduler ------------------------------
(***************************************************************************)
(* pipelineScheduler and pipelineExecutor (core/pipeline_scheduler.go) of  *)
(* one node, with the part of its replicated state (core/internal/state/   *)
(* keep.go) that they read.                                                *)
(*                                                                         *)
(* The state does not change a pipeline in place: a notification replaces  *)
(* it by a changed copy, and whoever holds a pointer to the old one keeps  *)
(* seeing the old values. The exception is the start of a run, which is    *)
(* written into the pipeline itself. The executor and its ticker hold such *)
(* pointers: a Pointer is to the pipeline of the state as long as it is    *)
(* not replaced there, and to the values it had from then on.              *)
(*                                                                         *)
(* A notification and the listener it calls are one action, as listeners   *)
(* are called one at a time. Beside them run the ticker, which iterates    *)
(* over its slice without the mutex, and the goroutines that remove a      *)
(* deleted pipeline and create a run.                                      *)
(*                                                                         *)
(* Abstracted: one connection of one workspace, whose pipelines have the   *)
(* same ScheduleStart, so that a period is a bucket, and which old copies  *)
(* of a pipeline follow when it is replaced; the database holds what the   *)
(* state holds; slices.Delete is one step, while the ticker could see the  *)
(* last element twice in the middle of it.                                 *)
(***************************************************************************)
EXTENDS Integers, Sequences, SequencesExt, FiniteSetsExt

CONSTANTS
  Pipelines,
  PeriodsOf,  \* the schedule periods each pipeline is given, 0 for none
  MaxChanges, \* bound: how many changes, elections and ends of runs there are
  None

Periods == (UNION {PeriodsOf[p] : p \in Pipelines}) \ {0}

Pipeline == [enabled : BOOLEAN, period : Nat, run : BOOLEAN]

ASSUME SchedulerAssumption ==
  /\ PeriodsOf \in [Pipelines -> SUBSET Nat]
  /\ MaxChanges \in Nat
  /\ None \notin Pipelines \cup Pipeline

VARIABLES
  \* state.State
  pipelines,   \* the pipelines of the state, None for one that is not there
  deleted,     \* the pipelines that were deleted
  orgEnabled,  \* whether the organization is enabled
  mode,        \* the mode of the warehouse, "normal" or "other"
  \* pipelineScheduler
  executor,    \* "none", "open", or "closed" while its ticker still runs
  closed,      \* whether Close was called
  \* pipelineExecutor
  pe,          \* the executor and its ticker, see Executor
  removals,    \* the pipelines that a goroutine is about to remove
  creating,    \* the pipelines that a goroutine is about to call createRun for
  panicked,    \* whether the ticker dereferenced nil
  changes      \* how many of the changes that MaxChanges bounds there were

stateVars == <<pipelines, deleted, orgEnabled, mode>>
execVars  == <<executor, closed, removals, creating, panicked>>
vars      == <<stateVars, execVars, pe, changes>>

\* old: None while it points to the pipeline of the state, else the values
\* of the copy it points to.
Pointer == [id : Pipelines, old : Pipeline \cup {None}]

\* buckets: pe.pipelines; indexes: the period each pipeline has in
\* pe.indexes, or 0; iterating: the period whose slice the ticker iterates
\* over, or 0; slice: that slice, with None for nil; next: the place it reads
\* next; shared: whether buckets[iterating] still has the array of the slice.
Executor == [buckets : [Periods -> Seq(Pointer)],
             indexes : [Pipelines -> Periods \cup {0}],
             iterating : Periods \cup {0}, slice : Seq(Pointer \cup {None}),
             next : Nat, shared : BOOLEAN]

Existing == {p \in Pipelines : pipelines[p] # None}

\* The pipelines with a schedule period.
Periodic == {p \in Existing : pipelines[p].period # 0}

EmptyExecutor ==
  [buckets |-> [per \in Periods |-> <<>>], indexes |-> [p \in Pipelines |-> 0],
   iterating |-> 0, slice |-> <<>>, next |-> 1, shared |-> FALSE]

Init ==
  /\ pipelines = [p \in Pipelines |-> None]
  /\ deleted = {}
  /\ orgEnabled = TRUE
  /\ mode = "normal"
  /\ executor = "none"
  /\ closed = FALSE
  /\ pe = EmptyExecutor
  /\ removals = {}
  /\ creating = {}
  /\ panicked = FALSE
  /\ changes = 0

-----------------------------------------------------------------------------
(* The methods of pipelineExecutor, as functions of the executor.          *)

\* p is appended to a clone of the slice of its period: an iteration over the
\* slice does not see it.
AddPipeline(e, p, per) ==
  [e EXCEPT !.buckets[per] = Append(@, [id |-> p, old |-> None]),
            !.indexes[p] = per,
            !.shared = @ /\ e.iterating # per]

\* slices.Delete(pipelines, k, k+1) works in the array that the ticker may be
\* iterating over: the elements after k are moved to the left and the last
\* one is set to nil.
Delete(e, per, k) ==
  LET b == e.buckets[per] IN
  [e EXCEPT
     !.buckets[per] = RemoveAt(b, k),
     !.slice = IF e.shared /\ e.iterating = per
               THEN RemoveAt(b, k) \o <<None>>
                      \o SubSeq(@, Len(b) + 1, Len(@))
               ELSE @,
     !.shared = @ /\ (e.iterating = per => Len(b) > 1)]

\* p is deleted from the slice its index names. The index stays.
RemovePipeline(e, p) ==
  LET per == e.indexes[p]
      places == {k \in DOMAIN e.buckets[per] : e.buckets[per][k].id = p}
  IN  IF per = 0 THEN e
      ELSE IF places = {} THEN e
      ELSE Delete(e, per, Min(places))

\* Mutant: the pipeline is not removed from its old bucket.
SetPeriodAdd(e, p, per) ==
  IF e.indexes[p] # 0 /\ e.indexes[p] = per THEN e
  ELSE IF per = 0 THEN RemovePipeline(e, p) ELSE AddPipeline(e, p, per)

\* p moves to the slice of its new period, unless its index names that one.
SetPeriod(e, p, per) ==
  IF e.indexes[p] # 0 /\ e.indexes[p] = per THEN e
  ELSE LET r == RemovePipeline(e, p)
       IN  IF per = 0 THEN r ELSE AddPipeline(r, p, per)

\* Mutant: a pipeline that has an index is taken to be there already.
AddAllNew(e, ps) ==
  FoldSet(LAMBDA p, f : AddPipeline(f, p, pipelines[p].period), e,
          {p \in ps : e.indexes[p] = 0})

AddAll(e, ps) ==
  FoldSet(LAMBDA p, f : AddPipeline(f, p, pipelines[p].period), e, ps)

RemoveAll(e, ps) == FoldSet(LAMBDA p, f : RemovePipeline(f, p), e, ps)

-----------------------------------------------------------------------------
(* The notifications and their listeners.                                  *)

\* One more change, within the bound. A panic ends the process, and with it
\* every action.
Change == ~panicked /\ changes < MaxChanges /\ changes' = changes + 1

\* replacePipeline, and what deleting a pipeline comes to: the pointers to
\* the pipelines ps of the state now point to a copy that it has no more.
Detached(e, ps) ==
  LET Detach(x) == IF x # None /\ x.id \in ps /\ x.old = None
                   THEN [x EXCEPT !.old = pipelines[x.id]] ELSE x
  IN  [e EXCEPT
         !.buckets = [per \in Periods |->
                        [k \in DOMAIN e.buckets[per] |-> Detach(e.buckets[per][k])]],
         !.slice = [k \in DOMAIN @ |-> Detach(@[k])]]

\* CreatePipeline and onCreatePipeline.
CreatePipeline(p, per, enabled) ==
  /\ ~panicked /\ p \notin Existing \cup deleted
  /\ pipelines' = [pipelines EXCEPT ![p] =
                     [enabled |-> enabled, period |-> per, run |-> FALSE]]
  /\ pe' = IF executor = "open" /\ orgEnabled /\ per # 0
           THEN AddPipeline(pe, p, per) ELSE pe
  /\ UNCHANGED <<deleted, orgEnabled, mode, execVars, changes>>

\* What the listeners of deletions remove, in a goroutine.
ToRemove(ps) == IF executor = "open" /\ orgEnabled THEN ps ELSE {}

\* DeletePipeline, and DeleteConnection, DeleteWorkspace and
\* DeleteOrganization, which delete all the pipelines.
DeletePipelines(ps) ==
  /\ ~panicked /\ ps # {} /\ ps \subseteq Existing
  /\ pipelines' = [p \in Pipelines |-> IF p \in ps THEN None ELSE pipelines[p]]
  /\ deleted' = deleted \cup ps
  /\ pe' = Detached(pe, ps)
  /\ removals' = removals \cup ToRemove(ps)
  /\ UNCHANGED <<orgEnabled, mode, executor, closed, creating, panicked, changes>>

\* SetPipelineSchedulePeriod and onSetPipelineSchedulePeriod.
SetSchedulePeriod(p, per) ==
  /\ Change
  /\ p \in Existing /\ per # pipelines[p].period
  /\ pipelines' = [pipelines EXCEPT ![p].period = per]
  /\ pe' = IF executor = "open" /\ orgEnabled
           THEN SetPeriod(Detached(pe, {p}), p, per) ELSE Detached(pe, {p})
  /\ UNCHANGED <<deleted, orgEnabled, mode, execVars>>

\* SetPipelineStatus, for which the scheduler has no listener.
SetStatus(p) ==
  /\ Change /\ p \in Existing
  /\ pipelines' = [pipelines EXCEPT ![p].enabled = ~@]
  /\ pe' = Detached(pe, {p})
  /\ UNCHANGED <<deleted, orgEnabled, mode, execVars>>

\* EndPipelineRun, for which the scheduler has no listener either.
EndRun(p) ==
  /\ Change
  /\ p \in Existing /\ pipelines[p].run
  /\ pipelines' = [pipelines EXCEPT ![p].run = FALSE]
  /\ pe' = Detached(pe, {p})
  /\ UNCHANGED <<deleted, orgEnabled, mode, execVars>>

\* SetOrganizationStatus and onSetOrganizationStatus, to disabled: the live
\* runs are ended.
DisableOrganization ==
  LET ended == {p \in Existing : pipelines[p].run} IN
  /\ Change
  /\ orgEnabled
  /\ orgEnabled' = FALSE
  /\ pipelines' = [p \in Pipelines |->
       IF p \in ended THEN [pipelines[p] EXCEPT !.run = FALSE] ELSE pipelines[p]]
  /\ pe' = IF executor = "open" THEN RemoveAll(Detached(pe, ended), Periodic)
           ELSE Detached(pe, ended)
  /\ UNCHANGED <<deleted, mode, execVars>>

\* The same, to enabled.
EnableOrganization ==
  /\ Change
  /\ ~orgEnabled
  /\ orgEnabled' = TRUE
  /\ pe' = IF executor = "open" THEN AddAll(pe, Periodic) ELSE pe
  /\ UNCHANGED <<pipelines, deleted, mode, execVars>>

\* UpdateWarehouseMode.
UpdateWarehouseMode ==
  /\ Change
  /\ mode' = IF mode = "normal" THEN "other" ELSE "normal"
  /\ UNCHANGED <<pipelines, deleted, orgEnabled, execVars, pe>>

\* ElectLeader and onElectLeader, when this node is the leader: a new executor
\* schedules the pipelines of the state. The ticker of the old one may still
\* be in its last iteration.
BecomeLeader ==
  /\ Change
  /\ ~closed /\ executor # "open"
  /\ executor' = "open"
  /\ pe' = AddAll([pe EXCEPT !.buckets = EmptyExecutor.buckets,
                             !.indexes = EmptyExecutor.indexes,
                             !.shared = FALSE],
                  IF orgEnabled THEN Periodic ELSE {})
  /\ removals' = {}
  /\ UNCHANGED <<stateVars, closed, creating, panicked>>

\* ElectLeader and onElectLeader when another node is the leader, and Close.
LoseExecutor(close) ==
  /\ Change
  /\ ~closed
  /\ close \/ executor = "open"
  /\ closed' = close
  /\ executor' = IF executor = "open" THEN "closed" ELSE executor
  /\ UNCHANGED <<stateVars, pe, removals, creating, panicked>>

-----------------------------------------------------------------------------
(* The goroutines.                                                         *)

\* The goroutine of a listener removes a deleted pipeline.
RemoveDeleted(p) ==
  /\ ~panicked /\ p \in removals
  /\ removals' = removals \ {p}
  /\ pe' = RemovePipeline(pe, p)
  /\ UNCHANGED <<stateVars, executor, closed, creating, panicked, changes>>

\* A minute of the period: the ticker reads the slice of the period.
Tick(per) ==
  /\ ~panicked /\ executor # "none"
  /\ pe.iterating = 0
  /\ pe.buckets[per] # <<>>
  /\ pe' = [pe EXCEPT !.iterating = per, !.slice = pe.buckets[per],
                      !.next = 1, !.shared = TRUE]
  /\ UNCHANGED <<stateVars, execVars, changes>>

\* What the pointer x is to.
Deref(x) == IF x.old = None THEN pipelines[x.id] ELSE x.old

\* Mutant: a pipeline is executed only while it is running.
toExecuteRun(p) == p.enabled /\ p.period # 0 /\ mode = "normal" /\ p.run

toExecute(p) == p.enabled /\ p.period # 0 /\ mode = "normal" /\ ~p.run

\* The ticker reads the next element of its slice, which may be nil, and
\* starts a goroutine that creates the run. The store of the workspace is
\* there as long as the workspace is.
TickNext ==
  LET x == pe.slice[pe.next] IN
  /\ ~panicked /\ pe.iterating # 0
  /\ panicked' = (x = None)
  /\ \/ x # None /\ toExecute(Deref(x)) /\ creating' = creating \cup {x.id}
     \/ x # None /\ ~toExecute(Deref(x)) /\ UNCHANGED creating
     \/ x = None /\ UNCHANGED creating
  /\ pe' = IF pe.next = Len(pe.slice)
           THEN [pe EXCEPT !.iterating = 0, !.slice = <<>>, !.next = 1,
                           !.shared = FALSE]
           ELSE [pe EXCEPT !.next = @ + 1]
  /\ UNCHANGED <<stateVars, executor, closed, removals, changes>>

\* The ticker of a closed executor ends.
TickerEnds ==
  /\ ~panicked /\ executor = "closed" /\ pe.iterating = 0
  /\ executor' = "none"
  /\ removals' = {}
  /\ pe' = EmptyExecutor
  /\ UNCHANGED <<stateVars, closed, creating, panicked, changes>>

\* The checks of the transaction of createRun.
CanRun(p) ==
  /\ p \in Existing /\ pipelines[p].enabled /\ orgEnabled
  /\ ~pipelines[p].run

\* createRun ends with an error, or with a RunPipeline notification, which
\* writes the run into the pipeline of the state. Close cancels its context.
CreateRun(p) ==
  /\ ~panicked /\ p \in creating
  /\ creating' = creating \ {p}
  /\ \/ CanRun(p) /\ pipelines' = [pipelines EXCEPT ![p].run = TRUE]
     \/ (~CanRun(p) \/ closed) /\ UNCHANGED pipelines
  /\ UNCHANGED <<deleted, orgEnabled, mode, executor, closed, pe, removals,
                 panicked, changes>>

\* A run that is not scheduled: Pipeline.Run.
RunNow(p) ==
  /\ ~panicked /\ CanRun(p) /\ mode = "normal"
  /\ pipelines' = [pipelines EXCEPT ![p].run = TRUE]
  /\ UNCHANGED <<deleted, orgEnabled, mode, execVars, pe, changes>>

-----------------------------------------------------------------------------
Next ==
  \/ \E p \in Pipelines :
       \/ \E per \in PeriodsOf[p], enabled \in BOOLEAN :
            CreatePipeline(p, per, enabled)
       \/ DeletePipelines({p}) \/ SetStatus(p) \/ EndRun(p)
       \/ \E per \in PeriodsOf[p] : SetSchedulePeriod(p, per)
       \/ RemoveDeleted(p) \/ CreateRun(p) \/ RunNow(p)
  \/ DeletePipelines(Existing)
  \/ DisableOrganization \/ EnableOrganization \/ UpdateWarehouseMode
  \/ BecomeLeader \/ \E close \in BOOLEAN : LoseExecutor(close)
  \/ \E per \in Periods : Tick(per)
  \/ TickNext \/ TickerEnds

Spec == Init /\ [][Next]_vars

\* Each minute of a period comes, and the goroutines run.
Fairness ==
  /\ \A per \in Periods : SF_vars(Tick(per))
  /\ WF_vars(TickNext)
  /\ \A p \in Pipelines : WF_vars(CreateRun(p))

FairSpec == Spec /\ Fairness

-----------------------------------------------------------------------------
(* Properties.                                                             *)

\* The state has the types of the code's fields.
TypeOK ==
  /\ pipelines \in [Pipelines -> Pipeline \cup {None}]
  /\ deleted \subseteq Pipelines
  /\ orgEnabled \in BOOLEAN
  /\ mode \in {"normal", "other"}
  /\ executor \in {"none", "open", "closed"}
  /\ closed \in BOOLEAN
  /\ pe \in Executor
  /\ removals \subseteq Pipelines
  /\ creating \subseteq Pipelines
  /\ panicked \in BOOLEAN
  /\ changes \in 0 .. MaxChanges

\* Where the executor has p: periods and places.
Entries(p) ==
  UNION {{<<per, k>> : k \in {j \in DOMAIN pe.buckets[per] :
                                pe.buckets[per][j].id = p}} : per \in Periods}

\* A pipeline whose period is due on this node.
Due(p) == executor = "open" /\ orgEnabled /\ p \in Periodic

\* The leader schedules a pipeline at most once, in the bucket of the period
\* it has now, and schedules no pipeline that was deleted (unless its removal
\* is on its way), that has no period or whose organization is disabled,
\* through any sequence of changes of periods and status, elections and
\* removals that come late.
ScheduledForPeriod ==
  executor = "open" =>
    \A p \in Pipelines : \A a, b \in Entries(p) :
      a = b /\ (p \in removals \/ (Due(p) /\ a[1] = pipelines[p].period))

\* A pipeline that is due is in the executor, unless the index that
\* RemovePipeline left behind makes SetPeriod believe that it is: no other
\* sequence of changes loses it.
DueScheduled ==
  \A p \in Pipelines :
    Due(p) /\ Entries(p) = {} => pe.indexes[p] = pipelines[p].period

\* "toExecute reports whether pipeline can be executed": what it says of the
\* copy that is scheduled is true of the pipeline.
ToExecuteCurrent ==
  executor = "open" =>
    \A p \in Existing : \A a \in Entries(p) :
      toExecute(Deref(pe.buckets[a[1]][a[2]])) = toExecute(pipelines[p])

\* A pipeline that can be executed and was not replaced since it was scheduled
\* is run, unless it is replaced, the node loses the leadership or the ticker
\* fails.
Executable(p) ==
  /\ Due(p) /\ toExecute(pipelines[p])
  /\ \E a \in Entries(p) : pe.buckets[a[1]][a[2]].old = None

ScheduledRuns ==
  \A p \in Pipelines : Executable(p) ~> (~Executable(p) \/ panicked)
=============================================================================
