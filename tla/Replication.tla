----------------------------- MODULE Replication -----------------------------
(***************************************************************************)
(* The replication of the state (core/internal/state/notifier.go,          *)
(* replicate.go, the application of notifications in keep.go, and New,     *)
(* Transaction and waitVersion in state.go): each change is a row of the   *)
(* notifications table, with the next version, and a NOTIFY to the nodes   *)
(* that listen. A node applies what it is notified of, and reads the table *)
(* when it may have missed something.                                      *)
(*                                                                         *)
(* A NOTIFY reaches the sessions that are open when the transaction        *)
(* commits, in the order of the commits. It is lost with its session, or   *)
(* alone. A long one is cut into fragments.                                *)
(*                                                                         *)
(* Abstracted: what a notification changes (a node's state is the sequence *)
(* of the notifications it reflects), time (the interval between two       *)
(* replays may end whenever the worker waits), the back-off, encryption.   *)
(* ElectLeader and SeeLeader, which have no version, are in Election.      *)
(***************************************************************************)
EXTENDS Integers, Sequences, SequencesExt

CONSTANTS
  Nodes,
  MaxVersion,  \* bound: how many notifications are committed
  Long,        \* the versions whose NOTIFY has two fragments
  MaxFailures  \* bound: how many sessions break, fragments are lost and nodes stop

ASSUME ReplicationAssumption ==
  /\ MaxVersion \in Nat /\ MaxFailures \in Nat
  /\ Long \subseteq 1 .. MaxVersion

VARIABLES
  committed,     \* the last version of the notifications table
  failures,      \* how many failures there were
  conn,          \* the session of each node: "none", "open" or "broken"
  queue,         \* the fragments on their way to it
  fragments,     \* session.fragments: the first fragment of this version, or 0
  pc,            \* where the worker of each node is, see Places
  applied,       \* the notifications that the node's state reflects, in order
  version,       \* state.version.current
  rows,          \* what is left of the rows of the replay query
  targetVersion, \* the local of runNotifications
  waiting        \* the versions that a Transaction of the node waits for

sessionVars == <<conn, queue, fragments>>
stateVars   == <<applied, version>>
loopVars    == <<rows, targetVersion>>
vars == <<committed, failures, sessionVars, pc, stateVars, loopVars, waiting>>

\* down: not running; load: New has its session and loads the state; boot: New
\* is about to replay; bootReplay: in replay, called by New; top: at the top of
\* the loop of runNotifications, where replayNeeded is true; error: there with
\* an error; replay: in replay, called by the loop; wait: in
\* WaitForNotification, or on the way to it because no replay is needed; exit:
\* after a terminal error.
Places == {"down", "load", "boot", "bootReplay", "top", "error", "replay", "wait", "exit"}

Replaying == {"bootReplay", "replay"}

Init ==
  /\ committed = 0 /\ failures = 0
  /\ conn = [n \in Nodes |-> "none"]
  /\ queue = [n \in Nodes |-> <<>>]
  /\ fragments = [n \in Nodes |-> 0]
  /\ pc = [n \in Nodes |-> "down"]
  /\ applied = [n \in Nodes |-> <<>>]
  /\ version = [n \in Nodes |-> 0]
  /\ rows = [n \in Nodes |-> <<>>]
  /\ targetVersion = [n \in Nodes |-> 0]
  /\ waiting = [n \in Nodes |-> {}]

-----------------------------------------------------------------------------
(* The transactions.                                                       *)

\* The fragments of the NOTIFY of version v.
Fragments(v) ==
  IF v \in Long THEN <<[version |-> v, last |-> FALSE], [version |-> v, last |-> TRUE]>>
  ELSE <<[version |-> v, last |-> TRUE]>>

\* A node that runs commits a change: Notify locks the table, so that versions
\* have no gap and are committed in order. The sessions that listen get the
\* fragments, and the caller waits for the version.
Transaction(n) ==
  /\ pc[n] \in {"top", "error", "replay", "wait"}
  /\ committed < MaxVersion
  /\ committed' = committed + 1
  /\ queue' = [m \in Nodes |->
                 IF conn[m] = "open" THEN queue[m] \o Fragments(committed')
                 ELSE queue[m]]
  /\ waiting' = [waiting EXCEPT ![n] = @ \cup {committed'}]
  /\ UNCHANGED <<failures, conn, fragments, pc, stateVars, loopVars>>

\* Mutant: the caller does not wait.
ReachedAlways(n, v) == TRUE

\* state.version.current >= targetVersion
Reached(n, v) == version[n] >= v

\* waitVersion returns nil.
TransactionReturns(n, v) ==
  /\ v \in waiting[n] /\ Reached(n, v)
  /\ waiting' = [waiting EXCEPT ![n] = @ \ {v}]
  /\ UNCHANGED <<committed, failures, sessionVars, pc, stateVars, loopVars>>

-----------------------------------------------------------------------------
(* Failures.                                                               *)

\* The session breaks. The fragments that did not arrive are lost.
Break(n) ==
  /\ failures < MaxFailures
  /\ conn[n] = "open"
  /\ failures' = failures + 1
  /\ conn' = [conn EXCEPT ![n] = "broken"]
  /\ \E k \in 0 .. Len(queue[n]) :
       queue' = [queue EXCEPT ![n] = SubSeq(@, 1, k)]
  /\ UNCHANGED <<committed, fragments, pc, stateVars, loopVars, waiting>>

\* A fragment is lost and the session stays open, which the gaps that
\* runNotifications handles are about.
Lose(n) ==
  /\ failures < MaxFailures
  /\ queue[n] # <<>>
  /\ failures' = failures + 1
  /\ \E k \in DOMAIN queue[n] : queue' = [queue EXCEPT ![n] = RemoveAt(@, k)]
  /\ UNCHANGED <<committed, conn, fragments, pc, stateVars, loopVars, waiting>>

\* What a process loses when it ends.
Stopped(n) ==
  /\ conn' = [conn EXCEPT ![n] = "none"]
  /\ queue' = [queue EXCEPT ![n] = <<>>]
  /\ fragments' = [fragments EXCEPT ![n] = 0]
  /\ applied' = [applied EXCEPT ![n] = <<>>]
  /\ version' = [version EXCEPT ![n] = 0]
  /\ rows' = [rows EXCEPT ![n] = <<>>]
  /\ targetVersion' = [targetVersion EXCEPT ![n] = 0]
  /\ waiting' = [waiting EXCEPT ![n] = {}]

\* The node stops, with everything it had in memory.
Crash(n) ==
  /\ failures < MaxFailures
  /\ pc[n] # "down"
  /\ failures' = failures + 1
  /\ pc' = [pc EXCEPT ![n] = "down"]
  /\ Stopped(n)
  /\ UNCHANGED committed

-----------------------------------------------------------------------------
(* New.                                                                    *)

\* LISTEN ...
Listen(n) ==
  /\ pc[n] = "down"
  /\ conn' = [conn EXCEPT ![n] = "open"]
  /\ pc' = [pc EXCEPT ![n] = "load"]
  /\ UNCHANGED <<committed, failures, queue, fragments, stateVars, loopVars, waiting>>

\* ... then the snapshot of load, with its version, ...
Load(n) ==
  /\ pc[n] = "load"
  /\ applied' = [applied EXCEPT ![n] = [v \in 1 .. committed |-> v]]
  /\ version' = [version EXCEPT ![n] = committed]
  /\ pc' = [pc EXCEPT ![n] = "boot"]
  /\ UNCHANGED <<committed, failures, sessionVars, loopVars, waiting>>

\* ... then the query of the first replay. If it fails New returns an error.
BootReplay(n) ==
  /\ pc[n] = "boot"
  /\ \/ /\ conn[n] = "open"
        /\ rows' = [rows EXCEPT ![n] =
                      [k \in 1 .. committed - version[n] |-> version[n] + k]]
        /\ pc' = [pc EXCEPT ![n] = "bootReplay"]
        /\ UNCHANGED <<sessionVars, stateVars, targetVersion, waiting>>
     \/ /\ conn[n] = "broken"
        /\ pc' = [pc EXCEPT ![n] = "down"]
        /\ Stopped(n)
  /\ UNCHANGED <<committed, failures>>

-----------------------------------------------------------------------------
(* runNotifications.                                                       *)

\* After an error: a closed session is given up with what it buffered, and a
\* replay is due.
Recover(n) ==
  /\ pc[n] = "error"
  /\ pc' = [pc EXCEPT ![n] = "top"]
  /\ \/ /\ conn[n] = "broken"
        /\ conn' = [conn EXCEPT ![n] = "none"]
        /\ queue' = [queue EXCEPT ![n] = <<>>]
        /\ fragments' = [fragments EXCEPT ![n] = 0]
     \/ conn[n] # "broken" /\ UNCHANGED sessionVars
  /\ UNCHANGED <<committed, failures, stateVars, rows, targetVersion, waiting>>

\* A new session, which may have missed notifications.
Reconnect(n) ==
  /\ pc[n] = "top" /\ conn[n] = "none"
  /\ conn' = [conn EXCEPT ![n] = "open"]
  /\ UNCHANGED <<committed, failures, queue, fragments, pc, stateVars, loopVars,
                 waiting>>

\* The query of replay.
StartReplay(n) ==
  /\ pc[n] = "top" /\ conn[n] # "none"
  /\ \/ /\ conn[n] = "open"
        /\ rows' = [rows EXCEPT ![n] =
                      [k \in 1 .. committed - version[n] |-> version[n] + k]]
        /\ pc' = [pc EXCEPT ![n] = "replay"]
     \/ /\ conn[n] = "broken"
        /\ pc' = [pc EXCEPT ![n] = "error"]
        /\ UNCHANGED rows
  /\ UNCHANGED <<committed, failures, sessionVars, stateVars, targetVersion,
                 waiting>>

\* applyNotification: the state changes, then its version is published.
Apply(n, v) ==
  /\ applied' = [applied EXCEPT ![n] = Append(@, v)]
  /\ version' = [version EXCEPT ![n] = v]

\* The next row is applied.
ReplayRow(n) ==
  /\ pc[n] \in Replaying /\ rows[n] # <<>>
  /\ \/ /\ Head(rows[n]) = version[n] + 1
        /\ Apply(n, Head(rows[n]))
        /\ rows' = [rows EXCEPT ![n] = Tail(@)]
        /\ UNCHANGED pc
     \/ /\ Head(rows[n]) # version[n] + 1
        /\ pc' = [pc EXCEPT ![n] = "exit"]
        /\ UNCHANGED <<stateVars, rows>>
  /\ UNCHANGED <<committed, failures, sessionVars, targetVersion, waiting>>

\* The session breaks before the rows are read and closed: the loop goes on
\* with an error, New returns one.
ReplayFails(n) ==
  /\ conn[n] = "broken"
  /\ \/ /\ pc[n] = "replay"
        /\ pc' = [pc EXCEPT ![n] = "error"]
        /\ rows' = [rows EXCEPT ![n] = <<>>]
        /\ UNCHANGED <<sessionVars, stateVars, targetVersion, waiting>>
     \/ /\ pc[n] = "bootReplay"
        /\ pc' = [pc EXCEPT ![n] = "down"]
        /\ Stopped(n)
  /\ UNCHANGED <<committed, failures>>

\* Mutant: a target that was reached is taken for missing.
LogEndedEarlyOne(n) == version[n] <= targetVersion[n] /\ targetVersion[n] # 0

\* The version that a NOTIFY announced is not in the table.
LogEndedEarly(n) == version[n] < targetVersion[n]

ReplayEnds(n) ==
  /\ pc[n] \in Replaying /\ rows[n] = <<>>
  /\ \/ /\ LogEndedEarly(n)
        /\ pc' = [pc EXCEPT ![n] = "exit"]
        /\ UNCHANGED targetVersion
     \/ /\ ~LogEndedEarly(n)
        /\ pc' = [pc EXCEPT ![n] = "wait"]
        /\ targetVersion' = [targetVersion EXCEPT ![n] = 0]
  /\ UNCHANGED <<committed, failures, sessionVars, stateVars, rows, waiting>>

\* Mutant: the interval between two replays is ignored.
AfterDeadlineWait == "wait"

\* Where the deadline of a wait leads: the interval between two replays is over.
AfterDeadline == "top"

\* The wait ends at its deadline, or with an error once what arrived is read.
WaitEnds(n) ==
  /\ pc[n] = "wait"
  /\ \/ pc' = [pc EXCEPT ![n] = AfterDeadline]
     \/ /\ conn[n] = "broken" /\ queue[n] = <<>>
        /\ pc' = [pc EXCEPT ![n] = "error"]
  /\ UNCHANGED <<committed, failures, sessionVars, stateVars, loopVars, waiting>>

\* Mutant: a notification with a later version is applied at once.
ApplicableAny(n, v) == v > version[n]

\* n.Version == version+1
Applicable(n, v) == v = version[n] + 1

\* A fragment arrives: the first one is kept, the last one is put together
\* with what was kept, and the notification is applied, skipped or shows that
\* others are missing. If the parts do not match, decryption fails.
Receive(n) ==
  LET f == Head(queue[n])
      whole == fragments[n] = (IF f.version \in Long THEN f.version ELSE 0)
  IN
  /\ pc[n] = "wait" /\ queue[n] # <<>>
  /\ queue' = [queue EXCEPT ![n] = Tail(@)]
  /\ fragments' = [fragments EXCEPT ![n] = IF f.last THEN 0 ELSE f.version]
  /\ \/ /\ f.last /\ ~whole
        /\ pc' = [pc EXCEPT ![n] = "error"]
        /\ UNCHANGED <<stateVars, targetVersion>>
     \/ /\ f.last /\ whole /\ Applicable(n, f.version)
        /\ Apply(n, f.version)
        /\ UNCHANGED <<pc, targetVersion>>
     \/ /\ f.last /\ whole /\ ~Applicable(n, f.version) /\ f.version > version[n]
        /\ targetVersion' = [targetVersion EXCEPT ![n] = f.version]
        /\ pc' = [pc EXCEPT ![n] = "top"]
        /\ UNCHANGED stateVars
     \/ /\ ~f.last \/ (whole /\ f.version <= version[n])
        /\ UNCHANGED <<pc, stateVars, targetVersion>>
  /\ UNCHANGED <<committed, failures, conn, rows, waiting>>

-----------------------------------------------------------------------------
Worker(n) ==
  \/ Load(n) \/ BootReplay(n) \/ Recover(n) \/ Reconnect(n) \/ StartReplay(n)
  \/ ReplayRow(n) \/ ReplayFails(n) \/ ReplayEnds(n) \/ WaitEnds(n) \/ Receive(n)

Next ==
  \E n \in Nodes :
    \/ Transaction(n) \/ Break(n) \/ Lose(n) \/ Crash(n) \/ Listen(n)
    \/ \E v \in 1 .. MaxVersion : TransactionReturns(n, v)
    \/ Worker(n)

Spec == Init /\ [][Next]_vars

\* The worker of a node that runs goes on: a wait has a deadline, and
\* PostgreSQL can be reached again sooner or later.
Fairness == \A n \in Nodes : WF_vars(Worker(n))

FairSpec == Spec /\ Fairness

-----------------------------------------------------------------------------
(* Properties.                                                             *)

Fragment == [version : 1 .. MaxVersion, last : BOOLEAN]

\* The state has the types of the code's fields.
TypeOK ==
  /\ committed \in 0 .. MaxVersion
  /\ failures \in 0 .. MaxFailures
  /\ conn \in [Nodes -> {"none", "open", "broken"}]
  /\ queue \in [Nodes -> Seq(Fragment)]
  /\ fragments \in [Nodes -> 0 .. MaxVersion]
  /\ pc \in [Nodes -> Places]
  /\ applied \in [Nodes -> Seq(1 .. MaxVersion)]
  /\ version \in [Nodes -> 0 .. MaxVersion]
  /\ rows \in [Nodes -> Seq(1 .. MaxVersion)]
  /\ targetVersion \in [Nodes -> 0 .. MaxVersion]
  /\ waiting \in [Nodes -> SUBSET (1 .. MaxVersion)]

\* A node's state reflects every notification up to its version, each once and
\* in order, whatever was lost, delivered late or read twice from the table
\* and the session.
AppliedInOrder ==
  \A n \in Nodes : applied[n] = [v \in 1 .. version[n] |-> v]

\* A node never takes lost notifications for a corrupt log, which makes the
\* process exit: an announced version is in the table when it is replayed.
NeverTerminal == \A n \in Nodes : pc[n] # "exit"

\* "it confirms local application": when Transaction returns nil, the state of
\* its node reflects the change.
ReadYourWrites ==
  [][\A n \in Nodes : \A v \in waiting[n] \ waiting'[n] :
       pc'[n] # "down" => \E k \in DOMAIN applied'[n] : applied'[n][k] = v]_vars

\* Every node that runs reflects every committed change in the end, also if the
\* NOTIFY of the last one was lost and no other one follows.
Converges ==
  <>[](\A n \in Nodes : pc[n] = "down" \/ version[n] = committed)
=============================================================================
