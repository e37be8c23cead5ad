------------------------------ MODULE Election ------------------------------
(***************************************************************************)
(* The election of a leader (core/internal/state/election.go, electLeader  *)
(* and seeLeader in keep.go): the leader sends heartbeats, and a node      *)
(* whose leader was silent for too long elects itself with an UPDATE of    *)
(* the row of the election that it knows.                                  *)
(*                                                                         *)
(* Time passes in ticks of half a second, and only when nothing is due at  *)
(* once; the validity of a leader and the timers are what is left of them. *)
(* The clock of each node has an offset. ElectLeader and SeeLeader have no *)
(* version: one that is lost with its session is not replayed.             *)
(*                                                                         *)
(* A node that restarts has another ID: the old one becomes Gone wherever  *)
(* it is. Abstracted: the sequence of the heartbeats, as a session         *)
(* delivers them once and in order, the time that a transaction and New    *)
(* take, and the start of the first nodes, at the same time.               *)
(***************************************************************************)
EXTENDS Integers, Sequences, SequencesExt, FiniteSetsExt

CONSTANTS
  Nodes,
  Gone,
  leaderInterval, grantedLeaderInterval, electionRandomInterval, leaderClockSkew,
  MaxDelay,     \* how late a notification arrives as long as nothing is wrong
  MaxElections, \* bound: the last number of an election
  MaxStops,     \* bound: how many times a node stops
  MaxEvents     \* bound: how many times notifications, or an answer of the database,
                \* are lost or late

ASSUME ElectionAssumption ==
  /\ Gone \notin Nodes
  /\ {leaderInterval, grantedLeaderInterval, electionRandomInterval,
      leaderClockSkew, MaxDelay, MaxElections, MaxStops, MaxEvents} \subseteq Nat
  /\ MaxElections # 0 /\ leaderInterval + MaxDelay < grantedLeaderInterval

VARIABLES
  row,     \* the row of election: number and leader
  offset,  \* how much the clock of each node is ahead
  queue,   \* the notifications on their way to each node
  pc,      \* where keepElections of each node is, see Places
  timer,   \* how long it still sleeps there
  local,   \* the number of its local variable election
  view,    \* state.election, with what is left of its validity
  slow,    \* the nodes whose notifications are late
  missed,  \* the nodes that lost an ElectLeader
  stops,   \* how many times a node stopped
  events   \* how many of the events that MaxEvents bounds there were

nodeVars == <<pc, timer, local, view>>
bounds   == <<stops, events>>
vars     == <<row, offset, queue, nodeVars, slow, missed, bounds>>

\* down: not running; load: New listens and has not read the row; loop: at the
\* top of the loop; sleep: at the end of leader or follower; retry: in the
\* back-off of a heartbeat; random: before an attempt; elected, retryElected:
\* after one that succeeded.
Places == {"down", "load", "loop", "sleep", "retry", "random", "elected", "retryElected"}

\* The longest validity, and the age from which a heartbeat is ignored.
Longest == grantedLeaderInterval + 2 * leaderClockSkew

Init ==
  /\ row = [number |-> 1, leader |-> Gone]
  /\ offset \in [Nodes -> 0 .. leaderClockSkew]
  /\ \E n \in Nodes : offset[n] = 0
  /\ queue = [n \in Nodes |-> <<>>]
  /\ pc = [n \in Nodes |-> "loop"]
  /\ timer = [n \in Nodes |-> 0]
  /\ local = [n \in Nodes |-> 0]
  /\ view = [n \in Nodes |-> [number |-> 1, leader |-> Gone,
                            valid |-> grantedLeaderInterval]]
  /\ slow = {}
  /\ missed = {}
  /\ stops = 0 /\ events = 0

Running(n) == pc[n] \notin {"down", "load"}

\* One more event, within the bound.
Event == events < MaxEvents /\ events' = events + 1

-----------------------------------------------------------------------------
(* Notifications.                                                          *)

\* The sessions that listen get the notification.
Send(ntf) ==
  queue' = [n \in Nodes |-> IF pc[n] = "down" THEN queue[n] ELSE Append(queue[n], ntf)]

ElectLeader(number, leader) ==
  [kind |-> "ElectLeader", number |-> number, leader |-> leader, age |-> 0, clock |-> 0]

SeeLeader(number, clock) ==
  [kind |-> "SeeLeader", number |-> number, leader |-> Gone, age |-> 0, clock |-> clock]

\* Not e.Number <= state.election.number
AcceptedElection(n, ntf) == ntf.number > view[n].number

\* electLeader.
electLeader(n, ntf) ==
  view' = IF AcceptedElection(n, ntf)
          THEN [view EXCEPT ![n] = [number |-> ntf.number, leader |-> ntf.leader,
                                    valid |-> grantedLeaderInterval]]
          ELSE view

\* Mutant: the differences between clocks are not allowed for.
ValidForNoSkew(age) == grantedLeaderInterval - age

\* For how long a heartbeat of this age shows that there is a leader.
ValidFor(age) == grantedLeaderInterval + leaderClockSkew - age

\* seeLeader: the age is the difference of two clocks.
seeLeader(n, ntf) ==
  LET age == ntf.age + offset[n] - ntf.clock
      accepted == /\ ntf.number = view[n].number
                  /\ age >= -leaderClockSkew
                  /\ age < grantedLeaderInterval + leaderClockSkew
  IN  view' = IF accepted THEN [view EXCEPT ![n].valid = Max({@, ValidFor(age)})]
              ELSE view

Receive(n) ==
  /\ Running(n) /\ queue[n] # <<>>
  /\ queue' = [queue EXCEPT ![n] = Tail(@)]
  /\ \/ Head(queue[n]).kind = "ElectLeader" /\ electLeader(n, Head(queue[n]))
     \/ Head(queue[n]).kind = "SeeLeader" /\ seeLeader(n, Head(queue[n]))
  /\ UNCHANGED <<row, offset, pc, timer, local, slow, missed, bounds>>

\* A notification is lost with the session.
Lose(n) ==
  /\ Event
  /\ \E k \in DOMAIN queue[n] :
       /\ queue' = [queue EXCEPT ![n] = RemoveAt(@, k)]
       /\ missed' = IF queue[n][k].kind = "ElectLeader" THEN missed \cup {n}
                    ELSE missed
  /\ UNCHANGED <<row, offset, nodeVars, slow, stops>>

\* The notifications of a node become late, for a while and by so much that a
\* heartbeat is too old.
SlowDown(n) ==
  /\ Event
  /\ slow' = slow \cup {n}
  /\ UNCHANGED <<row, offset, queue, nodeVars, missed, stops>>

CatchUp(n) ==
  /\ n \in slow
  /\ slow' = slow \ {n}
  /\ UNCHANGED <<row, offset, queue, nodeVars, missed, bounds>>

-----------------------------------------------------------------------------
(* keepElections.                                                          *)

Sleep(n, place, d) ==
  /\ pc' = [pc EXCEPT ![n] = place]
  /\ timer' = [timer EXCEPT ![n] = d]

\* leader: a heartbeat, then leaderInterval; or, if it fails, a back-off.
leader(n, number, after) ==
  \/ /\ Send(SeeLeader(number, offset[n]))
     /\ Sleep(n, after, leaderInterval)
     /\ UNCHANGED <<local, events>>
  \/ /\ Event
     /\ \E d \in 1 .. leaderInterval :
          Sleep(n, IF after = "sleep" THEN "retry" ELSE "retryElected", d)
     /\ local' = [local EXCEPT ![n] = number]
     /\ UNCHANGED queue

\* The top of the loop: leader, or follower until it attempts an election.
Loop(n) ==
  /\ pc[n] = "loop"
  /\ \/ /\ view[n].leader = n
        /\ leader(n, view[n].number, "sleep")
     \/ /\ view[n].leader # n /\ view[n].valid > 0
        /\ Sleep(n, "sleep", view[n].valid)
        /\ UNCHANGED <<queue, local, events>>
     \/ /\ view[n].leader # n /\ view[n].valid = 0
        /\ \E d \in 0 .. electionRandomInterval : Sleep(n, "random", d)
        /\ local' = [local EXCEPT ![n] = view[n].number]
        /\ UNCHANGED <<queue, events>>
  /\ UNCHANGED <<row, offset, view, slow, missed, stops>>

Wake(n) ==
  /\ pc[n] = "sleep" /\ timer[n] = 0
  /\ Sleep(n, "loop", 0)
  /\ UNCHANGED <<row, offset, queue, local, view, slow, missed, bounds>>

\* The next attempt to send the same heartbeat.
Retry(n) ==
  /\ pc[n] \in {"retry", "retryElected"} /\ timer[n] = 0
  /\ leader(n, local[n], IF pc[n] = "retry" THEN "sleep" ELSE "elected")
  /\ UNCHANGED <<row, offset, view, slow, missed, stops>>

\* Mutant: the row is updated whatever its number.
ElectableAny(n) == TRUE

\* Mutant: the row is compared with the number it will have.
ElectableNext(n) == row.number = local[n] + 1

\* WHERE number = previousElection
Electable(n) == row.number = local[n]

\* After the random sleep: nothing if there was an election or a heartbeat,
\* else electAsLeader, which fails if there was an election, and which may
\* succeed without an answer.
TryElection(n) ==
  /\ pc[n] = "random" /\ timer[n] = 0
  /\ \/ /\ local[n] < view[n].number \/ view[n].valid > 0 \/ ~Electable(n)
        /\ Sleep(n, "loop", 0)
        /\ UNCHANGED <<row, queue, local, events>>
     \/ /\ local[n] >= view[n].number /\ view[n].valid = 0 /\ Electable(n)
        /\ local[n] < MaxElections
        /\ row' = [number |-> local[n] + 1, leader |-> n]
        /\ Send(ElectLeader(row'.number, n))
        /\ \/ /\ Sleep(n, "elected", leaderInterval)
              /\ local' = [local EXCEPT ![n] = row'.number]
              /\ UNCHANGED events
           \/ /\ Event
              /\ Sleep(n, "loop", 0)
              /\ UNCHANGED local
  /\ UNCHANGED <<offset, view, slow, missed, stops>>

\* "Await notification of the elected leader", with heartbeats.
AwaitElection(n) ==
  /\ pc[n] = "elected" /\ timer[n] = 0
  /\ \/ /\ local[n] <= view[n].number
        /\ Sleep(n, "loop", 0)
        /\ UNCHANGED <<queue, local, events>>
     \/ /\ local[n] > view[n].number
        /\ leader(n, local[n], "elected")
  /\ UNCHANGED <<row, offset, view, slow, missed, stops>>

-----------------------------------------------------------------------------
(* New, and the end of a node.                                             *)

\* Mutant: New listens after it has loaded the row.
ListenedLate(n) == <<>>

\* The notifications that came since LISTEN.
Listened(n) == queue[n]

\* LISTEN.
Listen(n) ==
  /\ pc[n] = "down"
  /\ pc' = [pc EXCEPT ![n] = "load"]
  /\ UNCHANGED <<row, offset, queue, timer, local, view, slow, missed, bounds>>

\* load reads the row; keepElections starts.
Load(n) ==
  /\ pc[n] = "load" /\ view[n].number = 0
  /\ view' = [view EXCEPT ![n].number = row.number, ![n].leader = row.leader]
  /\ UNCHANGED <<row, offset, queue, pc, timer, local, slow, missed, bounds>>

New(n) ==
  /\ pc[n] = "load" /\ view[n].number # 0
  /\ view' = [view EXCEPT ![n].valid = grantedLeaderInterval]
  /\ queue' = [queue EXCEPT ![n] = Listened(n)]
  /\ Sleep(n, "loop", 0)
  /\ UNCHANGED <<row, offset, local, slow, missed, bounds>>

\* The node stops, and its ID with it.
Stop(n) ==
  LET Renamed(l) == IF l = n THEN Gone ELSE l IN
  /\ Running(n) /\ stops < MaxStops
  /\ stops' = stops + 1
  /\ row' = [row EXCEPT !.leader = Renamed(@)]
  /\ view' = [m \in Nodes |->
                IF m = n THEN [number |-> 0, leader |-> Gone, valid |-> 0]
                ELSE [view[m] EXCEPT !.leader = Renamed(@)]]
  /\ queue' = [m \in Nodes |->
                 IF m = n THEN <<>>
                 ELSE [k \in DOMAIN queue[m] |-> [queue[m][k] EXCEPT !.leader = Renamed(@)]]]
  /\ Sleep(n, "down", 0)
  /\ local' = [local EXCEPT ![n] = 0]
  /\ slow' = slow \ {n}
  /\ missed' = missed \ {n}
  /\ UNCHANGED <<offset, events>>

-----------------------------------------------------------------------------
(* Time.                                                                   *)

\* Nothing is due now: no node has something to do, and no notification has to
\* arrive.
Idle(n) ==
  \/ pc[n] = "down"
  \/ /\ Running(n)
     /\ pc[n] # "loop" /\ timer[n] > 0
     /\ \A k \in DOMAIN queue[n] :
          queue[n][k].age < (IF n \in slow THEN Longest ELSE MaxDelay)

Tick ==
  /\ \A n \in Nodes : Idle(n)
  /\ timer' = [n \in Nodes |-> IF timer[n] > 0 THEN timer[n] - 1 ELSE 0]
  /\ view' = [n \in Nodes |-> [view[n] EXCEPT !.valid = Max({@ - 1, 0})]]
  /\ queue' = [n \in Nodes |-> [k \in DOMAIN queue[n] |->
                 [queue[n][k] EXCEPT !.age = @ + 1]]]
  /\ UNCHANGED <<row, offset, pc, local, slow, missed, bounds>>

-----------------------------------------------------------------------------
\* The goroutine of keepElections.
keepElections(n) == Loop(n) \/ Wake(n) \/ Retry(n) \/ TryElection(n) \/ AwaitElection(n)

\* What goes on by itself.
Progress ==
  \/ Tick
  \/ \E n \in Nodes :
       Receive(n) \/ CatchUp(n) \/ keepElections(n) \/ Listen(n) \/ Load(n) \/ New(n)

Next ==
  \/ Progress
  \/ \E n \in Nodes : Lose(n) \/ SlowDown(n) \/ Stop(n)

Spec == Init /\ [][Next]_vars

\* Time passes, nodes do what is due, are restarted and catch up. A random sleep
\* is not shorter than a tick for ever.
Fairness ==
  /\ WF_vars(Progress)
  /\ \A n \in Nodes : /\ WF_vars(keepElections(n)) /\ SF_vars(Loop(n) /\ timer'[n] # 0)
                      /\ WF_vars(Receive(n)) /\ WF_vars(CatchUp(n))
                      /\ WF_vars(Listen(n)) /\ WF_vars(Load(n)) /\ WF_vars(New(n))

FairSpec == Spec /\ Fairness

-----------------------------------------------------------------------------
(* Properties.                                                             *)

ID == Nodes \cup {Gone}

Notification == [kind : {"ElectLeader", "SeeLeader"}, number : 1 .. MaxElections,
                 leader : ID, age : 0 .. Longest, clock : 0 .. leaderClockSkew]

\* The state has the types of the code's fields.
TypeOK ==
  /\ row \in [number : 1 .. MaxElections, leader : ID]
  /\ offset \in [Nodes -> 0 .. leaderClockSkew]
  /\ queue \in [Nodes -> Seq(Notification)]
  /\ pc \in [Nodes -> Places]
  /\ timer \in [Nodes -> 0 .. Longest]
  /\ local \in [Nodes -> 0 .. MaxElections]
  /\ view \in [Nodes -> [number : 0 .. MaxElections, leader : ID, valid : 0 .. Longest]]
  /\ slow \subseteq Nodes /\ missed \subseteq Nodes
  /\ stops \in 0 .. MaxStops /\ events \in 0 .. MaxEvents

\* Two nodes never know different leaders of the same election, however many of
\* them found the leader silent at once.
OneLeader ==
  \A m, n \in Nodes :
    view[m].number = view[n].number /\ view[m].number # 0
      => view[m].leader = view[n].leader

\* A node that lost no ElectLeader and has none on its way knows the leader of
\* the row, also if there was an election while it started.
ViewFollows ==
  \A n \in Nodes :
    /\ Running(n) /\ n \notin missed
    /\ \A k \in DOMAIN queue[n] : queue[n][k].kind # "ElectLeader"
    => view[n].number = row.number /\ view[n].leader = row.leader

\* As long as no notification is lost or late and no heartbeat fails, nobody is
\* elected in the place of a leader that runs: the intervals leave room for the
\* delivery of a heartbeat and the differences of the clocks.
NoNeedlessElection ==
  [][row'.number # row.number /\ events = 0 => row.leader = Gone]_vars

\* The node is the leader and knows it.
InCharge(n) == Running(n) /\ row.leader = n /\ view[n].leader = n

\* The node is the leader and will not know it, because its own ElectLeader was
\* lost ("lost elections cannot be replayed"). Its heartbeats keep the others
\* from replacing it.
Unaware(n) == row.leader = n /\ n \in missed /\ view[n].number < row.number

\* A node that runs is the leader in the end, and knows it, unless its own
\* ElectLeader was lost. A follower that lost one cannot be elected any more,
\* and does not keep the nodes without a leader.
LeaderInCharge ==
  <>[](\E n \in Nodes : InCharge(n) \/ Unaware(n))
=============================================================================
