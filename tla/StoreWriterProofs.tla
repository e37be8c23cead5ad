-------------------------- MODULE StoreWriterProofs --------------------------
(***************************************************************************)
(* Proofs about Flusher, and about StoreWriter, which implements it: for   *)
(* every number of rows, every choice of their keys, and every size of the *)
(* channel and of the batches.                                             *)
(***************************************************************************)
EXTENDS StoreWriter, SequenceTheorems, TLAPS

\* The types of the flusher.
TypeInv ==
  /\ sent \in 0 .. MaxRows
  /\ ch \in Seq(Rows) /\ rows \in Seq(Rows)
  /\ acks \subseteq Rows /\ acked \subseteq Rows /\ written \subseteq Rows
  /\ pc \in Places /\ ret \in {"select", "arm", "exit"}
  /\ idleTimer \in BOOLEAN /\ adaptiveTimer \in BOOLEAN /\ maxTimer \in BOOLEAN
  /\ firstBuffered \in BOOLEAN /\ lastArrival \in BOOLEAN /\ rate \in BOOLEAN
  /\ duplicated \in BOOLEAN
  /\ stop \in BOOLEAN /\ drain \in BOOLEAN /\ chClosed \in BOOLEAN
  /\ canceled \in BOOLEAN /\ opCanceled \in BOOLEAN
  /\ stopCh \in BOOLEAN \cup {None}
  /\ cancels \in Nat
  /\ asked \in {"Close", "Stop", None}
  /\ result \in {"nil", "ctx.Err", None}

\* The rows are received in the order in which they are sent: what is still in
\* the channel comes after what was received, and the buffer holds rows whose
\* acknowledgement is due.
OrderInv ==
  /\ ToSet(rows) \subseteq acks
  /\ \A r \in acks : r <= sent
  /\ \A k \in DOMAIN ch : ch[k] <= sent
  /\ \A k \in DOMAIN ch : \A r \in acks : r < ch[k]
  /\ \A j, k \in DOMAIN ch : j < k => ch[j] < ch[k]

\* A flush that has ended has written the rows of the buffer, or sees the error
\* of its context.
EndedInv == pc = "ended" => FlushCtxErr \/ ToSet(rows) \subseteq written

\* Why AckedAfterWritten and NothingForgotten are kept.
DataInv ==
  TypeInv /\ OrderInv /\ EndedInv /\ NothingForgotten /\ AckedAfterWritten

\* What Close and Stop have done so far, and what the loop knows of it.
StopInv ==
  /\ asked = None => stopCh = None /\ ~stop /\ ~chClosed
  /\ canceled => chClosed
  /\ result # None => chClosed /\ canceled
  /\ opCanceled => cancels # 0
  /\ stop => drain = (asked = "Close")
  /\ drain => stop
  /\ stopCh # None => stopCh = (asked = "Close")
  /\ asked = "Close" /\ pc # "exit" /\ ret # "exit" => drain \/ stopCh # None
  /\ pc \in {"select", "arm"} => ret # "exit"
  /\ pc = "exit" \/ ret = "exit" => asked # None

\* Nothing is received and dropped, except by Stop.
KeptInv ==
  asked # "Stop" => \A r \in 1 .. sent : r \in ToSet(ch) \cup acks \cup acked

\* The last flush of Close begins with an empty channel and leaves an empty
\* buffer, unless it is interrupted.
DrainInv ==
  asked = "Close" =>
    /\ ret = "exit" => ch = <<>>
    /\ pc = "exit" => ch = <<>>
    /\ pc = "exit" /\ ~canceled /\ ~opCanceled => rows = <<>>

\* What makes a flush due: from the moment when a row is in the buffer.
DueInv ==
  asked = None /\ ~opCanceled =>
    /\ pc \in {"select", "arm"} => Len(rows) < MaxBatchSize
    /\ pc = "select" /\ rows # <<>> => maxTimer
    /\ pc = "arm" /\ rows # <<>> => maxTimer \/ FirstRow

\* The inductive invariant of the flusher.
FlusherInv ==
  DataInv /\ StopInv /\ KeptInv /\ DrainInv /\ DueInv /\ CloseDrains

-----------------------------------------------------------------------------
(* Sequences.                                                              *)

\* The elements of a sequence.
LEMMA Elements ==
  ASSUME NEW S, NEW q \in Seq(S)
  PROVE  /\ DOMAIN q = 1 .. Len(q) /\ Len(q) \in Nat
         /\ \A k \in DOMAIN q : q[k] \in S
         /\ \A x : x \in ToSet(q) <=> \E k \in DOMAIN q : q[k] = x
         /\ q = <<>> <=> Len(q) = 0
BY EmptySeq, LenProperties, ElementOfSeq DEF ToSet

\* The elements after Append.
LEMMA Appended ==
  ASSUME NEW S, NEW q \in Seq(S), NEW x \in S
  PROVE  /\ Append(q, x) \in Seq(S) /\ Len(Append(q, x)) = Len(q) + 1
         /\ DOMAIN Append(q, x) = DOMAIN q \cup {Len(q) + 1}
         /\ \A k \in DOMAIN q : k # Len(q) + 1 /\ k < Len(q) + 1 /\ Append(q, x)[k] = q[k]
         /\ Append(q, x)[Len(q) + 1] = x
BY AppendProperties, Elements

\* The elements after Tail.
LEMMA Behind ==
  ASSUME NEW S, NEW q \in Seq(S), q # <<>>
  PROVE  /\ Tail(q) \in Seq(S) /\ Head(q) \in S /\ Head(q) = q[1] /\ 1 \in DOMAIN q
         /\ \A k \in DOMAIN Tail(q) :
              k + 1 \in DOMAIN q /\ 1 < k + 1 /\ Tail(q)[k] = q[k + 1]
         /\ \A k \in DOMAIN q : k = 1 \/ (k - 1 \in DOMAIN Tail(q) /\ q[k] = Tail(q)[k - 1])
<1>1. Len(q) \in Nat /\ Len(q) # 0 /\ DOMAIN q = 1 .. Len(q)
  BY Elements
<1>2. Tail(q) \in Seq(S) /\ Len(Tail(q)) = Len(q) - 1 /\ DOMAIN Tail(q) = 1 .. Len(q) - 1
  BY <1>1, HeadTailProperties, Elements
<1>3. QED
  BY <1>1, <1>2, HeadTailProperties, ElementOfSeq

-----------------------------------------------------------------------------
(* The initial state and the steps that do not touch the rows.             *)

\* The invariant holds of a new flusher.
LEMMA FlusherInit == Init => FlusherInv
<1> SUFFICES ASSUME Init PROVE FlusherInv
  OBVIOUS
<1> USE FlusherAssumption DEF Init
<1>1. TypeInv
  <2>1. /\ sent \in 0 .. MaxRows /\ cancels \in Nat
        /\ ch \in Seq(Rows) /\ rows \in Seq(Rows)
        /\ acks \subseteq Rows /\ acked \subseteq Rows /\ written \subseteq Rows
    BY EmptySeq
  <2>2. /\ pc \in Places /\ ret \in {"select", "arm", "exit"}
        /\ stopCh \in BOOLEAN \cup {None} /\ asked \in {"Close", "Stop", None}
        /\ result \in {"nil", "ctx.Err", None}
    BY DEF Places
  <2>3. QED
    BY <2>1, <2>2, Zenon DEF TypeInv
<1>2. OrderInv /\ EndedInv /\ NothingForgotten /\ AckedAfterWritten
  BY DEF OrderInv, EndedInv, NothingForgotten, AckedAfterWritten, ToSet
<1>3. StopInv /\ KeptInv /\ DrainInv /\ CloseDrains
  BY DEF StopInv, KeptInv, DrainInv, CloseDrains
<1>4. DueInv
  BY DEF DueInv
<1>5. QED
  BY <1>1, <1>2, <1>3, <1>4 DEF FlusherInv, DataInv

\* A step that leaves the rows alone keeps what is known of them, if a flush
\* that ends has an error or has ended before.
LEMMA DataKept ==
  ASSUME DataInv, TypeInv', UNCHANGED <<sent, ch, rows, acks, acked, written>>,
         pc' = "ended" => FlushCtxErr' \/ (pc = "ended" /\ (FlushCtxErr => FlushCtxErr'))
  PROVE  DataInv'
BY DEF DataInv, OrderInv, EndedInv, NothingForgotten, AckedAfterWritten

-----------------------------------------------------------------------------
(* Types, and what Close and Stop do.                                      *)

\* The types are kept.
LEMMA TypeStep == ASSUME TypeInv, Next PROVE TypeInv'
<1> USE FlusherAssumption
<1>0. /\ pc \in Places /\ ret \in Places /\ ret \in {"select", "arm", "exit"}
      /\ ch \in Seq(Rows) /\ rows \in Seq(Rows)
  BY DEF TypeInv, Places
<1>1. CASE Send
  <2>1. sent + 1 \in Rows /\ sent' \in 0 .. MaxRows
    BY <1>1 DEF Send, TypeInv, Rows
  <2>2. ch' \in Seq(Rows)
    BY <1>1, <2>1, Appended DEF Send, TypeInv
  <2>3. QED
    BY <1>1, <2>1, <2>2 DEF Send, TypeInv, bufVars, timerVars, rateVars, stopVars, opVars
<1>2. ASSUME NEW how \in {"Close", "Stop"}, AskStop(how) PROVE TypeInv'
  <2>1. stopCh' \in BOOLEAN \cup {None} /\ asked' \in {"Close", "Stop", None}
    BY <1>2, Zenon DEF AskStop
  <2>2. QED
    BY <1>2, <2>1 DEF AskStop, TypeInv, bufVars, timerVars, rateVars, opVars
<1>3. CASE CloseRows \/ ContextDone
  <2>1. CASE CloseRows
    BY <2>1 DEF CloseRows, TypeInv, bufVars, timerVars, rateVars, opVars
  <2>2. CASE ContextDone
    BY <2>2 DEF ContextDone, TypeInv, bufVars, timerVars, rateVars, opVars
  <2>3. QED
    BY <1>3, <2>1, <2>2
<1>4. CASE StopReturns
  <2>1. result' \in {"nil", "ctx.Err", None}
    BY <1>4, Zenon DEF StopReturns
  <2>2. QED
    BY <1>4, <2>1 DEF StopReturns, TypeInv, bufVars, timerVars, rateVars, opVars
<1>5. CASE CancelOperation
  <2>1. cancels' \in Nat
    BY <1>5 DEF CancelOperation, TypeInv
  <2>2. QED
    BY <1>5, <2>1 DEF CancelOperation, TypeInv, bufVars, timerVars, rateVars, stopVars
<1>6. CASE StartRefused \/ StartOperation \/ StartAborted \/ InnerFlushAborted
  <2>1. pc' \in Places
    BY <1>0, <1>6 DEF StartRefused, StartOperation, StartAborted, InnerFlushAborted,
       AfterRefusal, Places
  <2>2. QED
    <3> USE <2>1 DEF TypeInv, bufVars, timerVars, rateVars, stopVars, opVars
    <3>1. CASE StartRefused
      BY <3>1 DEF StartRefused
    <3>2. CASE StartOperation
      <4>1. opCanceled' \in BOOLEAN
        BY <3>2 DEF StartOperation
      <4>2. QED
        BY <3>2, <4>1 DEF StartOperation
    <3>3. CASE StartAborted
      BY <3>3 DEF StartAborted
    <3>4. CASE InnerFlushAborted
      BY <3>4 DEF InnerFlushAborted
    <3>5. QED
      BY <1>6, <3>1, <3>2, <3>3, <3>4
<1>7. CASE InnerFlush
  <2>1. pc' \in Places /\ ToSet(rows) \subseteq Rows
    BY <1>0, <1>7, Elements DEF InnerFlush, Places
  <2>2. QED
    BY <1>7, <2>1 DEF InnerFlush, TypeInv, timerVars, rateVars, stopVars, opVars
<1>8. CASE FlushReturns
  <2>1. rows' \in Seq(Rows) /\ acks' \subseteq Rows /\ acked' \subseteq Rows /\ pc' \in Places
    BY <1>0, <1>8, EmptySeq DEF FlushReturns, TypeInv
  <2>2. QED
    BY <1>8, <2>1 DEF FlushReturns, TypeInv, timerVars, rateVars, stopVars, opVars
<1>9. CASE ReceiveStopped
  <2>1. ch' \in Seq(Rows) /\ pc' \in Places
    BY <1>0, <1>9, Behind DEF ReceiveStopped, Places
  <2>2. QED
    BY <1>9, <2>1 DEF ReceiveStopped, TypeInv, bufVars, timerVars, rateVars, stopVars, opVars
<1>10. ASSUME NEW back \in {"select", "arm", "exit"}, CallFlush(back)
       PROVE  /\ pc' \in Places /\ ret' \in {"select", "arm", "exit"}
              /\ idleTimer' \in BOOLEAN /\ adaptiveTimer' \in BOOLEAN
              /\ maxTimer' \in BOOLEAN /\ firstBuffered' \in BOOLEAN
  <2>1. pc' \in {back, "start"}
    BY <1>10, Zenon DEF CallFlush
  <2>2. QED
    BY <1>10, <2>1 DEF CallFlush, Places
<1>11. CASE ReceiveRow
  <2>1. ch' \in Seq(Rows) /\ Head(ch) \in Rows
    BY <1>0, <1>11, Behind DEF ReceiveRow
  <2>2. rows' \in Seq(Rows) /\ acks' \subseteq Rows
    <3>1. Append(rows, Head(ch)) \in Seq(Rows)
      BY <1>0, <2>1, Appended
    <3>2. [k \in DOMAIN rows |-> IF k \in SameKey(Head(ch)) THEN Head(ch) ELSE rows[k]]
            \in Seq(Rows)
      BY <1>0, <2>1, Elements
    <3>3. QED
      BY <1>11, <2>1, <3>1, <3>2 DEF ReceiveRow, TypeInv
  <2>3. /\ pc' \in Places /\ ret' \in {"select", "arm", "exit"}
        /\ idleTimer' \in BOOLEAN /\ adaptiveTimer' \in BOOLEAN
        /\ maxTimer' \in BOOLEAN /\ firstBuffered' \in BOOLEAN
        /\ duplicated' \in BOOLEAN
    <3>1. CallFlush("arm") \/ (pc' = "arm" /\ UNCHANGED <<ret, timerVars>>)
      BY <1>11, Zenon DEF ReceiveRow
    <3>2. CASE CallFlush("arm")
      BY <1>10, <1>11, <3>2, Zenon DEF ReceiveRow
    <3>3. CASE pc' = "arm" /\ UNCHANGED <<ret, timerVars>>
      BY <1>11, <3>3, Zenon DEF ReceiveRow, TypeInv, timerVars, Places
    <3>4. QED
      BY <3>1, <3>2, <3>3
  <2>4. QED
    BY <1>11, <2>1, <2>2, <2>3, ZenonT(60) DEF ReceiveRow, TypeInv, stopVars, opVars
<1>12. CASE ArmTimers
  <2>1. rows' = rows /\ rate' \in BOOLEAN /\ lastArrival' \in BOOLEAN
    BY <1>12, Zenon DEF ArmTimers, TypeInv
  <2>2. /\ pc' \in Places /\ ret' \in {"select", "arm", "exit"}
        /\ idleTimer' \in BOOLEAN /\ adaptiveTimer' \in BOOLEAN
        /\ maxTimer' \in BOOLEAN /\ firstBuffered' \in BOOLEAN
    <3>1. \/ CallFlush("select")
          \/ pc' = "select" /\ UNCHANGED <<ret, timerVars>>
          \/ /\ firstBuffered' = (firstBuffered \/ FirstRow)
             /\ maxTimer' = (maxTimer \/ FirstRow)
             /\ idleTimer' = TRUE
             /\ adaptiveTimer' = (adaptiveTimer \/ rate')
             /\ pc' = "select"
             /\ UNCHANGED ret
      BY <1>12, Zenon DEF ArmTimers
    <3>2. CASE CallFlush("select")
      BY <1>10, <3>2, Zenon
    <3>3. CASE pc' = "select" /\ UNCHANGED <<ret, timerVars>>
      BY <3>3, Zenon DEF TypeInv, timerVars, Places
    <3>4. CASE /\ firstBuffered' = (firstBuffered \/ FirstRow)
               /\ maxTimer' = (maxTimer \/ FirstRow)
               /\ idleTimer' = TRUE
               /\ adaptiveTimer' = (adaptiveTimer \/ rate')
               /\ pc' = "select"
               /\ UNCHANGED ret
      BY <3>4, Zenon DEF TypeInv, Places
    <3>5. QED
      BY <3>1, <3>2, <3>3, <3>4, Zenon
  <2>3. QED
    BY <1>12, <2>1, <2>2, Zenon DEF ArmTimers, TypeInv, stopVars, opVars
<1>13. CASE ArmStopped
  BY <1>13 DEF ArmStopped, TypeInv, Places, bufVars, timerVars, rateVars, stopVars, opVars
<1>14. CASE TimerFires
  BY <1>10, <1>14 DEF TimerFires, TypeInv, rateVars, stopVars, opVars
<1>15. CASE ReceiveStop
  <2>1. drain' \in BOOLEAN
    BY <1>15, Zenon DEF ReceiveStop, TypeInv
  <2>2. QED
    BY <1>15, <2>1 DEF ReceiveStop, TypeInv, bufVars, timerVars, rateVars, opVars
<1>16. CASE NoMoreRows
  <2>1. /\ CallFlush("exit") \/ (pc' = "exit" /\ UNCHANGED <<ret, timerVars>>)
        /\ rows' = rows /\ stopCh' \in BOOLEAN \cup {None}
    BY <1>16, Zenon DEF NoMoreRows, TypeInv, AfterDrain
  <2>2. /\ pc' \in Places /\ ret' \in {"select", "arm", "exit"}
        /\ idleTimer' \in BOOLEAN /\ adaptiveTimer' \in BOOLEAN
        /\ maxTimer' \in BOOLEAN /\ firstBuffered' \in BOOLEAN
    BY <1>10, <2>1, Zenon DEF TypeInv, timerVars, Places
  <2>3. QED
    BY <1>16, <2>1, <2>2, Zenon DEF NoMoreRows, TypeInv, rateVars, opVars
<1>17. QED
  BY <1>1, <1>2, <1>3, <1>4, <1>5, <1>6, <1>7, <1>8, <1>9, <1>11, <1>12, <1>13, <1>14,
     <1>15, <1>16, Zenon DEF Next, FlushStep, LoopStep

\* What Close and Stop have done so far.
LEMMA StopStep == ASSUME TypeInv, StopInv, Next PROVE StopInv'
<1> USE FlusherAssumption
<1>0. /\ pc \in Places /\ ret \in {"select", "arm", "exit"}
      /\ stop \in BOOLEAN /\ drain \in BOOLEAN /\ chClosed \in BOOLEAN
      /\ canceled \in BOOLEAN /\ opCanceled \in BOOLEAN
      /\ stopCh \in BOOLEAN \cup {None}
      /\ cancels \in Nat
      /\ asked \in {"Close", "Stop", None}
  BY DEF TypeInv
<1>1. ASSUME UNCHANGED <<stop, drain, stopCh, chClosed, canceled, asked, result, opCanceled, cancels>>,
             \/ UNCHANGED <<pc, ret>>
             \/ pc # "exit" /\ pc' \in {"start", "write", "ended"} /\ UNCHANGED ret
             \/ pc # "exit" /\ pc' = ret /\ UNCHANGED ret
             \/ pc = "select" /\ pc' \in {"select", "arm"} /\ UNCHANGED ret
             \/ pc = "arm" /\ pc' = "select" /\ UNCHANGED ret
             \/ /\ pc \in {"select", "arm"} /\ pc' \in {"start", ret'}
                /\ ret' \in {"select", "arm"}
             \/ pc' = "exit" /\ asked # None
      PROVE  StopInv'
  <2>1. /\ pc' \in {"select", "arm"} => ret' # "exit"
        /\ pc' = "exit" \/ ret' = "exit" => asked # None
        /\ pc' # "exit" /\ ret' # "exit" => pc # "exit" /\ ret # "exit"
    BY <1>0, <1>1 DEF StopInv, Places
  <2>2. QED
    BY <1>1, <2>1, Zenon DEF StopInv
<1>2. CASE Send
  BY <1>1, <1>2 DEF Send, stopVars, opVars
<1>3. ASSUME NEW how \in {"Close", "Stop"}, AskStop(how) PROVE StopInv'
  <2>1. /\ asked = None /\ asked' = how /\ stopCh' = (how = "Close") /\ asked' # None
        /\ UNCHANGED <<pc, ret, stop, drain, chClosed, canceled, result, opCanceled, cancels>>
    BY <1>3 DEF AskStop, opVars
  <2>2. stopCh' # None
    BY <2>1
  <2>3. QED
    BY <1>0, <2>1, <2>2, Zenon DEF StopInv
<1>4. CASE CloseRows
  <2>1. /\ asked # None /\ chClosed'
        /\ UNCHANGED <<pc, ret, stop, drain, stopCh, canceled, asked, result, opCanceled, cancels>>
    BY <1>4 DEF CloseRows, opVars
  <2>2. QED
    BY <1>0, <2>1, Zenon DEF StopInv
<1>5. CASE StopReturns \/ ContextDone
  <2>1. /\ chClosed /\ canceled'
        /\ UNCHANGED <<pc, ret, stop, drain, stopCh, chClosed, asked, opCanceled, cancels>>
    BY <1>5 DEF StopReturns, ContextDone, opVars
  <2>2. QED
    BY <1>0, <2>1, Zenon DEF StopInv
<1>6. CASE CancelOperation
  <2>1. /\ opCanceled' /\ cancels' # 0
        /\ UNCHANGED <<pc, ret, stop, drain, stopCh, chClosed, asked, canceled, result>>
    BY <1>0, <1>6 DEF CancelOperation, stopVars
  <2>2. QED
    BY <1>0, <2>1, Zenon DEF StopInv
<1>7. CASE StartRefused \/ StartAborted \/ InnerFlush \/ InnerFlushAborted \/ FlushReturns
  BY <1>1, <1>7 DEF StartRefused, StartAborted, InnerFlush, InnerFlushAborted,
     FlushReturns, AfterRefusal, stopVars, opVars
<1>8. CASE StartOperation
  <2>1. /\ ~opCanceled' /\ pc' = "write"
        /\ UNCHANGED <<ret, stop, drain, stopCh, chClosed, asked, canceled, result, cancels>>
    BY <1>0, <1>8 DEF StartOperation, stopVars
  <2>2. pc = "start"
    BY <1>8 DEF StartOperation
  <2>3. QED
    BY <1>0, <2>1, <2>2, Zenon DEF StopInv
<1>9. CASE ReceiveStopped
  <2>1. asked # None /\ pc' = "exit"
    BY <1>9 DEF ReceiveStopped, StopInv
  <2>2. QED
    BY <1>1, <1>9, <2>1 DEF ReceiveStopped, stopVars, opVars
<1>10. CASE ReceiveRow
  BY <1>1, <1>10 DEF ReceiveRow, CallFlush, stopVars, opVars
<1>11. CASE ArmTimers
  BY <1>1, <1>11 DEF ArmTimers, CallFlush, stopVars, opVars
<1>12. CASE ArmStopped
  BY <1>1, <1>12 DEF ArmStopped, stopVars, opVars
<1>13. CASE TimerFires
  BY <1>1, <1>13 DEF TimerFires, CallFlush, stopVars, opVars
<1>14. CASE ReceiveStop
  <2>1. /\ stopCh # None /\ stop' /\ drain' = stopCh /\ stopCh' = None
        /\ UNCHANGED <<pc, ret, chClosed, asked, canceled, result, opCanceled, cancels>>
    BY <1>14 DEF ReceiveStop, opVars
  <2>2. asked # None /\ stopCh = (asked = "Close")
    BY <2>1, Zenon DEF StopInv
  <2>3. QED
    BY <1>0, <2>1, <2>2, Zenon DEF StopInv
<1>15. CASE NoMoreRows
  <2>1. /\ chClosed
        /\ pc' = "exit" \/ (pc' = "start" /\ ret' = "exit")
        /\ stopCh' \in {stopCh, None}
        /\ UNCHANGED <<stop, drain, chClosed, asked, canceled, result, opCanceled, cancels>>
    <3>1. stopCh' \in {stopCh, None}
      BY <1>15, Zenon DEF NoMoreRows
    <3>2. pc' = "exit" \/ (pc' = "start" /\ ret' = "exit")
      BY <1>15, Zenon DEF NoMoreRows, CallFlush, AfterDrain
    <3>3. QED
      BY <1>15, <3>1, <3>2 DEF NoMoreRows, opVars
  <2>2. asked # None
    BY <2>1, Zenon DEF StopInv
  <2>3. pc' \notin {"select", "arm"}
    BY <2>1
  <2>4. QED
    BY <1>0, <2>1, <2>2, <2>3, Zenon DEF StopInv
<1>16. QED
  BY <1>2, <1>3, <1>4, <1>5, <1>6, <1>7, <1>8, <1>9, <1>10, <1>11, <1>12, <1>13, <1>14,
     <1>15, Zenon DEF Next, FlushStep, LoopStep

-----------------------------------------------------------------------------
(* The rows.                                                               *)

\* The row that is received, r, comes after every one that was received before.
LEMMA Received ==
  ASSUME DataInv, pc = "select", ch # <<>>, ch' = Tail(ch), UNCHANGED sent
  PROVE  /\ Head(ch) \in Rows /\ Head(ch) <= sent
         /\ \A a \in acks : a < Head(ch)
         /\ ch' \in Seq(Rows)
         /\ ToSet(ch) = ToSet(ch') \cup {Head(ch)}
         /\ \A k \in DOMAIN ch' : ch'[k] <= sent /\ Head(ch) < ch'[k]
         /\ \A k \in DOMAIN ch' : \A a \in acks : a < ch'[k]
         /\ \A j, k \in DOMAIN ch' : j < k => ch'[j] < ch'[k]
<1>1. ch \in Seq(Rows) /\ OrderInv
  BY DEF DataInv, TypeInv
<1>2. /\ ch' \in Seq(Rows) /\ Head(ch) \in Rows /\ Head(ch) = ch[1] /\ 1 \in DOMAIN ch
      /\ \A k \in DOMAIN ch' : k + 1 \in DOMAIN ch /\ 1 < k + 1 /\ ch'[k] = ch[k + 1]
      /\ \A k \in DOMAIN ch : k = 1 \/ (k - 1 \in DOMAIN ch' /\ ch[k] = ch'[k - 1])
  BY <1>1, Behind
<1>3. ToSet(ch) = ToSet(ch') \cup {Head(ch)}
  <2>1. \A x : x \in ToSet(ch) <=> \E k \in DOMAIN ch : ch[k] = x
    BY <1>1, Elements
  <2>2. \A x : x \in ToSet(ch') <=> \E k \in DOMAIN ch' : ch'[k] = x
    BY DEF ToSet
  <2>3. ASSUME NEW x \in ToSet(ch) PROVE x \in ToSet(ch') \cup {Head(ch)}
    BY <1>2, <2>1, <2>2, ZenonT(30)
  <2>4. ASSUME NEW x \in ToSet(ch') PROVE x \in ToSet(ch)
    BY <1>2, <2>1, <2>2
  <2>5. Head(ch) \in ToSet(ch)
    BY <1>2, <2>1
  <2>6. QED
    BY <2>3, <2>4, <2>5
<1>4. DOMAIN ch' \subseteq Nat
  BY <1>2, Elements
<1>5. ASSUME NEW j \in DOMAIN ch', NEW k \in DOMAIN ch', j < k
      PROVE  ch'[j] < ch'[k]
  BY <1>1, <1>2, <1>4, <1>5 DEF OrderInv
<1>6. QED
  BY <1>1, <1>2, <1>3, <1>5 DEF OrderInv

\* The row is added, or replaces one with its key, which it covers.
LEMMA ReceiveRowData == ASSUME DataInv, TypeInv', ReceiveRow PROVE DataInv'
<1> DEFINE r == Head(ch)
<1>1. /\ pc = "select" /\ ch # <<>> /\ ch' = Tail(ch)
      /\ acks' = acks \cup {r} /\ UNCHANGED <<sent, acked, written>>
      /\ rows' = IF SameKey(r) # {}
                 THEN [k \in DOMAIN rows |-> IF k \in SameKey(r) THEN r ELSE rows[k]]
                 ELSE Append(rows, r)
  BY DEF ReceiveRow
<1>2. /\ r \in Rows /\ r <= sent
      /\ \A a \in acks : a < r
      /\ \A k \in DOMAIN ch' : ch'[k] <= sent /\ r < ch'[k]
      /\ \A k \in DOMAIN ch' : \A a \in acks : a < ch'[k]
      /\ \A j, k \in DOMAIN ch' : j < k => ch'[j] < ch'[k]
  BY <1>1, Received
<1> HIDE DEF r
<1>3. /\ rows \in Seq(Rows) /\ rows' \in Seq(Rows) /\ ToSet(rows) \subseteq acks
      /\ acks \subseteq Rows /\ sent \in Nat /\ Rows \subseteq Nat
      /\ \A a \in acks : a <= sent
  BY FlusherAssumption DEF DataInv, TypeInv, OrderInv, Rows
<1>4. /\ \A k \in DOMAIN rows' : rows'[k] = r \/ (k \in DOMAIN rows /\ rows'[k] = rows[k])
      /\ \E k \in DOMAIN rows' : rows'[k] = r
      /\ \A k \in DOMAIN rows : k \in DOMAIN rows'
      /\ \A k \in DOMAIN rows :
           \/ rows'[k] = rows[k]
           \/ rows'[k] = r /\ KeyOf[r] # None /\ KeyOf[rows[k]] = KeyOf[r]
  <2>1. CASE SameKey(r) # {}
    BY <1>1, <2>1 DEF SameKey
  <2>2. CASE SameKey(r) = {}
    BY <1>1, <1>2, <1>3, <2>2, Appended
  <2>3. QED
    BY <2>1, <2>2
<1>5. OrderInv'
  <2>1. ToSet(rows') \subseteq acks'
    <3>1. \A x : x \in ToSet(rows) <=> \E k \in DOMAIN rows : rows[k] = x
      BY <1>3, Elements
    <3>2. \A x : x \in ToSet(rows') <=> \E k \in DOMAIN rows' : rows'[k] = x
      BY <1>3, Elements
    <3>3. QED
      <4>1. ASSUME NEW x \in ToSet(rows') PROVE x \in acks'
        <5>1. PICK k \in DOMAIN rows' : rows'[k] = x
          BY <3>2
        <5>2. x = r \/ x \in ToSet(rows)
          BY <1>4, <3>1, <5>1
        <5>3. QED
          BY <1>1, <1>3, <5>2
      <4>2. QED
        BY <4>1
  <2>2. QED
    BY <1>1, <1>2, <1>3, <2>1 DEF OrderInv
<1>6. NothingForgotten'
  <2>1. \E s \in ToSet(rows') : s = r
    BY <1>3, <1>4, Elements
  <2>2. ASSUME NEW a \in acks PROVE \E s \in ToSet(rows') : Covers(s, a)
    <3>1. PICK k \in DOMAIN rows : Covers(rows[k], a)
      <4>1. PICK t \in ToSet(rows) : Covers(t, a)
        BY DEF DataInv, NothingForgotten
      <4>2. QED
        BY <1>3, <4>1, Elements
    <3>2. rows[k] \in acks /\ rows[k] < r /\ a \in Nat /\ rows[k] \in Nat /\ r \in Nat
      BY <1>2, <1>3, Elements
    <3>3. Covers(rows'[k], a)
      BY <1>4, <3>1, <3>2 DEF Covers
    <3>4. rows'[k] \in ToSet(rows')
      BY <1>3, <1>4, Elements
    <3>5. QED
      BY <3>3, <3>4
  <2>3. QED
    BY <1>1, <2>1, <2>2 DEF NothingForgotten, Covers
<1>7. AckedAfterWritten'
  BY <1>1 DEF DataInv, AckedAfterWritten, Covers
<1>8. EndedInv'
  <2>1. pc' # "ended"
    BY DEF ReceiveRow, CallFlush
  <2>2. QED
    BY <2>1 DEF EndedInv
<1>9. QED
  BY <1>5, <1>6, <1>7, <1>8 DEF DataInv

\* No step breaks what is known of the rows.
LEMMA DataStep == ASSUME DataInv, Next PROVE DataInv'
<1>0. TypeInv /\ TypeInv'
  BY TypeStep DEF DataInv
<1>1. CASE Send
  <2>1. /\ ch \in Seq(Rows) /\ sent + 1 \in Rows /\ sent \in Nat /\ acks \subseteq Rows
        /\ Rows \subseteq Nat
    BY <1>0, <1>1, FlusherAssumption DEF TypeInv, Send, Rows
  <2>2. /\ ch' = Append(ch, sent + 1) /\ sent' = sent + 1
        /\ UNCHANGED <<rows, acks, acked, written, pc, opCanceled, canceled>>
    BY <1>1 DEF Send, bufVars, opVars, stopVars
  <2>3. /\ DOMAIN ch' = DOMAIN ch \cup {Len(ch) + 1} /\ Len(ch) \in Nat
        /\ \A k \in DOMAIN ch : k < Len(ch) + 1 /\ ch'[k] = ch[k] /\ k \in Nat /\ ch[k] \in Nat
        /\ ch'[Len(ch) + 1] = sent + 1
    <3>1. /\ DOMAIN ch' = DOMAIN ch \cup {Len(ch) + 1}
          /\ \A k \in DOMAIN ch : k < Len(ch) + 1 /\ ch'[k] = ch[k]
          /\ ch'[Len(ch) + 1] = sent + 1
      BY <2>1, <2>2, Appended
    <3>2. Len(ch) \in Nat /\ \A k \in DOMAIN ch : k \in Nat /\ ch[k] \in Nat
      <4>1. /\ DOMAIN ch = 1 .. Len(ch) /\ Len(ch) \in Nat
            /\ \A k \in DOMAIN ch : ch[k] \in Rows
        BY <2>1, Elements
      <4>2. \A k \in DOMAIN ch : k \in Nat
        BY <4>1
      <4>3. \A k \in DOMAIN ch : ch[k] \in Nat
        BY <2>1, <4>1
      <4>4. QED
        BY <4>1, <4>2, <4>3
    <3>3. QED
      BY <3>1, <3>2
  <2>4. OrderInv'
    <3>1. OrderInv
      BY DEF DataInv
    <3>2. \A k \in DOMAIN ch' : ch'[k] <= sent' /\ \A a \in acks' : a < ch'[k]
      BY <2>1, <2>2, <2>3, <3>1 DEF OrderInv
    <3>3. ASSUME NEW j \in DOMAIN ch', NEW k \in DOMAIN ch', j < k PROVE ch'[j] < ch'[k]
      BY <2>1, <2>2, <2>3, <3>1, <3>3 DEF OrderInv
    <3>4. QED
      BY <2>1, <2>2, <3>1, <3>2, <3>3 DEF OrderInv
  <2>5. QED
    BY <1>0, <2>2, <2>4
    DEF DataInv, NothingForgotten, AckedAfterWritten, Covers, EndedInv, FlushCtxErr
<1>2. ASSUME NEW how \in {"Close", "Stop"}, AskStop(how) PROVE DataInv'
  BY <1>0, <1>2, DataKept DEF AskStop, bufVars, opVars, FlushCtxErr
<1>3. CASE CloseRows \/ StopReturns \/ ContextDone
  BY <1>0, <1>3, DataKept DEF CloseRows, StopReturns, ContextDone, bufVars, opVars, FlushCtxErr
<1>4. CASE CancelOperation
  BY <1>0, <1>4, DataKept DEF CancelOperation, bufVars, stopVars, FlushCtxErr
<1>5. CASE StartRefused \/ StartOperation
  BY <1>0, <1>5, DataKept DEF StartRefused, AfterRefusal, StartOperation, bufVars
<1>6. CASE StartAborted
  <2>1. ret # "ended"
    BY <1>0 DEF TypeInv
  <2>2. QED
    BY <1>0, <1>6, <2>1, DataKept DEF StartAborted, bufVars
<1>7. CASE InnerFlushAborted
  BY <1>0, <1>7, DataKept DEF InnerFlushAborted, bufVars, stopVars, opVars, FlushCtxErr
<1>8. CASE InnerFlush
  <2>1. /\ written' = written \cup ToSet(rows) /\ UNCHANGED <<sent, ch, rows, acks, acked>>
    BY <1>8 DEF InnerFlush
  <2>2. QED
    BY <1>0, <2>1 DEF DataInv, OrderInv, NothingForgotten, AckedAfterWritten, Covers, EndedInv
<1>9. CASE FlushReturns
  <2>1. CASE Interrupted
    <3>1. ret # "ended"
      BY <1>0 DEF TypeInv
    <3>2. QED
      BY <1>0, <1>9, <2>1, <3>1, DataKept DEF FlushReturns
  <2>2. CASE ~Interrupted
    <3>1. /\ acked' = acked \cup acks /\ rows' = <<>> /\ acks' = {} /\ pc' # "ended"
          /\ UNCHANGED <<sent, ch, written>>
      BY <1>0, <1>9, <2>2 DEF FlushReturns, TypeInv
    <3>2. ToSet(rows) \subseteq written
      BY <1>9, <2>2 DEF DataInv, EndedInv, FlushReturns, Interrupted
    <3>3. AckedAfterWritten'
      BY <3>1, <3>2 DEF DataInv, NothingForgotten, AckedAfterWritten, Covers
    <3>4. OrderInv' /\ NothingForgotten'
      BY <3>1 DEF DataInv, OrderInv, NothingForgotten, ToSet
    <3>5. QED
      BY <1>0, <3>1, <3>3, <3>4 DEF DataInv, EndedInv
  <2>3. QED
    BY <2>1, <2>2
<1>10. CASE ReceiveStopped
  <2>1. /\ pc = "select" /\ ch # <<>> /\ ch' = Tail(ch) /\ pc' # "ended"
        /\ UNCHANGED <<sent, rows, acks, acked, written>>
    BY <1>10 DEF ReceiveStopped, bufVars
  <2>2. OrderInv'
    BY <2>1, Received DEF DataInv, OrderInv
  <2>3. QED
    BY <1>0, <2>1, <2>2 DEF DataInv, NothingForgotten, AckedAfterWritten, Covers, EndedInv
<1>11. CASE ReceiveRow
  BY <1>0, <1>11, ReceiveRowData
<1>12. CASE ArmTimers
  BY <1>0, <1>12, DataKept DEF ArmTimers, CallFlush
<1>13. CASE ArmStopped \/ TimerFires
  BY <1>0, <1>13, DataKept DEF ArmStopped, TimerFires, CallFlush, bufVars
<1>14. CASE ReceiveStop
  BY <1>0, <1>14, DataKept DEF ReceiveStop, bufVars, opVars, FlushCtxErr
<1>15. CASE NoMoreRows
  BY <1>0, <1>15, DataKept DEF NoMoreRows, CallFlush, AfterDrain
<1>16. QED
  BY <1>1, <1>2, <1>3, <1>4, <1>5, <1>6, <1>7, <1>8, <1>9, <1>10, <1>11, <1>12, <1>13,
     <1>14, <1>15, Zenon DEF Next, FlushStep, LoopStep

\* Only Stop drops rows.
LEMMA KeptStep == ASSUME FlusherInv, Next PROVE KeptInv'
<1>0. /\ TypeInv /\ StopInv /\ KeptInv /\ DataInv
      /\ ch \in Seq(Rows) /\ sent \in Nat
  BY FlusherAssumption DEF FlusherInv, DataInv, TypeInv
<1>1. CASE Send
  <2>1. /\ ch' = Append(ch, sent + 1) /\ sent' = sent + 1 /\ sent + 1 \in Rows
        /\ UNCHANGED <<acks, acked, asked>>
    BY <1>0, <1>1, FlusherAssumption DEF Send, bufVars, stopVars, Rows, TypeInv
  <2>2. /\ DOMAIN ch' = DOMAIN ch \cup {Len(ch) + 1}
        /\ \A k \in DOMAIN ch : ch'[k] = ch[k]
        /\ ch'[Len(ch) + 1] = sent + 1
    BY <1>0, <2>1, Appended
  <2>3. ToSet(ch) \cup {sent + 1} \subseteq ToSet(ch')
    BY <2>2 DEF ToSet
  <2>4. \A r \in 1 .. sent' : r \in 1 .. sent \/ r = sent + 1
    BY <1>0, <2>1
  <2>5. QED
    BY <1>0, <2>1, <2>3, <2>4 DEF KeptInv
<1>2. CASE FlushReturns
  <2>1. UNCHANGED <<sent, ch, asked>> /\ acks \cup acked \subseteq acks' \cup acked'
    BY <1>2 DEF FlushReturns, stopVars
  <2>2. QED
    BY <1>0, <2>1 DEF KeptInv
<1>3. CASE ReceiveRow
  <2>1. /\ pc = "select" /\ ch # <<>> /\ ch' = Tail(ch) /\ acks' = acks \cup {Head(ch)}
        /\ UNCHANGED <<sent, acked, asked>>
    BY <1>3 DEF ReceiveRow, stopVars
  <2>2. ToSet(ch) = ToSet(ch') \cup {Head(ch)}
    BY <1>0, <2>1, Received
  <2>3. QED
    BY <1>0, <2>1, <2>2 DEF KeptInv
<1>4. CASE ReceiveStopped
  <2>1. asked' = asked /\ stop /\ ~drain
    BY <1>4 DEF ReceiveStopped, stopVars
  <2>2. asked = "Stop"
    BY <1>0, <2>1 DEF StopInv, TypeInv
  <2>3. QED
    BY <2>1, <2>2 DEF KeptInv
<1>5. ASSUME NEW how \in {"Close", "Stop"}, AskStop(how) PROVE KeptInv'
  <2>1. asked = None /\ UNCHANGED <<sent, ch, acks, acked>> /\ asked # "Stop"
    BY <1>5, FlusherAssumption DEF AskStop, bufVars
  <2>2. QED
    BY <1>0, <2>1 DEF KeptInv
<1>6. ASSUME UNCHANGED <<sent, ch, acks, acked, asked>> PROVE KeptInv'
  BY <1>0, <1>6 DEF KeptInv
<1>7. CASE CloseRows \/ StopReturns \/ ContextDone \/ CancelOperation
  BY <1>6, <1>7 DEF CloseRows, StopReturns, ContextDone, CancelOperation, bufVars, stopVars
<1>8. CASE StartRefused \/ StartOperation \/ StartAborted \/ InnerFlush \/ InnerFlushAborted
  BY <1>6, <1>8 DEF StartRefused, StartOperation, StartAborted, InnerFlush,
     InnerFlushAborted, bufVars, stopVars
<1>9. CASE ArmTimers \/ ArmStopped \/ TimerFires \/ ReceiveStop \/ NoMoreRows
  BY <1>6, <1>9 DEF ArmTimers, ArmStopped, TimerFires, ReceiveStop, NoMoreRows,
     bufVars, stopVars
<1>10. QED
  BY <1>1, <1>2, <1>3, <1>4, <1>5, <1>7, <1>8, <1>9, Zenon DEF Next, FlushStep, LoopStep

\* The last flush of Close.
LEMMA DrainStep == ASSUME FlusherInv, Next PROVE DrainInv'
<1>0. /\ TypeInv /\ StopInv /\ DrainInv /\ None \notin {"Close", "Stop"}
      /\ ret \in {"select", "arm", "exit"} /\ pc \in Places
  BY FlusherAssumption DEF FlusherInv, DataInv, TypeInv
<1>1. CASE Send
  BY <1>0, <1>1 DEF Send, stopVars, DrainInv
<1>2. ASSUME NEW how \in {"Close", "Stop"}, AskStop(how) PROVE DrainInv'
  <2>1. ret' # "exit" /\ pc' # "exit"
    BY <1>0, <1>2 DEF AskStop, StopInv
  <2>2. QED
    BY <2>1 DEF DrainInv
<1>3. ASSUME UNCHANGED <<ch, rows, pc, ret, asked>>, canceled => canceled',
             opCanceled => opCanceled'
      PROVE  DrainInv'
  BY <1>0, <1>3 DEF DrainInv
<1>4. CASE CloseRows \/ StopReturns \/ ContextDone
  BY <1>3, <1>4 DEF CloseRows, StopReturns, ContextDone, bufVars, opVars
<1>5. CASE CancelOperation
  <2>1. opCanceled'
    BY <1>5 DEF CancelOperation
  <2>2. QED
    BY <1>3, <1>5, <2>1 DEF CancelOperation, bufVars, stopVars
<1>6. ASSUME UNCHANGED <<ch, ret, asked>>, pc' # "exit" PROVE DrainInv'
  BY <1>0, <1>6 DEF DrainInv
<1>7. CASE StartRefused \/ StartOperation \/ InnerFlush \/ InnerFlushAborted \/ ArmStopped
  BY <1>6, <1>7 DEF StartRefused, AfterRefusal, StartOperation, InnerFlush, InnerFlushAborted,
     ArmStopped, stopVars
<1>8. CASE ReceiveStop
  BY <1>6, <1>8 DEF ReceiveStop
<1>9. CASE StartAborted
  BY <1>0, <1>9 DEF StartAborted, bufVars, stopVars, DrainInv
<1>10. CASE FlushReturns
  <2>1. /\ UNCHANGED <<ch, ret, asked, canceled, opCanceled>> /\ pc' = ret
        /\ canceled \/ opCanceled \/ rows' = <<>>
    BY <1>10 DEF FlushReturns, Interrupted, FlushCtxErr, stopVars, opVars
  <2>2. QED
    BY <1>0, <2>1 DEF DrainInv
<1>11. CASE ReceiveStopped
  <2>1. asked' = asked /\ stop /\ ~drain
    BY <1>11 DEF ReceiveStopped, stopVars
  <2>2. asked' # "Close"
    BY <1>0, <2>1 DEF StopInv, TypeInv
  <2>3. QED
    BY <2>2 DEF DrainInv
<1>12. CASE ReceiveRow
  <2>1. pc' # "exit" /\ ret' # "exit"
    BY <1>0, <1>12 DEF ReceiveRow, CallFlush, StopInv
  <2>2. QED
    BY <2>1 DEF DrainInv
<1>13. CASE ArmTimers \/ TimerFires
  <2>1. pc' # "exit" /\ ret' # "exit"
    BY <1>0, <1>13 DEF ArmTimers, TimerFires, CallFlush, StopInv
  <2>2. QED
    BY <2>1 DEF DrainInv
<1>14. CASE NoMoreRows
  <2>1. ch' = <<>> /\ asked' = asked /\ pc = "select"
    BY <1>14 DEF NoMoreRows
  <2>2. ASSUME asked = "Close" PROVE Drains
    <3>1. drain \/ stopCh # None
      BY <1>0, <2>1, <2>2 DEF StopInv
    <3>2. QED
      BY <1>0, <2>2, <3>1, Zenon DEF StopInv, Drains
  <2>3. ASSUME asked = "Close", pc' = "exit" PROVE rows' = <<>>
    BY <1>14, <2>2, <2>3 DEF NoMoreRows, CallFlush
  <2>4. QED
    BY <2>1, <2>3 DEF DrainInv
<1>15. QED
  BY <1>1, <1>2, <1>4, <1>5, <1>7, <1>8, <1>9, <1>10, <1>11, <1>12, <1>13, <1>14, Zenon
     DEF Next, FlushStep, LoopStep

\* What Close has promised when it has returned nil.
LEMMA CloseStep == ASSUME FlusherInv, Next PROVE CloseDrains'
<1>0. /\ TypeInv /\ StopInv /\ CloseDrains /\ DrainInv /\ KeptInv /\ DataInv
      /\ None \notin {"Close", "Stop", "nil", "ctx.Err"} /\ cancels \in Nat
      /\ rows \in Seq(Rows) /\ ch \in Seq(Rows)
  BY FlusherAssumption DEF FlusherInv, DataInv, TypeInv
<1>1. ASSUME sent' = sent, written \subseteq written', asked' = asked, result' = result,
             opCanceled => opCanceled'
      PROVE  CloseDrains'
  BY <1>0, <1>1 DEF CloseDrains, Covers, FlushInterrupted
<1>2. CASE Send
  BY <1>0, <1>2 DEF Send, stopVars, opVars, CloseDrains, FlushInterrupted
<1>3. ASSUME NEW how \in {"Close", "Stop"}, AskStop(how) PROVE CloseDrains'
  <2>1. result' = result /\ asked = None
    BY <1>3 DEF AskStop
  <2>2. result = None
    BY <1>0, <2>1, Zenon DEF StopInv
  <2>3. QED
    BY <1>0, <2>1, <2>2 DEF CloseDrains
<1>4. CASE CloseRows \/ ContextDone
  BY <1>1, <1>4 DEF CloseRows, ContextDone, bufVars, opVars
<1>5. CASE StopReturns
  <2>1. /\ result' = IF canceled THEN "ctx.Err" ELSE "nil"
        /\ UNCHANGED <<sent, asked, opCanceled, written>> /\ pc = "exit"
    BY <1>5 DEF StopReturns, bufVars, opVars
  <2>2. ASSUME asked = "Close", ~canceled, ~opCanceled, NEW r \in 1 .. sent
        PROVE  \E s \in written : Covers(s, r)
    <3>1. ch = <<>> /\ rows = <<>>
      BY <1>0, <2>1, <2>2 DEF DrainInv
    <3>2. ToSet(ch) = {} /\ acks = {}
      BY <1>0, <3>1 DEF ToSet, DataInv, NothingForgotten
    <3>3. r \in acked
      BY <1>0, <2>2, <3>2 DEF KeptInv
    <3>4. QED
      BY <1>0, <3>3 DEF DataInv, AckedAfterWritten
  <2>3. QED
    BY <2>1, <2>2 DEF CloseDrains, Covers, FlushInterrupted
<1>6. CASE CancelOperation
  BY <1>0, <1>1, <1>6 DEF CancelOperation, bufVars, stopVars
<1>7. CASE StartRefused \/ StartAborted \/ InnerFlush \/ InnerFlushAborted \/ FlushReturns
  BY <1>1, <1>7 DEF StartRefused, StartAborted, InnerFlush, InnerFlushAborted,
     FlushReturns, bufVars, stopVars, opVars
<1>8. CASE ReceiveStopped \/ ReceiveRow
  BY <1>1, <1>8 DEF ReceiveStopped, ReceiveRow, bufVars, stopVars, opVars
<1>9. CASE ArmTimers \/ ArmStopped \/ TimerFires \/ ReceiveStop \/ NoMoreRows
  BY <1>1, <1>9 DEF ArmTimers, ArmStopped, TimerFires, ReceiveStop, NoMoreRows,
     bufVars, stopVars, opVars
<1>10. CASE StartOperation
  <2>1. pc = "start" /\ ~canceled /\ UNCHANGED <<sent, written, asked, result>>
    BY <1>10 DEF StartOperation, bufVars, stopVars
  <2>2. result # "nil"
    BY <1>0, <2>1 DEF StopInv
  <2>3. QED
    BY <2>1, <2>2 DEF CloseDrains
<1>11. QED
  BY <1>2, <1>3, <1>4, <1>5, <1>6, <1>7, <1>8, <1>9, <1>10, Zenon
     DEF Next, FlushStep, LoopStep

\* A row in the buffer has its timer, and a full buffer is flushed.
LEMMA DueStep == ASSUME FlusherInv, Next PROVE DueInv'
<1>0. /\ TypeInv /\ StopInv /\ DueInv /\ None \notin {"Close", "Stop"}
      /\ MaxBatchSize \in Nat \ {0} /\ rows \in Seq(Rows) /\ Len(rows) \in Nat
      /\ rows = <<>> <=> Len(rows) = 0
  BY FlusherAssumption, Elements DEF FlusherInv, DataInv, TypeInv
<1>1. ASSUME UNCHANGED <<rows, pc, maxTimer, duplicated, opCanceled>>,
             asked = None \/ asked' # None
      PROVE  DueInv'
  BY <1>0, <1>1 DEF DueInv, FirstRow
<1>2. ASSUME asked' # None \/ opCanceled' \/ pc' \notin {"select", "arm"} PROVE DueInv'
  BY <1>2 DEF DueInv
<1>3. ASSUME rows' = <<>> PROVE DueInv'
  BY <1>0, <1>3, EmptySeq DEF DueInv
<1>4. CASE Send
  BY <1>1, <1>4 DEF Send, bufVars, timerVars, rateVars, stopVars, opVars
<1>5. ASSUME NEW how \in {"Close", "Stop"}, AskStop(how) PROVE DueInv'
  BY <1>0, <1>2, <1>5 DEF AskStop
<1>6. CASE CloseRows \/ StopReturns \/ ContextDone \/ ReceiveStop
  BY <1>1, <1>6 DEF CloseRows, StopReturns, ContextDone, ReceiveStop, bufVars, timerVars,
     rateVars, opVars
<1>7. CASE CancelOperation
  <2>1. opCanceled'
    BY <1>7 DEF CancelOperation
  <2>2. QED
    BY <1>2, <2>1
<1>8. CASE StartRefused \/ StartOperation \/ InnerFlush \/ InnerFlushAborted
  BY <1>2, <1>8 DEF StartRefused, AfterRefusal, StartOperation, InnerFlush, InnerFlushAborted
<1>9. CASE StartAborted
  BY <1>0, <1>2, <1>9 DEF StartAborted, stopVars, StopInv
<1>10. CASE FlushReturns
  <2>1. \/ canceled \/ opCanceled
        \/ rows' = <<>>
    BY <1>10 DEF FlushReturns, Interrupted, FlushCtxErr
  <2>2. asked' = asked /\ opCanceled' = opCanceled
    BY <1>10 DEF FlushReturns, stopVars, opVars
  <2>3. asked' # None \/ opCanceled' \/ rows' = <<>>
    BY <1>0, <2>1, <2>2 DEF StopInv
  <2>4. QED
    BY <1>2, <1>3, <2>3
<1>11. CASE ReceiveStopped
  BY <1>2, <1>11 DEF ReceiveStopped
<1>12. CASE ReceiveRow
  <2> DEFINE r == Head(ch)
  <2>1. /\ pc = "select" /\ UNCHANGED <<asked, opCanceled>>
        /\ duplicated' = (SameKey(r) # {})
        /\ rows' = IF SameKey(r) # {}
                   THEN [k \in DOMAIN rows |-> IF k \in SameKey(r) THEN r ELSE rows[k]]
                   ELSE Append(rows, r)
        /\ IF ~(SameKey(r) # {}) /\ Full(Len(rows')) THEN CallFlush("arm")
           ELSE pc' = "arm" /\ UNCHANGED <<ret, timerVars>>
    BY <1>12 DEF ReceiveRow, stopVars, opVars
  <2>2. r \in Rows
    BY <1>0, <1>12, Behind DEF ReceiveRow, TypeInv
  <2> HIDE DEF r
  <2>3. CASE SameKey(r) # {}
    <3>1. Len(rows') = Len(rows) /\ rows' \in Seq(Rows) /\ rows # <<>>
      BY <1>0, <2>1, <2>2, <2>3, Elements DEF SameKey
    <3>2. pc' = "arm" /\ maxTimer' = maxTimer
      BY <2>1, <2>3 DEF timerVars
    <3>3. QED
      BY <1>0, <2>1, <3>1, <3>2 DEF DueInv
  <2>4. CASE SameKey(r) = {}
    <3>1. Len(rows') = Len(rows) + 1 /\ rows' # <<>> /\ ~duplicated'
      <4>1. rows' = Append(rows, r) /\ ~duplicated'
        BY <2>1, <2>4
      <4>2. Len(Append(rows, r)) = Len(rows) + 1 /\ Append(rows, r) # <<>>
        BY <1>0, <2>2, AppendProperties
      <4>3. QED
        BY <4>1, <4>2
    <3>2. CASE Full(Len(rows'))
      <4>1. pc' = "start"
        BY <2>1, <2>4, <3>1, <3>2 DEF CallFlush
      <4>2. QED
        BY <1>2, <4>1
    <3>3. CASE ~Full(Len(rows'))
      <4>1. pc' = "arm" /\ maxTimer' = maxTimer /\ Len(rows') # MaxBatchSize
        BY <2>1, <2>4, <3>3 DEF timerVars, Full
      <4>2. QED
        BY <1>0, <2>1, <3>1, <4>1 DEF DueInv, FirstRow
    <3>4. QED
      BY <3>2, <3>3
  <2>5. QED
    BY <2>3, <2>4
<1>13. CASE ArmTimers
  <2>1. rows' = rows /\ UNCHANGED <<duplicated, asked, opCanceled>> /\ pc = "arm"
    BY <1>13 DEF ArmTimers, stopVars, opVars
  <2>2. \/ rows = <<>>
        \/ pc' = "select" /\ maxTimer' = (maxTimer \/ FirstRow)
        \/ rows # <<>> /\ CallFlush("select")
    BY <1>13, Zenon DEF ArmTimers
  <2>3. CASE rows = <<>>
    BY <1>3, <2>1, <2>3
  <2>4. CASE pc' = "select" /\ maxTimer' = (maxTimer \/ FirstRow)
    BY <1>0, <2>1, <2>4 DEF DueInv
  <2>5. CASE rows # <<>> /\ CallFlush("select")
    BY <1>2, <2>1, <2>5 DEF CallFlush
  <2>6. QED
    BY <2>2, <2>3, <2>4, <2>5
<1>14. CASE ArmStopped
  BY <1>0, <1>2, <1>14 DEF ArmStopped, StopInv, stopVars
<1>15. CASE TimerFires
  <2>1. rows' = <<>> \/ pc' = "start"
    BY <1>15 DEF TimerFires, CallFlush
  <2>2. QED
    BY <1>2, <1>3, <2>1
<1>16. CASE NoMoreRows
  BY <1>0, <1>2, <1>16 DEF NoMoreRows, StopInv
<1>17. QED
  BY <1>4, <1>5, <1>6, <1>7, <1>8, <1>9, <1>10, <1>11, <1>12, <1>13, <1>14, <1>15, <1>16,
     Zenon DEF Next, FlushStep, LoopStep

-----------------------------------------------------------------------------
(* Results.                                                                *)

\* The invariant of the flusher is inductive.
LEMMA FlusherStep == ASSUME FlusherInv, [Next]_vars PROVE FlusherInv'
<1>1. CASE UNCHANGED vars
  BY <1>1 DEF vars, bufVars, timerVars, rateVars, stopVars, opVars, FlusherInv, DataInv, TypeInv,
     OrderInv, EndedInv, FlushCtxErr, NothingForgotten, AckedAfterWritten, StopInv, KeptInv,
     DrainInv, DueInv, FirstRow, CloseDrains, FlushInterrupted
<1>2. CASE Next
  <2>1. DataInv' /\ StopInv'
    BY <1>2, DataStep, StopStep DEF FlusherInv, DataInv
  <2>2. QED
    BY <1>2, <2>1, KeptStep, DrainStep, CloseStep, DueStep DEF FlusherInv
<1>3. QED
  BY <1>1, <1>2

\* A step of the writer is a step of the flusher.
LEMMA WriterStep == ASSUME [WriterNext]_allVars PROVE [Next]_vars
<1>1. CASE UNCHANGED allVars
  BY <1>1 DEF allVars
<1>2. ASSUME NEW m \in mc!Modes, NEW c \in BOOLEAN, ChangeMode(m, c)
      PROVE  [Next]_vars
  BY <1>2 DEF ChangeMode, Next
<1>3. CASE Goroutine
  BY <1>3, Zenon DEF Goroutine, Alone, Loop, RefusedLater, Starts, StartsCanceled, Returns, InDone,
     Next, FlushStep
<1>4. CASE Alone(Send) \/ Alone(ContextDone) \/ Closer \/ Refused \/ Awaits
           \/ Alone(InnerFlush) \/ Changing
  BY <1>4, Zenon DEF Alone, Closer, Refused, Awaits, Changing, Next
<1>5. ASSUME NEW how \in {"Close", "Stop"}, Alone(AskStop(how)) PROVE [Next]_vars
  BY <1>5 DEF Alone, Next
<1>6. QED
  BY <1>1, <1>2, <1>3, <1>4, <1>5, Zenon DEF WriterNext

\* A store's writer is a flusher: what its coordinator does is what Flusher
\* lets happen to the operation of a flush.
THEOREM WriterIsFlusher == WriterSpec => Spec
<1>1. WriterInit => Init
  BY DEF WriterInit
<1>2. QED
  BY <1>1, WriterStep, PTL DEF WriterSpec, Spec

\* The inductive invariant holds in every reachable state.
THEOREM Invariance == Spec => []FlusherInv
BY FlusherInit, FlusherStep, PTL DEF Spec

\* AckedAfterWritten is an invariant: whichever attempts of a flush are refused,
\* fail, are interrupted or are overtaken by Close, a row is acknowledged only
\* after the warehouse has it or a later one with its key.
THEOREM AckedWritten == Spec => []AckedAfterWritten
<1>1. FlusherInv => AckedAfterWritten
  BY DEF FlusherInv, DataInv
<1>2. QED
  BY <1>1, Invariance, PTL

\* NothingForgotten is an invariant: a row that waits for its acknowledgement is
\* in the buffer, or the later one that replaced it is.
THEOREM RowsKept == Spec => []NothingForgotten
<1>1. FlusherInv => NothingForgotten
  BY DEF FlusherInv, DataInv
<1>2. QED
  BY <1>1, Invariance, PTL

\* FlushDue is an invariant: the loop never waits with rows and no timer for
\* the oldest of them, or with a full buffer, unless the last flush was
\* interrupted.
THEOREM FlushesDue == Spec => []FlushDue
<1>1. FlusherInv => FlushDue
  BY DEF FlusherInv, DueInv, FlushDue, LatencyGuarded, BatchForced, FlushInterrupted
<1>2. QED
  BY <1>1, Invariance, PTL

\* CloseDrains is an invariant: when Close returns nil and the last flush was not
\* interrupted, the warehouse has every row that was sent.
THEOREM ClosedDrained == Spec => []CloseDrains
<1>1. FlusherInv => CloseDrains
  BY DEF FlusherInv
<1>2. QED
  BY <1>1, Invariance, PTL

\* The four hold of the writers of a store, whatever the changes of mode.
COROLLARY WriterSafe ==
  WriterSpec => [](AckedAfterWritten /\ NothingForgotten /\ FlushDue /\ CloseDrains)
BY WriterIsFlusher, AckedWritten, RowsKept, FlushesDue, ClosedDrained, PTL

-----------------------------------------------------------------------------
(* The writer and the coordinator.                                         *)

\* The theorems about the coordinator, for the one operation of the flusher.
mcp == INSTANCE ModeCoordinatorProofs
         WITH Operations <- {flushOp}, canceled <- operationsCanceled,
              AllowedModes <- [op \in {flushOp} |-> {Normal}]

\* The operation runs from the moment when flush starts it until it returns.
OpInv == pc \in {"write", "ended"} => opState[flushOp] = "running"

\* The coordinator starts in its initial state, ...
LEMMA CoordinatorInit == WriterInit => mcp!IndInv /\ OpInv
<1>1. WriterInit => mcp!IndInv
  BY StoreWriterAssumption, mcp!InitInd
     DEF WriterInit, mc!Init, mcp!Init, mc!Modes, mcp!Modes, Normal
<1>2. WriterInit => OpInv
  BY DEF WriterInit, Init, OpInv
<1>3. QED
  BY <1>1, <1>2

\* ... takes the steps of the coordinator, for the operation of the flusher, ...
LEMMA CoordinatorStep ==
  ASSUME [WriterNext]_allVars
  PROVE  [mcp!Next]_(mcp!vars)
<1>1. ASSUME UNCHANGED coordVars PROVE [mcp!Next]_(mcp!vars)
  BY <1>1 DEF coordVars, mcp!vars
<1>2. CASE UNCHANGED allVars
  BY <1>1, <1>2 DEF allVars
<1>3. ASSUME NEW m \in mc!Modes, NEW c \in BOOLEAN, ChangeMode(m, c)
      PROVE  [mcp!Next]_(mcp!vars)
  BY <1>3 DEF ChangeMode, mc!ChangeMode, mcp!ChangeMode, mcp!Next, mc!Modes, mcp!Modes,
     mc!compatibleMode, mcp!compatibleMode
<1>4. CASE Changing
  BY <1>4 DEF Changing, mcp!Next, mc!WaitReturns, mcp!WaitReturns, mc!Drained, mcp!Drained,
     mc!Settle, mcp!Settle, mc!Broadcast, mcp!Broadcast, mc!Woken, mcp!Woken
<1>5. CASE Refused
  BY <1>5 DEF Refused, mc!Refuse, mcp!Refuse, mcp!Next, mc!compatibleMode, mcp!compatibleMode
<1>6. CASE Awaits
  BY <1>6 DEF Awaits, mc!AwaitChange, mcp!AwaitChange, mc!Admitted, mcp!Admitted, mcp!Next,
     mc!compatibleMode, mcp!compatibleMode
<1>7. CASE RefusedLater
  BY <1>7 DEF RefusedLater, mc!ReturnError, mcp!ReturnError, mcp!Next
<1>8. CASE Starts \/ StartsCanceled
  BY <1>8 DEF Starts, StartsCanceled, mc!StartOperation, mcp!StartOperation,
     mc!Admitted, mcp!Admitted, mcp!Next, mc!compatibleMode, mcp!compatibleMode,
     mc!Modes, mcp!Modes
<1>9. CASE Returns
  BY <1>9 DEF Returns, mc!Done, mcp!Done, mcp!Next
<1>10. CASE InDone
  BY <1>10 DEF InDone, mc!Done, mcp!Done, mc!DoneMode, mcp!DoneMode, mc!DoneModes, mcp!DoneModes,
     mc!DeleteOperation, mcp!DeleteOperation, mcp!Next, mc!Modes, mcp!Modes
<1>11. CASE Goroutine
  <2>1. \/ UNCHANGED coordVars
        \/ RefusedLater \/ Starts \/ StartsCanceled \/ Returns \/ InDone
    BY <1>11, Zenon DEF Goroutine, Alone
  <2>2. QED
    BY <1>1, <1>7, <1>8, <1>9, <1>10, <2>1, Zenon
<1>12. QED
  <2>1. \/ UNCHANGED allVars \/ UNCHANGED coordVars
        \/ Refused \/ Awaits \/ Goroutine \/ Changing
        \/ \E m \in mc!Modes, c \in BOOLEAN : ChangeMode(m, c)
    BY Zenon DEF WriterNext, Alone, Closer
  <2>2. QED
    BY <1>1, <1>2, <1>3, <1>4, <1>5, <1>6, <1>11, <2>1, Zenon

\* ... and runs its operation while the rows are being written.
LEMMA OpStep ==
  ASSUME TypeInv, mcp!IndInv, OpInv, [WriterNext]_allVars
  PROVE  OpInv'
<1>0. /\ ret \notin {"write", "ended"} /\ opState \in [{flushOp} -> mcp!OpStates]
  BY DEF TypeInv, mcp!IndInv, mcp!TypeOK
<1>1. ASSUME UNCHANGED opState, pc \in {"write", "ended"} \/ pc' \notin {"write", "ended"}
      PROVE  OpInv'
  BY <1>1 DEF OpInv
<1>2. ASSUME UNCHANGED pc, pc \notin {"write", "ended"} PROVE OpInv'
  BY <1>2 DEF OpInv
<1>3. CASE UNCHANGED allVars
  BY <1>1, <1>3 DEF allVars, vars, coordVars
<1>4. ASSUME NEW m \in mc!Modes, NEW c \in BOOLEAN, ChangeMode(m, c) PROVE OpInv'
  <2>1. UNCHANGED <<opState, pc>>
    BY <1>4 DEF ChangeMode, mc!ChangeMode, CancelOperation, vars
  <2>2. QED
    BY <1>1, <2>1
<1>5. CASE Changing
  <2>1. UNCHANGED pc /\ (opState[flushOp] = "running" => opState'[flushOp] = "running")
    BY <1>0, <1>5 DEF Changing, mc!WaitReturns, mc!Settle, mc!Broadcast, mc!Woken, vars
  <2>2. QED
    BY <2>1 DEF OpInv
<1>6. CASE Refused
  BY <1>1, <1>6 DEF Refused, StartRefused, AfterRefusal, mc!Refuse
<1>7. CASE Awaits
  <2>1. pc = "start" /\ UNCHANGED pc
    BY <1>7 DEF Awaits, vars
  <2>2. QED
    BY <1>2, <2>1
<1>8. CASE RefusedLater
  <2>1. opState[flushOp] = "woken"
    BY <1>8 DEF RefusedLater, mc!ReturnError
  <2>2. pc \notin {"write", "ended"}
    BY <2>1 DEF OpInv
  <2>3. pc' \notin {"write", "ended"}
    BY <1>8, <2>2 DEF RefusedLater, StartRefused, AfterRefusal, vars
  <2>4. QED
    BY <2>3 DEF OpInv
<1>9. CASE Starts \/ StartsCanceled
  <2>1. opState'[flushOp] = "running"
    BY <1>0, <1>9 DEF Starts, StartsCanceled, mc!StartOperation
  <2>2. QED
    BY <2>1 DEF OpInv
<1>10. CASE Returns
  BY <1>0, <1>10 DEF Returns, FlushReturns, OpInv
<1>11. CASE InDone
  <2>1. UNCHANGED pc /\ pc \notin {"write", "ended"}
    BY <1>11 DEF InDone, mc!DoneMode, mc!DeleteOperation, OpInv, vars
  <2>2. QED
    BY <1>2, <2>1
<1>12. CASE Alone(Loop)
  <2>1. UNCHANGED opState /\ pc' \notin {"write", "ended"}
    BY <1>0, <1>12 DEF Alone, Loop, LoopStep, TimerFires, StartAborted, ReceiveStopped, ReceiveRow,
       ArmTimers, ArmStopped, ReceiveStop, NoMoreRows, CallFlush, AfterDrain, coordVars
  <2>2. QED
    BY <1>1, <2>1
<1>13. CASE Alone(InnerFlush) \/ Alone(InnerFlush /\ pc' = "ended") \/ Alone(InnerFlushAborted)
  BY <1>1, <1>13 DEF Alone, InnerFlush, InnerFlushAborted, coordVars
<1>14. CASE Alone(Send) \/ Alone(ContextDone) \/ Closer
  <2>1. UNCHANGED <<opState, pc>>
    BY <1>14 DEF Alone, Send, ContextDone, Closer, CloseRows, StopReturns, coordVars
  <2>2. QED
    BY <1>1, <2>1
<1>15. ASSUME NEW how \in {"Close", "Stop"}, Alone(AskStop(how)) PROVE OpInv'
  BY <1>1, <1>15 DEF Alone, AskStop, coordVars
<1>16. QED
  BY <1>3, <1>4, <1>5, <1>6, <1>7, <1>8, <1>9, <1>10, <1>11, <1>12, <1>13, <1>14, <1>15,
     Zenon DEF WriterNext, Goroutine

\* The coordinator's invariant holds in the composition, and the operation runs
\* while the rows are written.
THEOREM WriterInvariance == WriterSpec => [](FlusherInv /\ mcp!IndInv /\ OpInv)
<1>1. WriterInit => FlusherInv /\ mcp!IndInv /\ OpInv
  BY FlusherInit, CoordinatorInit DEF WriterInit
<1>2. ASSUME FlusherInv, mcp!IndInv, OpInv, [WriterNext]_allVars
      PROVE  FlusherInv' /\ mcp!IndInv' /\ OpInv'
  <2>1. FlusherInv'
    BY <1>2, FlusherStep, WriterStep
  <2>2. mcp!IndInv'
    BY <1>2, CoordinatorStep, mcp!IndStep, StoreWriterAssumption
       DEF mc!Modes, mcp!Modes, Normal
  <2>3. OpInv'
    BY <1>2, OpStep DEF FlusherInv, DataInv
  <2>4. QED
    BY <2>1, <2>2, <2>3
<1>3. QED
  BY <1>1, <1>2, PTL DEF WriterSpec

\* WrittenInNormalMode: the warehouse is written in Normal mode only, whenever
\* the mode changes and whether the change cancels the flush or waits for it.
THEOREM WritesInNormalMode == WriterSpec => WrittenInNormalMode
<1>1. ASSUME FlusherInv /\ mcp!IndInv /\ OpInv, [WriterNext]_allVars
      PROVE  [written' # written => currentMode = Normal]_allVars
  <2>1. [Next]_vars
    BY <1>1, WriterStep
  <2>2. CASE InnerFlush
    <3>1. opState[flushOp] = "running"
      BY <1>1, <2>2 DEF InnerFlush, OpInv
    <3>2. currentMode \in {Normal}
      BY <1>1, <3>1 DEF mcp!IndInv, mcp!RunsInAllowedMode, mcp!Running, mcp!compatibleMode
    <3>3. QED
      BY <3>2
  <2>3. CASE ~InnerFlush
    <3>1. UNCHANGED written
      BY <2>1, <2>3 DEF Next, vars, bufVars, Send, CloseRows, StopReturns, ContextDone,
         CancelOperation, AskStop, StartRefused, TimerFires, FlushStep, LoopStep,
         StartOperation, StartAborted, InnerFlushAborted, FlushReturns, ReceiveStopped,
         ReceiveRow, ArmTimers, ArmStopped, ReceiveStop, NoMoreRows
    <3>2. QED
      BY <3>1
  <2>4. QED
    BY <2>2, <2>3
<1>2. QED
  BY <1>1, WriterInvariance, PTL DEF WriterSpec, WrittenInNormalMode
====
