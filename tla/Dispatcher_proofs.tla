-------------------------- MODULE Dispatcher_proofs --------------------------
(***************************************************************************)
(* What holds of Dispatcher for every queue bound, batch size, number of   *)
(* attempts, number of submits and set of concurrent aclose() calls.       *)
(***************************************************************************)
EXTENDS Dispatcher, SequenceTheorems, TLAPS

\* The front of a sequence and the rest are sequences over the same set, as
\* long together as the whole.
LEMMA SplitSeq ==
    ASSUME NEW S, NEW s \in Seq(S), NEW n \in 0..Len(s)
    PROVE  /\ SubSeq(s, 1, n) \in Seq(S)
           /\ Len(SubSeq(s, 1, n)) = n
           /\ SubSeq(s, n + 1, Len(s)) \in Seq(S)
           /\ Len(SubSeq(s, n + 1, Len(s))) = Len(s) - n
           /\ \A i \in 1..n : SubSeq(s, 1, n)[i] = s[i]
           /\ \A i \in 1..(Len(s) - n) : SubSeq(s, n + 1, Len(s))[i] = s[n + i]
<1>1. n \in Nat /\ Len(s) \in Nat /\ n <= Len(s)
  OBVIOUS
<1>2. \A i \in 1..n : s[i] \in S
  BY <1>1
<1>3. \A i \in n+1..Len(s) : s[i] \in S
  BY <1>1
<1>4. SubSeq(s, 1, n) \in Seq(S) /\ Len(SubSeq(s, 1, n)) = n
  BY <1>1, <1>2
<1>5. /\ SubSeq(s, n + 1, Len(s)) \in Seq(S)
      /\ Len(SubSeq(s, n + 1, Len(s))) = Len(s) - n
  BY <1>1, <1>3
<1>6. \A i \in 1..n : SubSeq(s, 1, n)[i] = s[i]
  BY <1>1
<1>7. \A i \in 1..(Len(s) - n) : SubSeq(s, n + 1, Len(s))[i] = s[n + i]
  BY <1>1
<1> QED
  BY <1>4, <1>5, <1>6, <1>7

-----------------------------------------------------------------------------
(* Types.                                                                   *)

\* Whatever the head of the loop does, types are kept.
LEMMA LoopHeadType ==
    ASSUME TypeOK, LoopHead
    PROVE  /\ task' \in {"send", "get", "done"}
           /\ queue' \in Seq(Events) /\ Len(queue') <= MaxQueue
           /\ batch' \in Seq(Events) /\ Len(batch') <= BatchSize
           /\ attempt' \in 0..MaxRetries
           /\ sent' \in [Events -> Nat]
           /\ Len(queue') + Len(batch') = Len(queue)
<1>1. CASE TakeBatch
  <2>1. BatchLen \in 0..Len(queue) /\ BatchLen <= BatchSize /\ Len(queue) \in Nat
    BY ParamAssumption DEF TypeOK, BatchLen
  <2>2. /\ SubSeq(queue, 1, BatchLen) \in Seq(Events)
        /\ Len(SubSeq(queue, 1, BatchLen)) = BatchLen
        /\ SubSeq(queue, BatchLen + 1, Len(queue)) \in Seq(Events)
        /\ Len(SubSeq(queue, BatchLen + 1, Len(queue))) = Len(queue) - BatchLen
    BY <2>1, SplitSeq DEF TypeOK
  <2>3. /\ batch' = SubSeq(queue, 1, BatchLen)
        /\ queue' = SubSeq(queue, BatchLen + 1, Len(queue))
        /\ attempt' = 1 /\ task' = "send"
    BY <1>1 DEF TakeBatch
  <2>4. sent' \in [Events -> Nat]
    BY <1>1 DEF TakeBatch, Post, TypeOK
  <2>5. queue' \in Seq(Events) /\ Len(queue') = Len(queue) - BatchLen
    BY <2>2, <2>3
  <2>6. batch' \in Seq(Events) /\ Len(batch') = BatchLen
    BY <2>2, <2>3
  <2>7. Len(queue') <= MaxQueue /\ Len(batch') <= BatchSize
        /\ Len(queue') + Len(batch') = Len(queue)
    BY <2>1, <2>5, <2>6, ParamAssumption DEF TypeOK
  <2>8. attempt' \in 0..MaxRetries
    BY <2>3, ParamAssumption
  <2> QED
    BY <2>3, <2>4, <2>5, <2>6, <2>7, <2>8
<1>2. CASE closing /\ Idle("done")
  BY <1>2, ParamAssumption DEF TypeOK, Idle
<1>3. CASE ~closing /\ Idle("get")
  BY <1>3, ParamAssumption DEF TypeOK, Idle
<1> QED
  BY <1>1, <1>2, <1>3 DEF LoopHead

\* At first.
LEMMA TypeInit == Init => TypeOK
<1> SUFFICES ASSUME Init PROVE TypeOK
  OBVIOUS
<1>1. queue \in Seq(Events) /\ batch \in Seq(Events) /\ Len(queue) = 0 /\ Len(batch) = 0
  BY DEF Init
<1>2. sent \in [Events -> Nat] /\ closer \in [Closers -> CloserStates]
  BY DEF Init, CloserStates
<1>3. MaxQueue >= 0 /\ BatchSize >= 0 /\ 0 \in 0..MaxRetries
  BY ParamAssumption
<1>4. calls \in 0..MaxCalls /\ refused \in 0..calls /\ closeMark \in 0..MaxCalls
  BY ParamAssumption DEF Init
<1> QED
  BY <1>1, <1>2, <1>3, <1>4 DEF Init, TypeOK, TaskStates

\* No step breaks a type.
LEMMA TypeStep == TypeOK /\ [Next]_vars => TypeOK'
<1> SUFFICES ASSUME TypeOK, [Next]_vars PROVE TypeOK'
  OBVIOUS
<1>1. Started \in TaskStates /\ (Started = "backoff" => task = "backoff")
  BY DEF Started, TypeOK, TaskStates
<1>2. CASE Start
  BY <1>1, <1>2 DEF Start, TypeOK, counters
<1>3. CASE SubmitClosed
  BY <1>3, ParamAssumption DEF SubmitClosed, TypeOK, counters
<1>4. CASE SubmitQueued
  <2>1. calls + 1 \in Events
    BY <1>4, ParamAssumption DEF SubmitQueued, TypeOK, Events
  <2>2. queue' \in Seq(Events) /\ Len(queue') = Len(queue) + 1
    BY <1>4, <2>1 DEF SubmitQueued, TypeOK
  <2>3. Len(queue') <= MaxQueue /\ calls' \in 0..MaxCalls
    BY <1>4, <2>2, ParamAssumption DEF SubmitQueued, TypeOK
  <2> QED
    BY <1>1, <1>4, <2>2, <2>3 DEF SubmitQueued, TypeOK, counters
<1>5. CASE SubmitFull
  BY <1>1, <1>5, ParamAssumption DEF SubmitFull, TypeOK, counters
<1>6. CASE EndLoop
  <2>1. /\ batch' \in Seq(Events) /\ Len(batch') <= BatchSize
        /\ attempt' \in 0..MaxRetries
    BY <1>6, ParamAssumption DEF EndLoop, CancelTask
  <2>2. closer' \in [Closers -> CloserStates]
    BY <1>6 DEF EndLoop, TypeOK, CloserStates
  <2>3. task' \in TaskStates /\ task' # "backoff"
    BY <1>6 DEF EndLoop, CancelTask, Running, TypeOK, TaskStates
  <2> QED
    BY <1>6, <2>1, <2>2, <2>3 DEF EndLoop, TypeOK, counters
<1>7. CASE StartLoop
  BY <1>7 DEF StartLoop, TypeOK, counters
<1>8. CASE Collect
  BY <1>8, LoopHeadType DEF Collect, TypeOK, counters, TaskStates
<1>9. CASE SendOk
  BY <1>9, LoopHeadType DEF SendOk, TypeOK, TaskStates
<1>10. CASE SendRetry
  BY <1>10 DEF SendRetry, TypeOK, counters, TaskStates
<1>11. CASE SendGiveUp
  BY <1>11, LoopHeadType DEF SendGiveUp, TypeOK, TaskStates
<1>12. CASE BackoffOver
  <2>1. attempt' \in 0..MaxRetries
    BY <1>12, ParamAssumption DEF BackoffOver, TypeOK
  <2>2. sent' \in [Events -> Nat]
    BY <1>12 DEF BackoffOver, Post, TypeOK
  <2> QED
    BY <1>12, <2>1, <2>2 DEF BackoffOver, TypeOK, counters, TaskStates
<1>13. ASSUME NEW e \in Events, ServerTakes(e) PROVE TypeOK'
  BY <1>13 DEF ServerTakes, TypeOK, counters
<1>14. ASSUME NEW c \in Closers, Close(c) PROVE TypeOK'
  <2>1. CASE CloseAgain(c)
    BY <2>1 DEF CloseAgain, TypeOK, counters, CloserStates
  <2>2. CASE BeginClose(c)
    BY <2>2 DEF BeginClose, CloseSink, TypeOK, counters, CloserStates
  <2>3. CASE DrainTimeout(c)
    BY <2>3, ParamAssumption DEF DrainTimeout, CancelTask, TypeOK, counters, CloserStates, TaskStates
  <2>4. CASE DrainOver(c)
    BY <2>4 DEF DrainOver, CloseSink, TypeOK, counters, CloserStates
  <2>5. CASE DrainRaises(c)
    BY <2>5 DEF DrainRaises, TypeOK, counters, CloserStates
  <2>6. CASE SinkIsClosed(c)
    BY <2>6 DEF SinkIsClosed, TypeOK, counters, CloserStates
  <2> QED
    BY <1>14, <2>1, <2>2, <2>3, <2>4, <2>5, <2>6 DEF Close
<1>15. CASE UNCHANGED vars
  BY <1>15 DEF vars, TypeOK, counters
<1> QED
  BY <1>2, <1>3, <1>4, <1>5, <1>6, <1>7, <1>8, <1>9, <1>10, <1>11, <1>12, <1>13,
     <1>14, <1>15 DEF Next, Host, Flusher, Server

\* Every variable keeps its type, the queue its bound and the batch its size.
THEOREM TypeCorrect == Spec => []TypeOK
BY TypeInit, TypeStep, PTL DEF Spec

-----------------------------------------------------------------------------
(* Accounting.                                                              *)

\* A batch exists only between its collection and the end of its attempts.
BatchShape == task \notin {"send", "backoff"} => batch = <<>>

AccountedInv == Accounted /\ BatchShape

\* An event that moves from one place to another is still accounted for.
LEMMA MovedAccounted ==
    ASSUME UNCHANGED <<calls, refused>>, calls \in Int, refused \in Int,
           delivered \in Int, delivered' \in Int, dropped \in Int, dropped' \in Int,
           Len(queue) \in Int, Len(queue') \in Int, Len(batch) \in Int, Len(batch') \in Int,
           delivered' + dropped' + Len(queue') + Len(batch')
               = delivered + dropped + Len(queue) + Len(batch)
    PROVE  Unaccounted' = Unaccounted
BY DEF Unaccounted

\* At the head of the loop a finished batch is replaced by the next one.
LEMMA LoopHeadShape ==
    ASSUME TypeOK, LoopHead PROVE BatchShape' /\ task' # "cancelled"
BY DEF LoopHead, TakeBatch, Idle, BatchShape

\* Cancelling hides the batch in flight, and only it.
LEMMA CancelAccounted ==
    ASSUME TypeOK, AccountedInv, CancelTask,
           UNCHANGED <<counters, queue, calls, refused>>
    PROVE  AccountedInv'
<1>1. Len(batch') = 0 /\ batch' = <<>>
  BY DEF CancelTask
<1>2. CASE Running
  <2>1. Unaccounted = 0
    BY <1>2 DEF AccountedInv, Accounted, TypeOK, Running, Unaccounted
  <2>2. Unaccounted' = Len(batch)
    BY <1>1, <2>1 DEF Unaccounted, TypeOK, counters
  <2>3. task' = "cancelled"
    BY <1>2 DEF CancelTask
  <2> QED
    BY <1>1, <2>2, <2>3, ParamAssumption DEF AccountedInv, Accounted, BatchShape, TypeOK
<1>3. CASE ~Running
  <2>1. batch = <<>> /\ Len(batch) = 0
    BY <1>3 DEF AccountedInv, BatchShape, Running
  <2>2. Unaccounted' = Unaccounted /\ task' = task
    BY <1>1, <1>3, <2>1 DEF Unaccounted, counters, CancelTask
  <2> QED
    BY <1>1, <2>2 DEF AccountedInv, Accounted, BatchShape
<1> QED
  BY <1>2, <1>3

\* At first nothing is owed.
LEMMA AccountedInit == Init => AccountedInv
<1> SUFFICES ASSUME Init PROVE AccountedInv
  OBVIOUS
<1>1. Unaccounted = 0 /\ batch = <<>>
  <2>1. /\ Len(queue) = 0 /\ Len(batch) = 0 /\ batch = <<>>
        /\ calls = 0 /\ refused = 0 /\ delivered = 0 /\ dropped = 0
    BY DEF Init
  <2> QED
    BY <2>1 DEF Unaccounted
<1>2. Unaccounted \in 0..BatchSize /\ ~(Unaccounted > 0)
  BY <1>1, ParamAssumption
<1> QED
  BY <1>1, <1>2 DEF AccountedInv, Accounted, BatchShape

\* No step loses count.
LEMMA AccountedStep == TypeOK /\ TypeOK' /\ AccountedInv /\ [Next]_vars => AccountedInv'
<1> SUFFICES ASSUME TypeOK, TypeOK', AccountedInv, [Next]_vars PROVE AccountedInv'
  OBVIOUS
<1>a. Started = "cancelled" <=> task = "cancelled"
  BY DEF Started
<1>b. Started \in {"send", "backoff"} <=> task \in {"send", "backoff"}
  BY DEF Started
<1>1. ASSUME UNCHANGED <<queue, batch, calls, refused, counters>>,
             task' = "cancelled" <=> task = "cancelled", BatchShape'
      PROVE  AccountedInv'
  <2>1. Unaccounted' = Unaccounted
    BY <1>1 DEF Unaccounted, counters
  <2> QED
    BY <1>1, <2>1 DEF AccountedInv, Accounted
<1>2. CASE Start
  BY <1>1, <1>2, <1>a, <1>b DEF Start, BatchShape, AccountedInv
<1>3. CASE SubmitClosed
  <2>1. Unaccounted' = Unaccounted
    BY <1>3 DEF SubmitClosed, Unaccounted, counters, TypeOK
  <2> QED
    BY <1>3, <2>1 DEF SubmitClosed, AccountedInv, Accounted, BatchShape
<1>4. CASE SubmitQueued
  <2>1. Len(queue') = Len(queue) + 1
    BY <1>4 DEF SubmitQueued, TypeOK
  <2>2. Unaccounted' = Unaccounted
    BY <1>4, <2>1 DEF SubmitQueued, Unaccounted, counters, TypeOK
  <2> QED
    BY <1>4, <1>a, <1>b, <2>2 DEF SubmitQueued, AccountedInv, Accounted, BatchShape
<1>5. CASE SubmitFull
  <2>1. Unaccounted' = Unaccounted
    BY <1>5 DEF SubmitFull, Unaccounted, counters, TypeOK
  <2> QED
    BY <1>5, <1>a, <1>b, <2>1 DEF SubmitFull, AccountedInv, Accounted, BatchShape
<1>6. CASE EndLoop
  BY <1>6, CancelAccounted DEF EndLoop
<1>7. CASE Collect
  <2>1. Len(queue') + Len(batch') = Len(queue) /\ Len(batch) = 0
    BY <1>7, LoopHeadType DEF Collect, AccountedInv, BatchShape
  <2>2. Unaccounted' = Unaccounted
    <3>1. /\ Len(queue) \in Int /\ Len(queue') \in Int
          /\ Len(batch) \in Int /\ Len(batch') \in Int
      BY DEF TypeOK
    <3>2. /\ calls \in Int /\ refused \in Int
          /\ delivered \in Int /\ dropped \in Int
      BY ParamAssumption DEF TypeOK
    <3>3. /\ delivered' \in Int /\ dropped' \in Int
          /\ delivered' + dropped' + Len(queue') + Len(batch')
                 = delivered + dropped + Len(queue) + Len(batch)
      BY <1>7, <2>1, <3>1, <3>2 DEF Collect, counters
    <3> QED
      BY <1>7, <3>1, <3>2, <3>3, MovedAccounted DEF Collect
  <2>3. Unaccounted = 0
    <3>1. Unaccounted \in 0..BatchSize /\ ~(Unaccounted > 0)
      BY <1>7 DEF Collect, AccountedInv, Accounted
    <3> QED
      BY <3>1, ParamAssumption
  <2>4. BatchShape' /\ Unaccounted' \in 0..BatchSize /\ ~(Unaccounted' > 0)
    BY <1>7, <2>2, <2>3, LoopHeadShape, ParamAssumption DEF Collect
  <2> QED
    BY <2>4 DEF AccountedInv, Accounted
<1>8. CASE SendOk
  <2>1. Len(queue') + Len(batch') = Len(queue)
    BY <1>8, LoopHeadType DEF SendOk
  <2>2. Unaccounted' = Unaccounted
    <3>1. /\ Len(queue) \in Int /\ Len(queue') \in Int
          /\ Len(batch) \in Int /\ Len(batch') \in Int
      BY DEF TypeOK
    <3>2. /\ calls \in Int /\ refused \in Int
          /\ delivered \in Int /\ dropped \in Int
      BY ParamAssumption DEF TypeOK
    <3>3. /\ delivered' \in Int /\ dropped' \in Int
          /\ delivered' + dropped' + Len(queue') + Len(batch')
                 = delivered + dropped + Len(queue) + Len(batch)
      BY <1>8, <2>1, <3>1, <3>2 DEF SendOk, counters
    <3> QED
      BY <1>8, <3>1, <3>2, <3>3, MovedAccounted DEF SendOk
  <2>3. Unaccounted = 0
    <3>1. Unaccounted \in 0..BatchSize /\ ~(Unaccounted > 0)
      BY <1>8 DEF SendOk, AccountedInv, Accounted
    <3> QED
      BY <3>1, ParamAssumption
  <2>4. BatchShape' /\ Unaccounted' \in 0..BatchSize /\ ~(Unaccounted' > 0)
    BY <1>8, <2>2, <2>3, LoopHeadShape, ParamAssumption DEF SendOk
  <2> QED
    BY <2>4 DEF AccountedInv, Accounted
<1>9. CASE SendGiveUp
  <2>1. Len(queue') + Len(batch') = Len(queue)
    BY <1>9, LoopHeadType DEF SendGiveUp
  <2>2. Unaccounted' = Unaccounted
    <3>1. /\ Len(queue) \in Int /\ Len(queue') \in Int
          /\ Len(batch) \in Int /\ Len(batch') \in Int
      BY DEF TypeOK
    <3>2. /\ calls \in Int /\ refused \in Int
          /\ delivered \in Int /\ dropped \in Int
      BY ParamAssumption DEF TypeOK
    <3>3. /\ delivered' \in Int /\ dropped' \in Int
          /\ delivered' + dropped' + Len(queue') + Len(batch')
                 = delivered + dropped + Len(queue) + Len(batch)
      BY <1>9, <2>1, <3>1, <3>2 DEF SendGiveUp, counters
    <3> QED
      BY <1>9, <3>1, <3>2, <3>3, MovedAccounted DEF SendGiveUp
  <2>3. Unaccounted = 0
    <3>1. Unaccounted \in 0..BatchSize /\ ~(Unaccounted > 0)
      BY <1>9 DEF SendGiveUp, AccountedInv, Accounted
    <3> QED
      BY <3>1, ParamAssumption
  <2>4. BatchShape' /\ Unaccounted' \in 0..BatchSize /\ ~(Unaccounted' > 0)
    BY <1>9, <2>2, <2>3, LoopHeadShape, ParamAssumption DEF SendGiveUp
  <2> QED
    BY <2>4 DEF AccountedInv, Accounted
<1>10. CASE SendRetry
  BY <1>1, <1>10 DEF SendRetry, BatchShape
<1>11. CASE BackoffOver
  BY <1>1, <1>11 DEF BackoffOver, BatchShape
<1>12. ASSUME NEW c \in Closers, DrainTimeout(c) PROVE AccountedInv'
  BY <1>12, CancelAccounted DEF DrainTimeout
<1>13. ASSUME NEW c \in Closers,
              CloseAgain(c) \/ BeginClose(c) \/ DrainOver(c) \/ DrainRaises(c)
                  \/ SinkIsClosed(c)
       PROVE  AccountedInv'
  <2>1. UNCHANGED <<task, queue, batch, calls, refused, counters>>
    BY <1>13 DEF CloseAgain, BeginClose, DrainOver, DrainRaises, SinkIsClosed
  <2> QED
    BY <1>1, <2>1 DEF AccountedInv, BatchShape
<1>14. CASE StartLoop \/ Server \/ UNCHANGED vars
  <2>1. UNCHANGED <<task, queue, batch, calls, refused, counters>>
    BY <1>14 DEF StartLoop, Server, ServerTakes, vars, counters
  <2> QED
    BY <1>1, <2>1 DEF AccountedInv, BatchShape
<1> QED
  BY <1>2, <1>3, <1>4, <1>5, <1>6, <1>7, <1>8, <1>9, <1>10, <1>11, <1>12, <1>13,
     <1>14 DEF Next, Host, Flusher, Close

\* The books balance, and a batch is in flight only while it is being sent.
THEOREM AccountedInvAlways == Spec => []AccountedInv
BY AccountedInit, AccountedStep, TypeCorrect, PTL DEF Spec

\* Every event taken by submit() is queued, in flight, delivered or dropped,
\* once; only a cancelled flusher hides events, at most one batch.
THEOREM AccountedAlways == Spec => []Accounted
<1>1. AccountedInv => Accounted
  BY DEF AccountedInv
<1> QED
  BY <1>1, AccountedInvAlways, PTL

-----------------------------------------------------------------------------
(* Closing.                                                                 *)

\* A call that timed out has cancelled the flusher; a call that closes the
\* sink has closed it; a flusher that outlives the close has no open sink.
CloseInv ==
    /\ \A c \in Closers : closer[c] = "timedout" => task = "cancelled"
    /\ \A c \in Closers : closer[c] = "closingSink" => ~sinkOpen
    /\ (closed /\ Running) => ~sinkOpen

\* At first no call waits.
LEMMA CloseInit == Init => CloseInv
BY DEF Init, CloseInv, Running

\* Nor does a step undo a timeout or a close.
LEMMA CloseStep == TypeOK /\ CloseInv /\ [Next]_vars => CloseInv'
<1> SUFFICES ASSUME TypeOK, CloseInv, [Next]_vars PROVE CloseInv'
  OBVIOUS
<1>1. CASE Start \/ SubmitQueued \/ SubmitFull
  BY <1>1 DEF Start, SubmitQueued, SubmitFull, Started, CloseInv, Running
<1>2. CASE SubmitClosed \/ StartLoop \/ Server \/ UNCHANGED vars
  BY <1>2 DEF SubmitClosed, StartLoop, Server, ServerTakes, vars, CloseInv, Running
<1>3. CASE EndLoop
  BY <1>3 DEF EndLoop, CancelTask, CloseInv, Running, Suspended, TypeOK
<1>4. CASE Flusher
  <2>1. Running /\ task' # "cancelled" /\ UNCHANGED <<closer, closed, sinkOpen>>
    BY <1>4, LoopHeadShape DEF Flusher, Collect, SendOk, SendRetry, SendGiveUp,
                               BackoffOver, Running
  <2> QED
    BY <2>1 DEF CloseInv, Running
<1>5. ASSUME NEW c \in Closers, CloseAgain(c) \/ DrainRaises(c) PROVE CloseInv'
  BY <1>5 DEF CloseAgain, DrainRaises, CloseInv, Running, TypeOK
<1>6. ASSUME NEW c \in Closers, BeginClose(c) PROVE CloseInv'
  <2>1. CASE MustWait
    BY <1>6, <2>1 DEF BeginClose, CloseInv, Running, TypeOK
  <2>2. CASE ~MustWait
    BY <1>6, <2>2 DEF BeginClose, CloseSink, MustWait, CloseInv, Running, TypeOK
  <2> QED
    BY <2>1, <2>2
<1>7. ASSUME NEW c \in Closers, DrainTimeout(c) PROVE CloseInv'
  BY <1>7 DEF DrainTimeout, CancelTask, CloseInv, Running, TypeOK
<1>8. ASSUME NEW c \in Closers, DrainOver(c) PROVE CloseInv'
  <2>1. ~Running
    BY <1>8 DEF DrainOver, CloseInv, Running
  <2> QED
    BY <1>8, <2>1 DEF DrainOver, CloseSink, CloseInv, Running, TypeOK
<1>9. ASSUME NEW c \in Closers, SinkIsClosed(c) PROVE CloseInv'
  BY <1>9 DEF SinkIsClosed, CloseInv, Running, TypeOK
<1> QED
  BY <1>1, <1>2, <1>3, <1>4, <1>5, <1>6, <1>7, <1>8, <1>9
     DEF Next, Host, Close

\* The invariant that the theorems about aclose() rest on.
THEOREM CloseInvAlways == Spec => []CloseInv
BY CloseInit, CloseStep, TypeCorrect, PTL DEF Spec

\* Once an aclose() has returned, no request leaves the process: the flusher
\* has stopped, or it runs into the closed HTTP client.
THEOREM SilentAlways == Spec => SilentOnceClosed
<1>1. TypeOK /\ CloseInv /\ [Next]_vars => (closed => sent' = sent) \/ UNCHANGED vars
  <2> SUFFICES ASSUME TypeOK, CloseInv, Next, closed PROVE sent' = sent
    BY DEF vars
  <2>1. ASSUME ~sinkOpen, NEW b, Post(b) PROVE sent' = sent
    BY <2>1 DEF Post, TypeOK
  <2>2. CASE Flusher
    <3>1. Running
      BY <2>2 DEF Flusher, Collect, SendOk, SendRetry, SendGiveUp, BackoffOver, Running
    <3>2. ~sinkOpen
      BY <3>1 DEF CloseInv
    <3>3. sent' = sent \/ \E b : Post(b)
      BY <2>2 DEF Flusher, Collect, SendOk, SendRetry, SendGiveUp, BackoffOver,
                  LoopHead, TakeBatch, Idle
    <3> QED
      BY <2>1, <3>2, <3>3
  <2>3. CASE Host \/ Server
    BY <2>3 DEF Host, Start, SubmitClosed, SubmitQueued, SubmitFull, EndLoop, StartLoop,
                Server, ServerTakes
  <2>4. ASSUME NEW c \in Closers, Close(c) PROVE sent' = sent
    BY <2>4 DEF Close, CloseAgain, BeginClose, DrainTimeout, DrainOver, DrainRaises,
                SinkIsClosed
  <2> QED
    BY <2>2, <2>3, <2>4 DEF Next
<1>2. TypeOK /\ CloseInv /\ [Next]_vars => [closed => sent' = sent]_vars
  BY <1>1
<1> QED
  BY <1>2, TypeCorrect, CloseInvAlways, PTL DEF Spec, SilentOnceClosed

-----------------------------------------------------------------------------
(* The order and the number of requests.                                    *)

\* The ids in the queue and in the batch increase, nothing on the wire or in the batch is
\* younger than what waits, and a batch was posted at most attempt times.
OrderInv ==
    /\ \A i \in 1..Len(queue) : queue[i] <= calls
    /\ \A i, j \in 1..Len(queue) : i < j => queue[i] < queue[j]
    /\ \A i, j \in 1..Len(batch) : i < j => batch[i] < batch[j]
    /\ \A i \in 1..Len(batch) :
           /\ sent[batch[i]] <= attempt /\ batch[i] <= calls
           /\ \A j \in 1..Len(queue) : batch[i] < queue[j]
    /\ \A f \in Events :
           /\ sent[f] <= MaxRetries
           /\ sent[f] > 0 => f <= calls /\ \A j \in 1..Len(queue) : f < queue[j]
    /\ SinkNotPulled

\* What the queue and the batch hold are event ids.
LEMMA IdTypes ==
    ASSUME TypeOK
    PROVE  /\ \A i \in 1..Len(queue) : queue[i] \in Events /\ queue[i] \in Int
           /\ \A i \in 1..Len(batch) : batch[i] \in Events /\ batch[i] \in Int
           /\ \A f \in Events : f \in Int
<1>1. \A f \in Events : f \in Int
  BY DEF Events
<1>2. \A i \in 1..Len(queue) : queue[i] \in Events
  <2>1. queue \in Seq(Events)
    BY DEF TypeOK
  <2> QED
    BY <2>1
<1>3. \A i \in 1..Len(batch) : batch[i] \in Events
  <2>1. batch \in Seq(Events)
    BY DEF TypeOK
  <2> QED
    BY <2>1
<1> QED
  BY <1>1, <1>2, <1>3

\* The next batch is the oldest part of the queue, and was never posted.
LEMMA LoopHeadOrder ==
    ASSUME TypeOK, OrderInv, LoopHead, UNCHANGED <<calls, sinkOpen>>
    PROVE  OrderInv'
<1>1. CASE TakeBatch
  <2> DEFINE n == BatchLen
             b == SubSeq(queue, 1, n)
             q == SubSeq(queue, n + 1, Len(queue))
  <2>1. n \in 0..Len(queue) /\ n \in Nat /\ Len(queue) \in Nat
    BY ParamAssumption DEF TypeOK, BatchLen
  <2>2. /\ b \in Seq(Events) /\ Len(b) = n
        /\ q \in Seq(Events) /\ Len(q) = Len(queue) - n
        /\ \A i \in 1..n : b[i] = queue[i]
        /\ \A i \in 1..(Len(queue) - n) : q[i] = queue[n + i]
    BY <2>1, SplitSeq DEF TypeOK
  <2>3. batch' = b /\ queue' = q /\ attempt' = 1 /\ Post(b)
    BY <1>1 DEF TakeBatch
  <2> HIDE DEF n, b, q
  <2>4. \A i \in 1..Len(queue) : queue[i] \in Events /\ sent[queue[i]] = 0
    <3> SUFFICES ASSUME NEW i \in 1..Len(queue)
                 PROVE  queue[i] \in Events /\ sent[queue[i]] = 0
      OBVIOUS
    <3>1. queue[i] \in Events
      BY DEF TypeOK
    <3>2. queue[i] \in Int /\ sent[queue[i]] \in Nat
      BY <3>1 DEF TypeOK, Events
    <3>3. ~(sent[queue[i]] > 0)
      BY <3>1, <3>2 DEF OrderInv
    <3> QED
      BY <3>1, <3>2, <3>3
  <2>5. /\ \A e \in Events : sent'[e] = IF sinkOpen /\ e \in InSeq(b) THEN sent[e] + 1 ELSE sent[e]
        /\ \A e \in Events : sent[e] \in Nat
    BY <2>3 DEF Post, TypeOK
  <2>6. \A e \in InSeq(b) : e \in Events /\ sent[e] = 0 /\ e <= calls
    BY <2>1, <2>2, <2>4 DEF InSeq, OrderInv
  <2>7. \A i, j \in 1..Len(queue) : i < j => queue[i] < queue[j]
    BY DEF OrderInv
  <2>8. /\ \A e \in InSeq(b), j \in 1..Len(q) : e < q[j]
        /\ \A i \in 1..Len(q) : q[i] <= calls
    <3>1. \A i \in 1..Len(q) : q[i] <= calls
      BY <2>1, <2>2 DEF OrderInv
    <3> QED
      BY <2>1, <2>2, <2>7, <3>1 DEF InSeq
  <2>9. /\ \A i, j \in 1..Len(q) : i < j => q[i] < q[j]
        /\ \A i, j \in 1..Len(b) : i < j => b[i] < b[j]
    <3>1. \A i, j \in 1..Len(q) : i < j => q[i] < q[j]
      BY <2>1, <2>2, <2>7
    <3>2. \A i, j \in 1..Len(b) : i < j => b[i] < b[j]
      BY <2>1, <2>2, <2>7
    <3> QED
      BY <3>1, <3>2
  <2>10. \A i \in 1..Len(b) : b[i] \in InSeq(b)
    BY DEF InSeq
  <2>11. \A f \in Events : /\ sent'[f] <= MaxRetries
                           /\ sent'[f] > 0 => f <= calls /\ \A j \in 1..Len(q) : f < q[j]
    <3> SUFFICES ASSUME NEW f \in Events
                 PROVE  /\ sent'[f] <= MaxRetries
                        /\ sent'[f] > 0 => f <= calls /\ \A j \in 1..Len(q) : f < q[j]
      OBVIOUS
    <3>1. CASE f \in InSeq(b)
      BY <2>5, <2>6, <2>8, <3>1, ParamAssumption
    <3>2. CASE f \notin InSeq(b)
      <4>1. sent'[f] = sent[f]
        BY <2>5, <3>2
      <4> QED
        BY <2>1, <2>2, <4>1 DEF OrderInv
    <3> QED
      BY <3>1, <3>2
  <2>12. \A i \in 1..Len(b) : sent'[b[i]] <= 1
    BY <2>5, <2>6, <2>10
  <2>13. SinkNotPulled'
    BY <2>3, <2>5, <2>6 DEF SinkNotPulled, InSeq
  <2> QED
    BY <2>3, <2>6, <2>8, <2>9, <2>10, <2>11, <2>12, <2>13 DEF OrderInv
<1>2. CASE Idle("done") \/ Idle("get")
  <2>1. /\ batch' = <<>> /\ UNCHANGED <<queue, sent>> /\ Len(batch') = 0
    BY <1>2 DEF Idle
  <2>2. SinkNotPulled'
    BY <2>1 DEF SinkNotPulled, InSeq
  <2> QED
    BY <2>1, <2>2 DEF OrderInv
<1> QED
  BY <1>1, <1>2 DEF LoopHead

\* At first nothing is queued or sent.
LEMMA OrderInit == Init => OrderInv
<1> SUFFICES ASSUME Init PROVE OrderInv
  OBVIOUS
<1>1. /\ Len(queue) = 0 /\ Len(batch) = 0 /\ ~Running
      /\ \A f \in Events : sent[f] = 0
  BY DEF Init, Running
<1> QED
  BY <1>1, ParamAssumption DEF OrderInv, SinkNotPulled

\* No step lets an event overtake an older one.
LEMMA OrderStep == TypeOK /\ TypeOK' /\ CloseInv /\ AccountedInv /\ OrderInv /\ [Next]_vars => OrderInv'
<1> SUFFICES ASSUME TypeOK, TypeOK', CloseInv, AccountedInv, OrderInv, [Next]_vars
             PROVE  OrderInv'
  OBVIOUS
<1>1. ASSUME UNCHANGED <<queue, batch, attempt, sent, calls>>, SinkNotPulled'
      PROVE  OrderInv'
  BY <1>1 DEF OrderInv
<1>2. ASSUME UNCHANGED <<queue, sent, calls>>, batch' = <<>>
      PROVE  OrderInv'
  <2>1. Len(batch') = 0 /\ InSeq(batch') = {}
    BY <1>2 DEF InSeq
  <2> QED
    BY <1>2, <2>1 DEF OrderInv, SinkNotPulled
<1>3. ASSUME Started = task' \/ task' = task, UNCHANGED <<batch, attempt, sent, sinkOpen>>
      PROVE  SinkNotPulled'
  <2>1. CASE Running
    BY <1>3, <2>1 DEF OrderInv, SinkNotPulled, Started
  <2>2. CASE ~Running
    <3>1. InSeq(batch) = {}
      BY <2>2 DEF AccountedInv, BatchShape, Running, InSeq
    <3> QED
      BY <1>3, <3>1 DEF SinkNotPulled, InSeq
  <2> QED
    BY <2>1, <2>2
<1>4. CASE Start \/ SubmitFull \/ SubmitClosed
  <2>1. /\ UNCHANGED <<queue, batch, attempt, sent, sinkOpen>>
        /\ calls' = calls \/ calls' = calls + 1
        /\ Started = task' \/ task' = task
    BY <1>4 DEF Start, SubmitFull, SubmitClosed
  <2>2. SinkNotPulled'
    BY <1>3, <2>1
  <2>3. \A n \in Int : n <= calls => n <= calls'
    BY <2>1, ParamAssumption DEF TypeOK
  <2>4. /\ \A i \in 1..Len(queue) : queue[i] \in Int
        /\ \A i \in 1..Len(batch) : batch[i] \in Int
        /\ \A f \in Events : f \in Int
    BY IdTypes
  <2> QED
    BY <2>1, <2>2, <2>3, <2>4 DEF OrderInv
<1>5. CASE SubmitQueued
  <2>1. /\ UNCHANGED <<batch, attempt, sent, sinkOpen>>
        /\ calls' = calls + 1 /\ calls \in Nat
        /\ queue' = Append(queue, calls + 1) /\ Started = task'
    BY <1>5, ParamAssumption DEF SubmitQueued, TypeOK
  <2>2. SinkNotPulled'
    BY <1>3, <2>1
  <2>3. /\ Len(queue) \in Nat /\ Len(queue') = Len(queue) + 1
        /\ \A i \in 1..Len(queue) : queue'[i] = queue[i]
        /\ queue'[Len(queue) + 1] = calls + 1
    BY <2>1 DEF TypeOK
  <2>4. /\ \A i \in 1..Len(queue) : queue[i] \in Int
        /\ \A i \in 1..Len(batch) : batch[i] \in Int
        /\ \A f \in Events : f \in Int
    BY IdTypes
  <2>5. \A j \in 1..Len(queue') : j \in 1..Len(queue) \/ j = Len(queue) + 1
    BY <2>3
  <2>6. \A j \in 1..Len(queue') : queue'[j] <= calls'
    BY <2>1, <2>3, <2>4, <2>5 DEF OrderInv
  <2>7. \A i, j \in 1..Len(queue') : i < j => queue'[i] < queue'[j]
    BY <2>1, <2>3, <2>4, <2>5 DEF OrderInv
  <2>8. \A i \in 1..Len(batch) :
           /\ sent[batch[i]] <= attempt /\ batch[i] <= calls'
           /\ \A j \in 1..Len(queue') : batch[i] < queue'[j]
    BY <2>1, <2>3, <2>4, <2>5 DEF OrderInv
  <2>9. \A f \in Events :
           /\ sent[f] <= MaxRetries
           /\ sent[f] > 0 => f <= calls' /\ \A j \in 1..Len(queue') : f < queue'[j]
    BY <2>1, <2>3, <2>4, <2>5 DEF OrderInv
  <2> QED
    BY <2>1, <2>2, <2>6, <2>7, <2>8, <2>9 DEF OrderInv
<1>6. CASE Collect \/ SendOk \/ SendGiveUp
  <2>1. LoopHead /\ UNCHANGED <<calls, sinkOpen>>
    BY <1>6 DEF Collect, SendOk, SendGiveUp
  <2> QED
    BY <2>1, LoopHeadOrder
<1>7. CASE BackoffOver
  <2>1. /\ UNCHANGED <<queue, batch, calls, sinkOpen>> /\ attempt' = attempt + 1
        /\ Running /\ Running' /\ attempt < MaxRetries /\ attempt \in Nat /\ Post(batch)
    BY <1>7 DEF BackoffOver, TypeOK, Running
  <2>2. /\ \A e \in Events : sent'[e] = IF sinkOpen /\ e \in InSeq(batch) THEN sent[e] + 1 ELSE sent[e]
        /\ \A e \in Events : sent[e] \in Nat
    BY <2>1 DEF Post, TypeOK
  <2>3. \A i \in 1..Len(batch) : batch[i] \in Events /\ batch[i] \in InSeq(batch)
    BY IdTypes DEF InSeq
  <2>4. \A e \in InSeq(batch) : /\ e \in Events /\ sent[e] <= attempt /\ e <= calls
                               /\ \A j \in 1..Len(queue) : e < queue[j]
    BY <2>3 DEF OrderInv, InSeq
  <2>5. \A f \in Events :
           /\ sent'[f] <= MaxRetries
           /\ sent'[f] > 0 => f <= calls /\ \A j \in 1..Len(queue) : f < queue[j]
    <3> SUFFICES ASSUME NEW f \in Events
                 PROVE  /\ sent'[f] <= MaxRetries
                        /\ sent'[f] > 0 => f <= calls /\ \A j \in 1..Len(queue) : f < queue[j]
      OBVIOUS
    <3>1. CASE f \in InSeq(batch)
      BY <2>1, <2>2, <2>4, <3>1, ParamAssumption
    <3>2. CASE f \notin InSeq(batch)
      <4>1. sent'[f] = sent[f]
        BY <2>2, <3>2
      <4> QED
        BY <4>1 DEF OrderInv
    <3> QED
      BY <3>1, <3>2
  <2>6. \A i \in 1..Len(batch) : sent'[batch[i]] <= attempt + 1
    BY <2>1, <2>2, <2>3, <2>4
  <2>7. SinkNotPulled'
    BY <2>1, <2>2, <2>4 DEF OrderInv, SinkNotPulled, InSeq
  <2> QED
    BY <2>1, <2>5, <2>6, <2>7 DEF OrderInv
<1>8. CASE SendRetry
  <2>1. UNCHANGED <<queue, batch, attempt, sent, calls, sinkOpen>> /\ Running
    BY <1>8 DEF SendRetry, Running
  <2>2. SinkNotPulled'
    BY <2>1 DEF OrderInv, SinkNotPulled
  <2> QED
    BY <1>1, <2>1, <2>2
<1>9. CASE EndLoop \/ \E c \in Closers : DrainTimeout(c)
  BY <1>2, <1>9 DEF EndLoop, DrainTimeout, CancelTask
<1>10. ASSUME NEW c \in Closers,
              CloseAgain(c) \/ BeginClose(c) \/ DrainOver(c) \/ DrainRaises(c)
                  \/ SinkIsClosed(c)
       PROVE  OrderInv'
  <2>1. UNCHANGED <<task, queue, batch, attempt, sent, calls>>
    BY <1>10 DEF CloseAgain, BeginClose, DrainOver, DrainRaises, SinkIsClosed
  <2>2. sinkOpen' = sinkOpen \/ ~Running
    BY <1>10 DEF CloseAgain, BeginClose, DrainOver, DrainRaises, SinkIsClosed,
                 CloseSink, MustWait, Running, CloseInv
  <2>3. SinkNotPulled'
    BY <2>1, <2>2 DEF OrderInv, SinkNotPulled, Running
  <2> QED
    BY <1>1, <2>1, <2>3
<1>11. CASE StartLoop \/ Server \/ UNCHANGED vars
  <2>1. UNCHANGED <<task, queue, batch, attempt, sent, calls, sinkOpen>>
    BY <1>11 DEF StartLoop, Server, ServerTakes, vars
  <2>2. SinkNotPulled'
    BY <2>1 DEF OrderInv, SinkNotPulled, Running
  <2> QED
    BY <1>1, <2>1, <2>2
<1> QED
  BY <1>4, <1>5, <1>6, <1>7, <1>8, <1>9, <1>10, <1>11
     DEF Next, Host, Flusher, Close

\* Retries keep the submission order and their bound; no aclose() closes the
\* HTTP client under a flusher that uses it.
THEOREM OrderInvAlways == Spec => []OrderInv
BY OrderInit, OrderStep, TypeCorrect, AccountedInvAlways, CloseInvAlways, PTL DEF Spec

\* Nothing on the wire is younger than an event that waits, and no event is
\* posted more than MaxRetries times.
THEOREM WireOrderAlways == Spec => []WireOrder
<1>1. OrderInv => WireOrder
  BY DEF OrderInv, WireOrder, InSeq
<1> QED
  BY <1>1, OrderInvAlways, PTL

\* No aclose() closes the HTTP client under a flusher that has used it for
\* the batch at hand.
THEOREM SinkNotPulledAlways == Spec => []SinkNotPulled
<1>1. OrderInv => SinkNotPulled
  BY DEF OrderInv
<1> QED
  BY <1>1, OrderInvAlways, PTL

-----------------------------------------------------------------------------
(* Draining.                                                                *)

\* A flusher returns only after a close began, when nothing was queued.
DrainInv ==
    /\ DrainComplete
    /\ task = "done" => closing
    /\ closeMark <= calls

\* What a flusher that returned has left in the queue was submitted after the
\* first aclose() call.
THEOREM DrainCompleteAlways == Spec => []DrainComplete
<1>1. Init => DrainInv
  BY DEF Init, DrainInv, DrainComplete
<1>2. TypeOK /\ TypeOK' /\ DrainInv /\ [Next]_vars => DrainInv'
  <2> SUFFICES ASSUME TypeOK, TypeOK', DrainInv, [Next]_vars PROVE DrainInv'
    OBVIOUS
  <2>1. calls \in Int /\ closeMark \in Int
    BY ParamAssumption DEF TypeOK
  <2>2. CASE Start \/ SubmitClosed \/ SubmitFull
    BY <2>1, <2>2 DEF Start, SubmitClosed, SubmitFull, Started, DrainInv, DrainComplete
  <2>3. CASE SubmitQueued
    <3>1. /\ UNCHANGED <<closing, closeMark>> /\ calls' = calls + 1
          /\ task' = "done" => task = "done"
          /\ queue' = Append(queue, calls + 1)
      BY <2>3 DEF SubmitQueued, Started
    <3>2. \A e \in InSeq(queue') : e \in InSeq(queue) \/ e = calls + 1
      <4>1. /\ Len(queue) \in Nat /\ Len(queue') = Len(queue) + 1
            /\ \A i \in 1..Len(queue) : queue'[i] = queue[i]
            /\ queue'[Len(queue) + 1] = calls + 1
        BY <3>1 DEF TypeOK
      <4>2. \A i \in 1..Len(queue') : i \in 1..Len(queue) \/ i = Len(queue) + 1
        BY <4>1
      <4> QED
        BY <4>1, <4>2 DEF InSeq
    <3> QED
      BY <2>1, <3>1, <3>2 DEF DrainInv, DrainComplete
  <2>4. CASE Flusher
    <3>1. UNCHANGED <<calls, closing, closeMark>>
      BY <2>4 DEF Flusher, Collect, SendOk, SendRetry, SendGiveUp, BackoffOver
    <3>2. task' = "done" => closing /\ queue' = <<>>
      BY <2>4 DEF Flusher, Collect, SendOk, SendRetry, SendGiveUp, BackoffOver,
                  LoopHead, TakeBatch, Idle
    <3>3. queue' = <<>> => InSeq(queue') = {}
      BY DEF InSeq
    <3> QED
      BY <3>1, <3>2, <3>3 DEF DrainInv, DrainComplete
  <2>5. CASE EndLoop \/ \E c \in Closers : DrainTimeout(c)
    BY <2>5 DEF EndLoop, DrainTimeout, CancelTask, DrainInv, DrainComplete, Running
  <2>6. ASSUME NEW c \in Closers, BeginClose(c) PROVE DrainInv'
    <3>1. /\ UNCHANGED <<task, queue, calls>> /\ closing' = TRUE
          /\ closing => closeMark' = closeMark
          /\ closeMark' \in {closeMark, calls}
      BY <2>6 DEF BeginClose
    <3> QED
      BY <2>1, <3>1 DEF DrainInv, DrainComplete
  <2>7. ASSUME NEW c \in Closers,
               CloseAgain(c) \/ DrainOver(c) \/ DrainRaises(c) \/ SinkIsClosed(c)
        PROVE  DrainInv'
    <3>1. UNCHANGED <<task, queue, calls, closing, closeMark>>
      BY <2>7 DEF CloseAgain, DrainOver, DrainRaises, SinkIsClosed
    <3> QED
      BY <3>1 DEF DrainInv, DrainComplete
  <2>8. CASE StartLoop \/ Server \/ UNCHANGED vars
    <3>1. UNCHANGED <<task, queue, calls, closing, closeMark>>
      BY <2>8 DEF StartLoop, Server, ServerTakes, vars
    <3> QED
      BY <3>1 DEF DrainInv, DrainComplete
  <2> QED
    BY <2>2, <2>3, <2>4, <2>5, <2>6, <2>7, <2>8 DEF Next, Host, Close
<1>3. DrainInv => DrainComplete
  BY DEF DrainInv
<1> QED
  BY <1>1, <1>2, <1>3, TypeCorrect, PTL DEF Spec
=============================================================================
