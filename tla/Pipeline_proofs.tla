---------------------------- MODULE Pipeline_proofs ----------------------------
(***************************************************************************)
(* What holds of Pipeline for every number of events and attempts, every   *)
(* queue and batch size, every set of workers and every number of faults:  *)
(* it runs the dispatcher and the workers as Dispatcher and StreamWorker   *)
(* describe them, and what it does is what LogStore allows.                *)
(***************************************************************************)
EXTENDS Pipeline, TLAPS

DP == INSTANCE Dispatcher_proofs
WP == INSTANCE StreamWorker_proofs WITH
        Msgs <- Entries, Requests <- Events, ReqOf <- [m \in Entries |-> m[1]],
        Malformed <- {}, Poison <- Tainted \X (1..MaxRetries),
        BatchSize <- ReadCount, batch <- reading

-----------------------------------------------------------------------------
(* The parts, as Pipeline and the proofs about them name them.              *)

\* Events are the numbers of the calls of submit().
LEMMA Ids ==
    /\ Events = 1..MaxCalls /\ DP!Events = Events
    /\ Entries = Events \X (1..MaxRetries)
    /\ \A s : D!InSeq(s) = {s[i] : i \in 1..Len(s)} /\ DP!InSeq(s) = D!InSeq(s)
BY DEF Events, D!Events, DP!Events, Entries, D!InSeq, DP!InSeq

\* What is in a sequence.
LEMMA InSeqOf ==
    /\ \A s, e : e \in D!InSeq(s) <=> \E i \in 1..Len(s) : e = s[i]
    /\ \A S : \A s \in Seq(S) : \A e \in D!InSeq(s) : e \in S
<1>1. ASSUME NEW s, NEW e PROVE e \in D!InSeq(s) <=> \E i \in 1..Len(s) : e = s[i]
  BY DEF D!InSeq
<1>2. ASSUME NEW S, NEW s \in Seq(S), NEW e \in D!InSeq(s) PROVE e \in S
  <2>1. PICK i \in 1..Len(s) : e = s[i]
    BY <1>1
  <2> QED
    BY <2>1
<1> QED
  BY <1>1, <1>2

\* The two instances of Dispatcher are one.
LEMMA SameDispatcher ==
    /\ D!Init <=> DP!Init
    /\ D!vars = DP!vars
    /\ D!Host <=> DP!Host
    /\ D!Collect <=> DP!Collect
    /\ D!LoopHead <=> DP!LoopHead
    /\ D!SendRetry <=> DP!SendRetry
    /\ D!SendGiveUp <=> DP!SendGiveUp
    /\ D!BackoffOver <=> DP!BackoffOver
    /\ \A c \in Closers : D!Close(c) <=> DP!Close(c)
BY DEF D!counters, DP!counters, D!vars, DP!vars, D!Running, DP!Running,
       D!Suspended, DP!Suspended, D!HostRuns, DP!HostRuns, D!InSeq, DP!InSeq,
       D!Events, DP!Events, D!Started, DP!Started, D!Start, DP!Start,
       D!SubmitClosed, DP!SubmitClosed, D!SubmitQueued, DP!SubmitQueued,
       D!SubmitFull, DP!SubmitFull, D!Post, DP!Post, D!BatchLen, DP!BatchLen,
       D!TakeBatch, DP!TakeBatch, D!Idle, DP!Idle, D!LoopHead, DP!LoopHead,
       D!Collect, DP!Collect, D!SendRetry, DP!SendRetry,
       D!SendGiveUp, DP!SendGiveUp, D!BackoffOver, DP!BackoffOver,
       D!CancelTask, DP!CancelTask, D!CloseSink, DP!CloseSink,
       D!CloseAgain, DP!CloseAgain, D!MustWait, DP!MustWait,
       D!BeginClose, DP!BeginClose, D!DrainTimeout, DP!DrainTimeout,
       D!DrainOver, DP!DrainOver, D!DrainRaises, DP!DrainRaises,
       D!SinkIsClosed, DP!SinkIsClosed, D!EndLoop, DP!EndLoop,
       D!StartLoop, DP!StartLoop, D!Host, DP!Host, D!Close, DP!Close,
       D!Init, DP!Init

\* So are the two instances of StreamWorker.
LEMMA SameWorker ==
    /\ W!Init <=> WP!Init
    /\ W!vars = WP!vars
    /\ \A m \in Entries : W!Publish(m) <=> WP!Publish(m)
    /\ \A m \in Entries : W!GoesStale(m) <=> WP!GoesStale(m)
    /\ \A w \in Workers : /\ W!Start(w) <=> WP!Start(w)
                          /\ W!Work(w) <=> WP!Work(w)
                          /\ W!Stop(w) <=> WP!Stop(w)
                          /\ W!Trouble(w) <=> WP!Trouble(w)
<1>1. \A m : W!Ack(m) <=> WP!Ack(m)
  BY DEF W!Ack, WP!Ack
<1>2. W!Init <=> WP!Init
  BY DEF W!Init, WP!Init
<1>3. W!vars = WP!vars
  BY DEF W!redis, WP!redis, W!worker, WP!worker, W!budget, WP!budget,
       W!vars, WP!vars
<1>4. /\ \A w, C : W!Advance(w, C) <=> WP!Advance(w, C)
      /\ \A C, state : W!Oldest(C, state) <=> WP!Oldest(C, state)
      /\ \A C : W!Deliver(C) <=> WP!Deliver(C)
      /\ \A state : W!In(state) = WP!In(state)
  <2>1. ASSUME NEW state PROVE W!In(state) = WP!In(state)
    BY DEF W!In, WP!In
  <2>2. \A m, n : W!Before(m, n) <=> WP!Before(m, n)
    BY DEF W!Before, WP!Before
  <2>3. \A C, state : W!Oldest(C, state) <=> WP!Oldest(C, state)
    <3>1. ASSUME NEW S PROVE W!Cardinality(S) = WP!Cardinality(S)
      BY DEF W!Cardinality, WP!Cardinality
    <3> QED
      BY <2>1, <2>2, <3>1 DEF W!Oldest, WP!Oldest
  <2>4. \A C : W!Deliver(C) <=> WP!Deliver(C)
    BY DEF W!Deliver, WP!Deliver
  <2>5. \A w, C : W!Advance(w, C) <=> WP!Advance(w, C)
    BY DEF W!Advance, WP!Advance
  <2> QED
    BY <2>1, <2>3, <2>4, <2>5
<1>5. /\ \A w : W!Die(w) <=> WP!Die(w)
      /\ \A w, next : W!Goto(w, next) <=> WP!Goto(w, next)
      /\ \A r : W!Insert(r) <=> WP!Insert(r)
      /\ W!Fault <=> WP!Fault
  BY DEF W!Die, WP!Die, W!Goto, WP!Goto, W!Insert, WP!Insert, W!Fault, WP!Fault
<1>6. /\ \A m \in Entries : W!Publish(m) <=> WP!Publish(m)
      /\ \A m \in Entries : W!GoesStale(m) <=> WP!GoesStale(m)
  BY <1>1 DEF W!Publish, WP!Publish, W!GoesStale, WP!GoesStale, W!Holds, WP!Holds,
       W!worker, WP!worker, W!budget, WP!budget
<1>7. ASSUME NEW w \in Workers
      PROVE  /\ W!Start(w) <=> WP!Start(w)
             /\ W!Stop(w) <=> WP!Stop(w)
  BY <1>5 DEF W!Start, WP!Start, W!Stop, WP!Stop, W!redis, WP!redis,
       W!budget, WP!budget
<1>8. ASSUME NEW w \in Workers PROVE W!Work(w) <=> WP!Work(w)
  <2>1. /\ W!Boot(w) <=> WP!Boot(w)
        /\ W!ReadNew(w) <=> WP!ReadNew(w)
        /\ W!ReadEmpty(w) <=> WP!ReadEmpty(w)
        /\ W!Sweep(w) <=> WP!Sweep(w)
    BY <1>4, <1>5 DEF W!Boot, WP!Boot, W!ReadNew, WP!ReadNew,
         W!ReadEmpty, WP!ReadEmpty, W!Sweep, WP!Sweep, W!redis, WP!redis,
         W!budget, WP!budget
  <2>2. /\ W!Upsert(w) <=> WP!Upsert(w)
        /\ W!UpsertRefused(w) <=> WP!UpsertRefused(w)
        /\ W!AckOk(w) <=> WP!AckOk(w)
        /\ W!Park(w) <=> WP!Park(w)
        /\ W!ParkAck(w) <=> WP!ParkAck(w)
    BY <1>1, <1>4, <1>5 DEF W!Upsert, WP!Upsert, W!UpsertRefused, WP!UpsertRefused,
         W!AckOk, WP!AckOk, W!Park, WP!Park, W!ParkAck, WP!ParkAck, W!redis, WP!redis,
         W!budget, WP!budget
  <2> QED
    BY <2>1, <2>2 DEF W!Work, WP!Work
<1>9. ASSUME NEW w \in Workers PROVE W!Trouble(w) <=> WP!Trouble(w)
  BY <1>1, <1>4, <1>5 DEF W!Trouble, WP!Trouble, W!UpsertFails, WP!UpsertFails,
       W!AckFails, WP!AckFails, W!CallKillsWorker, WP!CallKillsWorker,
       W!Crash, WP!Crash, W!Alive, WP!Alive, W!redis, WP!redis
<1> QED
  BY <1>2, <1>3, <1>6, <1>7, <1>8, <1>9

-----------------------------------------------------------------------------
(* What ties the parts together.                                            *)

\* What Dispatcher_proofs shows of the dispatcher.
SdkInv == DP!TypeOK /\ DP!AccountedInv /\ DP!CloseInv /\ DP!OrderInv

\* What StreamWorker_proofs shows of the workers.
WorkerInv == WP!Types /\ WP!StoredInv /\ WP!UsedInv

\* A request carries events that were put on the wire, each once; those that
\* its loop went past are taken; its attempt is not ahead of the batch's.
PostOk(q) ==
    /\ q \in [events : Seq(Events), attempt : 1..MaxRetries, next : Nat]
    /\ q.next \in 1..(Len(q.events) + 1)
    /\ \A i, j \in 1..Len(q.events) : q.events[i] = q.events[j] => i = j
    /\ \A i \in 1..Len(q.events) :
          /\ sent[q.events[i]] > 0
          /\ i < q.next => q.events[i] \in received
          /\ q.events[i] \in D!InSeq(batch) => q.attempt <= attempt

\* Two requests with one number of attempts carry no event in common.
Apart(q, r) ==
    q # r /\ q.attempt = r.attempt =>
        \A i \in 1..Len(q.events), j \in 1..Len(r.events) : q.events[i] # r.events[j]

PostsInv ==
    /\ \A q \in posts : PostOk(q)
    /\ \A q, r \in posts : Apart(q, r)

\* What is on the stream, was or will be, comes from a request, and what was
\* taken is of that kind.
SourceInv ==
    /\ \A m \in used : \E q \in posts : \E i \in 1..Len(q.events) :
          i < q.next /\ m = <<q.events[i], q.attempt>>
    /\ \A e \in received : \E k \in 1..MaxRetries : <<e, k>> \in used

\* What the SDK has counted it holds no more.
CountedInv ==
    \A e \in confirmed \cup shed :
        /\ e \in Events /\ e <= calls
        /\ e \notin D!InSeq(queue) \cup D!InSeq(batch)

-----------------------------------------------------------------------------
(* The steps of the parts.                                                  *)

\* What the loop of ingest() publishes next is an entry.
LEMMA NextEntry ==
    ASSUME PostsInv, NEW q \in posts, Publish(q)
    PROVE  /\ q.next \in 1..Len(q.events)
           /\ q.events[q.next] \in Events /\ q.attempt \in 1..MaxRetries
           /\ <<q.events[q.next], q.attempt>> \in Entries
           /\ sent[q.events[q.next]] > 0
<1>1. PostOk(q) /\ q.events \in Seq(Events) /\ q.attempt \in 1..MaxRetries
  BY DEF PostsInv, PostOk
<1>2. q.next \in 1..Len(q.events)
  BY <1>1 DEF Publish, PostOk
<1>3. q.events[q.next] \in Events
  BY <1>1, <1>2
<1>4. sent[q.events[q.next]] > 0
  BY <1>1, <1>2 DEF PostOk
<1> QED
  BY <1>1, <1>2, <1>3, <1>4, Ids

\* An answer 202 comes after every event of the batch was taken.
LEMMA AnswerTaken ==
    ASSUME PostsInv, Answered PROVE D!InSeq(batch) \subseteq received
<1>1. PICK q \in posts : q.events = batch /\ q.attempt = attempt /\ Accepted(q)
  BY DEF Answered
<1>2. q.next \in 1..(Len(q.events) + 1) /\ Len(q.events) \in Nat
  BY DEF PostsInv, PostOk
<1>3. \A i \in 1..Len(q.events) : q.events[i] \in received
  BY <1>1, <1>2 DEF Accepted, PostsInv, PostOk
<1> QED
  BY <1>1, <1>3, Ids

\* A step of the pipeline is one of the dispatcher, or leaves it alone: an
\* answer comes after every event of the batch was taken.
LEMMA SdkSteps == PostsInv /\ [Next]_vars => [DP!Next]_(DP!vars)
<1> SUFFICES ASSUME PostsInv, [Next]_vars PROVE [DP!Next]_(DP!vars)
  OBVIOUS
<1>1. CASE SDK
  <2>1. CASE Answered
    <3>1. DP!InSeq(batch) \subseteq received
      BY <2>1, AnswerTaken, Ids
    <3>2. DP!SendOk
      BY <2>1, <3>1, SameDispatcher DEF Answered, DP!SendOk
    <3> QED
      BY <3>2 DEF DP!Next, DP!Flusher
  <2>2. CASE D!Host \/ D!Collect \/ D!SendRetry \/ D!SendGiveUp \/ D!BackoffOver
    BY <2>2, SameDispatcher DEF DP!Next, DP!Flusher
  <2>3. CASE \E c \in Closers : D!Close(c)
    BY <2>3, SameDispatcher DEF DP!Next
  <2> QED
    BY <1>1, <2>1, <2>2, <2>3 DEF SDK
<1>2. ASSUME NEW q \in posts, Publish(q) PROVE [DP!Next]_(DP!vars)
  <2> DEFINE e == q.events[q.next]
  <2>1. q.next \in 1..Len(q.events) /\ e \in Events /\ sent[e] > 0
    BY <1>2, NextEntry
  <2>2. received' = received \cup {e} /\ UNCHANGED sdk
    BY <1>2 DEF Publish
  <2> HIDE DEF e
  <2>3. CASE e \in received
    BY <2>2, <2>3 DEF sdk, DP!vars, DP!counters
  <2>4. CASE e \notin received
    <3>1. DP!ServerTakes(e)
      BY <2>1, <2>2, <2>4 DEF sdk, DP!ServerTakes, DP!counters
    <3> QED
      BY <2>1, <3>1, Ids DEF DP!Next, DP!Server
  <2> QED
    BY <2>3, <2>4
<1>3. CASE Ingestion \/ UNCHANGED vars
  BY <1>3 DEF Ingestion, vars, sdk, DP!vars, DP!counters
<1> QED
  BY <1>1, <1>2, <1>3 DEF Next

\* A step of the pipeline is one of the stream and its workers, or leaves them
\* alone.
LEMMA WorkerSteps == PostsInv /\ [Next]_vars => [WP!Next]_(WP!vars)
<1> SUFFICES ASSUME PostsInv, [Next]_vars PROVE [WP!Next]_(WP!vars)
  OBVIOUS
<1>1. CASE SDK \/ UNCHANGED vars
  BY <1>1 DEF SDK, vars, ingestion, WP!vars, WP!redis, WP!worker, WP!budget
<1>2. ASSUME NEW q \in posts, Publish(q) PROVE [WP!Next]_(WP!vars)
  <2>1. <<q.events[q.next], q.attempt>> \in Entries
    BY <1>2, NextEntry
  <2>2. W!Publish(<<q.events[q.next], q.attempt>>)
    BY <1>2 DEF Publish
  <2> QED
    BY <2>1, <2>2, SameWorker DEF WP!Next
<1>3. CASE Ingestion
  BY <1>3, SameWorker DEF Ingestion, WP!Next
<1> QED
  BY <1>1, <1>2, <1>3 DEF Next

\* So each part keeps its own invariants.
LEMMA PartsInit == Init => SdkInv /\ WorkerInv
<1> SUFFICES ASSUME Init PROVE SdkInv /\ WorkerInv
  OBVIOUS
<1>1. DP!Init /\ WP!Init
  BY SameDispatcher, SameWorker DEF Init
<1>2. DP!TypeOK /\ DP!AccountedInv /\ DP!CloseInv /\ DP!OrderInv
  BY <1>1, DP!TypeInit, DP!AccountedInit, DP!CloseInit, DP!OrderInit, ParamAssumption
<1>3. WP!Types /\ WP!StoredInv /\ WP!UsedInv
  BY <1>1, WP!TypesInit, WP!StoredInit, WP!UsedInit, ParamAssumption
     DEF Entries, Events, D!Events
<1> QED
  BY <1>2, <1>3 DEF SdkInv, WorkerInv

\* And goes on keeping them.
LEMMA PartsStep == SdkInv /\ WorkerInv /\ PostsInv /\ [Next]_vars => SdkInv' /\ WorkerInv'
<1> SUFFICES ASSUME SdkInv, WorkerInv, PostsInv, [Next]_vars PROVE SdkInv' /\ WorkerInv'
  OBVIOUS
<1>1. [DP!Next]_(DP!vars) /\ [WP!Next]_(WP!vars)
  BY SdkSteps, WorkerSteps
<1>2. DP!TypeOK'
  BY <1>1, DP!TypeStep, ParamAssumption DEF SdkInv
<1>3. DP!AccountedInv' /\ DP!CloseInv'
  BY <1>1, <1>2, DP!AccountedStep, DP!CloseStep, ParamAssumption DEF SdkInv
<1>4. DP!OrderInv'
  BY <1>1, <1>2, DP!OrderStep, ParamAssumption DEF SdkInv
<1>5. WP!Types'
  BY <1>1, WP!TypesStep, ParamAssumption DEF WorkerInv, Entries, Events, D!Events
<1>6. WP!StoredInv' /\ WP!UsedInv'
  BY <1>1, <1>5, WP!StoredInvStep, WP!UsedStep, ParamAssumption
     DEF WorkerInv, Entries, Events, D!Events
<1> QED
  BY <1>2, <1>3, <1>4, <1>5, <1>6 DEF SdkInv, WorkerInv

-----------------------------------------------------------------------------
(* What a step of the SDK does to its batches.                              *)

\* The next batch comes out of the queue and was never on the wire.
LEMMA NextBatch ==
    ASSUME SdkInv, DP!LoopHead, UNCHANGED sinkOpen
    PROVE  /\ \A e \in D!InSeq(queue') \cup D!InSeq(batch') : e \in D!InSeq(queue)
           /\ \A e \in D!InSeq(batch') : sent[e] = 0
           /\ \A e \in Events : sent'[e] >= sent[e]
           /\ sent' # sent =>
                 attempt' = 1 /\ \A e \in D!InSeq(batch') : sent'[e] > 0
<1>1. CASE DP!TakeBatch
  <2> DEFINE n == DP!BatchLen
             b == SubSeq(queue, 1, n)
             r == SubSeq(queue, n + 1, Len(queue))
  <2>1. queue \in Seq(Events) /\ Len(queue) \in Nat /\ n \in 0..Len(queue)
    BY Ids, ParamAssumption DEF SdkInv, DP!TypeOK, DP!BatchLen
  <2>2. /\ Len(b) = n /\ Len(r) = Len(queue) - n
        /\ \A i \in 1..n : b[i] = queue[i]
        /\ \A i \in 1..(Len(queue) - n) : r[i] = queue[n + i]
    BY <2>1, DP!SplitSeq
  <2>3. batch' = b /\ queue' = r /\ attempt' = 1 /\ DP!Post(b)
    BY <1>1 DEF DP!TakeBatch
  <2> HIDE DEF n, b, r
  <2>4. \A i \in 1..Len(queue) : queue[i] \in Events /\ sent[queue[i]] = 0
    <3> SUFFICES ASSUME NEW i \in 1..Len(queue)
                 PROVE  queue[i] \in Events /\ sent[queue[i]] = 0
      OBVIOUS
    <3>1. queue[i] \in Events
      BY <2>1
    <3>2. queue[i] \in Int /\ sent[queue[i]] \in Nat
      BY <3>1, Ids DEF SdkInv, DP!TypeOK
    <3>3. ~(sent[queue[i]] > 0)
      BY <3>1, <3>2, Ids DEF SdkInv, DP!OrderInv
    <3> QED
      BY <3>1, <3>2, <3>3
  <2>5. /\ \A e \in D!InSeq(b) : e \in D!InSeq(queue)
        /\ \A e \in D!InSeq(r) : e \in D!InSeq(queue)
    <3>1. /\ \A i \in 1..Len(b) : i \in 1..Len(queue) /\ b[i] = queue[i]
          /\ \A i \in 1..Len(r) : n + i \in 1..Len(queue) /\ r[i] = queue[n + i]
      BY <2>1, <2>2
    <3> QED
      BY <3>1, InSeqOf
  <2>6. \A e \in D!InSeq(queue) : e \in Events /\ sent[e] = 0
    BY <2>4, Ids
  <2>7. /\ \A e \in Events : sent'[e] = IF sinkOpen /\ e \in D!InSeq(b) THEN sent[e] + 1 ELSE sent[e]
        /\ \A e \in Events : sent[e] \in Nat
        /\ sent' = [e \in Events |-> sent'[e]] /\ sent = [e \in Events |-> sent[e]]
    BY <2>3, Ids DEF DP!Post, SdkInv, DP!TypeOK
  <2>8. sent' # sent => sinkOpen
    BY <2>7
  <2> QED
    BY <2>3, <2>5, <2>6, <2>7, <2>8
<1>2. CASE DP!Idle("done") \/ DP!Idle("get")
  <2>1. batch' = <<>> /\ UNCHANGED <<queue, sent>>
    BY <1>2 DEF DP!Idle
  <2>2. D!InSeq(batch') = {} /\ D!InSeq(queue') = D!InSeq(queue)
    BY <2>1, Ids
  <2>3. \A e \in Events : sent[e] \in Nat
    BY Ids DEF SdkInv, DP!TypeOK
  <2> QED
    BY <2>1, <2>2, <2>3
<1> QED
  BY <1>1, <1>2 DEF DP!LoopHead

\* A retry posts the same batch, one attempt later.
LEMMA NextAttempt ==
    ASSUME SdkInv, DP!BackoffOver
    PROVE  /\ attempt \in Nat /\ attempt' = attempt + 1
           /\ UNCHANGED <<queue, batch, calls>>
           /\ \A e \in Events : sent'[e] >= sent[e]
           /\ sent' # sent => \A e \in D!InSeq(batch') : sent'[e] > 0
<1>1. /\ attempt' = attempt + 1 /\ DP!Post(batch) /\ UNCHANGED sinkOpen
      /\ UNCHANGED <<queue, batch, calls, delivered, dropped>>
  BY DEF DP!BackoffOver, DP!counters
<1>2. attempt \in Nat /\ batch \in Seq(Events) /\ sent \in [Events -> Nat]
  BY Ids DEF SdkInv, DP!TypeOK
<1>3. \A e \in D!InSeq(batch) : e \in Events
  BY <1>2, InSeqOf
<1>4. /\ \A e \in Events : sent'[e] = IF sinkOpen /\ e \in D!InSeq(batch) THEN sent[e] + 1 ELSE sent[e]
      /\ sent' = [e \in Events |-> sent'[e]] /\ sent = [e \in Events |-> sent[e]]
      /\ \A e \in Events : sent[e] \in Nat
  BY <1>1, <1>2, Ids DEF DP!Post
<1>5. sent' # sent => sinkOpen
  BY <1>4
<1> QED
  BY <1>1, <1>2, <1>3, <1>4, <1>5

\* What a step of the SDK does to the events it holds and counts.
LEMMA SdkEffect ==
    ASSUME SdkInv, PostsInv, SDK
    PROVE  /\ \A e \in Events : sent'[e] >= sent[e]
           /\ \A e \in D!InSeq(batch') :
                 \/ sent[e] = 0
                 \/ /\ e \in D!InSeq(batch)
                    /\ attempt' >= attempt
                    /\ sent' # sent => attempt' > attempt
           /\ sent' # sent =>
                 attempt' >= 1 /\ \A e \in D!InSeq(batch') : sent'[e] > 0
           /\ calls' \in {calls, calls + 1}
           /\ \A e \in D!InSeq(queue') \cup D!InSeq(batch') :
                 \/ e \in D!InSeq(queue) \cup D!InSeq(batch)
                 \/ e = calls' /\ calls' = calls + 1
           /\ delivered' # delivered =>
                 /\ D!InSeq(batch) \subseteq received
                 /\ calls' = calls /\ dropped' = dropped
                 /\ \A e \in D!InSeq(queue') \cup D!InSeq(batch') : e \in D!InSeq(queue)
           /\ dropped' # dropped =>
                 /\ delivered' = delivered
                 /\ \/ calls' = calls + 1 /\ UNCHANGED <<queue, batch>>
                    \/ /\ calls' = calls
                       /\ \A e \in D!InSeq(queue') \cup D!InSeq(batch') : e \in D!InSeq(queue)
           /\ UNCHANGED received
<1>1. /\ sent \in [Events -> Nat] /\ attempt \in Nat /\ calls \in Nat
      /\ queue \in Seq(Events) /\ batch \in Seq(Events)
  BY Ids DEF SdkInv, DP!TypeOK
<1>2. \A e \in Events : sent[e] \in Nat
  BY <1>1
<1>3. CASE \/ DP!Start \/ DP!SubmitClosed \/ DP!StartLoop \/ DP!SendRetry
  BY <1>1, <1>2, <1>3 DEF DP!Start, DP!SubmitClosed, DP!StartLoop, DP!SendRetry, DP!counters
<1>4. CASE DP!SubmitFull
  BY <1>1, <1>2, <1>4 DEF DP!SubmitFull
<1>5. CASE DP!SubmitQueued
  <2>1. /\ queue' = Append(queue, calls + 1) /\ calls' = calls + 1
        /\ UNCHANGED <<batch, attempt, sent, received, delivered, dropped>>
    BY <1>5 DEF DP!SubmitQueued, DP!counters
  <2>2. Len(queue') = Len(queue) + 1 /\ \A i \in 1..Len(queue') :
            queue'[i] = IF i = Len(queue) + 1 THEN calls + 1 ELSE queue[i]
    BY <1>1, <2>1
  <2>3. \A e \in D!InSeq(queue') : e \in D!InSeq(queue) \/ e = calls + 1
    BY <1>1, <2>2, Ids
  <2> QED
    BY <1>1, <1>2, <2>1, <2>3
<1>6. CASE DP!EndLoop \/ \E c \in Closers : DP!Close(c)
  <2>1. /\ UNCHANGED <<queue, sent, received, calls, delivered, dropped>>
        /\ batch' = <<>> \/ UNCHANGED <<batch, attempt>>
    BY <1>6 DEF DP!EndLoop, DP!Close, DP!CloseAgain, DP!BeginClose, DP!DrainTimeout,
         DP!DrainOver, DP!DrainRaises, DP!SinkIsClosed, DP!CancelTask, DP!counters
  <2>2. batch' = <<>> => D!InSeq(batch') = {}
    BY Ids
  <2> QED
    BY <1>1, <1>2, <2>1, <2>2
<1>7. CASE DP!BackoffOver
  <2>1. UNCHANGED <<received, delivered, dropped>>
    BY <1>7 DEF DP!BackoffOver, DP!counters
  <2> QED
    BY <1>1, <1>7, <2>1, NextAttempt
<1>8. ASSUME DP!LoopHead, UNCHANGED <<sinkOpen, calls, received>>,
             \/ UNCHANGED <<delivered, dropped>>
             \/ D!InSeq(batch) \subseteq received /\ UNCHANGED dropped
             \/ UNCHANGED delivered
      PROVE  /\ \A e \in Events : sent'[e] >= sent[e]
             /\ \A e \in D!InSeq(batch') : sent[e] = 0
             /\ sent' # sent =>
                   attempt' >= 1 /\ \A e \in D!InSeq(batch') : sent'[e] > 0
             /\ \A e \in D!InSeq(queue') \cup D!InSeq(batch') : e \in D!InSeq(queue)
             /\ calls' = calls /\ received' = received
             /\ delivered' # delivered => D!InSeq(batch) \subseteq received /\ dropped' = dropped
             /\ dropped' # dropped => delivered' = delivered
  BY <1>8, NextBatch
<1>9. CASE DP!Collect
  BY <1>8, <1>9 DEF DP!Collect, DP!counters
<1>10. CASE DP!SendGiveUp
  BY <1>8, <1>10 DEF DP!SendGiveUp
<1>11. CASE Answered
  BY <1>8, <1>11, AnswerTaken, SameDispatcher DEF Answered
<1> QED
  BY <1>3, <1>4, <1>5, <1>6, <1>7, <1>9, <1>10, <1>11, SameDispatcher DEF SDK, DP!Host

-----------------------------------------------------------------------------
(* Requests.                                                                *)

\* A new request is for the batch in flight, at an attempt that no other
\* request with one of its events has.
LEMMA PostsSdk ==
    ASSUME SdkInv, SdkInv', PostsInv, SDK PROVE PostsInv'
<1>1. PICK new : new = [events |-> batch', attempt |-> attempt', next |-> 1]
  OBVIOUS
<1>2. posts' = IF sent' = sent THEN posts ELSE posts \cup {new}
  BY <1>1 DEF SDK, Wire
<1>3. /\ \A e \in Events : sent[e] \in Nat /\ sent'[e] \in Nat
      /\ attempt \in Nat /\ attempt' \in 0..MaxRetries
      /\ batch \in Seq(Events) /\ batch' \in Seq(Events)
  <2>1. sent \in [Events -> Nat] /\ attempt \in Nat /\ batch \in Seq(Events)
    BY Ids DEF SdkInv, DP!TypeOK
  <2>2. sent' \in [Events -> Nat] /\ attempt' \in 0..MaxRetries /\ batch' \in Seq(Events)
    BY Ids DEF SdkInv, DP!TypeOK
  <2> QED
    BY <2>1, <2>2
<1>4. UNCHANGED received
  BY SdkEffect
<1>5. ASSUME NEW q \in posts, NEW i \in 1..Len(q.events), q.events[i] \in D!InSeq(batch')
      PROVE  q.attempt <= attempt' /\ (sent' # sent => q.attempt < attempt')
  <2>1. PostOk(q)
    BY DEF PostsInv
  <2>2. q.events \in Seq(Events) /\ q.attempt \in 1..MaxRetries
    BY <2>1 DEF PostOk
  <2>3. q.attempt \in Nat /\ q.events[i] \in Events /\ sent[q.events[i]] > 0
    BY <2>1, <2>2 DEF PostOk
  <2>4. /\ q.events[i] \in D!InSeq(batch) /\ attempt' >= attempt
        /\ sent' # sent => attempt' > attempt
    BY <1>3, <1>5, <2>3, SdkEffect
  <2>5. q.attempt <= attempt
    BY <2>1, <2>4 DEF PostOk
  <2> QED
    BY <1>3, <2>3, <2>4, <2>5
<1>6. ASSUME NEW q \in posts PROVE PostOk(q)'
  <2>1. PostOk(q)
    BY DEF PostsInv
  <2>2. q \in [events : Seq(Events), attempt : 1..MaxRetries, next : Nat]
    BY <2>1 DEF PostOk
  <2>3. ASSUME NEW i \in 1..Len(q.events)
        PROVE  /\ sent'[q.events[i]] > 0
               /\ i < q.next => q.events[i] \in received'
    <3>1. q.events[i] \in Events
      BY <2>2
    <3>2. sent'[q.events[i]] >= sent[q.events[i]] /\ sent[q.events[i]] > 0
      BY <2>1, <3>1, SdkEffect DEF PostOk
    <3>3. i < q.next => q.events[i] \in received
      BY <2>1 DEF PostOk
    <3> QED
      BY <1>3, <1>4, <3>1, <3>2, <3>3
  <2>4. \A i \in 1..Len(q.events) : q.events[i] \in D!InSeq(batch') => q.attempt <= attempt'
    BY <1>5
  <2> QED
    BY <2>1, <2>2, <2>3, <2>4 DEF PostOk
<1>7. CASE sent' = sent
  BY <1>2, <1>6, <1>7 DEF PostsInv
<1>8. CASE sent' # sent
  <2>1. new.events = batch' /\ new.attempt = attempt' /\ new.next = 1
    BY <1>1
  <2>2. posts' = posts \cup {new}
    BY <1>2, <1>8
  <2>3. /\ new \in [events : Seq(Events), attempt : 1..MaxRetries, next : Nat]
        /\ new.next \in 1..(Len(new.events) + 1)
    <3>1. attempt' \in 1..MaxRetries
      BY <1>3, <1>8, SdkEffect
    <3>2. Len(batch') \in Nat
      BY <1>3
    <3> QED
      BY <1>1, <1>3, <3>1, <3>2
  <2>4. \A i \in 1..Len(batch') : batch'[i] \in Events /\ batch'[i] \in Int
    <3>1. \A i \in 1..Len(batch') : batch'[i] \in Events
      BY <1>3
    <3> QED
      BY <3>1, Ids
  <2>5. \A i, j \in 1..Len(batch') : i < j => batch'[i] < batch'[j]
    BY DEF SdkInv, DP!OrderInv
  <2>6. \A i, j \in 1..Len(new.events) : new.events[i] = new.events[j] => i = j
    BY <2>1, <2>4, <2>5
  <2>7. \A i \in 1..Len(new.events) :
            /\ sent'[new.events[i]] > 0
            /\ i < new.next => new.events[i] \in received'
            /\ new.events[i] \in D!InSeq(batch') => new.attempt <= attempt'
    <3>1. \A i \in 1..Len(batch') : batch'[i] \in D!InSeq(batch')
      BY InSeqOf
    <3> QED
      BY <1>3, <1>8, <2>1, <3>1, SdkEffect
  <2>8. PostOk(new)'
    BY <2>3, <2>6, <2>7 DEF PostOk
  <2>9. ASSUME NEW q \in posts, q.attempt = new.attempt,
               NEW i \in 1..Len(q.events), NEW j \in 1..Len(new.events)
        PROVE  q.events[i] # new.events[j]
    <3> SUFFICES ASSUME q.events[i] = new.events[j] PROVE FALSE
      OBVIOUS
    <3>1. q.events[i] \in D!InSeq(batch')
      BY <2>1, InSeqOf
    <3>2. q.attempt < attempt'
      BY <1>5, <1>8, <3>1
    <3> QED
      BY <1>3, <2>1, <2>9, <3>2
  <2>10. Apart(new, new) /\ \A q \in posts : Apart(q, new) /\ Apart(new, q)
    BY <2>9 DEF Apart
  <2> QED
    BY <1>6, <2>2, <2>8, <2>10 DEF PostsInv
<1> QED
  BY <1>7, <1>8

\* A request goes on with the event it just published taken.
LEMMA PostsPublish ==
    ASSUME PostsInv, NEW q \in posts, Publish(q) PROVE PostsInv'
<1>1. PICK s : s = [q EXCEPT !.next = @ + 1]
  OBVIOUS
<1>2. PostOk(q) /\ q.next \in 1..Len(q.events)
  BY NextEntry DEF PostsInv
<1>3. /\ q \in [events : Seq(Events), attempt : 1..MaxRetries, next : Nat]
      /\ Len(q.events) \in Nat
  BY <1>2 DEF PostOk
<1>4. s.events = q.events /\ s.attempt = q.attempt /\ s.next = q.next + 1
  BY <1>1, <1>3
<1>5. /\ s \in [events : Seq(Events), attempt : 1..MaxRetries, next : Nat]
      /\ s.next \in 1..(Len(s.events) + 1)
  BY <1>1, <1>2, <1>3
<1>6. /\ posts' = (posts \ {q}) \cup {s}
      /\ received' = received \cup {q.events[q.next]}
      /\ UNCHANGED <<sent, batch, attempt>>
  BY <1>1 DEF Publish, sdk
<1>7. \A i \in 1..Len(s.events) :
          /\ sent'[s.events[i]] > 0
          /\ i < s.next => s.events[i] \in received'
          /\ s.events[i] \in D!InSeq(batch') => s.attempt <= attempt'
  <2> SUFFICES ASSUME NEW i \in 1..Len(q.events)
               PROVE  /\ sent[q.events[i]] > 0
                      /\ i < q.next + 1 => q.events[i] \in received'
                      /\ q.events[i] \in D!InSeq(batch) => q.attempt <= attempt
    BY <1>4, <1>6
  <2>1. i < q.next + 1 => i < q.next \/ i = q.next
    BY <1>2, <1>3
  <2> QED
    BY <1>2, <1>6, <2>1 DEF PostOk
<1>8. \A i, j \in 1..Len(s.events) : s.events[i] = s.events[j] => i = j
  BY <1>2, <1>4 DEF PostOk
<1>9. PostOk(s)'
  BY <1>5, <1>7, <1>8 DEF PostOk
<1>10. ASSUME NEW r \in posts \ {q} PROVE PostOk(r)' /\ Apart(r, s) /\ Apart(s, r)
  <2>1. PostOk(r) /\ Apart(r, q) /\ Apart(q, r)
    BY DEF PostsInv
  <2>2. PostOk(r)'
    BY <1>6, <2>1 DEF PostOk
  <2>3. Apart(r, s) /\ Apart(s, r)
    BY <1>4, <2>1 DEF Apart
  <2> QED
    BY <2>2, <2>3
<1>11. Apart(s, s)
  BY DEF Apart
<1> QED
  BY <1>6, <1>9, <1>10, <1>11 DEF PostsInv

\* Requests are what they are in every step.
LEMMA PostsStep == SdkInv /\ SdkInv' /\ PostsInv /\ [Next]_vars => PostsInv'
<1> SUFFICES ASSUME SdkInv, SdkInv', PostsInv, [Next]_vars PROVE PostsInv'
  OBVIOUS
<1>1. CASE Ingestion \/ UNCHANGED vars
  <2>1. UNCHANGED <<posts, sent, received, batch, attempt>>
    BY <1>1 DEF Ingestion, vars, sdk
  <2> QED
    BY <2>1 DEF PostsInv, PostOk
<1> QED
  BY <1>1, PostsSdk, PostsPublish DEF Next

-----------------------------------------------------------------------------
(* Entries.                                                                 *)

\* An entry is published once: a request passes each of its events once, and no
\* two requests carry one event at one attempt.
LEMMA PublishFresh ==
    ASSUME PostsInv, SourceInv, NEW q \in posts, Publish(q)
    PROVE  <<q.events[q.next], q.attempt>> \notin used
<1> SUFFICES ASSUME <<q.events[q.next], q.attempt>> \in used PROVE FALSE
  OBVIOUS
<1>1. q.next \in 1..Len(q.events)
  BY NextEntry
<1>2. PICK r \in posts : \E i \in 1..Len(r.events) :
          i < r.next /\ <<q.events[q.next], q.attempt>> = <<r.events[i], r.attempt>>
  BY DEF SourceInv
<1>3. PICK i \in 1..Len(r.events) :
          i < r.next /\ <<q.events[q.next], q.attempt>> = <<r.events[i], r.attempt>>
  BY <1>2
<1>4. q.events[q.next] = r.events[i] /\ q.attempt = r.attempt
  BY <1>3
<1>5. CASE r = q
  BY <1>1, <1>3, <1>4, <1>5 DEF PostsInv, PostOk, Apart
<1>6. CASE r # q
  BY <1>1, <1>4, <1>6 DEF PostsInv, PostOk, Apart
<1> QED
  BY <1>5, <1>6

\* No worker's step publishes anything.
LEMMA IngestionUses == Ingestion => UNCHANGED used
BY SameWorker DEF Ingestion, WP!GoesStale, WP!Start, WP!Stop, WP!Work, WP!Trouble,
   WP!Boot, WP!ReadNew, WP!ReadEmpty, WP!Sweep, WP!Upsert, WP!UpsertRefused,
   WP!AckOk, WP!Park, WP!ParkAck, WP!UpsertFails, WP!AckFails, WP!CallKillsWorker, WP!Crash

\* Entries come from requests in every step.
LEMMA SourceStep ==
    SdkInv /\ PostsInv /\ SourceInv /\ [Next]_vars => SourceInv'
<1> SUFFICES ASSUME SdkInv, PostsInv, SourceInv, [Next]_vars PROVE SourceInv'
  OBVIOUS
<1>1. CASE SDK
  <2>1. posts \subseteq posts' /\ UNCHANGED <<used, received>>
    BY <1>1, SdkEffect DEF SDK, Wire, ingestion
  <2> QED
    BY <2>1 DEF SourceInv
<1>2. CASE Ingestion \/ UNCHANGED vars
  BY <1>2, IngestionUses DEF Ingestion, vars, sdk, ingestion, SourceInv
<1>3. ASSUME NEW q \in posts, Publish(q) PROVE SourceInv'
  <2> DEFINE s == [q EXCEPT !.next = @ + 1]
             n == <<q.events[q.next], q.attempt>>
  <2>1. /\ q \in [events : Seq(Events), attempt : 1..MaxRetries, next : Nat]
        /\ q.next \in 1..Len(q.events) /\ q.attempt \in 1..MaxRetries
    BY <1>3, NextEntry DEF PostsInv, PostOk
  <2>2. s.events = q.events /\ s.attempt = q.attempt /\ s.next = q.next + 1
    BY <2>1
  <2>3. /\ posts' = (posts \ {q}) \cup {s} /\ used' = used \cup {n}
        /\ received' = received \cup {q.events[q.next]}
    BY <1>3 DEF Publish, W!Publish
  <2> HIDE DEF s
  <2>4. ASSUME NEW m \in used'
        PROVE  \E r \in posts' : \E i \in 1..Len(r.events) :
                   i < r.next /\ m = <<r.events[i], r.attempt>>
    <3>1. CASE m = n
      <4>1. q.next \in 1..Len(s.events) /\ q.next < s.next /\ m = <<s.events[q.next], s.attempt>>
        BY <2>1, <2>2, <3>1
      <4> QED
        BY <2>3, <4>1
    <3>2. CASE m # n
      <4>1. PICK r \in posts : \E i \in 1..Len(r.events) :
                i < r.next /\ m = <<r.events[i], r.attempt>>
        BY <2>3, <3>2 DEF SourceInv
      <4>2. CASE r = q
        <5>1. PICK i \in 1..Len(q.events) : i < q.next /\ m = <<q.events[i], q.attempt>>
          BY <4>1, <4>2
        <5>2. i \in 1..Len(s.events) /\ i < s.next /\ m = <<s.events[i], s.attempt>>
          BY <2>1, <2>2, <5>1
        <5> QED
          BY <2>3, <5>2
      <4>3. CASE r # q
        BY <2>3, <4>1, <4>3
      <4> QED
        BY <4>2, <4>3
    <3> QED
      BY <3>1, <3>2
  <2>5. \A e \in received' : \E k \in 1..MaxRetries : <<e, k>> \in used'
    BY <2>1, <2>3 DEF SourceInv
  <2> QED
    BY <2>4, <2>5 DEF SourceInv
<1> QED
  BY <1>1, <1>2, <1>3 DEF Next

\* What a worker holds, and what was published, belongs to a taken event.
LEMMA UsedTaken ==
    ASSUME PostsInv, SourceInv, NEW m \in used
    PROVE  m[1] \in received
BY DEF PostsInv, PostOk, SourceInv

-----------------------------------------------------------------------------
(* Counters.                                                                *)

\* Ids in the queue and in the batch are those of past calls, once each.
LEMMA HeldIds ==
    ASSUME SdkInv
    PROVE  /\ \A e \in D!InSeq(queue) \cup D!InSeq(batch) : e \in Events /\ e <= calls
           /\ \A e \in D!InSeq(queue) : e \notin D!InSeq(batch)
           /\ calls \in 0..MaxCalls /\ \A e \in Events : e \in Nat
<1>1. queue \in Seq(Events) /\ batch \in Seq(Events) /\ calls \in 0..MaxCalls
  BY Ids DEF SdkInv, DP!TypeOK
<1>2. \A e \in D!InSeq(queue) \cup D!InSeq(batch) : e \in Events
  BY <1>1, InSeqOf
<1>3. \A e \in D!InSeq(queue) \cup D!InSeq(batch) : e <= calls
  BY InSeqOf DEF SdkInv, DP!OrderInv
<1>4. \A e \in Events : e \in Nat
  BY Ids
<1>5. ASSUME NEW e \in D!InSeq(queue), e \in D!InSeq(batch) PROVE FALSE
  <2>1. PICK i \in 1..Len(batch) : e = batch[i]
    BY <1>5, InSeqOf
  <2>2. PICK j \in 1..Len(queue) : e = queue[j]
    BY InSeqOf
  <2>3. batch[i] < queue[j]
    BY DEF SdkInv, DP!OrderInv
  <2>4. e \in Int
    BY <1>2, <1>4
  <2> QED
    BY <2>1, <2>2, <2>3, <2>4
<1> QED
  BY <1>1, <1>2, <1>3, <1>4, <1>5

\* What a step of the SDK counts, it no longer holds, and counts only then.
LEMMA CountedNow ==
    ASSUME SdkInv, SdkInv', PostsInv, SDK,
           NEW e, e \in confirmed' \cup shed', e \notin confirmed \cup shed
    PROVE  /\ e \in Events /\ e <= calls'
           /\ e \notin D!InSeq(queue') \cup D!InSeq(batch')
<1>1. /\ calls \in Nat /\ calls' \in {calls, calls + 1} /\ calls' \in 0..MaxCalls
      /\ \A f \in D!InSeq(queue) \cup D!InSeq(batch) : f \in Events /\ f \in Nat /\ f <= calls
      /\ \A f \in D!InSeq(queue) : f \notin D!InSeq(batch)
  <2>1. calls' \in 0..MaxCalls
    BY Ids DEF SdkInv, DP!TypeOK
  <2> QED
    BY <2>1, HeldIds, SdkEffect
<1>2. \/ delivered' # delivered /\ e \in D!InSeq(batch)
      \/ dropped' # dropped /\ calls' = calls /\ e \in D!InSeq(batch)
      \/ dropped' # dropped /\ calls' # calls /\ e = calls'
  BY DEF SDK, Count
<1>3. CASE delivered' # delivered /\ e \in D!InSeq(batch)
  BY <1>1, <1>3, SdkEffect
<1>4. CASE dropped' # dropped /\ calls' = calls /\ e \in D!InSeq(batch)
  <2>1. calls' # calls + 1
    BY <1>1, <1>4
  <2> QED
    BY <1>1, <1>4, <2>1, SdkEffect
<1>5. CASE dropped' # dropped /\ calls' # calls /\ e = calls'
  <2>1. calls' = calls + 1 /\ UNCHANGED <<queue, batch>>
    BY <1>5, SdkEffect
  <2>2. e \in Events
    BY <1>1, <1>5, <2>1, Ids
  <2>3. e \notin D!InSeq(queue) \cup D!InSeq(batch)
    BY <1>1, <1>5, <2>1
  <2> QED
    BY <1>1, <1>5, <2>1, <2>2, <2>3
<1> QED
  BY <1>2, <1>3, <1>4, <1>5

\* Nothing that was counted is held again.
LEMMA CountedStep ==
    SdkInv /\ SdkInv' /\ PostsInv /\ CountedInv /\ [Next]_vars => CountedInv'
<1> SUFFICES ASSUME SdkInv, SdkInv', PostsInv, CountedInv, [Next]_vars PROVE CountedInv'
  OBVIOUS
<1>1. CASE Ingestion \/ (\E q \in posts : Publish(q)) \/ UNCHANGED vars
  <2>1. UNCHANGED <<confirmed, shed, calls, queue, batch>>
    BY <1>1 DEF Ingestion, Publish, vars, sdk, history
  <2> QED
    BY <2>1 DEF CountedInv
<1>2. CASE SDK
  <2>1. ASSUME NEW e, e \in confirmed \cup shed
        PROVE  /\ e \in Events /\ e <= calls'
               /\ e \notin D!InSeq(queue') \cup D!InSeq(batch')
    <3>1. /\ e \in Events /\ e <= calls
          /\ e \notin D!InSeq(queue) \cup D!InSeq(batch)
      BY <2>1 DEF CountedInv
    <3>2. e \in Nat /\ calls \in Nat /\ calls' \in {calls, calls + 1}
      BY <1>2, <3>1, HeldIds, SdkEffect
    <3>3. e <= calls' /\ ~(e = calls' /\ calls' = calls + 1)
      BY <3>1, <3>2
    <3> QED
      BY <1>2, <3>1, <3>3, SdkEffect
  <2> QED
    BY <1>2, <2>1, CountedNow DEF CountedInv
<1> QED
  BY <1>1, <1>2 DEF Next

-----------------------------------------------------------------------------
(* What holds always.                                                       *)

\* All of it, together.
PipelineInv == SdkInv /\ WorkerInv /\ PostsInv /\ SourceInv /\ CountedInv

\* Requests carry what was sent, the stream carries what requests carry, and
\* the counters count what is gone: the parts stay what they assume of each other.
THEOREM PipelineAlways == Spec => []PipelineInv
<1>1. Init => PipelineInv
  <2>1. Init => PostsInv /\ SourceInv /\ CountedInv
    BY DEF Init, D!Init, W!Init, PostsInv, SourceInv, CountedInv
  <2> QED
    BY <2>1, PartsInit DEF PipelineInv
<1>2. PipelineInv /\ [Next]_vars => PipelineInv'
  BY PartsStep, PostsStep, SourceStep, CountedStep DEF PipelineInv
<1> QED
  BY <1>1, <1>2, PTL DEF Spec

\* POST /v1/ingest answers as the dispatcher's server does: 2xx only when
\* every event of the batch was taken.
THEOREM KeepsDispatcherAlways == Spec => KeepsDispatcher
<1>1. PipelineInv /\ [Next]_vars => [D!Next]_(D!vars)
  <2> SUFFICES ASSUME PipelineInv, [Next]_vars PROVE [D!Next]_(D!vars)
    OBVIOUS
  <2>1. [DP!Next]_(DP!vars)
    BY SdkSteps DEF PipelineInv
  <2>2. DP!Next => D!Next
    BY SameDispatcher, Ids DEF DP!Next, D!Next, DP!Flusher, D!Flusher, DP!SendOk, D!SendOk,
       DP!Server, D!Server, DP!ServerTakes, D!ServerTakes, DP!counters, D!counters,
       DP!Events, D!Events
  <2> QED
    BY <2>1, <2>2 DEF DP!vars, D!vars, DP!counters, D!counters
<1> QED
  BY <1>1, PipelineAlways, PTL DEF Spec, KeepsDispatcher

\* What was taken is at every moment on the stream, in the table or in the DLQ.
THEOREM AlwaysSomewhereAlways == Spec => []AlwaysSomewhere
<1>1. PipelineInv => AlwaysSomewhere
  <2> SUFFICES ASSUME PipelineInv, NEW e \in received
               PROVE  \/ rows[e] > 0
                      \/ \E k \in 1..MaxRetries :
                            entry[<<e, k>>] # "absent" \/ dlq[<<e, k>>] > 0
    BY DEF AlwaysSomewhere
  <2>1. PICK k \in 1..MaxRetries : <<e, k>> \in used
    BY DEF PipelineInv, SourceInv
  <2>2. <<e, k>> \in Entries
    BY <2>1 DEF PipelineInv, WorkerInv, WP!Types
  <2>3. entry[<<e, k>>] = "absent" => rows[e] > 0 \/ dlq[<<e, k>>] > 0
    BY <2>1, <2>2 DEF PipelineInv, WorkerInv, WP!StoredInv, WP!NothingLost
  <2> QED
    BY <2>3
<1> QED
  BY <1>1, PipelineAlways, PTL

-----------------------------------------------------------------------------
(* The refinement of LogStore.                                              *)

\* What LogStore sees as parked.
parkedNow == {e \in Events : \E k \in 1..MaxRetries : dlq[<<e, k>>] > 0}

\* A step of the SDK confirms or sheds a batch, or sheds one event, or does
\* nothing that LogStore sees.
LEMMA SdkRefines ==
    ASSUME PipelineInv, SdkInv', SDK PROVE [L!Next]_(L!vars)
<1>1. UNCHANGED <<received, rows, dlq>>
  BY SdkEffect DEF SDK, ingestion, PipelineInv
<1>2. /\ \A e \in D!InSeq(batch) : e \in Events /\ e \notin confirmed \cup shed
      /\ D!InSeq(batch) \subseteq Events
  BY HeldIds DEF PipelineInv, CountedInv
<1>3. CASE delivered' = delivered /\ dropped' = dropped
  BY <1>1, <1>3 DEF SDK, Count, L!vars
<1>4. CASE delivered' # delivered
  <2>1. D!InSeq(batch) \subseteq received /\ dropped' = dropped
    BY <1>4, SdkEffect DEF PipelineInv
  <2>2. L!Confirm(D!InSeq(batch))
    BY <1>1, <1>2, <1>4, <2>1 DEF SDK, Count, L!Confirm
  <2> QED
    BY <1>2, <2>2 DEF L!Next
<1>5. CASE dropped' # dropped
  <2>1. delivered' = delivered /\ calls' \in {calls, calls + 1}
    BY <1>5, SdkEffect DEF PipelineInv
  <2>2. CASE calls' = calls
    <3>1. L!Shed(D!InSeq(batch))
      BY <1>1, <1>2, <1>5, <2>1, <2>2 DEF SDK, Count, L!Shed
    <3> QED
      BY <1>2, <3>1 DEF L!Next
  <2>3. CASE calls' # calls
    <3>1. calls' \in Events /\ calls' = calls + 1 /\ calls \in Nat
      <4>1. calls' \in 0..MaxCalls
        BY Ids DEF SdkInv, DP!TypeOK
      <4> QED
        BY <2>1, <2>3, <4>1, HeldIds, Ids DEF PipelineInv
    <3>2. calls' \notin confirmed \cup shed
      BY <3>1 DEF PipelineInv, CountedInv
    <3>3. PICK e \in Events : e = calls'
      BY <3>1
    <3>4. L!Shed({e})
      BY <1>1, <1>5, <2>1, <2>3, <3>2, <3>3 DEF SDK, Count, L!Shed
    <3> QED
      BY <3>4 DEF L!Next
  <2> QED
    BY <2>2, <2>3
<1> QED
  BY <1>3, <1>4, <1>5

\* Publishing takes an event, or once more one that was taken.
LEMMA PublishRefines ==
    ASSUME PipelineInv, NEW q \in posts, Publish(q) PROVE [L!Next]_(L!vars)
<1> USE DEF PipelineInv
<1>1. PICK m : m = <<q.events[q.next], q.attempt>>
  OBVIOUS
<1>2. m \in Entries /\ m \notin used /\ q.events[q.next] \in Events
  BY <1>1, NextEntry, PublishFresh
<1>3. dlq[m] = 0 /\ dlq \in [Entries -> Nat]
  BY <1>2 DEF WorkerInv, WP!UsedInv, WP!Types
<1>4. dlq' = [dlq EXCEPT ![m] = 0] /\ UNCHANGED <<rows, confirmed, shed>>
  BY <1>1 DEF Publish, W!Publish, history
<1>5. dlq' = dlq
  BY <1>3, <1>4
<1>6. received' = received \cup {q.events[q.next]}
  BY DEF Publish
<1>7. CASE q.events[q.next] \in received
  BY <1>4, <1>5, <1>6, <1>7 DEF L!vars
<1>8. CASE q.events[q.next] \notin received
  <2>1. L!Take(q.events[q.next])
    BY <1>4, <1>5, <1>6, <1>8 DEF L!Take
  <2> QED
    BY <1>2, <2>1 DEF L!Next
<1> QED
  BY <1>7, <1>8

\* What a step of the workers does to the table and the DLQ.
LEMMA IngestionEffect ==
    ASSUME PipelineInv, Ingestion
    PROVE  \/ UNCHANGED <<rows, dlq>>
           \/ \E w \in Workers :
                 /\ cur[w] \in Entries
                 /\ \/ /\ rows' = [rows EXCEPT ![cur[w][1]] = IF @ = 0 THEN 1 ELSE @]
                       /\ UNCHANGED dlq
                    \/ /\ dlq' = [dlq EXCEPT ![cur[w]] = @ + 1]
                       /\ UNCHANGED rows
<1>1. CASE \E m \in Entries : WP!GoesStale(m)
  BY <1>1 DEF WP!GoesStale
<1>2. ASSUME NEW w \in Workers, WP!Start(w) \/ WP!Stop(w)
      PROVE  UNCHANGED <<rows, dlq>>
  BY <1>2 DEF WP!Start, WP!Stop
<1>3. ASSUME NEW w \in Workers,
             \/ WP!Boot(w) \/ WP!ReadNew(w) \/ WP!ReadEmpty(w) \/ WP!Sweep(w)
             \/ WP!UpsertRefused(w) \/ WP!AckOk(w) \/ WP!ParkAck(w)
             \/ WP!AckFails(w) \/ WP!Crash(w)
      PROVE  UNCHANGED <<rows, dlq>>
  BY <1>3 DEF WP!Boot, WP!ReadNew, WP!ReadEmpty, WP!Sweep, WP!UpsertRefused, WP!AckOk,
       WP!ParkAck, WP!AckFails, WP!Crash
<1>4. ASSUME NEW w \in Workers, pc[w] \in {"upsert", "park"} PROVE cur[w] \in Entries
  BY <1>4 DEF PipelineInv, WorkerInv, WP!Types, WP!Handling
<1>5. ASSUME NEW w \in Workers, WP!Upsert(w) \/ WP!UpsertFails(w)
      PROVE  /\ cur[w] \in Entries /\ UNCHANGED dlq
             /\ \/ UNCHANGED rows
                \/ rows' = [rows EXCEPT ![cur[w][1]] = IF @ = 0 THEN 1 ELSE @]
  <2>1. cur[w] \in Entries
    BY <1>4, <1>5 DEF WP!Upsert, WP!UpsertFails
  <2>2. [m \in Entries |-> m[1]][cur[w]] = cur[w][1]
    BY <2>1
  <2> QED
    BY <1>5, <2>1, <2>2 DEF WP!Upsert, WP!UpsertFails, WP!Insert
<1>6. ASSUME NEW w \in Workers, WP!Park(w) \/ WP!CallKillsWorker(w)
      PROVE  /\ UNCHANGED rows
             /\ \/ UNCHANGED dlq
                \/ cur[w] \in Entries /\ dlq' = [dlq EXCEPT ![cur[w]] = @ + 1]
  BY <1>4, <1>6 DEF WP!Park, WP!CallKillsWorker
<1>7. ASSUME NEW w \in Workers, WP!Work(w) \/ WP!Trouble(w)
      PROVE  \/ UNCHANGED <<rows, dlq>>
             \/ /\ cur[w] \in Entries
                /\ \/ /\ rows' = [rows EXCEPT ![cur[w][1]] = IF @ = 0 THEN 1 ELSE @]
                      /\ UNCHANGED dlq
                   \/ /\ dlq' = [dlq EXCEPT ![cur[w]] = @ + 1]
                      /\ UNCHANGED rows
  BY <1>3, <1>5, <1>6, <1>7 DEF WP!Work, WP!Trouble
<1> QED
  BY <1>1, <1>2, <1>7, SameWorker DEF Ingestion

\* A worker stores or parks an event that was taken, or does nothing that
\* LogStore sees.
LEMMA IngestionRefines ==
    ASSUME PipelineInv, Ingestion PROVE [L!Next]_(L!vars)
<1> USE DEF PipelineInv
<1>1. UNCHANGED <<received, confirmed, shed>>
  BY DEF Ingestion, history
<1>2. CASE UNCHANGED <<rows, dlq>>
  BY <1>1, <1>2 DEF L!vars
<1>3. ASSUME NEW w \in Workers, cur[w] \in Entries
      PROVE  /\ cur[w][1] \in Events /\ cur[w][1] \in received
             /\ \E k \in 1..MaxRetries : cur[w] = <<cur[w][1], k>>
  <2>1. cur[w] \in used
    BY <1>3 DEF WorkerInv, WP!UsedInv, WP!Holds
  <2>2. cur[w][1] \in received
    BY <2>1, UsedTaken
  <2> QED
    BY <1>3, <2>2, Ids
<1>4. ASSUME NEW w \in Workers, cur[w] \in Entries,
             rows' = [rows EXCEPT ![cur[w][1]] = IF @ = 0 THEN 1 ELSE @], UNCHANGED dlq
      PROVE  [L!Next]_(L!vars)
  <2>1. PICK e \in Events : e = cur[w][1] /\ e \in received
    BY <1>3, <1>4
  <2>2. rows \in [Events -> Nat]
    BY DEF WorkerInv, WP!Types
  <2>3. CASE rows[e] = 0
    <3>1. L!Store(e)
      BY <1>1, <1>4, <2>1, <2>2, <2>3 DEF L!Store
    <3> QED
      BY <3>1 DEF L!Next
  <2>4. CASE rows[e] # 0
    <3>1. rows' = rows
      BY <1>4, <2>1, <2>2, <2>4
    <3> QED
      BY <1>1, <1>4, <3>1 DEF L!vars
  <2> QED
    BY <2>3, <2>4
<1>5. ASSUME NEW w \in Workers, cur[w] \in Entries,
             dlq' = [dlq EXCEPT ![cur[w]] = @ + 1], UNCHANGED rows
      PROVE  [L!Next]_(L!vars)
  <2>1. PICK e \in Events, k \in 1..MaxRetries : cur[w] = <<e, k>> /\ e \in received
    BY <1>3, <1>5
  <2>2. dlq \in [Entries -> Nat]
    BY DEF WorkerInv, WP!Types
  <2>3. \A f \in Events, j \in 1..MaxRetries :
            <<f, j>> \in Entries /\ dlq[<<f, j>>] \in Nat
    BY <2>2, Ids
  <2>4. \A f \in Events, j \in 1..MaxRetries :
            dlq'[<<f, j>>] = IF f = e /\ j = k THEN dlq[<<f, j>>] + 1 ELSE dlq[<<f, j>>]
    <3>1. \A m \in Entries : dlq'[m] = IF m = cur[w] THEN dlq[m] + 1 ELSE dlq[m]
      BY <1>5, <2>2
    <3>2. \A f, j : <<f, j>> = cur[w] <=> f = e /\ j = k
      BY <2>1
    <3> QED
      BY <2>3, <3>1, <3>2
  <2>5. \A f \in Events :
            (\E j \in 1..MaxRetries : dlq'[<<f, j>>] > 0)
                <=> (\E j \in 1..MaxRetries : dlq[<<f, j>>] > 0) \/ f = e
    BY <2>1, <2>3, <2>4
  <2>6. parkedNow' = parkedNow \cup {e}
    BY <2>5 DEF parkedNow
  <2>7. L!Park(e)
    BY <1>1, <1>5, <2>1, <2>6 DEF L!Park, parkedNow
  <2> QED
    BY <2>7 DEF L!Next
<1> QED
  BY <1>2, <1>4, <1>5, IngestionEffect

\* LogStore starts where the pipeline starts and makes each of its steps: what
\* is confirmed was taken, what was taken is stored or parked, nothing is
\* stored or counted twice.
THEOREM LogStoreSteps == Spec => L!Init /\ [][L!Next]_(L!vars)
<1>1. Init => L!Init
  <2> SUFFICES ASSUME Init PROVE L!Init
    OBVIOUS
  <2>1. received = {} /\ confirmed = {} /\ shed = {} /\ rows = [e \in Events |-> 0]
        /\ dlq = [m \in Entries |-> 0]
    BY DEF Init, D!Init, W!Init
  <2>2. ASSUME NEW e \in Events, NEW k \in 1..MaxRetries PROVE ~(dlq[<<e, k>>] > 0)
    <3>1. <<e, k>> \in Entries
      BY Ids
    <3>2. dlq[<<e, k>>] = 0
      BY <2>1, <3>1
    <3> QED
      BY <3>2
  <2>3. {e \in Events : \E k \in 1..MaxRetries : dlq[<<e, k>>] > 0} = {}
    BY <2>2, Zenon
  <2> QED
    BY <2>1, <2>3 DEF L!Init
<1>2. PipelineInv /\ PipelineInv' /\ [Next]_vars => [L!Next]_(L!vars)
  <2> SUFFICES ASSUME PipelineInv, PipelineInv', [Next]_vars PROVE [L!Next]_(L!vars)
    OBVIOUS
  <2>1. CASE UNCHANGED vars
    BY <2>1 DEF vars, ingestion, history, L!vars
  <2> QED
    BY <2>1, SdkRefines, PublishRefines, IngestionRefines DEF Next, PipelineInv
<1> QED
  BY <1>1, <1>2, PipelineAlways, PTL DEF Spec

================================================================================
