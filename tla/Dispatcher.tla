------------------------------ MODULE Dispatcher ------------------------------
(***************************************************************************)
(* LogDispatcher (sdk/inferlog/dispatcher.py): a bounded queue, ONE        *)
(* background flusher task that batches, sends and retries, and aclose(),  *)
(* which several callers may run at once.                                  *)
(*                                                                         *)
(* asyncio runs one callback at a time, so what a coroutine does between   *)
(* two awaits that really suspend is one action.  The n-th call of         *)
(* submit() carries event n: the order of the ids is the submission order. *)
(* Timers (flush interval, backoff, Retry-After, drain timeout) are steps  *)
(* that may come at any moment.                                            *)
(***************************************************************************)
EXTENDS Integers, Sequences, FiniteSets

CONSTANTS MaxCalls,     \* bound: how often the host calls submit()
          MaxQueue,     \* max_queue
          BatchSize,    \* batch_size
          MaxRetries,   \* max_retries: the total number of attempts
          Closers,      \* the aclose() calls the host makes
          UsesHttpSink  \* isinstance(self._sink, HttpSink)

ASSUME ParamAssumption ==
    /\ MaxCalls \in Nat
    /\ MaxQueue \in Nat \ {0}    \* 0 would make the asyncio.Queue unbounded
    /\ BatchSize \in Nat \ {0}
    /\ MaxRetries \in Nat \ {0}
    /\ UsesHttpSink \in BOOLEAN

Events == 1..MaxCalls

VARIABLES
    loop,       \* an event loop runs in the host's thread
    task,       \* self._task, and where the flusher is suspended
    queue,      \* self._queue
    batch,      \* the batch the flusher has taken out of the queue
    attempt,    \* attempt, in _send_with_retry
    closing,    \* self._closing
    closed,     \* self._closed
    delivered,  \* self.delivered
    dropped,    \* self.dropped
    closer,     \* where each aclose() call is suspended
    sinkOpen,   \* the httpx client behind the sink still takes requests
    sent,       \* history: how many requests carried the event
    received,   \* the server has taken the event at least once
    calls,      \* history: submit() calls so far
    refused,    \* history: those that returned at "if self._closed"
    closeMark   \* history: calls when self._closing was first set

counters == <<delivered, dropped>>
vars == <<loop, task, queue, batch, attempt, closing, closed, delivered,
          dropped, closer, sinkOpen, sent, received, calls, refused, closeMark>>

TaskStates == {"none", "ready", "get", "send", "backoff", "done", "cancelled"}
CloserStates == {"idle", "draining", "timedout", "closingSink",
                 "returned", "raised", "abandoned"}

Running == task \in {"ready", "get", "send", "backoff"}
Suspended(c) == closer[c] \in {"draining", "timedout", "closingSink"}

\* Without a running loop, aclose() runs alone, in a loop of its own.
HostRuns == loop \/ \A c \in Closers : ~Suspended(c)

InSeq(s) == {s[i] : i \in 1..Len(s)}

TypeOK ==
    /\ loop \in BOOLEAN
    /\ task \in TaskStates
    /\ queue \in Seq(Events) /\ Len(queue) <= MaxQueue
    /\ batch \in Seq(Events) /\ Len(batch) <= BatchSize
    /\ attempt \in 0..MaxRetries /\ (task = "backoff" => attempt < MaxRetries)
    /\ closing \in BOOLEAN /\ closed \in BOOLEAN
    /\ delivered \in Nat /\ dropped \in Nat
    /\ closer \in [Closers -> CloserStates]
    /\ sinkOpen \in BOOLEAN
    /\ sent \in [Events -> Nat]
    /\ received \subseteq Events
    /\ calls \in 0..MaxCalls /\ refused \in 0..calls
    /\ closeMark \in 0..MaxCalls

Init ==
    /\ loop \in BOOLEAN
    /\ task = "none"
    /\ queue = <<>> /\ batch = <<>> /\ attempt = 0
    /\ closing = FALSE /\ closed = FALSE
    /\ delivered = 0 /\ dropped = 0
    /\ closer = [c \in Closers |-> "idle"]
    /\ sinkOpen = TRUE
    /\ sent = [e \in Events |-> 0]
    /\ received = {}
    /\ calls = 0 /\ refused = 0 /\ closeMark = 0

-----------------------------------------------------------------------------
(* The host: submit() and start().                                          *)

\* start(): creates the task once, and only where a loop runs.
Started == IF task = "none" /\ ~closed /\ loop THEN "ready" ELSE task

\* init() calls dispatcher.start() eagerly.
Start ==
    /\ task = "none" /\ ~closed /\ loop
    /\ task' = Started
    /\ UNCHANGED <<loop, queue, batch, attempt, closing, closed, counters, closer,
                   sinkOpen, sent, received, calls, refused, closeMark>>

\* submit() on a closed dispatcher: the event vanishes, no counter moves.
SubmitClosed ==
    /\ HostRuns /\ calls < MaxCalls
    /\ closed
    /\ calls' = calls + 1
    /\ refused' = refused + 1
    /\ UNCHANGED <<loop, task, queue, batch, attempt, closing, closed, counters,
                   closer, sinkOpen, sent, received, closeMark>>

\* Mutation: the queue bound is off by one.
SubmitQueuedOneMore ==
    /\ HostRuns /\ calls < MaxCalls
    /\ ~closed
    /\ Len(queue) <= MaxQueue
    /\ calls' = calls + 1
    /\ task' = Started
    /\ queue' = Append(queue, calls + 1)
    /\ UNCHANGED <<loop, batch, attempt, closing, closed, counters, closer,
                   sinkOpen, sent, received, refused, closeMark>>

SubmitQueued ==
    /\ HostRuns /\ calls < MaxCalls
    /\ ~closed
    /\ Len(queue) < MaxQueue
    /\ calls' = calls + 1
    /\ task' = Started
    /\ queue' = Append(queue, calls + 1)
    /\ UNCHANGED <<loop, batch, attempt, closing, closed, counters, closer,
                   sinkOpen, sent, received, refused, closeMark>>

\* asyncio.QueueFull: the newest event is shed and counted.
SubmitFull ==
    /\ HostRuns /\ calls < MaxCalls
    /\ ~closed
    /\ Len(queue) >= MaxQueue
    /\ calls' = calls + 1
    /\ task' = Started
    /\ dropped' = dropped + 1
    /\ UNCHANGED <<loop, queue, batch, attempt, closing, closed, delivered, closer,
                   sinkOpen, sent, received, refused, closeMark>>

-----------------------------------------------------------------------------
(* The flusher: _run, _collect_batch, _send_with_retry.                     *)

\* One POST that carries b; a closed httpx client refuses before the wire.
Post(b) ==
    sent' = [e \in Events |->
                IF sinkOpen /\ e \in InSeq(b) THEN sent[e] + 1 ELSE sent[e]]

BatchLen == IF Len(queue) < BatchSize THEN Len(queue) ELSE BatchSize

\* while not (self._closing and self._queue.empty()): take what is there, up
\* to batch_size, and start the first attempt without suspending.
TakeBatch ==
    /\ queue # <<>>
    /\ batch' = SubSeq(queue, 1, BatchLen)
    /\ queue' = SubSeq(queue, BatchLen + 1, Len(queue))
    /\ attempt' = 1
    /\ task' = "send"
    /\ Post(SubSeq(queue, 1, BatchLen))

Idle(next) ==
    /\ queue = <<>>
    /\ batch' = <<>> /\ attempt' = 0
    /\ task' = next
    /\ UNCHANGED <<queue, sent>>

\* Mutation: "while not self._closing".
LoopHeadForgetsQueue ==
    \/ ~closing /\ (TakeBatch \/ Idle("get"))
    \/ /\ closing
       /\ batch' = <<>> /\ attempt' = 0 /\ task' = "done"
       /\ UNCHANGED <<queue, sent>>

LoopHead ==
    \/ TakeBatch
    \/ closing /\ Idle("done")
    \/ ~closing /\ Idle("get")

\* Woken by an event, or by flush_interval: the idle rounds that find the
\* queue still empty and the dispatcher open change nothing and are left out.
Collect ==
    /\ \/ task = "ready"
       \/ task = "get" /\ (queue # <<>> \/ closing)
    /\ LoopHead
    /\ UNCHANGED <<loop, closing, closed, counters, closer, sinkOpen, received,
                   calls, refused, closeMark>>

\* sink.send returned: the answer 2xx says that every event was taken.
SendOk ==
    /\ task = "send"
    /\ InSeq(batch) \subseteq received
    /\ delivered' = delivered + Len(batch)
    /\ LoopHead
    /\ UNCHANGED <<loop, closing, closed, dropped, closer, sinkOpen, received,
                   calls, refused, closeMark>>

\* Mutation: a failed batch goes back to the end of the queue.
SendRetryRequeues ==
    /\ task = "send"
    /\ attempt < MaxRetries
    /\ queue' = queue \o batch
    /\ batch' = <<>> /\ attempt' = 0 /\ task' = "get"
    /\ UNCHANGED <<loop, closing, closed, counters, closer, sinkOpen, sent, received,
                   calls, refused, closeMark>>

\* sink.send raised, transiently or not, and attempts remain.
SendRetry ==
    /\ task = "send"
    /\ attempt < MaxRetries
    /\ task' = "backoff"
    /\ UNCHANGED <<loop, queue, batch, attempt, closing, closed, counters, closer,
                   sinkOpen, sent, received, calls, refused, closeMark>>

\* Mutation: a lost batch counts as one drop.
SendGiveUpCountsOne ==
    /\ task = "send"
    /\ attempt = MaxRetries
    /\ dropped' = dropped + 1
    /\ LoopHead
    /\ UNCHANGED <<loop, closing, closed, delivered, closer, sinkOpen, received,
                   calls, refused, closeMark>>

\* sink.send raised at the last attempt ("max_retries" or "permanent_error").
SendGiveUp ==
    /\ task = "send"
    /\ attempt = MaxRetries
    /\ dropped' = dropped + Len(batch)
    /\ LoopHead
    /\ UNCHANGED <<loop, closing, closed, delivered, closer, sinkOpen, received,
                   calls, refused, closeMark>>

\* Mutation: the attempt counter is not advanced.
BackoffOverForever ==
    /\ task = "backoff"
    /\ task' = "send"
    /\ Post(batch)
    /\ UNCHANGED <<loop, queue, batch, attempt, closing, closed, counters, closer,
                   sinkOpen, received, calls, refused, closeMark>>

\* asyncio.sleep ends (Retry-After or jittered backoff): the next attempt.
BackoffOver ==
    /\ task = "backoff"
    /\ attempt' = attempt + 1
    /\ task' = "send"
    /\ Post(batch)
    /\ UNCHANGED <<loop, queue, batch, closing, closed, counters, closer, sinkOpen,
                   received, calls, refused, closeMark>>

\* The server takes one event of some request, answered or not: a request
\* that timed out at the SDK may still be served.
ServerTakes(e) ==
    /\ sent[e] > 0
    /\ e \notin received
    /\ received' = received \cup {e}
    /\ UNCHANGED <<loop, task, queue, batch, attempt, closing, closed, counters,
                   closer, sinkOpen, sent, calls, refused, closeMark>>

-----------------------------------------------------------------------------
(* aclose(), and the loop it may outlive.                                   *)

\* CancelledError goes through _send_with_retry's handlers: the batch in
\* flight is neither delivered nor counted as dropped.
CancelTask ==
    /\ task' = IF Running THEN "cancelled" ELSE task
    /\ batch' = <<>> /\ attempt' = 0

\* Mutation: the client is still open when self._closed is set.
CloseSinkLater(c) ==
    /\ closer' = [closer EXCEPT ![c] = "closingSink"]
    /\ UNCHANGED <<sinkOpen, closed>>

\* Past the wait: an HttpSink is closed across an await, others need none.
CloseSink(c) ==
    IF UsesHttpSink
    THEN /\ sinkOpen' = FALSE
         /\ closer' = [closer EXCEPT ![c] = "closingSink"]
         /\ UNCHANGED closed
    ELSE /\ closed' = TRUE
         /\ closer' = [closer EXCEPT ![c] = "returned"]
         /\ UNCHANGED sinkOpen

CloseAgain(c) ==
    /\ HostRuns /\ closer[c] = "idle"
    /\ closed
    /\ closer' = [closer EXCEPT ![c] = "returned"]
    /\ UNCHANGED <<loop, task, queue, batch, attempt, closing, closed, counters,
                   sinkOpen, sent, received, calls, refused, closeMark>>

\* Mutation: a flusher that sleeps between two attempts is not waited for.
MustWaitUnlessAsleep == Running /\ task # "backoff"

\* self._task is not None and not self._task.done()
MustWait == Running

BeginClose(c) ==
    /\ HostRuns /\ closer[c] = "idle"
    /\ ~closed
    /\ closing' = TRUE
    /\ closeMark' = IF closing THEN closeMark ELSE calls
    /\ IF MustWait
       THEN /\ closer' = [closer EXCEPT ![c] = "draining"]
            /\ UNCHANGED <<sinkOpen, closed>>
       ELSE CloseSink(c)
    /\ UNCHANGED <<loop, task, queue, batch, attempt, counters, sent, received,
                   calls, refused>>

\* wait_for gives up: it cancels the flusher, and waits for it to be gone.
DrainTimeout(c) ==
    /\ closer[c] = "draining"
    /\ Running
    /\ CancelTask
    /\ closer' = [closer EXCEPT ![c] = "timedout"]
    /\ UNCHANGED <<loop, queue, closing, closed, counters, sinkOpen, sent, received,
                   calls, refused, closeMark>>

\* The wait is over, by the flusher's return or by this call's own timeout.
DrainOver(c) ==
    /\ \/ closer[c] = "draining" /\ task = "done"
       \/ closer[c] = "timedout"
    /\ CloseSink(c)
    /\ UNCHANGED <<loop, task, queue, batch, attempt, closing, counters, sent,
                   received, calls, refused, closeMark>>

\* Mutation: the wait never learns that the flusher was cancelled.
DrainRaisesNever(c) == FALSE

\* Another call's timeout cancelled the flusher: this call's wait_for raises
\* CancelledError, which "except asyncio.TimeoutError" lets through.
DrainRaises(c) ==
    /\ closer[c] = "draining" /\ task = "cancelled"
    /\ closer' = [closer EXCEPT ![c] = "raised"]
    /\ UNCHANGED <<loop, task, queue, batch, attempt, closing, closed, counters,
                   sinkOpen, sent, received, calls, refused, closeMark>>

SinkIsClosed(c) ==
    /\ closer[c] = "closingSink"
    /\ closed' = TRUE
    /\ closer' = [closer EXCEPT ![c] = "returned"]
    /\ UNCHANGED <<loop, task, queue, batch, attempt, closing, counters, sinkOpen,
                   sent, received, calls, refused, closeMark>>

\* asyncio.run returns: it cancels every task of its loop.  Code without a
\* loop may follow, then atexit or flush(), whose own loop runs one aclose().
EndLoop ==
    /\ loop
    /\ loop' = FALSE
    /\ CancelTask
    /\ closer' = [c \in Closers |-> IF Suspended(c) THEN "abandoned" ELSE closer[c]]
    /\ UNCHANGED <<queue, closing, closed, counters, sinkOpen, sent, received, calls,
                   refused, closeMark>>

\* The first loop of the program, or a further asyncio.run.
StartLoop ==
    /\ ~loop
    /\ \A c \in Closers : ~Suspended(c)
    /\ loop' = TRUE
    /\ UNCHANGED <<task, queue, batch, attempt, closing, closed, counters, closer,
                   sinkOpen, sent, received, calls, refused, closeMark>>

-----------------------------------------------------------------------------
Host == Start \/ SubmitClosed \/ SubmitQueued \/ SubmitFull \/ EndLoop \/ StartLoop
Flusher == Collect \/ SendOk \/ SendRetry \/ SendGiveUp \/ BackoffOver
Server == \E e \in Events : ServerTakes(e)
Close(c) == \/ CloseAgain(c) \/ BeginClose(c) \/ DrainTimeout(c) \/ DrainOver(c)
            \/ DrainRaises(c) \/ SinkIsClosed(c)

Next == Host \/ Flusher \/ Server \/ \E c \in Closers : Close(c)

\* A running loop runs what is due: the flusher (httpx gives every request a
\* timeout, so sink.send ends) and each suspended aclose(), timer included.
Fairness ==
    /\ WF_vars(Flusher)
    /\ \A c \in Closers : WF_vars(Suspended(c) /\ Close(c))

Spec == Init /\ [][Next]_vars /\ Fairness

-----------------------------------------------------------------------------
(* What the dispatcher promises.                                            *)

\* Events that submit() took and that stats() does not show: neither counted
\* as delivered or dropped, nor queued, nor in the batch being sent.
Unaccounted ==
    (calls - refused) - (delivered + dropped + Len(queue) + Len(batch))

\* Every event that submit() takes is queued, in the one batch in flight,
\* delivered or dropped, and counted once.  Only the cancellation of the
\* flusher breaks this, and it hides at most one batch (lines 142-160, 228-285).
Accounted ==
    /\ Unaccounted \in 0..BatchSize
    /\ Unaccounted > 0 => task = "cancelled"

\* Retries keep the submission order: no event is put on the wire while an
\* older one still waits in the queue; and no event is carried by more than
\* MaxRetries requests (lines 228-253).
WireOrder ==
    /\ \A e \in InSeq(queue), f \in Events : sent[f] > 0 => f < e
    /\ \A e \in Events : sent[e] <= MaxRetries

\* A flusher that ends by itself leaves nothing behind that was submitted
\* before the first aclose() call: what is stranded in the queue came in the
\* window of the close itself (line 229).
DrainComplete == task = "done" => \A e \in InSeq(queue) : e > closeMark

\* No aclose() closes the HTTP client under a flusher that has a request on
\* the wire or is about to retry one (lines 211-217).
SinkNotPulled == (Running /\ ~sinkOpen) => \A e \in InSeq(batch) : sent[e] = 0

\* Once an aclose() has returned, the dispatcher puts nothing more on the wire.
SilentOnceClosed == [][closed => sent' = sent]_vars

\* A live flusher gets every queued event out of its hands, closing or not,
\* unless it is cancelled: failing batches do not block the queue for good.
EventResolved ==
    \A e \in Events :
        (Running /\ e \in InSeq(queue))
            ~> (e \notin InSeq(queue) \cup InSeq(batch) \/ task = "cancelled")

\* Every aclose() that began ends, whatever the sink and the other calls do.
CloseEnds == \A c \in Closers : Suspended(c) ~> ~Suspended(c)

(* What the source says of itself, and the code does not keep.              *)

\* "Flush what we can" (line 207), atexit and flush() included: an aclose() that
\* runs in a loop of its own, where nothing times out, leaves an empty queue.
ExitFlushes == [][(~loop /\ ~closed /\ closed') => queue' = <<>>]_vars
=============================================================================
