------------------------------- MODULE Pipeline -------------------------------
(***************************************************************************)
(* An event's way from submit() to its row: the dispatcher of one process  *)
(* (Dispatcher), POST /v1/ingest of the ingestion API                      *)
(* (ingestion/app/api.py), and the workers behind the Redis stream         *)
(* (StreamWorker).                                                         *)
(*                                                                         *)
(* A stream entry <<e, k>> is event e, published for the k-th request that *)
(* carried it: both have e's request_id.  A request that the API never     *)
(* reads, stops handling half-way (a failed XADD, a crash) or answers too  *)
(* late is one that takes no further step; the SDK retries in any case.    *)
(***************************************************************************)
EXTENDS Integers, Sequences, FiniteSets

CONSTANTS MaxCalls, MaxQueue, BatchSize, MaxRetries, Closers, UsesHttpSink,
          Workers, MaxFaults, MaxStops, None,
          ReadCount,  \* settings.batch_size of the workers
          Tainted     \* valid events that Postgres refuses

VARIABLES loop, task, queue, batch, attempt, closing, closed, delivered, dropped,
          closer, sinkOpen, sent, received, calls, refused, closeMark

VARIABLES entry, order, rows, dlq, used, pc, cur, reading, faults, stops

VARIABLES
    invalid,    \* the events that fail the validation of IngestEvent
    posts,      \* requests at the API: their events, their attempt, and the
                \* position the loop of ingest() is at
    confirmed,  \* history: the events that delivered counts
    shed        \* history: the events that dropped counts

D == INSTANCE Dispatcher

Events == D!Events
Entries == Events \X (1..MaxRetries)

W == INSTANCE StreamWorker WITH
        Msgs <- Entries, Requests <- Events, ReqOf <- [m \in Entries |-> m[1]],
        Malformed <- {}, Poison <- Tainted \X (1..MaxRetries),
        BatchSize <- ReadCount, batch <- reading

ASSUME ParamAssumption ==
    /\ MaxCalls \in Nat /\ MaxQueue \in Nat \ {0} /\ BatchSize \in Nat \ {0}
    /\ MaxRetries \in Nat \ {0} /\ UsesHttpSink \in BOOLEAN
    /\ ReadCount \in Nat \ {0} /\ MaxFaults \in Nat /\ MaxStops \in Nat
    /\ Tainted \subseteq Events /\ None \notin Entries

sdk == <<loop, task, queue, batch, attempt, closing, closed, delivered, dropped,
         closer, sinkOpen, sent, calls, refused, closeMark>>
ingestion == <<entry, order, rows, dlq, used, pc, cur, reading, faults, stops>>
history == <<confirmed, shed>>
vars == <<invalid, sdk, received, posts, ingestion, history>>

Init ==
    /\ D!Init /\ W!Init
    /\ invalid \in SUBSET (Events \ Tainted)
    /\ posts = {} /\ confirmed = {} /\ shed = {}

-----------------------------------------------------------------------------
(* The SDK.                                                                 *)

\* A step that puts a batch on the wire makes a request at the API.
Wire ==
    posts' = IF sent' = sent THEN posts
             ELSE posts \cup {[events |-> batch', attempt |-> attempt', next |-> 1]}

Count ==
    /\ confirmed' = IF delivered' = delivered THEN confirmed
                    ELSE confirmed \cup D!InSeq(batch)
    /\ shed' = IF dropped' = dropped THEN shed
               ELSE shed \cup (IF calls' # calls THEN {calls'} ELSE D!InSeq(batch))

\* Mutation: 202 as soon as the first event is on the stream.
AcceptedEarly(q) == q.next > 1

\* return {"accepted": ...}, with status 202: the loop came to its end.
Accepted(q) == q.next > Len(q.events)

\* sink.send returns: this attempt was answered 202.
Answered ==
    /\ task = "send"
    /\ \E q \in posts : q.events = batch /\ q.attempt = attempt /\ Accepted(q)
    /\ delivered' = delivered + Len(batch)
    /\ D!LoopHead
    /\ UNCHANGED <<loop, closing, closed, dropped, closer, sinkOpen, received,
                   calls, refused, closeMark>>

SDK ==
    /\ \/ D!Host \/ D!Collect \/ D!SendRetry \/ D!SendGiveUp \/ D!BackoffOver
       \/ Answered
       \/ \E c \in Closers : D!Close(c)
    /\ Wire /\ Count
    /\ UNCHANGED <<ingestion, invalid>>

-----------------------------------------------------------------------------
(* The ingestion API.                                                       *)

\* One invalid event makes the request a 422 before anything is published.
Valid(q) == D!InSeq(q.events) \cap invalid = {}

\* Mutation: the handler moves on before XADD is done.
PublishSkips(q) ==
    /\ Valid(q) /\ q.next <= Len(q.events)
    /\ received' = received \cup {q.events[q.next]}
    /\ UNCHANGED ingestion
    /\ posts' = (posts \ {q}) \cup {[q EXCEPT !.next = @ + 1]}
    /\ UNCHANGED <<sdk, invalid, history>>

\* One round of the loop in ingest(): the event is on the stream.
Publish(q) ==
    /\ Valid(q) /\ q.next <= Len(q.events)
    /\ W!Publish(<<q.events[q.next], q.attempt>>)
    /\ received' = received \cup {q.events[q.next]}
    /\ posts' = (posts \ {q}) \cup {[q EXCEPT !.next = @ + 1]}
    /\ UNCHANGED <<sdk, invalid, history>>

-----------------------------------------------------------------------------
(* The workers.                                                             *)

Ingestion ==
    /\ \/ \E m \in Entries : W!GoesStale(m)
       \/ \E w \in Workers : W!Start(w) \/ W!Work(w) \/ W!Stop(w) \/ W!Trouble(w)
    /\ UNCHANGED <<sdk, invalid, received, posts, history>>

Next == SDK \/ (\E q \in posts : Publish(q)) \/ Ingestion

\* What is owed to the promises is owed by the workers alone: the process of
\* the SDK may end, and the API may die, at any moment.
Spec == Init /\ [][Next]_vars /\ W!Fairness

-----------------------------------------------------------------------------
(* What the parts promise together.                                         *)

\* The pipeline implements LogStore: what the SDK counts as delivered is on the
\* stream, and from there in the table, once, or in the DLQ (dispatcher.py:255,
\* api.py:105-109, worker.py:33-55, db.py:60-75).
L == INSTANCE LogStore WITH
        taken <- received,
        parked <- {e \in Events : \E k \in 1..MaxRetries : dlq[<<e, k>>] > 0}
ImplementsLogStore == L!Spec

\* The API is the server that Dispatcher assumes: a 2xx answer means that every
\* event of the batch was taken (api.py:105-109, dispatcher.py:255-257).
KeepsDispatcher == [][D!Next]_(D!vars)

\* An event that was taken is at every moment on the stream, in the table or in
\* the DLQ: under no crash is it in the memory of one process only.
AlwaysSomewhere ==
    \A e \in received :
        \/ rows[e] > 0
        \/ \E k \in 1..MaxRetries :
              entry[<<e, k>>] # "absent" \/ dlq[<<e, k>>] > 0
=============================================================================
