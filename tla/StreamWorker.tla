----------------------------- MODULE StreamWorker -----------------------------
(***************************************************************************)
(* The ingestion worker (ingestion/app/worker.py) on a Redis stream with a *)
(* consumer group (ingestion/app/stream.py) and the table inference_logs   *)
(* (IngestionDB.upsert_log).                                               *)
(*                                                                         *)
(* Several workers share the group.  Each Redis or Postgres call is one    *)
(* step at the server; a call that fails may have been applied or not.  A  *)
(* message is a slot that may be used again once it is acked and no worker *)
(* remembers it: traffic may go on for ever in a finite model.             *)
(***************************************************************************)
EXTENDS Integers, Sequences, FiniteSets

CONSTANTS Msgs,       \* stream entries
          Requests,   \* request_id values
          ReqOf,      \* the request_id of an entry: SDK retries share one
          Malformed,  \* entries that fail IngestEvent.model_validate
          Poison,     \* entries that Postgres refuses
          Workers,
          BatchSize,  \* settings.batch_size
          MaxFaults,  \* bound: crashes and failed calls
          MaxStops,   \* bound: SIGTERMs
          None        \* no message

ASSUME ParamAssumption ==
    /\ ReqOf \in [Msgs -> Requests]
    /\ Malformed \subseteq Msgs /\ Poison \subseteq Msgs
    /\ BatchSize \in Nat \ {0}
    /\ MaxFaults \in Nat /\ MaxStops \in Nat
    /\ None \notin Msgs

VARIABLES
    entry,    \* what the consumer group knows of an entry
    order,    \* the entries not yet acked, in stream order
    rows,     \* rows of inference_logs per request_id
    dlq,      \* DLQ entries made for this use of the slot
    used,     \* the slots published so far
    pc,       \* the call each worker awaits
    cur,      \* the message _handle is at
    batch,    \* the messages _handle has still to do
    faults, stops

redis == <<entry, order>>
worker == <<pc, cur, batch>>
budget == <<faults, stops>>
vars == <<redis, rows, dlq, used, worker, budget>>

\* absent: not published, or acked; new: never delivered; pending: in the
\* PEL; stale: in the PEL, idle for longer than claim_idle_ms.
EntryStates == {"absent", "new", "pending", "stale"}
PCs == {"down", "boot", "read", "sweep", "upsert", "ack", "park", "parkAck", "stopped"}

InPEL(m) == entry[m] \in {"pending", "stale"}
Alive(w) == pc[w] \notin {"down", "stopped"}
Handling(w) == pc[w] \in {"upsert", "ack", "park", "parkAck"}
Holds(w, m) == m = cur[w] \/ m \in batch[w]

Types ==
    /\ entry \in [Msgs -> EntryStates]
    /\ rows \in [Requests -> Nat]
    /\ dlq \in [Msgs -> Nat]
    /\ used \subseteq Msgs
    /\ pc \in [Workers -> PCs]
    /\ cur \in [Workers -> Msgs \cup {None}]
    /\ batch \in [Workers -> SUBSET Msgs]
    /\ \A w \in Workers :
          IF Handling(w) THEN cur[w] \in Msgs \ batch[w]
          ELSE cur[w] = None /\ batch[w] = {}
    /\ faults \in 0..MaxFaults /\ stops \in 0..MaxStops

Init ==
    /\ entry = [m \in Msgs |-> "absent"]
    /\ order = <<>>
    /\ rows = [r \in Requests |-> 0]
    /\ dlq = [m \in Msgs |-> 0]
    /\ used = {}
    /\ pc = [w \in Workers |-> "down"]
    /\ cur = [w \in Workers |-> None]
    /\ batch = [w \in Workers |-> {}]
    /\ faults = 0 /\ stops = 0

-----------------------------------------------------------------------------
(* Redis and time.                                                          *)

\* XADD by the ingestion API.
Publish(m) ==
    /\ entry[m] = "absent"
    /\ \A w \in Workers : ~Holds(w, m)
    /\ entry' = [entry EXCEPT ![m] = "new"]
    /\ order' = Append(order, m)
    /\ dlq' = [dlq EXCEPT ![m] = 0]
    /\ used' = used \cup {m}
    /\ UNCHANGED <<rows, worker, budget>>

\* claim_idle_ms go by without an XACK, whether or not a worker is at it.
GoesStale(m) ==
    /\ entry[m] = "pending"
    /\ entry' = [entry EXCEPT ![m] = "stale"]
    /\ UNCHANGED <<order, rows, dlq, used, worker, budget>>

In(state) == {m \in Msgs : entry[m] = state}

Before(m, n) ==
    \E i, j \in 1..Len(order) : i < j /\ order[i] = m /\ order[j] = n

\* The first BatchSize entries in that state, in stream order.
Oldest(C, state) ==
    /\ C \subseteq In(state)
    /\ IF Cardinality(In(state)) <= BatchSize THEN C = In(state)
       ELSE /\ Cardinality(C) = BatchSize
            /\ \A m \in C, n \in In(state) \ C : Before(m, n)

\* Both XREADGROUP > and XAUTOCLAIM 0-0 put the entries in the PEL afresh.
Deliver(C) == entry' = [m \in Msgs |-> IF m \in C THEN "pending" ELSE entry[m]]

Ack(m) ==
    /\ entry' = [entry EXCEPT ![m] = "absent"]
    /\ order' = SelectSeq(order, LAMBDA n : n # m)

-----------------------------------------------------------------------------
(* The worker.                                                              *)

\* _handle goes to the next message, or returns into the loop of run().  The
\* order within a batch is left open.
Advance(w, C) ==
    \/ /\ C = {}
       /\ pc' = [pc EXCEPT ![w] = "read"]
       /\ cur' = [cur EXCEPT ![w] = None]
       /\ batch' = [batch EXCEPT ![w] = {}]
    \/ \E m \in C :
          /\ pc' = [pc EXCEPT ![w] = IF m \in Malformed THEN "park" ELSE "upsert"]
          /\ cur' = [cur EXCEPT ![w] = m]
          /\ batch' = [batch EXCEPT ![w] = C \ {m}]

\* The process is gone, with what it held: a crash, or an exception that
\* leaves run().
Die(w) ==
    /\ pc' = [pc EXCEPT ![w] = "down"]
    /\ cur' = [cur EXCEPT ![w] = None]
    /\ batch' = [batch EXCEPT ![w] = {}]

Goto(w, next) == pc' = [pc EXCEPT ![w] = next] /\ UNCHANGED <<cur, batch>>

Fault == faults < MaxFaults /\ faults' = faults + 1 /\ UNCHANGED stops

\* A container is started: connect, apply_schema, ensure_group.
Start(w) ==
    /\ pc[w] \in {"down", "stopped"}
    /\ Goto(w, "boot")
    /\ UNCHANGED <<redis, rows, dlq, used, budget>>

\* claim_stale on startup takes one batch, and not again.
Boot(w) ==
    /\ pc[w] = "boot"
    /\ \E C \in SUBSET Msgs : Oldest(C, "stale") /\ Deliver(C) /\ Advance(w, C)
    /\ UNCHANGED <<order, rows, dlq, used, budget>>

\* stream.read with something new: XREADGROUP answers at once.
ReadNew(w) ==
    /\ pc[w] = "read"
    /\ In("new") # {}
    /\ \E C \in SUBSET Msgs : Oldest(C, "new") /\ Deliver(C) /\ Advance(w, C)
    /\ UNCHANGED <<order, rows, dlq, used, budget>>

\* stream.read blocked for block_ms, and nothing came.
ReadEmpty(w) ==
    /\ pc[w] = "read"
    /\ In("new") = {}
    /\ Goto(w, "sweep")
    /\ UNCHANGED <<redis, rows, dlq, used, budget>>

\* Mutation: the claimed messages are not handed to _handle.
SweepForgets(w) ==
    /\ pc[w] = "sweep"
    /\ \E C \in SUBSET Msgs : Oldest(C, "stale") /\ Deliver(C)
    /\ Goto(w, "read")
    /\ UNCHANGED <<order, rows, dlq, used, budget>>

\* Only then: the sweep for stale pending messages.
Sweep(w) ==
    /\ pc[w] = "sweep"
    /\ \E C \in SUBSET Msgs : Oldest(C, "stale") /\ Deliver(C) /\ Advance(w, C)
    /\ UNCHANGED <<order, rows, dlq, used, budget>>

\* Mutation: the signal ends the worker in the middle of a batch.
StopAtOnce(w) ==
    /\ Handling(w)
    /\ stops < MaxStops /\ stops' = stops + 1
    /\ Die(w)
    /\ UNCHANGED <<redis, rows, dlq, used, faults>>

\* while not stop.is_set(): the signal is seen between two rounds.
Stop(w) ==
    /\ pc[w] = "read"
    /\ stops < MaxStops /\ stops' = stops + 1
    /\ Goto(w, "stopped")
    /\ UNCHANGED <<redis, rows, dlq, used, faults>>

\* Mutation: a plain INSERT into a table without the UNIQUE constraint.
InsertAnyway(r) == rows' = [rows EXCEPT ![r] = @ + 1]

\* ON CONFLICT (request_id) DO NOTHING.
Insert(r) == rows' = [rows EXCEPT ![r] = IF @ = 0 THEN 1 ELSE @]

\* Mutation: a plain INSERT, whose unique violation is an exception.
UpsertConflicts(w) ==
    /\ pc[w] = "upsert" /\ cur[w] \notin Poison
    /\ Insert(ReqOf[cur[w]])
    /\ Goto(w, IF rows[ReqOf[cur[w]]] = 0 THEN "ack" ELSE "park")
    /\ UNCHANGED <<redis, dlq, used, budget>>

Upsert(w) ==
    /\ pc[w] = "upsert" /\ cur[w] \notin Poison
    /\ Insert(ReqOf[cur[w]])
    /\ Goto(w, "ack")
    /\ UNCHANGED <<redis, dlq, used, budget>>

\* Mutation: the except clause acks without parking.
UpsertRefusedDropped(w) ==
    /\ pc[w] = "upsert" /\ cur[w] \in Poison
    /\ Goto(w, "parkAck")
    /\ UNCHANGED <<redis, rows, dlq, used, budget>>

\* Postgres refuses the row: the except clause parks the message.
UpsertRefused(w) ==
    /\ pc[w] = "upsert" /\ cur[w] \in Poison
    /\ Goto(w, "park")
    /\ UNCHANGED <<redis, rows, dlq, used, budget>>

\* The connection fails before or after the commit: parked as well.
UpsertFails(w) ==
    /\ pc[w] = "upsert"
    /\ UNCHANGED rows \/ (cur[w] \notin Poison /\ Insert(ReqOf[cur[w]]))
    /\ Goto(w, "park")
    /\ Fault
    /\ UNCHANGED <<redis, dlq, used>>

AckOk(w) ==
    /\ pc[w] = "ack"
    /\ Ack(cur[w])
    /\ Advance(w, batch[w])
    /\ UNCHANGED <<rows, dlq, used, budget>>

\* XACK sits in the same try block: its failure parks a stored message.
AckFails(w) ==
    /\ pc[w] = "ack"
    /\ UNCHANGED redis \/ Ack(cur[w])
    /\ Goto(w, "park")
    /\ Fault
    /\ UNCHANGED <<rows, dlq, used>>

\* stream.to_dlq
Park(w) ==
    /\ pc[w] = "park"
    /\ dlq' = [dlq EXCEPT ![cur[w]] = @ + 1]
    /\ Goto(w, "parkAck")
    /\ UNCHANGED <<redis, rows, used, budget>>

ParkAck(w) ==
    /\ pc[w] = "parkAck"
    /\ Ack(cur[w])
    /\ Advance(w, batch[w])
    /\ UNCHANGED <<rows, dlq, used, budget>>

\* No handler encloses to_dlq and the ack after it, nor read and claim_stale:
\* their failure ends the worker, and the call may have been applied.
CallKillsWorker(w) ==
    /\ \/ pc[w] = "park" /\ UNCHANGED redis
          /\ (UNCHANGED dlq \/ dlq' = [dlq EXCEPT ![cur[w]] = @ + 1])
       \/ pc[w] = "parkAck" /\ UNCHANGED dlq /\ (UNCHANGED redis \/ Ack(cur[w]))
       \/ pc[w] = "read" /\ UNCHANGED <<dlq, order>>
          /\ \E C \in SUBSET Msgs : Oldest(C, "new") /\ Deliver(C)
       \/ pc[w] \in {"boot", "sweep"} /\ UNCHANGED <<dlq, order>>
          /\ \E C \in SUBSET Msgs : Oldest(C, "stale") /\ Deliver(C)
    /\ Die(w)
    /\ Fault
    /\ UNCHANGED <<rows, used>>

Crash(w) ==
    /\ Alive(w)
    /\ Die(w)
    /\ Fault
    /\ UNCHANGED <<redis, rows, dlq, used>>

-----------------------------------------------------------------------------
Work(w) == \/ Boot(w) \/ ReadNew(w) \/ ReadEmpty(w) \/ Sweep(w)
           \/ Upsert(w) \/ UpsertRefused(w) \/ AckOk(w) \/ Park(w) \/ ParkAck(w)
Trouble(w) == \/ UpsertFails(w) \/ AckFails(w) \/ CallKillsWorker(w) \/ Crash(w)

Next == \/ \E m \in Msgs : Publish(m) \/ GoesStale(m)
        \/ \E w \in Workers : Start(w) \/ Work(w) \/ Stop(w) \/ Trouble(w)

\* Time goes by, and a live worker works.  Nothing restarts a dead container by
\* itself (docker-compose.yml:89-103): only a system without any worker is
\* brought up again.
NoneAlive == \A w \in Workers : ~Alive(w)
Fairness == /\ \A m \in Msgs : WF_vars(GoesStale(m))
            /\ \A w \in Workers : WF_vars(Work(w))
            /\ WF_vars(NoneAlive /\ \E w \in Workers : Start(w))

Spec == Init /\ [][Next]_vars /\ Fairness

\* The same, where the traffic pauses: a worker that comes to its read again and
\* again finds nothing new there again and again.
GapSpec ==
    /\ Spec
    /\ \A w \in Workers : []<>(pc[w] = "read") => []<><<ReadEmpty(w)>>_vars

-----------------------------------------------------------------------------
(* What the worker promises.                                                *)

\* An entry leaves the PEL only when its row is committed or it is parked in
\* the DLQ, whatever crashes, fails or is done twice (worker.py:3-6, 33-55).
NothingLost ==
    \A m \in used : entry[m] = "absent" => rows[ReqOf[m]] > 0 \/ dlq[m] > 0

\* Redeliveries, SDK retries and two workers on one message make one row per
\* request_id (db.py:60-75).
OneRow == \A r \in Requests : rows[r] <= 1

\* Without a crash or a failed call, every pending entry is in some worker's
\* hands: an orderly stop orphans nothing (worker.py:90-104).
NoOrphanWithoutFault ==
    faults = 0 => \A m \in Msgs : InPEL(m) => \E w \in Workers : Holds(w, m)

\* Without a crash or a failed call, only what cannot be stored is parked: a
\* slow worker and the one that reclaims its batch do not park each other's
\* messages (worker.py:43-55).
OnlyPoisonParked ==
    faults = 0 => \A m \in Msgs : dlq[m] > 0 => m \in Malformed \cup Poison

\* Every published entry is settled in the end, orphaned ones by a reclaim
\* (worker.py:82-100); checked under GapSpec.
Settles == \A m \in Msgs : entry[m] # "absent" ~> entry[m] = "absent"

(* What the source says of itself, and the code does not keep.              *)

\* "No message is stranded by a crash" (docs/architecture.md:212): a message
\* idle past the timeout is reclaimed though the traffic never pauses.
OrphanReclaimed == \A m \in Msgs : entry[m] = "stale" ~> entry[m] # "stale"
=============================================================================
