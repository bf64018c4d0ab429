------------------------- MODULE StreamWorker_proofs -------------------------
(***************************************************************************)
(* What holds of StreamWorker for every set of messages and workers, every *)
(* assignment of request ids, every batch size and every number of faults. *)
(***************************************************************************)
EXTENDS StreamWorker, TLAPS

-----------------------------------------------------------------------------
(* The shared steps of the actions.                                         *)

\* _handle's next message is one of those it was given, and no longer in the
\* batch; with none left the worker holds nothing.
LEMMA AdvanceTypes ==
    ASSUME Types, NEW w \in Workers, NEW C \in SUBSET Msgs, Advance(w, C)
    PROVE  /\ pc' \in [Workers -> PCs]
           /\ cur' \in [Workers -> Msgs \cup {None}]
           /\ batch' \in [Workers -> SUBSET Msgs]
           /\ \A v \in Workers :
                 IF Handling(v)' THEN cur'[v] \in Msgs \ batch'[v]
                 ELSE cur'[v] = None /\ batch'[v] = {}
           /\ pc'[w] \in {"read", "park", "upsert"}
           /\ pc'[w] = "park" => cur'[w] \in Malformed
           /\ \A v \in Workers \ {w} :
                 pc'[v] = pc[v] /\ cur'[v] = cur[v] /\ batch'[v] = batch[v]
           /\ \A m \in C : Holds(w, m)'
<1>1. CASE /\ C = {}
           /\ pc' = [pc EXCEPT ![w] = "read"]
           /\ cur' = [cur EXCEPT ![w] = None]
           /\ batch' = [batch EXCEPT ![w] = {}]
  BY <1>1 DEF Types, PCs, Handling
<1>2. ASSUME NEW m \in C,
             pc' = [pc EXCEPT ![w] = IF m \in Malformed THEN "park" ELSE "upsert"],
             cur' = [cur EXCEPT ![w] = m],
             batch' = [batch EXCEPT ![w] = C \ {m}]
      PROVE  /\ pc' \in [Workers -> PCs]
             /\ cur' \in [Workers -> Msgs \cup {None}]
             /\ batch' \in [Workers -> SUBSET Msgs]
             /\ \A v \in Workers :
                   IF Handling(v)' THEN cur'[v] \in Msgs \ batch'[v]
                   ELSE cur'[v] = None /\ batch'[v] = {}
             /\ pc'[w] \in {"read", "park", "upsert"}
             /\ pc'[w] = "park" => cur'[w] \in Malformed
             /\ \A v \in Workers \ {w} :
                   pc'[v] = pc[v] /\ cur'[v] = cur[v] /\ batch'[v] = batch[v]
             /\ \A n \in C : Holds(w, n)'
  BY <1>2 DEF Types, PCs, Handling, Holds
<1> QED
  BY <1>1, <1>2 DEF Advance

-----------------------------------------------------------------------------
(* Types.                                                                   *)

\* At first.
LEMMA TypesInit == Init => Types
BY ParamAssumption DEF Init, Types, EntryStates, PCs, Handling

\* No step breaks a type.
LEMMA TypesStep == Types /\ [Next]_vars => Types'
<1> SUFFICES ASSUME Types, [Next]_vars PROVE Types'
  OBVIOUS
<1>1. ASSUME NEW m \in Msgs, Publish(m) PROVE Types'
  BY <1>1 DEF Publish, Types, EntryStates, worker, budget, Handling
<1>2. ASSUME NEW m \in Msgs, GoesStale(m) PROVE Types'
  BY <1>2 DEF GoesStale, Types, EntryStates, worker, budget, Handling
<1>3. ASSUME NEW w \in Workers, Start(w) \/ ReadEmpty(w) \/ Upsert(w) \/ UpsertRefused(w)
                                   \/ Park(w)
      PROVE  Types'
  <2>1. ReqOf[cur[w]] \in Requests \/ pc[w] # "upsert"
    BY ParamAssumption DEF Types, Handling
  <2>2. /\ UNCHANGED <<entry, used, cur, batch, faults, stops>>
        /\ \E x \in PCs : /\ pc' = [pc EXCEPT ![w] = x]
                          /\ x \in {"upsert", "ack", "park", "parkAck"} <=> Handling(w)
    BY <1>3 DEF Start, ReadEmpty, Upsert, UpsertRefused, Park, Goto, PCs, Handling,
                redis, budget
  <2>3. rows' \in [Requests -> Nat] /\ dlq' \in [Msgs -> Nat]
    BY <1>3, <2>1 DEF Start, ReadEmpty, Upsert, UpsertRefused, Park, Insert, Types, Handling
  <2> QED
    BY <2>2, <2>3 DEF Types, Handling
<1>4. ASSUME NEW w \in Workers, Boot(w) \/ ReadNew(w) \/ Sweep(w) PROVE Types'
  <2>1. PICK C \in SUBSET Msgs : Deliver(C) /\ Advance(w, C)
    BY <1>4 DEF Boot, ReadNew, Sweep
  <2>2. entry' \in [Msgs -> EntryStates]
    BY <2>1 DEF Deliver, Types, EntryStates
  <2>3. UNCHANGED <<rows, dlq, used, faults, stops>>
    BY <1>4 DEF Boot, ReadNew, Sweep, budget
  <2> QED
    BY <2>1, <2>2, <2>3, AdvanceTypes DEF Types
<1>5. ASSUME NEW w \in Workers, AckOk(w) \/ ParkAck(w) PROVE Types'
  <2>1. Ack(cur[w]) /\ Advance(w, batch[w]) /\ batch[w] \in SUBSET Msgs
    BY <1>5 DEF AckOk, ParkAck, Types
  <2>2. entry' \in [Msgs -> EntryStates]
    BY <2>1 DEF Ack, Types, EntryStates
  <2>3. UNCHANGED <<rows, dlq, used, faults, stops>>
    BY <1>5 DEF AckOk, ParkAck, budget
  <2> QED
    BY <2>1, <2>2, <2>3, AdvanceTypes DEF Types
<1>6. ASSUME NEW w \in Workers, Stop(w) PROVE Types'
  BY <1>6, ParamAssumption DEF Stop, Goto, Types, PCs, Handling, redis
<1>7. ASSUME NEW w \in Workers, UpsertFails(w) \/ AckFails(w) PROVE Types'
  <2>1. cur[w] \in Msgs /\ ReqOf[cur[w]] \in Requests /\ Handling(w)
    BY <1>7, ParamAssumption DEF UpsertFails, AckFails, Types, Handling
  <2>2. rows' \in [Requests -> Nat]
    BY <1>7, <2>1 DEF UpsertFails, AckFails, Insert, Types
  <2>3. entry' \in [Msgs -> EntryStates]
    BY <1>7, <2>1 DEF UpsertFails, AckFails, Ack, redis, Types, EntryStates
  <2>4. pc' = [pc EXCEPT ![w] = "park"] /\ UNCHANGED <<cur, batch, dlq, used>>
    BY <1>7 DEF UpsertFails, AckFails, Goto
  <2>5. faults' \in 0..MaxFaults /\ stops' \in 0..MaxStops
    BY <1>7, ParamAssumption DEF UpsertFails, AckFails, Fault, Types
  <2> QED
    BY <2>1, <2>2, <2>3, <2>4, <2>5 DEF Types, Handling, PCs
<1>8. ASSUME NEW w \in Workers, CallKillsWorker(w) \/ Crash(w) PROVE Types'
  <2>1. entry' \in [Msgs -> EntryStates]
    BY <1>8 DEF CallKillsWorker, Crash, Ack, Deliver, redis, Types, EntryStates
  <2>2. dlq' \in [Msgs -> Nat]
    BY <1>8 DEF CallKillsWorker, Crash, Types
  <2>3. Die(w) /\ UNCHANGED <<rows, used>>
    BY <1>8 DEF CallKillsWorker, Crash
  <2>4. faults' \in 0..MaxFaults /\ stops' \in 0..MaxStops
    BY <1>8, ParamAssumption DEF CallKillsWorker, Crash, Fault, Types
  <2> QED
    BY <2>1, <2>2, <2>3, <2>4 DEF Die, Types, Handling, PCs
<1>9. CASE UNCHANGED vars
  BY <1>9 DEF vars, redis, worker, budget, Types, Handling
<1> QED
  BY <1>1, <1>2, <1>3, <1>4, <1>5, <1>6, <1>7, <1>8, <1>9 DEF Next, Work, Trouble

\* Every variable keeps its type; a worker holds messages exactly while it is
\* in _handle, and the one at hand is no longer in its batch.
THEOREM TypesAlways == Spec => []Types
BY TypesInit, TypesStep, PTL DEF Spec

-----------------------------------------------------------------------------
(* At-least-once delivery into an idempotent table.                         *)

\* Before a worker acks, the row is there or the DLQ entry is.
StoredInv ==
    /\ OneRow
    /\ NothingLost
    /\ \A w \in Workers : pc[w] = "ack" => rows[ReqOf[cur[w]]] > 0
    /\ \A w \in Workers : pc[w] = "parkAck" => dlq[cur[w]] > 0

\* No step but Publish brings an entry back, unsettles it or takes a worker to
\* its ack without a row or a DLQ entry.
LEMMA StoredStep ==
    ASSUME Types, Types', StoredInv, UNCHANGED used,
           \A r \in Requests : rows'[r] >= rows[r] /\ rows'[r] <= 1,
           \A m \in Msgs : dlq'[m] >= dlq[m],
           \A m \in Msgs : entry'[m] = "absent" =>
               entry[m] = "absent" \/ rows'[ReqOf[m]] > 0 \/ dlq'[m] > 0,
           \A w \in Workers : pc'[w] \in {"ack", "parkAck"} =>
               \/ pc'[w] = pc[w] /\ cur'[w] = cur[w]
               \/ pc'[w] = "ack" /\ rows'[ReqOf[cur'[w]]] > 0
               \/ pc'[w] = "parkAck" /\ dlq'[cur'[w]] > 0
    PROVE  StoredInv'
<1>1. /\ \A r \in Requests : rows[r] \in Nat /\ rows'[r] \in Nat
      /\ \A m \in Msgs : dlq[m] \in Nat /\ dlq'[m] \in Nat /\ ReqOf[m] \in Requests
      /\ used \subseteq Msgs
  BY ParamAssumption DEF Types
<1>2. OneRow'
  BY DEF OneRow
<1>3. NothingLost'
  BY <1>1 DEF NothingLost, StoredInv
<1>4. ASSUME NEW w \in Workers, pc'[w] \in {"ack", "parkAck"}
      PROVE  /\ pc'[w] = "ack" => rows'[ReqOf[cur'[w]]] > 0
             /\ pc'[w] = "parkAck" => dlq'[cur'[w]] > 0
  <2>1. cur'[w] \in Msgs
    BY <1>4 DEF Types, Handling
  <2>2. CASE pc'[w] = pc[w] /\ cur'[w] = cur[w]
    BY <1>1, <1>4, <2>1, <2>2 DEF StoredInv
  <2>3. CASE pc'[w] = "ack" /\ rows'[ReqOf[cur'[w]]] > 0
    BY <2>3
  <2>4. CASE pc'[w] = "parkAck" /\ dlq'[cur'[w]] > 0
    BY <2>4
  <2> QED
    BY <1>4, <2>2, <2>3, <2>4
<1> QED
  BY <1>2, <1>3, <1>4 DEF StoredInv

\* At first nothing is published.
LEMMA StoredInit == Init => StoredInv
BY DEF Init, StoredInv, OneRow, NothingLost

\* No step of Next loses or duplicates a message.
LEMMA StoredInvStep == Types /\ Types' /\ StoredInv /\ [Next]_vars => StoredInv'
<1> SUFFICES ASSUME Types, Types', StoredInv, [Next]_vars PROVE StoredInv'
  OBVIOUS
<1>0. /\ \A r \in Requests : rows[r] \in Nat /\ rows[r] >= rows[r] /\ rows[r] <= 1
      /\ \A m \in Msgs : dlq[m] \in Nat /\ dlq[m] >= dlq[m] /\ ReqOf[m] \in Requests
  BY ParamAssumption DEF Types, StoredInv, OneRow
<1>1. ASSUME NEW m \in Msgs, Publish(m) PROVE StoredInv'
  <2>1. /\ UNCHANGED <<rows, pc, cur, batch>> /\ entry' = [entry EXCEPT ![m] = "new"]
        /\ dlq' = [dlq EXCEPT ![m] = 0] /\ used' = used \cup {m}
        /\ \A w \in Workers : cur[w] # m
    BY <1>1 DEF Publish, worker, Holds
  <2>2. \A n \in Msgs : n # m => entry'[n] = entry[n] /\ dlq'[n] = dlq[n]
    BY <2>1 DEF Types
  <2>3. NothingLost'
    BY <2>1, <2>2 DEF NothingLost, StoredInv, Types
  <2>4. \A w \in Workers : pc[w] = "parkAck" => cur[w] \in Msgs
    BY DEF Types, Handling
  <2> QED
    BY <2>1, <2>2, <2>3, <2>4 DEF StoredInv, OneRow
<1>2. ASSUME NEW m \in Msgs, GoesStale(m) PROVE StoredInv'
  BY <1>0, <1>2, StoredStep DEF GoesStale, worker, Types
<1>3. ASSUME NEW w \in Workers,
             Start(w) \/ ReadEmpty(w) \/ UpsertRefused(w) \/ Stop(w)
      PROVE  StoredInv'
  <2>1. /\ UNCHANGED <<entry, rows, dlq, used, cur>>
        /\ \E x \in {"boot", "sweep", "park", "stopped"} : pc' = [pc EXCEPT ![w] = x]
    BY <1>3 DEF Start, ReadEmpty, UpsertRefused, Stop, Goto, redis
  <2> QED
    BY <1>0, <2>1, StoredStep DEF Types
<1>4. ASSUME NEW w \in Workers, Boot(w) \/ ReadNew(w) \/ Sweep(w) PROVE StoredInv'
  <2>1. PICK C \in SUBSET Msgs : Deliver(C) /\ Advance(w, C)
    BY <1>4 DEF Boot, ReadNew, Sweep
  <2>2. \A m \in Msgs : entry'[m] = "absent" => entry[m] = "absent"
    BY <2>1 DEF Deliver
  <2>3. UNCHANGED <<rows, dlq, used>>
    BY <1>4 DEF Boot, ReadNew, Sweep
  <2>4. \A v \in Workers : pc'[v] \in {"ack", "parkAck"} => pc'[v] = pc[v] /\ cur'[v] = cur[v]
    BY <2>1, AdvanceTypes
  <2> QED
    BY <1>0, <2>2, <2>3, <2>4, StoredStep
<1>5. ASSUME NEW w \in Workers, Upsert(w) PROVE StoredInv'
  <2>1. cur[w] \in Msgs /\ ReqOf[cur[w]] \in Requests
    BY <1>5, ParamAssumption DEF Upsert, Types, Handling
  <2>2. /\ rows' = [rows EXCEPT ![ReqOf[cur[w]]] = IF @ = 0 THEN 1 ELSE @]
        /\ pc' = [pc EXCEPT ![w] = "ack"]
        /\ UNCHANGED <<entry, dlq, used, cur>>
    BY <1>5 DEF Upsert, Insert, Goto, redis
  <2>3. /\ \A r \in Requests : rows'[r] >= rows[r] /\ rows'[r] <= 1
        /\ rows'[ReqOf[cur[w]]] > 0
    BY <1>0, <2>1, <2>2 DEF Types
  <2> QED
    BY <1>0, <2>2, <2>3, StoredStep DEF Types
<1>6. ASSUME NEW w \in Workers, UpsertFails(w) PROVE StoredInv'
  <2>1. cur[w] \in Msgs /\ ReqOf[cur[w]] \in Requests
    BY <1>6, ParamAssumption DEF UpsertFails, Types, Handling
  <2>2. /\ UNCHANGED rows \/ rows' = [rows EXCEPT ![ReqOf[cur[w]]] = IF @ = 0 THEN 1 ELSE @]
        /\ pc' = [pc EXCEPT ![w] = "park"]
        /\ UNCHANGED <<entry, dlq, used, cur>>
    BY <1>6 DEF UpsertFails, Insert, Goto, redis
  <2>3. \A r \in Requests : rows'[r] >= rows[r] /\ rows'[r] <= 1
    BY <1>0, <2>1, <2>2 DEF Types
  <2> QED
    BY <1>0, <2>2, <2>3, StoredStep DEF Types
<1>7. ASSUME NEW w \in Workers, AckOk(w) \/ ParkAck(w) PROVE StoredInv'
  <2>1. /\ entry' = [entry EXCEPT ![cur[w]] = "absent"]
        /\ Advance(w, batch[w]) /\ UNCHANGED <<rows, dlq, used>>
        /\ pc[w] \in {"ack", "parkAck"}
    BY <1>7 DEF AckOk, ParkAck, Ack
  <2>2. cur[w] \in Msgs /\ batch[w] \in SUBSET Msgs
    BY <2>1 DEF Types, Handling
  <2>3. rows[ReqOf[cur[w]]] > 0 \/ dlq[cur[w]] > 0
    BY <2>1 DEF StoredInv
  <2>4. \A v \in Workers : pc'[v] \in {"ack", "parkAck"} => pc'[v] = pc[v] /\ cur'[v] = cur[v]
    BY <2>1, <2>2, AdvanceTypes
  <2> QED
    BY <1>0, <2>1, <2>2, <2>3, <2>4, StoredStep DEF Types
<1>8. ASSUME NEW w \in Workers, AckFails(w) PROVE StoredInv'
  <2>1. /\ UNCHANGED entry \/ entry' = [entry EXCEPT ![cur[w]] = "absent"]
        /\ pc' = [pc EXCEPT ![w] = "park"] /\ UNCHANGED <<rows, dlq, used, cur>>
        /\ pc[w] = "ack"
    BY <1>8 DEF AckFails, Ack, Goto, redis
  <2>2. cur[w] \in Msgs /\ rows[ReqOf[cur[w]]] > 0
    BY <2>1 DEF StoredInv, Types, Handling
  <2> QED
    BY <1>0, <2>1, <2>2, StoredStep DEF Types
<1>9. ASSUME NEW w \in Workers, Park(w) PROVE StoredInv'
  <2>1. /\ dlq' = [dlq EXCEPT ![cur[w]] = @ + 1] /\ pc' = [pc EXCEPT ![w] = "parkAck"]
        /\ UNCHANGED <<entry, rows, used, cur>>
    BY <1>9 DEF Park, Goto, redis
  <2>2. cur[w] \in Msgs
    BY <1>9 DEF Park, Types, Handling
  <2>3. (\A m \in Msgs : dlq'[m] >= dlq[m]) /\ dlq'[cur[w]] > 0
    BY <1>0, <2>1, <2>2 DEF Types
  <2> QED
    BY <1>0, <2>1, <2>3, StoredStep DEF Types
<1>10. ASSUME NEW w \in Workers, CallKillsWorker(w) \/ Crash(w) PROVE StoredInv'
  <2>1. /\ pc' = [pc EXCEPT ![w] = "down"] /\ cur' = [cur EXCEPT ![w] = None]
        /\ UNCHANGED <<rows, used>>
    BY <1>10 DEF CallKillsWorker, Crash, Die
  <2>2. \A m \in Msgs : dlq'[m] >= dlq[m]
    BY <1>0, <1>10 DEF CallKillsWorker, Crash, Types
  <2>3. \A m \in Msgs : entry'[m] = "absent" => entry[m] = "absent" \/ dlq[m] > 0
    <3>1. CASE pc[w] = "parkAck" /\ Ack(cur[w])
      <4>1. cur[w] \in Msgs /\ dlq[cur[w]] > 0
        BY <3>1 DEF StoredInv, Types, Handling
      <4> QED
        BY <3>1, <4>1 DEF Ack, Types
    <3>2. CASE UNCHANGED entry \/ \E C \in SUBSET Msgs : Deliver(C)
      BY <3>2 DEF Deliver
    <3> QED
      BY <1>10, <3>1, <3>2 DEF CallKillsWorker, Crash, redis
  <2>4. \A v \in Workers : pc'[v] \in {"ack", "parkAck"} => pc'[v] = pc[v] /\ cur'[v] = cur[v]
    BY <2>1 DEF Types
  <2>5. \A m \in Msgs : dlq[m] > 0 => dlq'[m] > 0
    BY <1>0, <2>2 DEF Types
  <2> QED
    BY <1>0, <2>1, <2>2, <2>3, <2>4, <2>5, StoredStep
<1>11. CASE UNCHANGED vars
  BY <1>11 DEF vars, redis, worker, budget, StoredInv, OneRow, NothingLost
<1> QED
  BY <1>1, <1>2, <1>3, <1>4, <1>5, <1>6, <1>7, <1>8, <1>9, <1>10, <1>11
     DEF Next, Work, Trouble

\* The invariant behind the two promises of the delivery model.
THEOREM StoredInvAlways == Spec => []StoredInv
BY StoredInit, StoredInvStep, TypesAlways, PTL DEF Spec

\* An entry leaves the PEL only with its row committed or a DLQ entry made.
THEOREM NothingLostAlways == Spec => []NothingLost
<1>1. StoredInv => NothingLost
  BY DEF StoredInv
<1> QED
  BY <1>1, StoredInvAlways, PTL

\* One request_id never has two rows.
THEOREM OneRowAlways == Spec => []OneRow
<1>1. StoredInv => OneRow
  BY DEF StoredInv
<1> QED
  BY <1>1, StoredInvAlways, PTL

-----------------------------------------------------------------------------
(* Nothing comes from nowhere.                                              *)

\* Only what was published is on the stream, in a worker's hands or in the DLQ.
UsedInv ==
    \A m \in Msgs \ used :
        /\ entry[m] = "absent" /\ dlq[m] = 0
        /\ \A w \in Workers : ~Holds(w, m)

\* At first.
LEMMA UsedInit == Init => UsedInv
BY ParamAssumption DEF Init, UsedInv, Holds

\* No step but Publish makes a message.
LEMMA UsedStep == Types /\ Types' /\ UsedInv /\ [Next]_vars => UsedInv'
<1> SUFFICES ASSUME Types, Types', UsedInv, [Next]_vars PROVE UsedInv'
  OBVIOUS
<1>1. ASSUME NEW m \in Msgs, Publish(m) PROVE UsedInv'
  BY <1>1 DEF Publish, UsedInv, Types, worker, Holds
<1>2. ASSUME NEW m \in Msgs, GoesStale(m) PROVE UsedInv'
  BY <1>2 DEF GoesStale, UsedInv, Types, worker, Holds
<1>3. ASSUME NEW w \in Workers,
             \/ Start(w) \/ ReadEmpty(w) \/ Upsert(w) \/ UpsertRefused(w) \/ UpsertFails(w)
             \/ Stop(w)
      PROVE  UsedInv'
  <2>1. UNCHANGED <<entry, dlq, used, cur, batch>>
    BY <1>3 DEF Start, ReadEmpty, Upsert, UpsertRefused, UpsertFails, Stop, Goto, redis
  <2> QED
    BY <2>1 DEF UsedInv, Holds
<1>4. ASSUME NEW w \in Workers, Boot(w) \/ ReadNew(w) \/ Sweep(w) PROVE UsedInv'
  <2>1. PICK C \in SUBSET Msgs : /\ Deliver(C) /\ Advance(w, C)
                                 /\ \A m \in C : entry[m] # "absent"
    BY <1>4 DEF Boot, ReadNew, Sweep, Oldest, In
  <2>2. UNCHANGED <<dlq, used>> /\ C \subseteq used
    BY <1>4, <2>1 DEF Boot, ReadNew, Sweep, UsedInv
  <2>3. \A m \in Msgs : entry[m] = "absent" => entry'[m] = "absent" \/ m \in used
    BY <2>1, <2>2 DEF Deliver
  <2>4. \A v \in Workers, m \in Msgs : Holds(v, m)' => Holds(v, m) \/ m \in C
    BY <2>1, ParamAssumption DEF Advance, Holds, Types
  <2> QED
    BY <2>2, <2>3, <2>4 DEF UsedInv
<1>5. ASSUME NEW w \in Workers, AckOk(w) \/ ParkAck(w) PROVE UsedInv'
  <2>1. /\ entry' = [entry EXCEPT ![cur[w]] = "absent"] /\ Advance(w, batch[w])
        /\ UNCHANGED <<dlq, used>> /\ batch[w] \in SUBSET Msgs
    BY <1>5 DEF AckOk, ParkAck, Ack, Types
  <2>2. \A v \in Workers, m \in Msgs : Holds(v, m)' => Holds(v, m)
    BY <2>1, ParamAssumption DEF Advance, Holds, Types
  <2> QED
    BY <2>1, <2>2 DEF UsedInv, Types
<1>6. ASSUME NEW w \in Workers, AckFails(w) \/ Park(w) PROVE UsedInv'
  <2>1. cur[w] \in Msgs /\ UNCHANGED <<used, cur, batch>>
    BY <1>6 DEF AckFails, Park, Goto, Types, Handling
  <2>2. cur[w] \in used
    BY <2>1 DEF UsedInv, Holds
  <2>3. /\ UNCHANGED entry \/ entry' = [entry EXCEPT ![cur[w]] = "absent"]
        /\ UNCHANGED dlq \/ dlq' = [dlq EXCEPT ![cur[w]] = @ + 1]
    BY <1>6 DEF AckFails, Park, Ack, redis
  <2> QED
    BY <2>1, <2>2, <2>3 DEF UsedInv, Holds, Types
<1>7. ASSUME NEW w \in Workers, CallKillsWorker(w) \/ Crash(w) PROVE UsedInv'
  <2>1. UNCHANGED used /\ Die(w)
    BY <1>7 DEF CallKillsWorker, Crash
  <2>2. \A v \in Workers, m \in Msgs : Holds(v, m)' => Holds(v, m)
    BY <2>1, ParamAssumption DEF Die, Holds, Types
  <2>3. \A m \in Msgs \ used : dlq'[m] = 0
    <3>1. pc[w] = "park" => cur[w] \in used
      BY DEF UsedInv, Holds, Types, Handling
    <3> QED
      BY <1>7, <3>1 DEF CallKillsWorker, Crash, UsedInv, Types
  <2>4. \A m \in Msgs \ used : entry'[m] = "absent"
    <3>1. \/ UNCHANGED entry \/ entry' = [entry EXCEPT ![cur[w]] = "absent"]
          \/ \E C \in SUBSET Msgs : Deliver(C) /\ \A m \in C : entry[m] # "absent"
      BY <1>7 DEF CallKillsWorker, Crash, Ack, redis, Oldest, In
    <3> QED
      BY <3>1 DEF Deliver, UsedInv, Types
  <2> QED
    BY <2>1, <2>2, <2>3, <2>4 DEF UsedInv
<1>8. CASE UNCHANGED vars
  BY <1>8 DEF vars, redis, worker, UsedInv, Holds
<1> QED
  BY <1>1, <1>2, <1>3, <1>4, <1>5, <1>6, <1>7, <1>8 DEF Next, Work, Trouble

\* No crash, redelivery or reclaim makes a message or a DLQ entry that nobody
\* published.
THEOREM UsedAlways == Spec => []UsedInv
BY UsedInit, UsedStep, TypesAlways, PTL DEF Spec

-----------------------------------------------------------------------------
(* Runs without a fault.                                                    *)

\* As long as nothing fails, pending entries are in hand and a worker parks
\* only what cannot be stored.
CalmInv ==
    /\ NoOrphanWithoutFault
    /\ OnlyPoisonParked
    /\ faults = 0 =>
          \A w \in Workers : pc[w] = "park" => cur[w] \in Malformed \cup Poison

\* SIGTERM, restarts, redeliveries and reclaims alone orphan no message and
\* park no storable one.
THEOREM CalmInvAlways == Spec => []CalmInv
<1>1. Init => CalmInv
  BY DEF Init, CalmInv, NoOrphanWithoutFault, OnlyPoisonParked, InPEL
<1>2. Types /\ Types' /\ CalmInv /\ [Next]_vars => CalmInv'
  <2> SUFFICES ASSUME Types, Types', CalmInv, [Next]_vars, faults' = 0 PROVE CalmInv'
    BY DEF CalmInv, NoOrphanWithoutFault, OnlyPoisonParked
  <2>0. faults = 0
    <3>1. CASE \E w \in Workers : Trouble(w)
      BY <3>1, ParamAssumption DEF Trouble, UpsertFails, AckFails, CallKillsWorker, Crash, Fault, Types
    <3>2. CASE ~\E w \in Workers : Trouble(w)
      BY <3>2 DEF Next, Work, Publish, GoesStale, Start, Boot, ReadNew, ReadEmpty, Sweep, Stop,
                  Upsert, UpsertRefused, AckOk, Park, ParkAck, budget, vars
    <3> QED
      BY <3>1, <3>2
  <2>a. /\ \A m \in Msgs : InPEL(m) => \E w \in Workers : Holds(w, m)
        /\ \A m \in Msgs : dlq[m] > 0 => m \in Malformed \cup Poison
        /\ \A w \in Workers : pc[w] = "park" => cur[w] \in Malformed \cup Poison
    BY <2>0 DEF CalmInv, NoOrphanWithoutFault, OnlyPoisonParked
  <2>b. ASSUME \A m \in Msgs : InPEL(m)' => InPEL(m) \/ \E w \in Workers : Holds(w, m)',
               \A w \in Workers, m \in Msgs : Holds(w, m) => Holds(w, m)' \/ ~InPEL(m)',
               UNCHANGED dlq,
               \A w \in Workers : pc'[w] = "park" =>
                   cur'[w] \in Malformed \cup Poison \/ (pc[w] = "park" /\ cur'[w] = cur[w])
        PROVE  CalmInv'
    BY <2>a, <2>b DEF CalmInv, NoOrphanWithoutFault, OnlyPoisonParked
  <2>1. ASSUME NEW m \in Msgs, Publish(m) PROVE CalmInv'
    <3>1. /\ UNCHANGED <<pc, cur, batch>> /\ entry' = [entry EXCEPT ![m] = "new"]
          /\ dlq' = [dlq EXCEPT ![m] = 0]
      BY <2>1 DEF Publish, worker
    <3>2. \A n \in Msgs : InPEL(n)' => InPEL(n)
      BY <3>1 DEF InPEL, Types
    <3>3. \A n \in Msgs : dlq'[n] > 0 => dlq[n] > 0
      BY <3>1 DEF Types
    <3> QED
      BY <2>a, <3>1, <3>2, <3>3 DEF CalmInv, NoOrphanWithoutFault, OnlyPoisonParked, Holds
  <2>2. ASSUME NEW m \in Msgs, GoesStale(m) PROVE CalmInv'
    <3>1. \A n \in Msgs : InPEL(n)' => InPEL(n)
      BY <2>2 DEF GoesStale, InPEL, Types
    <3> QED
      BY <2>2, <2>b, <3>1 DEF GoesStale, worker, Holds
  <2>3. ASSUME NEW w \in Workers,
               Start(w) \/ ReadEmpty(w) \/ Upsert(w) \/ UpsertRefused(w) \/ Stop(w)
        PROVE  CalmInv'
    <3>1. /\ UNCHANGED <<entry, cur, batch, dlq>>
          /\ \/ \E x \in {"boot", "sweep", "ack", "stopped"} : pc' = [pc EXCEPT ![w] = x]
             \/ pc' = [pc EXCEPT ![w] = "park"] /\ cur[w] \in Poison
      BY <2>3 DEF Start, ReadEmpty, Upsert, UpsertRefused, Stop, Goto, redis
    <3> QED
      BY <2>b, <3>1 DEF Holds, InPEL, Types
  <2>4. ASSUME NEW w \in Workers, Boot(w) \/ ReadNew(w) \/ Sweep(w) PROVE CalmInv'
    <3>1. PICK C \in SUBSET Msgs : Deliver(C) /\ Advance(w, C)
      BY <2>4 DEF Boot, ReadNew, Sweep
    <3>2. UNCHANGED dlq /\ cur[w] = None /\ batch[w] = {}
      BY <2>4 DEF Boot, ReadNew, Sweep, Types, Handling
    <3>3. \A m \in Msgs : InPEL(m)' => InPEL(m) \/ \E v \in Workers : Holds(v, m)'
      BY <3>1, AdvanceTypes DEF Deliver, InPEL
    <3>4. \A v \in Workers, m \in Msgs : Holds(v, m) => Holds(v, m)'
      BY <3>1, <3>2, AdvanceTypes, ParamAssumption DEF Holds
    <3>5. \A v \in Workers : pc'[v] = "park" =>
              cur'[v] \in Malformed \cup Poison \/ (pc[v] = "park" /\ cur'[v] = cur[v])
      BY <3>1, AdvanceTypes
    <3> QED
      BY <2>b, <3>2, <3>3, <3>4, <3>5
  <2>5. ASSUME NEW w \in Workers, AckOk(w) \/ ParkAck(w) PROVE CalmInv'
    <3>1. /\ entry' = [entry EXCEPT ![cur[w]] = "absent"] /\ Advance(w, batch[w])
          /\ UNCHANGED dlq /\ Handling(w)
      BY <2>5 DEF AckOk, ParkAck, Ack, Handling
    <3>2. cur[w] \in Msgs /\ batch[w] \in SUBSET Msgs
      BY <3>1 DEF Types
    <3>3. \A m \in Msgs : InPEL(m)' => InPEL(m) /\ m # cur[w]
      BY <3>1, <3>2 DEF InPEL, Types
    <3>4. \A v \in Workers, m \in Msgs : Holds(v, m) => Holds(v, m)' \/ m = cur[w]
      BY <3>1, <3>2, AdvanceTypes DEF Holds
    <3>5. \A v \in Workers : pc'[v] = "park" =>
              cur'[v] \in Malformed \cup Poison \/ (pc[v] = "park" /\ cur'[v] = cur[v])
      BY <3>1, <3>2, AdvanceTypes
    <3> QED
      BY <2>b, <3>1, <3>3, <3>4, <3>5
  <2>6. ASSUME NEW w \in Workers, Park(w) PROVE CalmInv'
    <3>1. /\ UNCHANGED <<entry, cur, batch>> /\ pc' = [pc EXCEPT ![w] = "parkAck"]
          /\ dlq' = [dlq EXCEPT ![cur[w]] = @ + 1] /\ cur[w] \in Malformed \cup Poison
      BY <2>6, <2>a DEF Park, Goto, redis
    <3>2. \A m \in Msgs : dlq'[m] > 0 => m \in Malformed \cup Poison
      BY <2>a, <3>1 DEF Types
    <3> QED
      BY <2>a, <3>1, <3>2 DEF CalmInv, NoOrphanWithoutFault, OnlyPoisonParked, Holds, InPEL, Types
  <2>7. ASSUME NEW w \in Workers, Trouble(w) PROVE CalmInv'
    BY <2>0, <2>7, ParamAssumption
       DEF Trouble, UpsertFails, AckFails, CallKillsWorker, Crash, Fault, Types
  <2>8. CASE UNCHANGED vars
    BY <2>b, <2>8 DEF vars, redis, worker, Holds, InPEL
  <2> QED
    BY <2>1, <2>2, <2>3, <2>4, <2>5, <2>6, <2>7, <2>8 DEF Next, Work
<1> QED
  BY <1>1, <1>2, TypesAlways, PTL DEF Spec

\* Without a fault every pending entry is in some worker's hands.
THEOREM NoOrphanAlways == Spec => []NoOrphanWithoutFault
<1>1. CalmInv => NoOrphanWithoutFault
  BY DEF CalmInv
<1> QED
  BY <1>1, CalmInvAlways, PTL

\* Without a fault only malformed and poison messages are parked.
THEOREM OnlyPoisonParkedAlways == Spec => []OnlyPoisonParked
<1>1. CalmInv => OnlyPoisonParked
  BY DEF CalmInv
<1> QED
  BY <1>1, CalmInvAlways, PTL
=============================================================================
