------------------------------- MODULE LogStore -------------------------------
(***************************************************************************)
(* What inferlog promises of the events it ships, whatever is lost, slow,  *)
(* retried, redelivered or restarted on the way: an event that the SDK     *)
(* counts as delivered has been taken by the ingestion service; one that   *)
(* was taken is stored or parked in the end; none is stored twice, and     *)
(* none is counted twice.                                                  *)
(***************************************************************************)
EXTENDS Naturals

CONSTANT Events

VARIABLES
    taken,      \* on the stream at least once
    rows,       \* rows of inference_logs per event
    parked,     \* in the DLQ
    confirmed,  \* counted as delivered
    shed        \* counted as dropped

vars == <<taken, rows, parked, confirmed, shed>>

Init ==
    /\ taken = {} /\ parked = {} /\ confirmed = {} /\ shed = {}
    /\ rows = [e \in Events |-> 0]

Take(e) ==
    /\ e \notin taken
    /\ taken' = taken \cup {e}
    /\ UNCHANGED <<rows, parked, confirmed, shed>>

\* The answer 202 came for a batch.
Confirm(b) ==
    /\ b \subseteq taken
    /\ b \cap (confirmed \cup shed) = {}
    /\ confirmed' = confirmed \cup b
    /\ UNCHANGED <<taken, rows, parked, shed>>

\* Given up, or refused by a full queue.  It may have been taken all the same.
Shed(b) ==
    /\ b \cap (confirmed \cup shed) = {}
    /\ shed' = shed \cup b
    /\ UNCHANGED <<taken, rows, parked, confirmed>>

Store(e) ==
    /\ e \in taken
    /\ rows[e] = 0
    /\ rows' = [rows EXCEPT ![e] = 1]
    /\ UNCHANGED <<taken, parked, confirmed, shed>>

Park(e) ==
    /\ e \in taken
    /\ parked' = parked \cup {e}
    /\ UNCHANGED <<taken, rows, confirmed, shed>>

Next ==
    \/ \E e \in Events : Take(e) \/ Store(e) \/ Park(e)
    \/ \E b \in SUBSET Events : Confirm(b) \/ Shed(b)

Settled(e) == rows[e] > 0 \/ e \in parked

Spec ==
    /\ Init
    /\ [][Next]_vars
    /\ \A e \in Events : e \in taken ~> Settled(e)
=============================================================================
