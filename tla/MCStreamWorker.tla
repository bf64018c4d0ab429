---------------------------- MODULE MCStreamWorker ----------------------------
(* Instances of StreamWorker: a is sent twice by the SDK (a1 and a2 carry    *)
(* one request_id), and x cannot be stored.                                  *)
EXTENDS StreamWorker, TLC

CONSTANTS a1, a2, x, ra, rx

MCMsgs == {a1, a2, x}
MCRequests == {ra, rx}
MCReqOf == a1 :> ra @@ a2 :> ra @@ x :> rx
JustX == {x}
Nothing == {}

\* For the liveness runs: two messages, taken one at a time.
LiveMsgs == {a1, x}
LiveReqOf == a1 :> ra @@ x :> rx
=============================================================================
