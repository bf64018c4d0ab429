----------------------------- MODULE ExplicitScope -----------------------------
(***************************************************************************)
(* LoggedLLMClient (sdk/inferlog/client.py) and the contextvar by which it *)
(* tells HTTP capture to stand down (_inside_explicit, auto.py).           *)
(*                                                                         *)
(* An async generator has no context of its own: what stream() sets is set *)
(* in the context of the task that iterates it, and stays set while the    *)
(* generator is suspended at a yield and the task does other work.  One    *)
(* task iterates a generator from its first chunk to its last.             *)
(***************************************************************************)
EXTENDS Naturals

CONSTANTS Tasks,      \* asyncio tasks, each with its context
          Main,       \* the first of them
          Streams,    \* calls of stream()
          Completes,  \* calls of complete()
          None

ASSUME ParamAssumption ==
    /\ Main \in Tasks
    /\ Streams \cap Completes = {}
    /\ None \notin Tasks

Wrapped == Streams \cup Completes

VARIABLES
    alive,   \* the tasks created so far
    flag,    \* _inside_explicit in each task's context
    pc,      \* where each wrapped call is
    where,   \* the task in whose context it has marked
    old,     \* what its token restores
    logged,  \* how often _emit ran for the call
    under,   \* history: the calls that were open in its task when it was opened
    loose    \* history: tasks that did not close their scopes last in, first out

vars == <<alive, flag, pc, where, old, logged, under, loose>>

PCs == {"new", "inside", "yielded", "left", "closed"}

\* The calls whose scope is open in a task.
OpenIn(t) == {w \in Wrapped : where[w] = t /\ pc[w] \in {"inside", "yielded", "left"}}

\* The task is suspended in a provider, and does nothing else.
Busy(t) == \E w \in Wrapped : pc[w] = "inside" /\ where[w] = t

TypeOK ==
    /\ alive \subseteq Tasks /\ Main \in alive
    /\ flag \in [Tasks -> BOOLEAN]
    /\ pc \in [Wrapped -> PCs]
    /\ where \in [Wrapped -> alive \cup {None}]
    /\ old \in [Wrapped -> BOOLEAN]
    /\ logged \in [Wrapped -> Nat]
    /\ under \in [Wrapped -> SUBSET Wrapped]
    /\ loose \subseteq alive
    /\ \A w \in Wrapped : where[w] = None <=> pc[w] = "new"
    /\ \A w, v \in Wrapped :
          pc[w] = "inside" /\ pc[v] = "inside" /\ where[w] = where[v] => w = v

Init ==
    /\ alive = {Main}
    /\ flag = [t \in Tasks |-> FALSE]
    /\ pc = [w \in Wrapped |-> "new"]
    /\ where = [w \in Wrapped |-> None]
    /\ old = [w \in Wrapped |-> FALSE]
    /\ logged = [w \in Wrapped |-> 0]
    /\ under = [w \in Wrapped |-> {}]
    /\ loose = {}

-----------------------------------------------------------------------------
\* create_task copies the context, the flag with it.
Spawn(t, u) ==
    /\ t \in alive /\ ~Busy(t) /\ u \notin alive
    /\ alive' = alive \cup {u}
    /\ flag' = [flag EXCEPT ![u] = flag[t]]
    /\ loose' = IF flag[t] THEN loose \cup {u} ELSE loose
    /\ UNCHANGED <<pc, where, old, logged, under>>

\* mark_explicit_logging
Mark(t, w) ==
    /\ old' = [old EXCEPT ![w] = flag[t]]
    /\ flag' = [flag EXCEPT ![t] = TRUE]
    /\ where' = [where EXCEPT ![w] = t]
    /\ under' = [under EXCEPT ![w] = OpenIn(t)]

\* complete(), or the first step of a stream(), up to the provider's await.
Open(t, w) ==
    /\ t \in alive /\ ~Busy(t) /\ pc[w] = "new"
    /\ Mark(t, w)
    /\ pc' = [pc EXCEPT ![w] = "inside"]
    /\ UNCHANGED <<alive, logged, loose>>

\* A chunk goes to the consumer.
Yield(w) ==
    /\ w \in Streams /\ pc[w] = "inside"
    /\ pc' = [pc EXCEPT ![w] = "yielded"]
    /\ UNCHANGED <<alive, flag, where, old, logged, under, loose>>

\* The consumer asks for the next one.
Resume(w) ==
    /\ pc[w] = "yielded" /\ ~Busy(where[w])
    /\ pc' = [pc EXCEPT ![w] = "inside"]
    /\ UNCHANGED <<alive, flag, where, old, logged, under, loose>>

\* Mutation: the contextvar is set to False instead of being reset.
UnmarkToFalse(w) == flag' = [flag EXCEPT ![where[w]] = FALSE]

\* unmark_explicit_logging restores what the token found, in whatever order the
\* tokens are used.
Unmark(w) == flag' = [flag EXCEPT ![where[w]] = old[w]]

\* Mutation: only what ends regularly is logged.
FinishSilently(w) ==
    /\ pc' = [pc EXCEPT ![w] = "closed"]
    /\ logged' = [logged EXCEPT ![w] = IF pc[w] = "inside" THEN @ + 1 ELSE @]

\* The finally block's _emit, once for each way out of the try.
Finish(w) ==
    /\ pc' = [pc EXCEPT ![w] = "closed"]
    /\ logged' = [logged EXCEPT ![w] = @ + 1]

\* Some scope opened inside that of w is still open.
NotLast(w) == \E v \in OpenIn(where[w]) : w \in under[v]

Loosen(w) == loose' = IF NotLast(w) THEN loose \cup {where[w]} ELSE loose

\* The finally block and what it leaves behind.
LeaveScope(w) ==
    /\ Finish(w)
    /\ Unmark(w)
    /\ Loosen(w)
    /\ UNCHANGED <<alive, where, old, under>>

\* The provider of a complete() returns, raises or is cancelled.
EndComplete(w) ==
    /\ w \in Completes /\ pc[w] = "inside"
    /\ LeaveScope(w)

\* So does that of a stream(); or the consumer's own task closes the generator at
\* a yield (GeneratorExit).
EndStream(w) ==
    /\ w \in Streams
    /\ pc[w] = "inside" \/ (pc[w] = "yielded" /\ ~Busy(where[w]))
    /\ LeaveScope(w)

End(w) == EndComplete(w) \/ EndStream(w)

\* The consumer breaks out of its loop and drops the generator.
Drop(w) ==
    /\ pc[w] = "yielded" /\ ~Busy(where[w])
    /\ pc' = [pc EXCEPT ![w] = "left"]
    /\ loose' = loose \cup {where[w]}
    /\ UNCHANGED <<alive, flag, where, old, logged, under>>

\* Mutation: stream() unmarks before it emits, as complete() does.
FinalizeUnmarksFirst(w) ==
    /\ pc[w] = "left"
    /\ pc' = [pc EXCEPT ![w] = "closed"]
    /\ UNCHANGED <<alive, flag, where, old, logged, under, loose>>

\* The event loop's finalizer closes it in a task of its own: _emit runs, then
\* the token is refused there (ValueError), and the flag stays set.
Finalize(w) ==
    /\ pc[w] = "left"
    /\ Finish(w)
    /\ UNCHANGED <<alive, flag, where, old, under, loose>>

Next ==
    \/ \E t, u \in Tasks : Spawn(t, u)
    \/ \E t \in Tasks, w \in Wrapped : Open(t, w)
    \/ \E w \in Wrapped : Yield(w) \/ Resume(w) \/ End(w) \/ Drop(w) \/ Finalize(w)

\* A provider ends, and dropped generators are collected.
Fairness == \A w \in Wrapped : WF_vars(Finalize(w)) /\ WF_vars(pc[w] = "inside" /\ End(w))

Spec == Init /\ [][Next]_vars /\ Fairness

-----------------------------------------------------------------------------
(* What the wrapper promises.                                               *)

\* A call is logged once when its scope is left, on every way out of it, and not
\* before (client.py:113-141, 163-202).
LoggedOnExit ==
    \A w \in Wrapped : logged[w] = IF pc[w] = "closed" THEN 1 ELSE 0

\* A dropped stream, too, is logged in the end.
DroppedIsLogged == \A w \in Streams : pc[w] = "left" ~> logged[w] > 0

\* Where a task closes its streams itself, last opened first, HTTP capture stands
\* down while any is open: a provider's own httpx calls are not logged a second
\* time (client.py:112, 162; auto.py:155).
StandsDown ==
    \A w \in Wrapped :
        pc[w] \in {"inside", "yielded"} /\ where[w] \notin loose => flag[where[w]]

\* Under the same discipline capture is on again as soon as the last scope of the
\* task is closed: its later httpx calls are seen.
StandsUp ==
    \A t \in alive \ loose : OpenIn(t) = {} => ~flag[t]

\* The two together: in a task that nests its scopes, a call is seen by exactly one
\* of the wrapper and HTTP capture, however many streams are open.
CaptureFollowsScopes == StandsDown /\ StandsUp
=============================================================================
