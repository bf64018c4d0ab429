------------------------- MODULE ExplicitScope_proofs -------------------------
(***************************************************************************)
(* Proofs about ExplicitScope, for any tasks and wrapped calls.            *)
(***************************************************************************)
EXTENDS ExplicitScope, TLAPS

-----------------------------------------------------------------------------
(* Types.                                                                   *)

\* Every variable keeps its type; only an opened call has a task; a task is
\* suspended in at most one provider.
THEOREM TypesAlways == Spec => []TypeOK
<1>1. Init => TypeOK
  BY ParamAssumption DEF Init, TypeOK, PCs
<1>2. TypeOK /\ [Next]_vars => TypeOK'
  <2> SUFFICES ASSUME TypeOK, [Next]_vars PROVE TypeOK'
    OBVIOUS
  <2> USE DEF TypeOK, PCs
  <2>1. ASSUME NEW t \in Tasks, NEW u \in Tasks, Spawn(t, u) PROVE TypeOK'
    BY <2>1 DEF Spawn
  <2>2. ASSUME NEW t \in Tasks, NEW w \in Wrapped, Open(t, w) PROVE TypeOK'
    BY <2>2, ParamAssumption DEF Open, Mark, Busy, OpenIn
  <2>3. ASSUME NEW w \in Wrapped, Yield(w) PROVE TypeOK'
    BY <2>3 DEF Yield
  <2>4. ASSUME NEW w \in Wrapped, Resume(w) PROVE TypeOK'
    BY <2>4 DEF Resume, Busy
  <2>5. ASSUME NEW w \in Wrapped, End(w) PROVE TypeOK'
    <3>1. where[w] \in alive /\ old[w] \in BOOLEAN /\ logged[w] \in Nat
      BY <2>5 DEF End, EndComplete, EndStream, LeaveScope
    <3> QED
      BY <2>5, <3>1 DEF End, EndComplete, EndStream, LeaveScope, Finish, Unmark, Loosen
  <2>6. ASSUME NEW w \in Wrapped, Drop(w) PROVE TypeOK'
    <3>1. where[w] \in alive
      BY <2>6 DEF Drop
    <3> QED
      BY <2>6, <3>1 DEF Drop
  <2>7. ASSUME NEW w \in Wrapped, Finalize(w) PROVE TypeOK'
    BY <2>7 DEF Finalize, Finish
  <2>8. CASE UNCHANGED vars
    BY <2>8 DEF vars
  <2> QED
    BY <2>1, <2>2, <2>3, <2>4, <2>5, <2>6, <2>7, <2>8 DEF Next
<1> QED
  BY <1>1, <1>2, PTL DEF Spec

-----------------------------------------------------------------------------
(* Logging.                                                                 *)

\* _emit has run once for a call whose scope is closed, and not at all for any
\* other.  Inductive as it stands: nothing leaves "closed".
THEOREM LoggedOnExitAlways == Spec => []LoggedOnExit
<1>1. Init => LoggedOnExit
  BY DEF Init, LoggedOnExit
<1>2. TypeOK /\ LoggedOnExit /\ [Next]_vars => LoggedOnExit'
  <2> SUFFICES ASSUME TypeOK, LoggedOnExit, [Next]_vars PROVE LoggedOnExit'
    OBVIOUS
  <2> USE DEF TypeOK, LoggedOnExit
  <2>1. ASSUME NEW t \in Tasks, NEW u \in Tasks, Spawn(t, u) PROVE LoggedOnExit'
    BY <2>1 DEF Spawn
  <2>2. ASSUME NEW t \in Tasks, NEW w \in Wrapped, Open(t, w) PROVE LoggedOnExit'
    BY <2>2 DEF Open
  <2>3. ASSUME NEW w \in Wrapped, Yield(w) PROVE LoggedOnExit'
    BY <2>3 DEF Yield
  <2>4. ASSUME NEW w \in Wrapped, Resume(w) PROVE LoggedOnExit'
    BY <2>4 DEF Resume
  <2>5. ASSUME NEW w \in Wrapped, End(w) PROVE LoggedOnExit'
    BY <2>5 DEF End, EndComplete, EndStream, LeaveScope, Finish
  <2>6. ASSUME NEW w \in Wrapped, Drop(w) PROVE LoggedOnExit'
    BY <2>6 DEF Drop
  <2>7. ASSUME NEW w \in Wrapped, Finalize(w) PROVE LoggedOnExit'
    BY <2>7 DEF Finalize, Finish
  <2>8. CASE UNCHANGED vars
    BY <2>8 DEF vars
  <2> QED
    BY <2>1, <2>2, <2>3, <2>4, <2>5, <2>6, <2>7, <2>8 DEF Next
<1> QED
  BY <1>1, <1>2, TypesAlways, PTL DEF Spec

-----------------------------------------------------------------------------
(* The flag.                                                                *)

\* In a task that nests its scopes, the flag is on exactly while one is open;
\* the open scopes are totally ordered by "under"; each lies on scopes that are
\* still open, and its token restores TRUE exactly if there is one.
Nested(t) ==
    /\ flag[t] <=> OpenIn(t) # {}
    /\ \A w \in OpenIn(t) :
          /\ pc[w] # "left"
          /\ under[w] \subseteq OpenIn(t) \ {w}
          /\ old[w] <=> under[w] # {}
    /\ \A v, w \in OpenIn(t) : v = w \/ v \in under[w] \/ w \in under[v]

\* A task that is not there yet has nothing open and capture on.
NestInv ==
    /\ \A t \in Tasks \ loose : Nested(t)
    /\ \A t \in Tasks \ alive : OpenIn(t) = {}

\* Where OpenIn(t), the flag of t and the tokens of its scopes stay as they are, t
\* stays nested.
LEMMA NestedKept ==
    ASSUME NEW t \in Tasks, Nested(t),
           OpenIn(t)' = OpenIn(t), flag'[t] = flag[t],
           \A w \in OpenIn(t) : pc'[w] # "left" /\ old'[w] = old[w] /\ under'[w] = under[w]
    PROVE  Nested(t)'
BY DEF Nested

\* Open(t, w) opens the scope of w in t, and none anywhere else.
LEMMA OpensInner ==
    ASSUME TypeOK, NEW t \in Tasks, NEW w \in Wrapped, Open(t, w)
    PROVE  /\ OpenIn(t)' = OpenIn(t) \cup {w}
           /\ w \notin OpenIn(t)
           /\ \A u \in Tasks \ {t} : OpenIn(u)' = OpenIn(u)
<1>1. pc[w] = "new" /\ where[w] = None /\ None \notin Tasks
  BY ParamAssumption DEF TypeOK, Open
<1>2. /\ pc' = [pc EXCEPT ![w] = "inside"]
      /\ where' = [where EXCEPT ![w] = t]
  BY DEF Open, Mark
<1> QED
  BY <1>1, <1>2 DEF OpenIn, TypeOK

\* Where a call is closed, its scope goes out of its own task, and no other.
LEMMA CloseScope ==
    ASSUME TypeOK, NEW w \in Wrapped, pc[w] \in {"inside", "yielded", "left"},
           pc' = [pc EXCEPT ![w] = "closed"], where' = where
    PROVE  /\ where[w] \in Tasks
           /\ OpenIn(where[w])' = OpenIn(where[w]) \ {w}
           /\ w \in OpenIn(where[w])
           /\ \A u \in Tasks \ {where[w]} : OpenIn(u)' = OpenIn(u)
BY DEF TypeOK, OpenIn

\* Scopes stay nested: closing the last one restores exactly what lies below it.
THEOREM NestInvAlways == Spec => []NestInv
<1>1. Init => NestInv
  BY ParamAssumption DEF Init, NestInv, Nested, OpenIn
<1>2. TypeOK /\ NestInv /\ [Next]_vars => NestInv'
  <2> SUFFICES ASSUME TypeOK, NestInv, [Next]_vars PROVE NestInv'
    OBVIOUS
  <2>1. ASSUME NEW t \in Tasks, NEW u \in Tasks, Spawn(t, u) PROVE NestInv'
    <3>1. \A s \in Tasks : OpenIn(s)' = OpenIn(s)
      BY <2>1 DEF Spawn, OpenIn
    <3>2. ASSUME NEW s \in Tasks \ loose' PROVE Nested(s)'
      <4>1. s \notin loose /\ Nested(s)
        BY <2>1 DEF Spawn, NestInv
      <4>2. CASE s = u
        <5>1. OpenIn(s) = {} /\ ~flag[t] /\ flag'[s] = flag[t]
          BY <2>1, <3>2, <4>2 DEF Spawn, NestInv, TypeOK
        <5> QED
          BY <3>1, <5>1 DEF Nested
      <4>3. CASE s # u
        BY <2>1, <3>1, <4>1, <4>3, NestedKept DEF Spawn, TypeOK, Nested
      <4> QED
        BY <4>2, <4>3
    <3> QED
      BY <2>1, <3>1, <3>2 DEF NestInv, Spawn
  <2>2. ASSUME NEW t \in Tasks, NEW w \in Wrapped, Open(t, w) PROVE NestInv'
    <3>1. /\ OpenIn(t)' = OpenIn(t) \cup {w}
          /\ w \notin OpenIn(t)
          /\ \A u \in Tasks \ {t} : OpenIn(u)' = OpenIn(u)
      BY <2>2, OpensInner
    <3>2. /\ pc'[w] = "inside" /\ old'[w] = flag[t] /\ under'[w] = OpenIn(t)
          /\ flag'[t] = TRUE /\ loose' = loose /\ alive' = alive /\ t \in alive
          /\ \A v \in Wrapped \ {w} : pc'[v] = pc[v] /\ old'[v] = old[v] /\ under'[v] = under[v]
          /\ \A s \in Tasks \ {t} : flag'[s] = flag[s]
      BY <2>2 DEF Open, Mark, TypeOK
    <3>3. ASSUME NEW s \in Tasks \ loose PROVE Nested(s)'
      <4>1. Nested(s)
        BY DEF NestInv
      <4>2. \A v \in OpenIn(s) : v \in Wrapped \ {w}
        BY <2>2, <3>1 DEF OpenIn, Open
      <4>3. CASE s = t
        BY <3>1, <3>2, <4>1, <4>2, <4>3 DEF Nested
      <4>4. CASE s # t
        BY <3>1, <3>2, <4>1, <4>2, <4>4, NestedKept DEF Nested
      <4> QED
        BY <4>3, <4>4
    <3> QED
      BY <3>1, <3>2, <3>3 DEF NestInv
  <2>3. ASSUME NEW w \in Wrapped, Yield(w) \/ Resume(w) PROVE NestInv'
    <3>1. \A s \in Tasks : OpenIn(s)' = OpenIn(s)
      BY <2>3 DEF Yield, Resume, OpenIn, TypeOK
    <3>2. \A v \in Wrapped : pc'[v] = "left" => pc[v] = "left"
      BY <2>3 DEF Yield, Resume, TypeOK
    <3>3. UNCHANGED <<flag, old, under, loose, alive>>
      BY <2>3 DEF Yield, Resume
    <3> QED
      BY <3>1, <3>2, <3>3 DEF NestInv, Nested, OpenIn
  <2>4. ASSUME NEW w \in Wrapped, End(w) PROVE NestInv'
    <3> PICK t \in Tasks : t = where[w]
      BY <2>4, CloseScope DEF End, EndComplete, EndStream, LeaveScope, Finish
    <3>1. /\ t = where[w]
          /\ OpenIn(t)' = OpenIn(t) \ {w}
          /\ w \in OpenIn(t)
          /\ \A u \in Tasks \ {t} : OpenIn(u)' = OpenIn(u)
      BY <2>4, CloseScope DEF End, EndComplete, EndStream, LeaveScope, Finish
    <3>2. /\ flag'[t] = old[w]
          /\ \A s \in Tasks \ {t} : flag'[s] = flag[s]
          /\ \A v \in Wrapped : pc'[v] = "left" => pc[v] = "left"
          /\ UNCHANGED <<old, under, alive>>
          /\ loose \subseteq loose'
          /\ t \notin loose' => \A v \in OpenIn(t) : w \notin under[v]
      BY <2>4, <3>1 DEF End, EndComplete, EndStream, LeaveScope, Finish, Unmark, Loosen, NotLast, TypeOK
    <3>3. ASSUME NEW s \in Tasks \ loose' PROVE Nested(s)'
      <4>1. Nested(s)
        BY <3>2 DEF NestInv
      <4>2. OpenIn(s) \subseteq Wrapped
        BY DEF OpenIn
      <4>3. CASE s = t
        <5>1. \A v \in OpenIn(t) : w \notin under[v]
          BY <3>2, <3>3, <4>3
        <5>2. old[w] <=> OpenIn(t) \ {w} # {}
          BY <3>1, <4>1, <4>3, <5>1 DEF Nested
        <5>3. OpenIn(t)' \subseteq OpenIn(t) /\ w \notin OpenIn(t)'
          BY <3>1
        <5>4. flag'[t] <=> OpenIn(t)' # {}
          BY <3>1, <3>2, <5>2
        <5>5. ASSUME NEW v \in OpenIn(t)'
              PROVE  /\ pc'[v] # "left"
                     /\ under'[v] \subseteq OpenIn(t)' \ {v}
                     /\ old'[v] <=> under'[v] # {}
          BY <3>1, <3>2, <4>1, <4>2, <4>3, <5>1, <5>3 DEF Nested
        <5>6. \A u, v \in OpenIn(t)' : u = v \/ u \in under'[v] \/ v \in under'[u]
          BY <3>2, <4>1, <4>3, <5>3 DEF Nested
        <5> QED
          BY <4>3, <5>4, <5>5, <5>6 DEF Nested
      <4>4. CASE s # t
        BY <3>1, <3>2, <4>1, <4>2, <4>4, NestedKept DEF Nested
      <4> QED
        BY <4>3, <4>4
    <3> QED
      BY <3>1, <3>2, <3>3 DEF NestInv
  <2>5. ASSUME NEW w \in Wrapped, Drop(w) PROVE NestInv'
    <3>1. \A s \in Tasks : OpenIn(s)' = OpenIn(s)
      BY <2>5 DEF Drop, OpenIn, TypeOK
    <3>2. /\ UNCHANGED <<flag, old, under, alive>>
          /\ loose' = loose \cup {where[w]}
          /\ \A v \in Wrapped \ {w} : pc'[v] = pc[v]
      BY <2>5 DEF Drop, TypeOK
    <3> QED
      BY <3>1, <3>2 DEF NestInv, Nested, OpenIn
  <2>6. ASSUME NEW w \in Wrapped, Finalize(w) PROVE NestInv'
    <3>1. /\ where[w] \in Tasks
          /\ w \in OpenIn(where[w])
          /\ \A u \in Tasks \ {where[w]} : OpenIn(u)' = OpenIn(u)
          /\ OpenIn(where[w])' \subseteq OpenIn(where[w])
      BY <2>6, CloseScope DEF Finalize, Finish
    <3>2. /\ UNCHANGED <<flag, old, under, loose, alive>>
          /\ \A v \in Wrapped : pc'[v] = "left" => pc[v] = "left"
      BY <2>6 DEF Finalize, Finish, TypeOK
    <3>3. where[w] \in loose
      BY <2>6, <3>1 DEF Finalize, NestInv, Nested
    <3> QED
      BY <3>1, <3>2, <3>3 DEF NestInv, Nested, OpenIn
  <2>7. CASE UNCHANGED vars
    BY <2>7 DEF vars, NestInv, Nested, OpenIn
  <2> QED
    BY <2>1, <2>2, <2>3, <2>4, <2>5, <2>6, <2>7 DEF Next
<1> QED
  BY <1>1, <1>2, TypesAlways, PTL DEF Spec

\* In a task that nests its scopes HTTP capture stands down while one is open, and
\* is on again with the last one closed: a call is logged by one of the two.
THEOREM CaptureFollowsScopesAlways == Spec => []CaptureFollowsScopes
<1>1. TypeOK /\ NestInv => StandsDown
  BY ParamAssumption DEF TypeOK, NestInv, Nested, OpenIn, StandsDown
<1>2. TypeOK /\ NestInv => StandsUp
  BY DEF TypeOK, NestInv, Nested, StandsUp
<1>3. TypeOK /\ NestInv => CaptureFollowsScopes
  BY <1>1, <1>2 DEF CaptureFollowsScopes
<1> QED
  BY <1>3, TypesAlways, NestInvAlways, PTL
=============================================================================
