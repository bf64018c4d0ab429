---------------------------- MODULE ChatTurn_proofs ----------------------------
(***************************************************************************)
(* What holds of ChatTurn for every set of requests and conversations,     *)
(* every context window, answers of every length and any number of faults. *)
(***************************************************************************)
EXTENDS ChatTurn, FiniteSetTheorems, TLAPS

-----------------------------------------------------------------------------
(* The window of recent messages.                                           *)

\* A finite set of messages has an oldest one.
LEMMA Oldest ==
    ASSUME NEW R, IsFiniteSet(R), R # {}, \A m \in R : m.at \in Nat
    PROVE  \E m \in R : \A n \in R : m.at <= n.at
<1> DEFINE Older(m) == {n \in R : n.at < m.at}
           Downs == {Older(m) : m \in R}
<1>1. Downs \subseteq FiniteSubsetsOf(R) /\ Downs # {}
  <2>1. FiniteSubsetsOf(R) = SUBSET R
    BY FS_FiniteSubsetsOfFinite
  <2>2. \A m \in R : Older(m) \in SUBSET R
    OBVIOUS
  <2>3. Downs \subseteq SUBSET R
    BY <2>2
  <2>4. PICK m \in R : TRUE
    OBVIOUS
  <2>5. Older(m) \in Downs
    BY <2>4
  <2> QED
    BY <2>1, <2>3, <2>5
<1>2. PICK D \in Downs : \A E \in Downs : ~(<<E, D>> \in StrictSubsetOrdering(R))
  <2> HIDE DEF Downs
  <2> QED
    BY <1>1, FS_StrictSubsetOrderingWellFounded, WFMin
<1>3. PICK m \in R : D = Older(m)
  BY <1>2
<1>4. ASSUME NEW n \in R, n.at < m.at PROVE FALSE
  <2>1. Older(n) \subseteq Older(m) /\ n \in Older(m) /\ n \notin Older(n)
    BY <1>4
  <2>2. Older(n) \in Downs
    OBVIOUS
  <2> QED
    BY <2>1, <2>2, <1>2, <1>3 DEF StrictSubsetOrdering
<1> QED
  BY <1>4

\* A finite set of messages has one that none is newer than.
LEMMA Newest ==
    ASSUME NEW R, IsFiniteSet(R), R # {}, \A m \in R : m.at \in Nat
    PROVE  \E m \in R : Newer(R, m) = {}
<1> DEFINE Ups == {Newer(R, m) : m \in R}
<1>1. Ups \subseteq FiniteSubsetsOf(R) /\ Ups # {}
  <2>1. FiniteSubsetsOf(R) = SUBSET R
    BY FS_FiniteSubsetsOfFinite
  <2>2. \A m \in R : Newer(R, m) \in SUBSET R
    BY DEF Newer
  <2>3. Ups \subseteq SUBSET R
    BY <2>2
  <2>4. PICK m \in R : TRUE
    OBVIOUS
  <2>5. Newer(R, m) \in Ups
    BY <2>4
  <2> QED
    BY <2>1, <2>3, <2>5
<1>2. PICK U \in Ups : \A E \in Ups : ~(<<E, U>> \in StrictSubsetOrdering(R))
  <2> HIDE DEF Ups
  <2> QED
    BY <1>1, FS_StrictSubsetOrderingWellFounded, WFMin
<1>3. PICK m \in R : U = Newer(R, m)
  BY <1>2
<1>4. ASSUME NEW n \in Newer(R, m) PROVE FALSE
  <2>1. n \in R /\ Newer(R, n) \subseteq Newer(R, m) /\ n \notin Newer(R, n)
    BY <1>4 DEF Newer
  <2>2. Newer(R, n) \in Ups /\ Newer(R, n) \subseteq R /\ Newer(R, m) \subseteq R
    BY <2>1 DEF Newer
  <2> QED
    BY <2>1, <2>2, <1>2, <1>3, <1>4 DEF StrictSubsetOrdering
<1> QED
  BY <1>4

\* The ORDER BY created_at DESC LIMIT of recent_messages (db.py:137-156): a
\* message is left out only when the window is full of newer ones.
LEMMA TopWindow ==
    ASSUME ParamAssumption, NEW R, IsFiniteSet(R), \A m \in R : m.at \in Nat,
           \A m, n \in R : m.at = n.at => m = n,
           NEW q \in R \ RecentMessages(R)
    PROVE  /\ Cardinality(RecentMessages(R)) = Window
           /\ \A m \in RecentMessages(R) : q.at < m.at
<1> DEFINE Recent == RecentMessages(R)
           Past == R \ Recent
<1>1. \A m \in R : /\ Newer(R, m) \in SUBSET R
                   /\ IsFiniteSet(Newer(R, m)) /\ Cardinality(Newer(R, m)) \in Nat
  BY FS_Subset, FS_CardinalityType DEF Newer
<1>2. ASSUME NEW p \in Past, NEW m \in Recent PROVE p.at < m.at
  <2>1. m \in R /\ Cardinality(Newer(R, m)) < Window /\ ~(Cardinality(Newer(R, p)) < Window)
    BY DEF RecentMessages
  <2>2. CASE m.at <= p.at
    <3>1. Newer(R, p) \subseteq Newer(R, m)
      BY <2>1, <2>2 DEF Newer
    <3>2. Cardinality(Newer(R, p)) <= Cardinality(Newer(R, m))
      BY <3>1, <2>1, <1>1, FS_Subset
    <3> QED
      BY <2>1, <3>2, <1>1, ParamAssumption
  <2> QED
    BY <2>1, <2>2
<1>3. IsFiniteSet(Past) /\ Past # {}
  BY FS_Subset
<1>4. PICK p \in Past : Newer(Past, p) = {}
  <2> HIDE DEF Past
  <2>1. \A m \in Past : m.at \in Nat
    BY DEF Past
  <2> QED
    BY <1>3, <2>1, Newest
<1>5. Newer(R, p) = Recent
  BY <1>2, <1>4 DEF Newer, RecentMessages
<1>6. IsFiniteSet(Recent) /\ Cardinality(Recent) \in Nat /\ ~(Cardinality(Recent) < Window)
  BY <1>1, <1>5 DEF RecentMessages
<1>7. Recent # {}
  BY <1>6, FS_EmptySet, ParamAssumption
<1>8. PICK m \in Recent : \A n \in Recent : m.at <= n.at
  <2> HIDE DEF Recent
  <2>1. \A n \in Recent : n.at \in Nat
    BY DEF Recent, RecentMessages
  <2> QED
    BY <1>6, <1>7, <2>1, Oldest
<1>9. m \in R /\ Recent = Newer(R, m) \cup {m} /\ m \notin Newer(R, m)
  <2>1. m \in R /\ Recent \subseteq R /\ m.at \in Nat
    BY DEF RecentMessages
  <2>2. ASSUME NEW n \in Recent PROVE n \in Newer(R, m) \cup {m}
    BY <1>8, <2>1 DEF Newer
  <2>3. ASSUME NEW n \in Newer(R, m) PROVE n \in Recent
    BY <1>2, <1>5, <2>1 DEF Newer
  <2>4. m \notin Newer(R, m)
    BY <2>1 DEF Newer
  <2> QED
    BY <2>1, <2>2, <2>3, <2>4
<1>10. Cardinality(Recent) = Cardinality(Newer(R, m)) + 1
  BY <1>9, <1>1, FS_AddElement
<1>11. Cardinality(Newer(R, m)) < Window
  BY <1>8 DEF RecentMessages
<1> QED
  BY <1>1, <1>2, <1>6, <1>9, <1>10, <1>11, ParamAssumption

-----------------------------------------------------------------------------
(* Types.                                                                   *)

\* An INSERT adds a row of the right type, and the table stays finite.
LEMMA AddTypes ==
    ASSUME TypeOK, NEW t \in Turns, NEW role \in {"user", "assistant"},
           NEW status \in {"complete", "cancelled", "error"}, NEW len \in 0..MaxTokens,
           AddMessage(t, role, status, len)
    PROVE  rows' \subseteq Row /\ IsFiniteSet(rows') /\ clock' \in Nat
<1>1. Message(t, role, status, len) \in Row
  BY DEF Message, Row, TypeOK
<1> QED
  BY <1>1, FS_AddElement DEF AddMessage, TypeOK

\* Every variable keeps its type; an answer is handed to a spawned task exactly
\* when there is a status to store it with, and a request that is still at work
\* has spawned none, but to announce its error.
THEOREM TypesAlways == Spec => []TypeOK
<1>1. Init => TypeOK
  BY ParamAssumption, FS_EmptySet DEF Init, TypeOK, PCs, InFlight
<1>2. TypeOK /\ [Next]_vars => TypeOK'
  <2> SUFFICES ASSUME TypeOK, [Next]_vars PROVE TypeOK'
    OBVIOUS
  <2>1. ASSUME NEW t \in Turns, NEW c \in Convs, Refuse(t, c) \/ Accept(t, c) PROVE TypeOK'
    BY <2>1 DEF Refuse, Accept, Goto, TypeOK, PCs, InFlight, tables, background
  <2>2. ASSUME NEW t \in Turns, AddUser(t) PROVE TypeOK'
    <3>1. rows' \subseteq Row /\ IsFiniteSet(rows') /\ clock' \in Nat
      BY <2>2, AddTypes, ParamAssumption DEF AddUser
    <3> QED
      BY <2>2, <3>1 DEF AddUser, Goto, TypeOK, PCs, InFlight, background
  <2>3. ASSUME NEW t \in Turns, SetTitle(t) PROVE TypeOK'
    <3>1. title' \in [Convs -> Turns \cup {None}]
      BY <2>3 DEF SetTitle, TypeOK
    <3> QED
      BY <2>3, <3>1 DEF SetTitle, Goto, TypeOK, PCs, InFlight, background
  <2>4. ASSUME NEW t \in Turns, History(t) PROVE TypeOK'
    <3>1. RecentMessages(Replayable(t)) \subseteq Row
      BY DEF RecentMessages, Replayable, TypeOK
    <3> QED
      BY <2>4, <3>1 DEF History, Goto, TypeOK, PCs, InFlight, tables, background
  <2>5. ASSUME NEW t \in Turns, FailEarly(t) PROVE TypeOK'
    <3>1. rows' \subseteq Row /\ IsFiniteSet(rows') /\ clock' \in Nat
      BY <2>5, AddTypes, ParamAssumption DEF FailEarly, TypeOK
    <3>2. faults' \in 0..MaxFaults
      BY <2>5, ParamAssumption DEF FailEarly, Fault, TypeOK
    <3> QED
      BY <2>5, <3>1, <3>2 DEF FailEarly, Goto, TypeOK, PCs, InFlight, background
  <2>6. ASSUME NEW t \in Turns,
               \/ StartStream(t) \/ CallModel(t) \/ ProviderGone(t) \/ GenerationEnds(t)
               \/ Touch(t) \/ SendDone(t) \/ SendError(t) \/ Leave(t)
        PROVE  TypeOK'
    <3>1. /\ \E x \in PCs : Goto(t, x) /\ (x \in {"idle"} \cup InFlight => pc[t] \in InFlight \ {"sendError"})
          /\ ended' \subseteq Turns
          /\ UNCHANGED <<tables, conv, context, got, background, faults>>
      BY <2>6 DEF StartStream, CallModel, ProviderGone, GenerationEnds, Touch, SendDone,
                  SendError, Leave, Goto, TypeOK, PCs, InFlight
    <3> QED
      BY <3>1 DEF Goto, TypeOK, tables, background
  <2>7. ASSUME NEW t \in Turns, Token(t) PROVE TypeOK'
    <3>1. got' \in [Turns -> 0..MaxTokens]
      BY <2>7, ParamAssumption DEF Token, TypeOK
    <3> QED
      BY <2>7, <3>1 DEF Token, TypeOK, tables, background
  <2>8. ASSUME NEW t \in Turns, GenerationFails(t) PROVE TypeOK'
    BY <2>8 DEF GenerationFails, Spawn, Goto, TypeOK, PCs, InFlight, tables
  <2>9. ASSUME NEW t \in Turns, Store(t) \/ StoreFails(t) \/ Cancel(t) PROVE TypeOK'
    <3>1. rows' \subseteq Row /\ IsFiniteSet(rows') /\ clock' \in Nat
      BY <2>9, AddTypes DEF Store, StoreFails, Cancel, TypeOK
    <3>2. faults' \in 0..MaxFaults
      BY <2>9, ParamAssumption DEF Store, StoreFails, Cancel, Fault, TypeOK
    <3>3. CASE Store(t) \/ StoreFails(t)
      BY <3>1, <3>2, <3>3 DEF Store, StoreFails, Goto, TypeOK, PCs, InFlight, background
    <3>4. CASE Cancel(t)
      BY <3>1, <3>2, <3>4 DEF Cancel, Spawn, Goto, TypeOK, PCs, InFlight
    <3> QED
      BY <2>9, <3>3, <3>4
  <2>10. ASSUME NEW t \in Turns, BgStore(t) \/ BgTouch(t) \/ BgFails(t) PROVE TypeOK'
    <3>1. outcome[t] \in {"cancelled", "error"} /\ got[t] \in 0..MaxTokens /\ bg[t] # "none"
      BY <2>10 DEF BgStore, BgTouch, BgFails, TypeOK
    <3>2. rows' \subseteq Row /\ IsFiniteSet(rows') /\ clock' \in Nat
      BY <2>10, <3>1, AddTypes DEF BgStore, BgTouch, BgFails, TypeOK, tables
    <3>3. faults' \in 0..MaxFaults
      BY <2>10, ParamAssumption DEF BgStore, BgTouch, BgFails, Fault, TypeOK
    <3>4. /\ \E x \in {"touch", "over"} : BgGoto(t, x)
          /\ UNCHANGED <<convs, title, request, outcome, ended>>
      BY <2>10 DEF BgStore, BgTouch, BgFails, tables
    <3> QED
      BY <3>1, <3>2, <3>3, <3>4 DEF BgGoto, TypeOK, request
  <2>11. ASSUME NEW c \in Convs, Delete(c) PROVE TypeOK'
    <3>1. rows' \subseteq rows
      BY <2>11 DEF Delete
    <3>2. rows' \subseteq Row /\ IsFiniteSet(rows')
      BY <3>1, FS_Subset DEF TypeOK
    <3> QED
      BY <2>11, <3>2 DEF Delete, TypeOK, request, background
  <2>12. CASE Crash
    <3>1. faults' \in 0..MaxFaults
      BY <2>12, ParamAssumption DEF Crash, Fault, TypeOK
    <3> QED
      BY <2>12, <3>1 DEF Crash, TypeOK, PCs, InFlight, tables
  <2>13. CASE UNCHANGED vars
    BY <2>13 DEF vars, tables, request, background, TypeOK
  <2> QED
    BY <2>1, <2>2, <2>3, <2>4, <2>5, <2>6, <2>7, <2>8, <2>9, <2>10, <2>11, <2>12, <2>13
       DEF Next, Ask, Answer, Persist
<1> QED
  BY <1>1, <1>2, PTL DEF Spec

-----------------------------------------------------------------------------
(* What a step does to the table, and to the requests.                      *)

\* Step inserts m, a message of request t: its question, its complete answer or
\* its partial one.
Inserts(t, m) ==
    /\ rows' = rows \cup {m} /\ clock' = clock + 1
    /\ m.turn = t /\ m.at = clock + 1
    /\ HasConv(t) /\ UNCHANGED <<convs, conv, context, ended>>
    /\ \/ /\ m.role = "user" /\ m.status = "complete"
          /\ pc[t] = "addUser" /\ pc' = [pc EXCEPT ![t] = pc'[t]] /\ pc'[t] \in {"title", "failed"}
          /\ UNCHANGED <<got, background>>
       \/ /\ m.role = "assistant" /\ m.status = "complete" /\ m.len = got[t]
          /\ pc[t] = "store" /\ pc' = [pc EXCEPT ![t] = pc'[t]]
          /\ pc'[t] \in {"touch", "sendDone", "cancelled"}
          /\ UNCHANGED got
          /\ UNCHANGED background \/ (pc'[t] = "cancelled" /\ Spawn(t, "cancelled"))
       \/ /\ m.role = "assistant" /\ m.status = outcome[t] /\ m.len = got[t] /\ got[t] > 0
          /\ bg[t] = "store" /\ bg' = [bg EXCEPT ![t] = bg'[t]] /\ bg'[t] \in {"touch", "over"}
          /\ UNCHANGED <<pc, got, outcome>>

\* No step inserts two rows, and none takes a row away but with its
\* conversation and all of that conversation's rows.
LEMMA RowStep ==
    ASSUME TypeOK, [Next]_vars
    PROVE  \/ /\ rows' \subseteq rows /\ clock' = clock
              /\ \A m \in rows \ rows' : /\ conv'[m.turn] \notin convs'
                                       /\ \A n \in rows' : n.turn # m.turn
           \/ \E t \in Turns, m \in Row : Inserts(t, m)
<1> DEFINE Keeps == UNCHANGED <<rows, clock>>
<1>1. ASSUME NEW t \in Turns, Ask(t) PROVE Keeps \/ \E m \in Row : Inserts(t, m)
  <2>1. CASE AddUser(t) \/ FailEarly(t)
    <3>1. Keeps \/ (AddMessage(t, "user", "complete", 0) /\ HasConv(t) /\ pc[t] = "addUser")
      BY <2>1 DEF AddUser, FailEarly, AddMessage
    <3>2. Message(t, "user", "complete", 0) \in Row
      BY ParamAssumption DEF Message, Row, TypeOK
    <3>3. /\ pc' = [pc EXCEPT ![t] = pc'[t]] /\ pc'[t] \in {"title", "failed"}
          /\ UNCHANGED <<convs, conv, context, got, background, ended>>
      BY <2>1 DEF AddUser, FailEarly, Goto, TypeOK
    <3> QED
      BY <3>1, <3>2, <3>3 DEF AddMessage, Message, Inserts
  <2> QED
    BY <1>1, <2>1 DEF Ask, Refuse, Accept, SetTitle, History, tables
<1>2. ASSUME NEW t \in Turns, Answer(t) PROVE Keeps \/ \E m \in Row : Inserts(t, m)
  <2>1. CASE Store(t) \/ StoreFails(t) \/ Cancel(t)
    <3>1. Keeps \/ (AddMessage(t, "assistant", "complete", got[t]) /\ HasConv(t) /\ pc[t] = "store")
      BY <2>1 DEF Store, StoreFails, Cancel, AddMessage
    <3>2. Message(t, "assistant", "complete", got[t]) \in Row
      BY DEF Message, Row, TypeOK
    <3>3. /\ pc' = [pc EXCEPT ![t] = pc'[t]] /\ pc'[t] \in {"touch", "sendDone", "cancelled"}
          /\ UNCHANGED <<convs, conv, context, got, ended>>
          /\ UNCHANGED background \/ (pc'[t] = "cancelled" /\ Spawn(t, "cancelled"))
      BY <2>1 DEF Store, StoreFails, Cancel, Goto, Spawn, TypeOK
    <3> QED
      BY <3>1, <3>2, <3>3 DEF AddMessage, Message, Inserts
  <2> QED
    BY <1>2, <2>1 DEF Answer, StartStream, CallModel, ProviderGone, Token, GenerationEnds,
       GenerationFails, Touch, SendDone, SendError, Leave, tables
<1>3. ASSUME NEW t \in Turns, Persist(t) PROVE Keeps \/ \E m \in Row : Inserts(t, m)
  <2>1. \/ Keeps
        \/ /\ AddMessage(t, "assistant", outcome[t], got[t]) /\ HasConv(t)
           /\ got[t] > 0 /\ bg[t] = "store"
    BY <1>3 DEF Persist, BgStore, BgTouch, BgFails, tables, TypeOK
  <2>2. bg[t] = "store" => Message(t, "assistant", outcome[t], got[t]) \in Row
    BY DEF Message, Row, TypeOK
  <2>3. /\ bg' = [bg EXCEPT ![t] = bg'[t]] /\ bg'[t] \in {"touch", "over"}
        /\ UNCHANGED <<convs, request, outcome, ended>>
    BY <1>3 DEF Persist, BgStore, BgTouch, BgFails, BgGoto, tables, TypeOK
  <2> QED
    BY <2>1, <2>2, <2>3 DEF AddMessage, Message, Inserts, request
<1>4. ASSUME NEW c \in Convs, Delete(c)
      PROVE  /\ rows' \subseteq rows /\ clock' = clock
             /\ \A m \in rows \ rows' : /\ conv'[m.turn] \notin convs'
                                      /\ \A n \in rows' : n.turn # m.turn
  BY <1>4 DEF Delete, request
<1>5. CASE Crash \/ UNCHANGED vars
  BY <1>5 DEF Crash, vars, tables
<1> QED
  BY <1>1, <1>2, <1>3, <1>4, <1>5 DEF Next

-----------------------------------------------------------------------------
(* What is stored is what was said, once.                                   *)

\* Where a request is when its stream has ended, was cancelled or has failed.
OutcomeInv ==
    \A t \in Turns :
        /\ pc[t] \in {"store", "touch", "sendDone", "done"} => t \in ended
        /\ outcome[t] = "cancelled" => pc[t] = "cancelled"
        /\ outcome[t] = "error" => pc[t] \in {"sendError", "errored", "gone", "dead"}

\* A complete answer comes from the request, which then neither fails nor
\* generates again; a partial one from the spawned task, which has one status.
TrueAnswer(m) ==
    /\ m.len = got[m.turn]
    /\ \/ /\ m.status = "complete" /\ m.turn \in ended /\ outcome[m.turn] # "error"
          /\ pc[m.turn] \in {"touch", "sendDone", "done", "cancelled", "dead"}
       \/ /\ m.status = outcome[m.turn] /\ m.len > 0
          /\ bg[m.turn] \in {"touch", "over", "lost"}

AnswerInv ==
    /\ \A m \in rows : m.role = "assistant" => TrueAnswer(m)
    /\ \A m, n \in rows :
          (/\ m.role = "assistant" /\ n.role = "assistant"
           /\ m.turn = n.turn /\ m.status = n.status) => m = n

\* No step of a request or of its task makes a stored answer untrue.
LEMMA OutcomeSteps ==
    ASSUME TypeOK, OutcomeInv, [Next]_vars
    PROVE  OutcomeInv' /\ \A m \in Row : TrueAnswer(m) => TrueAnswer(m)'
<1>1. ASSUME NEW t \in Turns, NEW c \in Convs, Refuse(t, c) \/ Accept(t, c)
      PROVE  OutcomeInv' /\ \A m \in Row : TrueAnswer(m) => TrueAnswer(m)'
  BY <1>1 DEF Refuse, Accept, Goto, OutcomeInv, TrueAnswer, TypeOK, InFlight, Row, background
<1>2. ASSUME NEW t \in Turns, AddUser(t) \/ SetTitle(t) \/ History(t) \/ FailEarly(t)
      PROVE  OutcomeInv' /\ \A m \in Row : TrueAnswer(m) => TrueAnswer(m)'
  <2>1. /\ pc[t] \in {"addUser", "title", "history"}
        /\ \E x \in {"title", "history", "ready", "failed"} : Goto(t, x)
        /\ UNCHANGED <<got, background, ended>>
    BY <1>2 DEF AddUser, SetTitle, History, FailEarly
  <2> QED
    BY <2>1 DEF Goto, OutcomeInv, TrueAnswer, TypeOK, InFlight, Row, background
<1>3. ASSUME NEW t \in Turns, \/ StartStream(t) \/ CallModel(t) \/ ProviderGone(t)
                              \/ GenerationEnds(t)
      PROVE  OutcomeInv' /\ \A m \in Row : TrueAnswer(m) => TrueAnswer(m)'
  <2>1. /\ pc[t] \in {"ready", "started", "generating"}
        /\ \E x \in {"started", "generating", "failed", "store"} : Goto(t, x)
        /\ pc'[t] = "store" => t \in ended'
        /\ UNCHANGED <<got, background>> /\ ended \subseteq ended'
    BY <1>3 DEF StartStream, CallModel, ProviderGone, GenerationEnds, Goto, TypeOK
  <2> QED
    BY <2>1 DEF Goto, OutcomeInv, TrueAnswer, TypeOK, InFlight, Row, background
<1>4. ASSUME NEW t \in Turns, Token(t)
      PROVE  OutcomeInv' /\ \A m \in Row : TrueAnswer(m) => TrueAnswer(m)'
  BY <1>4 DEF Token, OutcomeInv, TrueAnswer, TypeOK, InFlight, Row, background
<1>5. ASSUME NEW t \in Turns, Store(t) \/ StoreFails(t) \/ Touch(t) \/ SendDone(t)
      PROVE  OutcomeInv' /\ \A m \in Row : TrueAnswer(m) => TrueAnswer(m)'
  <2>1. /\ pc[t] \in {"store", "touch", "sendDone"}
        /\ \E x \in {"touch", "sendDone", "done"} : Goto(t, x)
        /\ UNCHANGED <<got, background, ended>>
    BY <1>5 DEF Store, StoreFails, Touch, SendDone
  <2> QED
    BY <2>1 DEF Goto, OutcomeInv, TrueAnswer, TypeOK, InFlight, Row, background
<1>6. ASSUME NEW t \in Turns, SendError(t) \/ Leave(t)
      PROVE  OutcomeInv' /\ \A m \in Row : TrueAnswer(m) => TrueAnswer(m)'
  <2>1. /\ pc[t] \in {"ready", "started", "sendError"}
        /\ \E x \in {"errored", "gone"} : Goto(t, x)
        /\ UNCHANGED <<got, background, ended>>
    BY <1>6 DEF SendError, Leave
  <2> QED
    BY <2>1 DEF Goto, OutcomeInv, TrueAnswer, TypeOK, InFlight, Row, background
<1>7. ASSUME NEW t \in Turns, GenerationFails(t) \/ Cancel(t)
      PROVE  OutcomeInv' /\ \A m \in Row : TrueAnswer(m) => TrueAnswer(m)'
  <2>1. \/ pc[t] = "generating" /\ Goto(t, "sendError") /\ Spawn(t, "error")
        \/ /\ pc[t] \in {"generating", "store", "touch", "sendDone"}
           /\ Goto(t, "cancelled") /\ Spawn(t, "cancelled")
    BY <1>7 DEF GenerationFails, Cancel
  <2>2. UNCHANGED <<got, ended>> /\ outcome[t] = "none" /\ bg[t] = "none"
    BY <1>7 DEF GenerationFails, Cancel, TypeOK, InFlight
  <2> QED
    BY <2>1, <2>2 DEF Goto, Spawn, OutcomeInv, TrueAnswer, TypeOK, Row
<1>8. ASSUME NEW t \in Turns, Persist(t)
      PROVE  OutcomeInv' /\ \A m \in Row : TrueAnswer(m) => TrueAnswer(m)'
  <2>1. /\ \E x \in {"touch", "over"} : BgGoto(t, x)
        /\ UNCHANGED <<request, outcome, ended>>
    BY <1>8 DEF Persist, BgStore, BgTouch, BgFails
  <2> QED
    BY <2>1 DEF BgGoto, OutcomeInv, TrueAnswer, TypeOK, Row, request
<1>9. CASE (\E c \in Convs : Delete(c)) \/ UNCHANGED vars
  <2>1. UNCHANGED <<request, background, ended>>
    BY <1>9 DEF Delete, vars
  <2> QED
    BY <2>1 DEF OutcomeInv, TrueAnswer, request, background
<1>10. CASE Crash
  BY <1>10 DEF Crash, OutcomeInv, TrueAnswer, TypeOK, InFlight, Row
<1> QED
  BY <1>1, <1>2, <1>3, <1>4, <1>5, <1>6, <1>7, <1>8, <1>9, <1>10 DEF Next, Ask, Answer

\* The table never holds two answers of a request with one status, nor one that
\* the request and its task did not give.
THEOREM AnswersAlways == Spec => [](OutcomeInv /\ AnswerInv)
<1>1. Init => OutcomeInv /\ AnswerInv
  BY DEF Init, OutcomeInv, AnswerInv
<1>2. TypeOK /\ OutcomeInv /\ AnswerInv /\ [Next]_vars => (OutcomeInv /\ AnswerInv)'
  <2> SUFFICES ASSUME TypeOK, OutcomeInv, AnswerInv, [Next]_vars
               PROVE  OutcomeInv' /\ AnswerInv'
    OBVIOUS
  <2>1. OutcomeInv' /\ \A m \in rows : m.role = "assistant" => TrueAnswer(m)'
    BY OutcomeSteps DEF AnswerInv, TypeOK
  <2>2. ASSUME rows' \subseteq rows PROVE AnswerInv'
    BY <2>1, <2>2 DEF AnswerInv
  <2>3. ASSUME NEW t \in Turns, NEW m \in Row, Inserts(t, m) PROVE AnswerInv'
    <3>1. \A n \in rows' : n \in rows \/ n = m
      BY <2>3 DEF Inserts
    <3>2. m.role = "assistant" => TrueAnswer(m)'
      BY <2>1, <2>3 DEF Inserts, Spawn, TrueAnswer, OutcomeInv, TypeOK, InFlight, Row, background
    <3>3. ASSUME NEW n \in rows, n.role = "assistant", m.role = "assistant", n.turn = t
          PROVE  n.status # m.status
      BY <2>3, <3>3 DEF Inserts, AnswerInv, TrueAnswer, OutcomeInv, TypeOK, InFlight, Row
    <3>4. m.turn = t
      BY <2>3 DEF Inserts
    <3> QED
      BY <2>1, <3>1, <3>2, <3>3, <3>4 DEF AnswerInv
  <2> QED
    BY <2>1, <2>2, <2>3, RowStep
<1> QED
  BY <1>1, <1>2, TypesAlways, PTL DEF Spec

\* A resumed conversation is honest: a complete answer is all of the model's
\* stream, a partial one a text the client saw begin (chat.py:56-78, 127-150).
THEOREM HonestAlways == Spec => []Honest
<1>1. TypeOK /\ AnswerInv => Honest
  BY DEF TypeOK, AnswerInv, TrueAnswer, Honest, Answers, Row
<1> QED
  BY <1>1, TypesAlways, AnswersAlways, PTL

\* Whatever fails, a request is stored once, and a cancelled one at most once as
\* complete and once as cancelled (chat.py:56-78, 134-150).
THEOREM StoredOnceAlways == Spec => []StoredOnce
<1>1. TypeOK /\ OutcomeInv /\ AnswerInv => StoredOnce
  <2> SUFFICES ASSUME TypeOK, OutcomeInv, AnswerInv, NEW t \in Turns
               PROVE  /\ \A m, n \in Answers(t) : m.status = n.status => m = n
                      /\ pc[t] # "cancelled" => Cardinality(Answers(t)) <= 1
    BY DEF StoredOnce
  <2>1. \A m, n \in Answers(t) : m.status = n.status => m = n
    BY DEF AnswerInv, Answers
  <2>2. ASSUME pc[t] # "cancelled" PROVE \A m, n \in Answers(t) : m = n
    <3>1. \A m \in Answers(t) : \/ m.status = "complete" /\ outcome[t] # "error"
                                \/ m.status = outcome[t]
      BY DEF AnswerInv, TrueAnswer, Answers
    <3>2. outcome[t] # "cancelled" /\ outcome[t] \in {"none", "cancelled", "error"}
      BY <2>2 DEF OutcomeInv, TypeOK
    <3>3. \A m \in Answers(t) : m.status # "none"
      BY DEF Answers, TypeOK, Row
    <3> QED
      BY <2>1, <3>1, <3>2, <3>3
  <2>3. ASSUME pc[t] # "cancelled" PROVE Cardinality(Answers(t)) <= 1
    <3>1. CASE Answers(t) = {}
      BY <3>1, FS_EmptySet
    <3>2. CASE Answers(t) # {}
      <4>1. PICK m \in Answers(t) : TRUE
        BY <3>2
      <4>2. Answers(t) = {m}
        BY <2>2, <2>3, <4>1
      <4> QED
        BY <4>2, FS_Singleton
    <3> QED
      BY <3>1, <3>2
  <2> QED
    BY <2>1, <2>3
<1> QED
  BY <1>1, TypesAlways, AnswersAlways, PTL

-----------------------------------------------------------------------------
(* The question behind an answer, and before the model.                     *)

\* Once its question is stored, a request is in one of these, until it is over.
Asked == {"title", "history", "ready", "started", "generating", "store", "touch",
          "sendDone", "sendError", "done", "errored", "cancelled", "gone"}
Reading == {"ready", "started", "generating", "store"}
Ending == {"touch", "sendDone", "done"}

\* How a request comes to be in one of these sets.
LEMMA RequestSteps ==
    ASSUME TypeOK, [Next]_vars, NEW t \in Turns
    PROVE  /\ convs' \subseteq convs
           /\ faults' = 0 => faults = 0
           /\ \/ conv'[t] = conv[t]
              \/ pc'[t] \in {"addUser", "refused"} /\ bg'[t] = "none"
           /\ (pc'[t] \in Asked \/ bg'[t] # "none") =>
                 \/ pc[t] \in Asked \/ bg[t] # "none"
                 \/ \E m \in Row : Inserts(t, m) /\ m.role = "user"
           /\ pc'[t] \in Ending =>
                 \/ pc[t] \in Ending \/ faults' # 0 \/ ~HasConv(t)
                 \/ \E m \in Row : Inserts(t, m) /\ m.role = "assistant" /\ m.status = "complete"
           /\ pc'[t] \in Reading =>
                 \/ pc[t] \in Reading /\ context'[t] = context[t]
                 \/ context'[t] = RecentMessages(Replayable(t)) /\ UNCHANGED <<rows, conv>>
<1> DEFINE Goal ==
       /\ convs' \subseteq convs
       /\ faults' = 0 => faults = 0
       /\ \/ conv'[t] = conv[t]
          \/ pc'[t] \in {"addUser", "refused"} /\ bg'[t] = "none"
       /\ (pc'[t] \in Asked \/ bg'[t] # "none") =>
             \/ pc[t] \in Asked \/ bg[t] # "none"
             \/ \E m \in Row : Inserts(t, m) /\ m.role = "user"
       /\ pc'[t] \in Ending =>
             \/ pc[t] \in Ending \/ faults' # 0 \/ ~HasConv(t)
             \/ \E m \in Row : Inserts(t, m) /\ m.role = "assistant" /\ m.status = "complete"
       /\ pc'[t] \in Reading =>
             \/ pc[t] \in Reading /\ context'[t] = context[t]
             \/ context'[t] = RecentMessages(Replayable(t)) /\ UNCHANGED <<rows, conv>>
<1> USE DEF Asked, Reading, Ending
<1>1. ASSUME NEW u \in Turns, NEW c \in Convs, Refuse(u, c) \/ Accept(u, c) PROVE Goal
  BY <1>1 DEF Refuse, Accept, Goto, TypeOK, InFlight, tables, background
<1>2. ASSUME NEW u \in Turns, AddUser(u) PROVE Goal
  <2>1. CASE u = t
    <3>1. /\ UNCHANGED <<convs, conv, context, got, background, ended, faults>>
          /\ pc' = [pc EXCEPT ![t] = "title"] /\ pc[t] = "addUser" /\ HasConv(t)
          /\ rows' = rows \cup {Message(t, "user", "complete", 0)} /\ clock' = clock + 1
      BY <1>2, <2>1 DEF AddUser, Goto, AddMessage
    <3>2. Message(t, "user", "complete", 0) \in Row
      BY ParamAssumption DEF Message, Row, TypeOK
    <3>3. pc'[t] = "title"
      BY <3>1 DEF TypeOK
    <3>4. \E m \in Row : Inserts(t, m) /\ m.role = "user"
      BY <3>1, <3>2, <3>3 DEF Inserts, Message
    <3> QED
      BY <3>1, <3>3, <3>4
  <2>2. CASE u # t
    BY <1>2, <2>2 DEF AddUser, Goto, TypeOK, background
  <2> QED
    BY <2>1, <2>2
<1>3. ASSUME NEW u \in Turns, SetTitle(u) \/ FailEarly(u) PROVE Goal
  <2>1. /\ UNCHANGED <<convs, conv, context, background>> /\ (faults' = 0 => faults = 0)
        /\ \/ pc[u] = "title" /\ Goto(u, "history")
           \/ Goto(u, "failed")
    BY <1>3 DEF SetTitle, FailEarly, Fault, TypeOK
  <2> QED
    BY <2>1 DEF Goto, TypeOK, background
<1>4. ASSUME NEW u \in Turns, History(u) PROVE Goal
  <2>1. u = t => context'[t] = RecentMessages(Replayable(t))
    BY <1>4 DEF History, TypeOK
  <2>2. u # t => context'[t] = context[t]
    BY <1>4 DEF History, TypeOK
  <2> QED
    BY <1>4, <2>1, <2>2 DEF History, Goto, TypeOK, tables, background
<1>5. ASSUME NEW u \in Turns, \/ StartStream(u) \/ CallModel(u) \/ ProviderGone(u) \/ Token(u)
                              \/ GenerationEnds(u) \/ Touch(u) \/ SendDone(u)
                              \/ SendError(u) \/ Leave(u)
      PROVE  Goal
  <2>1. UNCHANGED <<convs, conv, context, background, faults>>
    BY <1>5 DEF StartStream, CallModel, ProviderGone, Token, GenerationEnds, Touch, SendDone,
                SendError, Leave, tables
  <2>2. \/ UNCHANGED pc
        \/ /\ pc[u] \in Reading
           /\ \E x \in Reading \cup {"failed", "gone"} : pc' = [pc EXCEPT ![u] = x]
        \/ /\ pc[u] \in Ending
           /\ \E x \in Ending : pc' = [pc EXCEPT ![u] = x]
        \/ /\ pc[u] = "sendError"
           /\ \E x \in {"errored", "gone"} : pc' = [pc EXCEPT ![u] = x]
    BY <1>5 DEF StartStream, CallModel, ProviderGone, Token, GenerationEnds, Touch, SendDone,
                SendError, Leave, Goto
  <2> QED
    BY <2>1, <2>2 DEF TypeOK, background
<1>6. ASSUME NEW u \in Turns, GenerationFails(u) \/ Cancel(u) PROVE Goal
  <2>1. /\ UNCHANGED <<convs, conv, context, faults>>
        /\ pc[u] \in Asked
        /\ \E x \in {"sendError", "cancelled"} : pc' = [pc EXCEPT ![u] = x]
        /\ bg' = [bg EXCEPT ![u] = "store"]
    BY <1>6 DEF GenerationFails, Cancel, Goto, Spawn, tables
  <2> QED
    BY <2>1 DEF TypeOK
<1>7. ASSUME NEW u \in Turns, StoreFails(u) PROVE Goal
  <2>1. /\ UNCHANGED <<convs, conv, context, background>> /\ faults' = faults + 1
        /\ pc[u] \in Asked /\ pc' = [pc EXCEPT ![u] = "sendDone"]
    BY <1>7 DEF StoreFails, Goto, Fault
  <2> QED
    BY <2>1 DEF TypeOK, background
<1>8. ASSUME NEW u \in Turns, Store(u) PROVE Goal
  <2>1. /\ UNCHANGED <<convs, conv, context, got, background, ended, faults>>
        /\ pc[u] = "store" /\ pc' = [pc EXCEPT ![u] = pc'[u]] /\ pc'[u] \in {"touch", "sendDone"}
    BY <1>8 DEF Store, Goto, TypeOK
  <2>2. CASE u = t /\ HasConv(t)
    <3>1. rows' = rows \cup {Message(t, "assistant", "complete", got[t])} /\ clock' = clock + 1
      BY <1>8, <2>2 DEF Store, AddMessage
    <3>2. Message(t, "assistant", "complete", got[t]) \in Row
      BY DEF Message, Row, TypeOK
    <3>3. \E m \in Row : Inserts(t, m) /\ m.role = "assistant" /\ m.status = "complete"
      BY <2>1, <2>2, <3>1, <3>2 DEF Inserts, Message, background
    <3> QED
      BY <2>1, <2>2, <3>3 DEF TypeOK, background
  <2>3. CASE ~(u = t /\ HasConv(t))
    BY <2>1, <2>3 DEF TypeOK, background
  <2> QED
    BY <2>2, <2>3
<1>9. ASSUME NEW u \in Turns, Persist(u) PROVE Goal
  <2>1. /\ UNCHANGED <<convs, pc, conv, context>> /\ (faults' = 0 => faults = 0)
        /\ bg[u] # "none" /\ \E x \in {"touch", "over"} : bg' = [bg EXCEPT ![u] = x]
    BY <1>9 DEF Persist, BgStore, BgTouch, BgFails, BgGoto, Fault, tables, request, TypeOK
  <2> QED
    BY <2>1 DEF TypeOK
<1>10. CASE \/ \E c \in Convs : Delete(c)
            \/ UNCHANGED vars
  BY <1>10 DEF Delete, vars, tables, request, background
<1>11. CASE Crash
  BY <1>11 DEF Crash, Fault, TypeOK, InFlight, tables
<1> QED
  BY <1>1, <1>2, <1>3, <1>4, <1>5, <1>6, <1>7, <1>8, <1>9, <1>10, <1>11 DEF Next, Ask, Answer

\* created_at orders the messages, and no INSERT reuses one; a question is a
\* complete message.
TableInv ==
    /\ \A m \in rows : m.at <= clock /\ (m.role = "user" => m.status = "complete")
    /\ \A m, n \in rows : m.at = n.at => m = n

\* A request that got past its question has it in the table, before its answers,
\* as long as its conversation stands.
QuestionInv ==
    /\ \A t \in Turns : HasConv(t) /\ (pc[t] \in Asked \/ bg[t] # "none") => Questions(t) # {}
    /\ AnswerHasQuestion

\* What the model was given holds the question, or is a window full of messages
\* newer than it.
ReplayInv ==
    \A t \in Turns : pc[t] \in Reading =>
        \A q \in Questions(t) :
            \/ q \in context[t]
            \/ /\ Cardinality(context[t]) = Window
               /\ \A m \in context[t] : q.at < m.at

\* The answer is there when "done" is about to be sent.
DoneInv ==
    \A t \in Turns : pc[t] \in Ending /\ HasConv(t) /\ faults = 0 => Stored(t, "complete")

\* The table of messages says what the turns have stored, in every reachable state.
THEOREM TableAlways == Spec => []TableInv
<1>1. Init => TableInv
  BY DEF Init, TableInv
<1>2. TypeOK /\ TableInv /\ [Next]_vars => TableInv'
  <2> SUFFICES ASSUME TypeOK, TableInv, [Next]_vars PROVE TableInv'
    OBVIOUS
  <2>1. ASSUME rows' \subseteq rows, clock' = clock PROVE TableInv'
    BY <2>1 DEF TableInv
  <2>2. ASSUME NEW t \in Turns, NEW m \in Row, Inserts(t, m) PROVE TableInv'
    <3>1. /\ rows' = rows \cup {m} /\ clock' = clock + 1 /\ m.at = clock + 1
          /\ m.role = "user" => m.status = "complete"
      BY <2>2 DEF Inserts
    <3>2. \A n \in rows : n.at \in Nat /\ n.at <= clock /\ n.at <= clock' /\ n.at # m.at
      BY <3>1 DEF TableInv, TypeOK, Row
    <3> QED
      BY <3>1, <3>2 DEF TableInv, TypeOK
  <2> QED
    BY <2>1, <2>2, RowStep
<1> QED
  BY <1>1, <1>2, TypesAlways, PTL DEF Spec

\* A row that a step takes away was of a conversation that is gone.
LEMMA Outlives ==
    ASSUME TypeOK, [Next]_vars, NEW t \in Turns, HasConv(t)'
    PROVE  /\ Questions(t) \subseteq Questions(t)'
           /\ Answers(t) \subseteq Answers(t)'
<1>1. \A m \in rows : m \in rows' \/ m.turn # t
  BY RowStep DEF HasConv, Inserts
<1> QED
  BY <1>1 DEF Questions, Answers

\* Every stored answer stands behind the question it answers (chat.py:103,
\* schema.sql:22).
THEOREM QuestionsAlways == Spec => []QuestionInv
<1>1. Init => QuestionInv
  BY DEF Init, QuestionInv, AnswerHasQuestion, Answers, Asked
<1>2. TypeOK /\ TableInv /\ QuestionInv /\ [Next]_vars => QuestionInv'
  <2> SUFFICES ASSUME TypeOK, TableInv, QuestionInv, [Next]_vars PROVE QuestionInv'
    OBVIOUS
  <2>1. ASSUME NEW t \in Turns, HasConv(t)', (pc[t] \in Asked \/ bg[t] # "none")'
        PROVE  Questions(t)' # {}
    <3>1. CASE HasConv(t) /\ (pc[t] \in Asked \/ bg[t] # "none")
      BY <2>1, <3>1, Outlives DEF QuestionInv
    <3>2. CASE \E m \in Row : Inserts(t, m) /\ m.role = "user"
      BY <3>2 DEF Inserts, Questions
    <3>3. conv'[t] = conv[t] /\ convs' \subseteq convs
      BY <2>1, RequestSteps DEF Asked
    <3> QED
      BY <2>1, <3>1, <3>2, <3>3, RequestSteps DEF HasConv
  <2>2. ASSUME NEW t \in Turns, NEW a \in Answers(t)' PROVE \E q \in Questions(t)' : q.at < a.at
    <3>1. CASE a \in rows
      <4>1. PICK q \in Questions(t) : q.at < a.at
        BY <2>2, <3>1 DEF QuestionInv, AnswerHasQuestion, Answers
      <4>2. q \in rows'
        BY <2>2, <3>1, <4>1, RowStep DEF Inserts, Questions, Answers
      <4> QED
        BY <4>1, <4>2 DEF Questions
    <3>2. CASE a \notin rows
      <4>1. PICK u \in Turns, m \in Row : Inserts(u, m)
        BY <2>2, <3>2, RowStep DEF Answers
      <4>2. a = m /\ u = t /\ HasConv(t) /\ (pc[t] \in Asked \/ bg[t] # "none")
        BY <2>2, <3>2, <4>1 DEF Inserts, Answers, Asked
      <4>3. PICK q \in Questions(t) : TRUE
        BY <4>2 DEF QuestionInv
      <4>4. q \in Questions(t)' /\ q.at <= clock /\ q.at \in Nat /\ a.at = clock + 1
        BY <4>1, <4>2, <4>3 DEF Questions, Inserts, TableInv, TypeOK, Row
      <4> QED
        BY <4>4 DEF TypeOK
    <3> QED
      BY <3>1, <3>2
  <2> QED
    BY <2>1, <2>2 DEF QuestionInv, AnswerHasQuestion
<1> QED
  BY <1>1, <1>2, TypesAlways, TableAlways, PTL DEF Spec

\* Every stored answer stands behind the question it answers.
THEOREM AnswerHasQuestionAlways == Spec => []AnswerHasQuestion
<1>1. QuestionInv => AnswerHasQuestion
  BY DEF QuestionInv
<1> QED
  BY <1>1, QuestionsAlways, PTL

\* "done" is sent only once the answer is stored, if its conversation stands and
\* no database call failed (chat.py:134-138).
THEOREM DoneMeansStoredAlways == Spec => []DoneMeansStored
<1>1. Init => DoneInv
  BY DEF Init, DoneInv, Ending
<1>2. TypeOK /\ DoneInv /\ [Next]_vars => DoneInv'
  <2> SUFFICES ASSUME TypeOK, DoneInv, [Next]_vars, NEW t \in Turns,
                      pc'[t] \in Ending, HasConv(t)', faults' = 0
               PROVE  \E m \in Answers(t)' : m.status = "complete"
    BY DEF DoneInv, Stored
  <2>1. HasConv(t) /\ faults = 0
    BY RequestSteps DEF HasConv, Ending
  <2>2. CASE pc[t] \in Ending
    BY <2>1, <2>2, Outlives DEF DoneInv, Stored
  <2>3. CASE \E m \in Row : Inserts(t, m) /\ m.role = "assistant" /\ m.status = "complete"
    BY <2>3 DEF Inserts, Answers
  <2> QED
    BY <2>1, <2>2, <2>3, RequestSteps
<1>3. DoneInv => DoneMeansStored
  BY DEF DoneInv, DoneMeansStored, Ending
<1> QED
  BY <1>1, <1>2, <1>3, TypesAlways, PTL DEF Spec

\* The model sees the question it is to answer, unless the conversation is gone
\* or the window is full of messages stored behind it (chat.py:103-108,
\* db.py:137-156).
THEOREM QuestionReplayedAlways == Spec => []QuestionReplayed
<1>1. Init => ReplayInv
  BY DEF Init, ReplayInv, Reading
<1>2. TypeOK /\ TableInv /\ ReplayInv /\ [Next]_vars => ReplayInv'
  <2> SUFFICES ASSUME TypeOK, TableInv, ReplayInv, [Next]_vars, NEW t \in Turns,
                      pc'[t] \in Reading, NEW q \in Questions(t)'
               PROVE  \/ q \in context'[t]
                      \/ /\ Cardinality(context'[t]) = Window
                         /\ \A m \in context'[t] : q.at < m.at
    BY DEF ReplayInv
  <2>1. CASE pc[t] \in Reading /\ context'[t] = context[t]
    <3>1. q \in Questions(t)
      <4>1. \A m \in rows' \ rows : m.turn = t => m.role # "user"
        BY <2>1, RowStep DEF Inserts, Reading
      <4> QED
        BY <4>1 DEF Questions
    <3> QED
      BY <2>1, <3>1 DEF ReplayInv
  <2>2. CASE context'[t] = RecentMessages(Replayable(t)) /\ UNCHANGED <<rows, conv>>
    <3> DEFINE R == Replayable(t)
    <3>1. q \in R
      BY <2>2 DEF Questions, Replayable, TableInv
    <3>2. /\ IsFiniteSet(R) /\ \A m \in R : m.at \in Nat
          /\ \A m, n \in R : m.at = n.at => m = n
      <4>1. R \subseteq rows
        BY DEF Replayable
      <4> QED
        BY <4>1, FS_Subset DEF TypeOK, TableInv, Row
    <3> HIDE DEF R
    <3>3. CASE q \notin RecentMessages(R)
      BY <2>2, <3>1, <3>2, <3>3, TopWindow, ParamAssumption DEF R
    <3> QED
      BY <2>2, <3>3 DEF R
  <2> QED
    BY <2>1, <2>2, RequestSteps
<1>3. QuestionInv /\ ReplayInv => QuestionReplayed
  <2> SUFFICES ASSUME QuestionInv, ReplayInv, NEW t \in Turns, pc[t] \in Reading, HasConv(t),
                      Questions(t) \cap context[t] = {}
               PROVE  /\ Cardinality(context[t]) = Window
                      /\ \A q \in Questions(t) : \A m \in context[t] : q.at < m.at
    BY DEF QuestionReplayed, Reading
  <2>1. PICK q \in Questions(t) : TRUE
    BY DEF QuestionInv, Reading, Asked
  <2> QED
    BY <2>1 DEF ReplayInv
<1> QED
  BY <1>1, <1>2, <1>3, TypesAlways, TableAlways, QuestionsAlways, PTL DEF Spec

================================================================================
