---------------------------- MODULE ChatView_proofs ----------------------------
(***************************************************************************)
(* What holds of ChatView for any number of conversations, sends, other    *)
(* operations and faults: unless a result crossed another operation, one   *)
(* answer is under way at a time, the thread shown is the selected one,    *)
(* and an answer that was stored while the client listened stays on the    *)
(* screen.                                                                 *)
(***************************************************************************)
EXTENDS ChatView, TLAPS

-----------------------------------------------------------------------------
(* Types.                                                                   *)

Kinds == {"open", "new", "remove", "removeOther"}
TaskPCs == {"idle", "wait", "over"}
SendPCs == {"idle", "create", "stream", "sleep", "resync", "over"}
Turns == {"none", "asked", "answered", "unstored", "failed", "stored", "refused"}

Types ==
    /\ activeId \in {None} \cup Convs
    /\ detail \in {None} \cup [id : Convs, seen : SUBSET Messages]
    /\ streaming \in BOOLEAN
    /\ controller \in {None} \cup Sends
    /\ task \in [Tasks -> [kind : {None} \cup Kinds, conv : {None} \cup Convs, pc : TaskPCs]]
    /\ send \in [Sends -> [pc : SendPCs, conv : {None} \cup Convs, aborted : BOOLEAN]]
    /\ read \in [Tasks \cup Sends -> {None} \cup SUBSET Messages]
    /\ thread \in [Convs -> {None, Gone} \cup SUBSET Messages]
    /\ turn \in [Sends -> Turns]
    /\ latest \in {None} \cup Tasks \cup Sends
    /\ crossed \in BOOLEAN
    /\ failed \subseteq Tasks \cup Sends

\* What is selected, shown, or asked of the gateway exists there or did; the
\* send that Stop aborts is streaming, and a turn is one of a send that streamed.
Existed(c) == c \in Convs /\ thread[c] # None
Known ==
    /\ activeId # None => Existed(activeId)
    /\ detail # None => Existed(detail.id)
    /\ \A t \in Tasks : task[t].pc = "wait" /\ task[t].kind # "new" => Existed(task[t].conv)
    /\ \A s \in Sends : Busy(s) \/ turn[s] # "none" => Existed(send[s].conv)
    /\ controller # None => send[controller].pc = "stream"
    /\ \A s \in Sends : send[s].pc \in {"idle", "create"} => turn[s] = "none"

\* No number is both a send and another operation.
LEMMA Numbers ==
    /\ \A t \in Tasks, s \in Sends : t # s
    /\ None \notin Tasks \cup Sends \cup Convs
BY Bounds, Values DEF Tasks, Sends, Convs

\* Goes changes the position of one send.
LEMMA GoesAt ==
    ASSUME Types, NEW s \in Sends, NEW p \in SendPCs, Goes(s, p)
    PROVE  /\ send' \in [Sends -> [pc : SendPCs, conv : {None} \cup Convs, aborted : BOOLEAN]]
           /\ \A r \in Sends : /\ send'[r].pc = IF r = s THEN p ELSE send[r].pc
                               /\ send'[r].conv = send[r].conv
                               /\ send'[r].aborted = send[r].aborted
BY DEF Types, Goes

\* Stream begins one answer.
LEMMA StreamAt ==
    ASSUME Types, NEW s \in Sends, NEW c \in Convs, Stream(s, c)
    PROVE  /\ send' \in [Sends -> [pc : SendPCs, conv : {None} \cup Convs, aborted : BOOLEAN]]
           /\ \A r \in Sends :
                 /\ send'[r].pc = IF r = s THEN "stream" ELSE send[r].pc
                 /\ send'[r].conv = IF r = s THEN c ELSE send[r].conv
                 /\ send'[r].aborted = IF r = s THEN FALSE ELSE send[r].aborted
           /\ streaming' = TRUE /\ controller' = s
BY DEF Types, Stream, SendPCs

\* Start and Finish change one task.
LEMMA TaskAt ==
    ASSUME Types, NEW t \in Tasks
    PROVE  /\ Finish(t) =>
                 /\ task' \in [Tasks -> [kind : {None} \cup Kinds, conv : {None} \cup Convs, pc : TaskPCs]]
                 /\ task'[t].pc = "over"
                 /\ \A u \in Tasks : u # t => task'[u] = task[u]
           /\ \A kind \in Kinds, c \in {None} \cup Convs : Start(t, kind, c) =>
                 /\ task' \in [Tasks -> [kind : {None} \cup Kinds, conv : {None} \cup Convs, pc : TaskPCs]]
                 /\ task'[t].pc = "wait" /\ task'[t].kind = kind /\ task'[t].conv = c
                 /\ task[t].pc = "idle"
                 /\ \A u \in Tasks : u # t => task'[u] = task[u]
<1>1. task \in [Tasks -> [kind : {None} \cup Kinds, conv : {None} \cup Convs, pc : TaskPCs]]
  BY DEF Types
<1>2. ASSUME Finish(t)
      PROVE  /\ task' \in [Tasks -> [kind : {None} \cup Kinds, conv : {None} \cup Convs, pc : TaskPCs]]
             /\ task'[t].pc = "over"
             /\ \A u \in Tasks : u # t => task'[u] = task[u]
  BY <1>1, <1>2 DEF Finish, TaskPCs
<1>3. ASSUME NEW kind \in Kinds, NEW c \in {None} \cup Convs, Start(t, kind, c)
      PROVE  /\ task' \in [Tasks -> [kind : {None} \cup Kinds, conv : {None} \cup Convs, pc : TaskPCs]]
             /\ task'[t].pc = "wait" /\ task'[t].kind = kind /\ task'[t].conv = c
             /\ task[t].pc = "idle"
             /\ \A u \in Tasks : u # t => task'[u] = task[u]
  BY <1>1, <1>3 DEF Start, Idle, TaskPCs
<1> QED
  BY <1>2, <1>3

\* What the gateway and the client do to the threads.
LEMMA ThreadAt ==
    ASSUME Types, NEW c \in Convs
    PROVE  /\ Create(c) => /\ thread' \in [Convs -> {None, Gone} \cup SUBSET Messages]
                           /\ thread[c] = None /\ thread'[c] = {}
                           /\ \A d \in Convs : d # c => thread'[d] = thread[d]
           /\ \A m \in Messages : Present(c) /\ Put(c, m) =>
                 /\ thread' \in [Convs -> {None, Gone} \cup SUBSET Messages]
                 /\ thread'[c] = thread[c] \cup {m}
                 /\ \A d \in Convs : d # c => thread'[d] = thread[d]
           /\ Present(c) => thread[c] \in SUBSET Messages
           /\ {} # None /\ \A m \in SUBSET Messages : m # None
<1>1. thread \in [Convs -> {None, Gone} \cup SUBSET Messages]
  BY DEF Types
<1>2. ASSUME Create(c)
      PROVE  /\ thread' \in [Convs -> {None, Gone} \cup SUBSET Messages]
             /\ thread[c] = None /\ thread'[c] = {}
             /\ \A d \in Convs : d # c => thread'[d] = thread[d]
  BY <1>1, <1>2 DEF Create
<1>3. ASSUME NEW m \in Messages, Present(c), Put(c, m)
      PROVE  /\ thread' \in [Convs -> {None, Gone} \cup SUBSET Messages]
             /\ thread'[c] = thread[c] \cup {m}
             /\ \A d \in Convs : d # c => thread'[d] = thread[d]
  <2>1. thread[c] \cup {m} \in SUBSET Messages
    BY <1>1, <1>3 DEF Present
  <2> QED
    BY <1>1, <1>3, <2>1 DEF Put
<1>4. {} \in SUBSET Messages /\ \A m \in SUBSET Messages : m # None
  BY Values
<1> QED
  BY <1>1, <1>2, <1>3, <1>4 DEF Present

\* A step of a task keeps the types and what is known.
LEMMA TaskTypes ==
    ASSUME Types, Known, NEW t \in Tasks,
           Open(t) \/ Opened(t) \/ StartNew(t) \/ Started(t) \/ Remove(t) \/ Removed(t)
             \/ Delete(t)
    PROVE  Types' /\ Known'
<1>1. CASE Open(t)
  <2>1. PICK c \in Convs : Present(c) /\ Start(t, "open", c) /\ activeId' = c
    BY <1>1 DEF Open
  <2>2. /\ task' \in [Tasks -> [kind : {None} \cup Kinds, conv : {None} \cup Convs, pc : TaskPCs]]
        /\ task'[t].kind = "open" /\ task'[t].conv = c
        /\ \A u \in Tasks : u # t => task'[u] = task[u]
    BY <2>1, TaskAt DEF Kinds
  <2>3. UNCHANGED <<detail, streaming, controller, send, read, thread, turn, crossed, failed>>
        /\ latest' = t
    BY <1>1 DEF Open, Begun
  <2>4. Types'
    BY <2>1, <2>2, <2>3 DEF Types
  <2>5. Known'
    BY <2>1, <2>2, <2>3 DEF Known, Existed, Present, Busy
  <2> QED
    BY <2>4, <2>5
<1>2. CASE Opened(t)
  <2>1. /\ task' \in [Tasks -> [kind : {None} \cup Kinds, conv : {None} \cup Convs, pc : TaskPCs]]
        /\ task'[t].pc = "over"
        /\ \A u \in Tasks : u # t => task'[u] = task[u]
    BY <1>2, TaskAt DEF Opened
  <2>2. /\ UNCHANGED <<activeId, streaming, controller, send, thread, turn, latest>>
        /\ read' = [read EXCEPT ![t] = None]
        /\ task[t].pc = "wait" /\ task[t].kind = "open"
        /\ \/ /\ read[t] # None /\ detail' = [id |-> task[t].conv, seen |-> read[t]]
              /\ crossed' = (crossed \/ latest # t) /\ UNCHANGED failed
           \/ failed' = failed \cup {t} /\ UNCHANGED <<detail, crossed>>
    BY <1>2 DEF Opened, Consumed, Waiting, Show, Applied
  <2>3. task[t].conv \in Convs /\ thread[task[t].conv] # None
    BY <2>2 DEF Known, Existed
  <2>4. detail' \in {None} \cup [id : Convs, seen : SUBSET Messages]
        /\ (detail' = detail \/ detail'.id = task[t].conv)
    BY <2>2, <2>3 DEF Types
  <2>5. read' \in [Tasks \cup Sends -> {None} \cup SUBSET Messages]
        /\ crossed' \in BOOLEAN /\ failed' \subseteq Tasks \cup Sends
    BY <2>2 DEF Types
  <2>6. Types'
    BY <2>1, <2>2, <2>4, <2>5 DEF Types
  <2>7. Known'
    BY <2>1, <2>2, <2>3, <2>4 DEF Known, Existed, Busy
  <2> QED
    BY <2>6, <2>7
<1>3. CASE StartNew(t)
  <2>1. /\ task' \in [Tasks -> [kind : {None} \cup Kinds, conv : {None} \cup Convs, pc : TaskPCs]]
        /\ task'[t].kind = "new"
        /\ \A u \in Tasks : u # t => task'[u] = task[u]
    BY <1>3, TaskAt DEF StartNew, Kinds
  <2>2. UNCHANGED <<activeId, detail, streaming, controller, send, read, thread, turn,
                    crossed, failed>> /\ latest' = t
    BY <1>3 DEF StartNew, Begun, view
  <2> QED
    BY <2>1, <2>2 DEF Types, Known, Existed, Busy
<1>4. CASE Started(t)
  <2>1. /\ task' \in [Tasks -> [kind : {None} \cup Kinds, conv : {None} \cup Convs, pc : TaskPCs]]
        /\ task'[t].pc = "over"
        /\ \A u \in Tasks : u # t => task'[u] = task[u]
    BY <1>4, TaskAt DEF Started
  <2>2. UNCHANGED <<streaming, controller, send, read, turn, latest>>
    BY <1>4 DEF Started
  <2>3. CASE UNCHANGED <<view, thread, crossed>> /\ failed' = failed \cup {t}
    BY <2>1, <2>2, <2>3 DEF view, Types, Known, Existed, Busy
  <2>4. ASSUME NEW c \in Convs, Create(c), activeId' = c, Show(c, {}), Applied(t),
               UNCHANGED failed
        PROVE  Types' /\ Known'
    <3>1. /\ thread' \in [Convs -> {None, Gone} \cup SUBSET Messages]
          /\ thread'[c] # None /\ \A d \in Convs : d # c => thread'[d] = thread[d]
      BY <2>4, ThreadAt
    <3>2. detail' = [id |-> c, seen |-> {}] /\ detail'.id = c
          /\ detail' \in [id : Convs, seen : SUBSET Messages]
      BY <2>4 DEF Show
    <3>3. Types'
      BY <2>1, <2>2, <2>4, <3>1, <3>2 DEF Types, Applied
    <3>4. Known'
      BY <2>1, <2>2, <2>4, <3>1, <3>2 DEF Known, Existed, Busy
    <3> QED
      BY <3>3, <3>4
  <2> QED
    BY <1>4, <2>3, <2>4 DEF Started
<1>5. CASE Remove(t)
  <2>1. PICK c \in Convs : Present(c) /\ Start(t, IF c = activeId THEN "remove" ELSE "removeOther", c)
    BY <1>5 DEF Remove
  <2>2. /\ task' \in [Tasks -> [kind : {None} \cup Kinds, conv : {None} \cup Convs, pc : TaskPCs]]
        /\ task'[t].conv = c
        /\ \A u \in Tasks : u # t => task'[u] = task[u]
    BY <2>1, TaskAt DEF Kinds
  <2>3. UNCHANGED <<activeId, detail, streaming, controller, send, read, thread, turn,
                    crossed, failed>> /\ latest' \in {latest, t}
    BY <1>5 DEF Remove, Begun, view
  <2> QED
    BY <2>1, <2>2, <2>3 DEF Types, Known, Existed, Present, Busy
<1>6. CASE Removed(t)
  <2>1. /\ task' \in [Tasks -> [kind : {None} \cup Kinds, conv : {None} \cup Convs, pc : TaskPCs]]
        /\ task'[t].pc = "over"
        /\ \A u \in Tasks : u # t => task'[u] = task[u]
    BY <1>6, TaskAt DEF Removed
  <2>2. /\ UNCHANGED <<streaming, controller, send, read, thread, turn, latest>>
        /\ activeId' = activeId \/ activeId' = None
        /\ detail' = detail \/ detail' = None
        /\ crossed' \in {crossed, TRUE, latest # t}
        /\ failed' = failed \/ failed' = failed \cup {t}
    BY <1>6 DEF Removed, NothingShown, Applied, view, Types
  <2> QED
    BY <2>1, <2>2 DEF Types, Known, Existed, Busy
<1>7. CASE Delete(t)
  <2>1. /\ thread' = [thread EXCEPT ![task[t].conv] = Gone]
        /\ UNCHANGED <<activeId, detail, streaming, controller, task, send, read, turn,
                       latest, crossed, failed>>
    BY <1>7 DEF Delete, view, client, history
  <2>2. /\ thread' \in [Convs -> {None, Gone} \cup SUBSET Messages]
        /\ \A d \in Convs : thread'[d] \in {thread[d], Gone}
    BY <2>1 DEF Types
  <2> QED
    BY <2>1, <2>2, Values DEF Types, Known, Existed, Busy
<1> QED
  BY <1>1, <1>2, <1>3, <1>4, <1>5, <1>6, <1>7

\* A step of a send keeps the types and what is known.
LEMMA SendTypes ==
    ASSUME Types, Known, NEW s \in Sends,
           Send(s) \/ Created(s) \/ Returns(s) \/ WakeUp(s) \/ Resynced(s)
    PROVE  Types' /\ Known'
<1>1. CASE Send(s)
  <2>1. UNCHANGED <<activeId, detail, task, read, thread, turn, crossed, failed>> /\ latest' = s
    BY <1>1 DEF Send, Begun, view
  <2>2. turn[s] = "none" /\ send[s].pc = "idle"
    BY <1>1 DEF Send, Idle, Known
  <2>3. CASE activeId = None
    <3>1. Goes(s, "create") /\ UNCHANGED <<streaming, controller>>
      BY <1>1, <2>3 DEF Send
    <3>2. /\ send' \in [Sends -> [pc : SendPCs, conv : {None} \cup Convs, aborted : BOOLEAN]]
          /\ \A r \in Sends : /\ send'[r].pc = IF r = s THEN "create" ELSE send[r].pc
                              /\ send'[r].conv = send[r].conv
      BY <3>1, GoesAt DEF SendPCs
    <3>3. Types'
      BY <2>1, <3>1, <3>2 DEF Types
    <3>4. Known'
      BY <2>1, <2>2, <3>1, <3>2 DEF Types, Known, Existed, Busy
    <3> QED
      BY <3>3, <3>4
  <2>4. CASE activeId # None
    <3>1. Stream(s, activeId) /\ activeId \in Convs /\ thread[activeId] # None
      BY <1>1, <2>4 DEF Send, Known, Existed
    <3>2. /\ send' \in [Sends -> [pc : SendPCs, conv : {None} \cup Convs, aborted : BOOLEAN]]
          /\ \A r \in Sends :
                /\ send'[r].pc = IF r = s THEN "stream" ELSE send[r].pc
                /\ send'[r].conv = IF r = s THEN activeId ELSE send[r].conv
          /\ streaming' = TRUE /\ controller' = s
      BY <3>1, StreamAt
    <3>3. Types'
      BY <2>1, <3>2 DEF Types
    <3>4. Known'
      BY <2>1, <2>2, <3>1, <3>2 DEF Types, Known, Existed, Busy
    <3> QED
      BY <3>3, <3>4
  <2> QED
    BY <2>3, <2>4
<1>2. CASE Created(s)
  <2>1. UNCHANGED <<task, read, turn, latest>> /\ send[s].pc = "create" /\ turn[s] = "none"
    BY <1>2 DEF Created, Known
  <2>2. CASE Goes(s, "over") /\ failed' = failed \cup {s}
               /\ UNCHANGED <<view, streaming, controller, thread, crossed>>
    <3>1. /\ send' \in [Sends -> [pc : SendPCs, conv : {None} \cup Convs, aborted : BOOLEAN]]
          /\ \A r \in Sends : /\ send'[r].pc = IF r = s THEN "over" ELSE send[r].pc
                              /\ send'[r].conv = send[r].conv
      BY <2>2, GoesAt DEF SendPCs
    <3>2. Types'
      BY <2>1, <2>2, <3>1 DEF Types, view
    <3>3. Known'
      BY <2>1, <2>2, <3>1 DEF Types, view, Known, Existed, Busy
    <3> QED
      BY <3>2, <3>3
  <2>3. ASSUME NEW c \in Convs, Create(c), activeId' = c, Show(c, {}), Stream(s, c),
               Applied(s), UNCHANGED failed
        PROVE  Types' /\ Known'
    <3>1. /\ thread' \in [Convs -> {None, Gone} \cup SUBSET Messages]
          /\ thread'[c] # None /\ \A d \in Convs : d # c => thread'[d] = thread[d]
      BY <2>3, ThreadAt
    <3>2. detail' = [id |-> c, seen |-> {}] /\ detail'.id = c
          /\ detail' \in [id : Convs, seen : SUBSET Messages]
      BY <2>3 DEF Show
    <3>3. /\ send' \in [Sends -> [pc : SendPCs, conv : {None} \cup Convs, aborted : BOOLEAN]]
          /\ \A r \in Sends :
                /\ send'[r].pc = IF r = s THEN "stream" ELSE send[r].pc
                /\ send'[r].conv = IF r = s THEN c ELSE send[r].conv
          /\ streaming' = TRUE /\ controller' = s
      BY <2>3, StreamAt
    <3>4. Types'
      BY <2>1, <2>3, <3>1, <3>2, <3>3 DEF Types, Applied
    <3>5. \A d \in Convs : thread[d] # None => thread'[d] # None
      BY <3>1
    <3>6. c \in Convs /\ thread'[c] # None
      BY <3>1
    <3>7. \A r \in Sends : Busy(r)' \/ turn'[r] # "none" =>
              send'[r].conv \in Convs /\ thread'[send'[r].conv] # None
      BY <2>1, <3>3, <3>5, <3>6 DEF Known, Existed, Busy
    <3>8. \A t \in Tasks : task'[t].pc = "wait" /\ task'[t].kind # "new" =>
              task'[t].conv \in Convs /\ thread'[task'[t].conv] # None
      BY <2>1, <3>5 DEF Known, Existed
    <3>9. controller' # None => send'[controller'].pc = "stream"
      BY <3>3
    <3>10. \A r \in Sends : send'[r].pc \in {"idle", "create"} => turn'[r] = "none"
      BY <2>1, <3>3 DEF Known
    <3>11. Known'
      BY <2>3, <3>2, <3>6, <3>7, <3>8, <3>9, <3>10 DEF Known, Existed
    <3> QED
      BY <3>4, <3>11
  <2> QED
    BY <1>2, <2>2, <2>3 DEF Created
<1>3. CASE Returns(s)
  <2>1. /\ UNCHANGED <<activeId, detail, streaming, task, read, thread, latest, crossed, failed>>
        /\ controller' = None /\ Goes(s, "resync") /\ send[s].pc = "stream"
    BY <1>3 DEF Returns, view, history
  <2>2. /\ turn' \in [Sends -> Turns]
        /\ \A r \in Sends : r # s => turn'[r] = turn[r]
    BY <1>3 DEF Returns, Types, Turns
  <2>3. /\ send' \in [Sends -> [pc : SendPCs, conv : {None} \cup Convs, aborted : BOOLEAN]]
        /\ \A r \in Sends : /\ send'[r].pc = IF r = s THEN "resync" ELSE send[r].pc
                            /\ send'[r].conv = send[r].conv
    BY <2>1, GoesAt DEF SendPCs
  <2>4. Types'
    BY <2>1, <2>2, <2>3 DEF Types
  <2>5. Known'
    BY <2>1, <2>2, <2>3 DEF Types, Known, Existed, Busy
  <2> QED
    BY <2>4, <2>5
<1>4. CASE WakeUp(s)
  <2>1. /\ UNCHANGED <<activeId, detail, streaming, controller, task, read, thread, turn,
                       latest, crossed, failed>>
        /\ Goes(s, "resync") /\ send[s].pc = "sleep"
    BY <1>4 DEF WakeUp, view, history
  <2> QED
    <3>1. /\ send' \in [Sends -> [pc : SendPCs, conv : {None} \cup Convs, aborted : BOOLEAN]]
          /\ \A r \in Sends : /\ send'[r].pc = IF r = s THEN "resync" ELSE send[r].pc
                              /\ send'[r].conv = send[r].conv
      BY <2>1, GoesAt DEF SendPCs
    <3>2. Types'
      BY <2>1, <3>1 DEF Types
    <3>3. Known'
      BY <2>1, <3>1 DEF Types, Known, Existed, Busy
    <3> QED
      BY <3>2, <3>3
<1>5. CASE Resynced(s)
  <2>1. /\ UNCHANGED <<activeId, controller, task, thread, turn, latest>>
        /\ read' = [read EXCEPT ![s] = None]
        /\ Goes(s, "over") /\ send[s].pc = "resync" /\ streaming' = FALSE
        /\ \/ /\ read[s] # None /\ detail' = [id |-> send[s].conv, seen |-> read[s]]
              /\ crossed' = (crossed \/ latest # s) /\ UNCHANGED failed
           \/ failed' = failed \cup {s} /\ UNCHANGED <<detail, crossed>>
    BY <1>5 DEF Resynced, Consumed, Unlocked, Show, Applied
  <2>2. send[s].conv \in Convs /\ thread[send[s].conv] # None
    BY <2>1 DEF Types, Known, Existed, Busy
  <2>3. detail' \in {None} \cup [id : Convs, seen : SUBSET Messages]
        /\ (detail' = detail \/ detail'.id = send[s].conv)
    BY <2>1, <2>2 DEF Types
  <2>4. read' \in [Tasks \cup Sends -> {None} \cup SUBSET Messages]
        /\ crossed' \in BOOLEAN /\ failed' \subseteq Tasks \cup Sends
    BY <2>1 DEF Types
  <2>5. /\ send' \in [Sends -> [pc : SendPCs, conv : {None} \cup Convs, aborted : BOOLEAN]]
        /\ \A r \in Sends : /\ send'[r].pc = IF r = s THEN "over" ELSE send[r].pc
                            /\ send'[r].conv = send[r].conv
    BY <2>1, GoesAt DEF SendPCs
  <2>6. Types'
    BY <2>1, <2>3, <2>4, <2>5 DEF Types
  <2>7. Known'
    BY <2>1, <2>2, <2>3, <2>5 DEF Types, Known, Existed, Busy
  <2> QED
    BY <2>6, <2>7
<1> QED
  BY <1>1, <1>2, <1>3, <1>4, <1>5

\* So does the user who stops, and the gateway.
LEMMA OtherTypes ==
    ASSUME Types, Known,
           \/ Stop \/ Get
           \/ \E s \in Sends :
                 Ask(s) \/ Answer(s) \/ AnswerUnstored(s) \/ ModelFails(s) \/ PersistPart(s)
    PROVE  Types' /\ Known'
<1>1. CASE Stop
  <2>1. PICK s \in Sends : s = controller /\ send[s].pc = "stream"
    BY <1>1 DEF Stop, Types, Known
  <2>2. /\ UNCHANGED <<activeId, detail, streaming, task, read, thread, latest, crossed, failed>>
        /\ send' = [send EXCEPT ![s].pc = "sleep", ![s].aborted = TRUE]
        /\ turn' = [turn EXCEPT ![s] = IF @ = "asked" THEN "failed" ELSE @]
        /\ controller' = None
    BY <1>1, <2>1 DEF Stop, view, history
  <2>3. /\ send' \in [Sends -> [pc : SendPCs, conv : {None} \cup Convs, aborted : BOOLEAN]]
        /\ \A r \in Sends : /\ send'[r].pc = IF r = s THEN "sleep" ELSE send[r].pc
                            /\ send'[r].conv = send[r].conv
    BY <2>2 DEF Types, SendPCs
  <2>4. /\ turn' \in [Sends -> Turns]
        /\ \A r \in Sends : turn'[r] = "none" <=> turn[r] = "none"
    BY <2>2 DEF Types, Turns
  <2>5. Types'
    BY <2>2, <2>3, <2>4 DEF Types
  <2>6. Known'
    BY <2>1, <2>2, <2>3, <2>4 DEF Known, Existed, Busy
  <2> QED
    BY <2>5, <2>6
<1>2. ASSUME NEW p \in Tasks \cup Sends, NEW c \in Convs, Reads(p, c)
      PROVE  Types' /\ Known'
  <2>1. /\ UNCHANGED <<activeId, detail, streaming, controller, task, send, thread, turn,
                       latest, crossed, failed>>
        /\ Present(c) /\ read' = [read EXCEPT ![p] = thread[c]]
    BY <1>2 DEF Reads, view, client, history
  <2>2. read' \in [Tasks \cup Sends -> {None} \cup SUBSET Messages]
    BY <2>1, ThreadAt DEF Types
  <2> QED
    BY <2>1, <2>2 DEF Types, Known, Existed, Busy
<1>3. CASE Get
  <2>1. ASSUME NEW t \in Tasks, Waiting(t, "open"), Reads(t, task[t].conv)
        PROVE  Types' /\ Known'
    <3>1. PICK c \in Convs : c = task[t].conv
      BY <2>1 DEF Waiting, Known, Existed
    <3> QED
      BY <1>2, <2>1, <3>1
  <2>2. ASSUME NEW s \in Sends, GetFor(s) PROVE Types' /\ Known'
    <3>1. PICK c \in Convs : c = send[s].conv
      BY <2>2 DEF GetFor, Known, Existed, Busy
    <3> QED
      BY <1>2, <2>2, <3>1 DEF GetFor
  <2> QED
    BY <1>3, <2>1, <2>2 DEF Get
<1>4. ASSUME NEW s \in Sends, NEW m \in Messages, NEW state \in Turns,
             turn' = [turn EXCEPT ![s] = state], UNCHANGED <<view, client, read, history>>,
             Existed(send[s].conv), send[s].pc \notin {"idle", "create"},
             \/ Present(send[s].conv) /\ Put(send[s].conv, m)
             \/ UNCHANGED thread
      PROVE  Types' /\ Known'
  <2>1. UNCHANGED <<activeId, detail, streaming, controller, task, send, read, latest,
                    crossed, failed>>
    BY <1>4 DEF view, client, history
  <2>2. /\ turn' \in [Sends -> Turns]
        /\ \A r \in Sends : r # s => turn'[r] = turn[r]
    BY <1>4 DEF Types
  <2>3. PICK c \in Convs : c = send[s].conv
    BY <1>4 DEF Existed
  <2>4. /\ thread' \in [Convs -> {None, Gone} \cup SUBSET Messages]
        /\ \A d \in Convs : thread[d] # None => thread'[d] # None
    <3>1. CASE UNCHANGED thread
      BY <3>1 DEF Types
    <3>2. CASE Present(c) /\ Put(c, m)
      <4>1. /\ thread' \in [Convs -> {None, Gone} \cup SUBSET Messages]
            /\ thread'[c] = thread[c] \cup {m} /\ thread[c] \in SUBSET Messages
            /\ \A d \in Convs : d # c => thread'[d] = thread[d]
        BY <3>2, ThreadAt
      <4>2. thread[c] \cup {m} \in SUBSET Messages
        BY <4>1
      <4>3. thread'[c] # None
        BY <4>1, <4>2, ThreadAt
      <4> QED
        BY <4>1, <4>3
    <3> QED
      BY <1>4, <2>3, <3>1, <3>2
  <2>5. Types'
    BY <2>1, <2>2, <2>4 DEF Types
  <2>6. Known'
    BY <1>4, <2>1, <2>2, <2>4 DEF Known, Existed, Busy
  <2> QED
    BY <2>5, <2>6
<1>5. \A s \in Sends : <<s, "question">> \in Messages /\ <<s, "answer">> \in Messages
  BY DEF Messages
<1>6. ASSUME NEW s \in Sends, Ask(s) PROVE Types' /\ Known'
  <2>1. send[s].pc \in {"stream", "sleep"} /\ Existed(send[s].conv)
    BY <1>6 DEF Ask, Known, Busy
  <2> QED
    BY <1>4, <1>5, <1>6, <2>1 DEF Ask, Turns
<1>7. ASSUME NEW s \in Sends, Answer(s) \/ AnswerUnstored(s) \/ ModelFails(s) \/ PersistPart(s)
      PROVE  Types' /\ Known'
  <2>1. turn[s] # "none"
    BY <1>7 DEF Answer, AnswerUnstored, ModelFails, PersistPart
  <2>2. send[s].pc \notin {"idle", "create"} /\ Existed(send[s].conv)
    BY <2>1 DEF Known
  <2> QED
    BY <1>4, <1>5, <1>7, <2>2 DEF Answer, AnswerUnstored, ModelFails, PersistPart, Turns
<1> QED
  BY <1>1, <1>3, <1>6, <1>7

\* At first nothing is known.
LEMMA TypesInit == Init => Types /\ Known
<1> SUFFICES ASSUME Init PROVE Types /\ Known
  OBVIOUS
<1>1. Types
  BY DEF Init, Types, TaskPCs, SendPCs, Turns
<1>2. Known
  BY Values DEF Init, Known, Existed, Busy
<1> QED
  BY <1>1, <1>2

\* No step breaks a type.
LEMMA TypesStep == Types /\ Known /\ [Next]_vars => Types' /\ Known'
<1> SUFFICES ASSUME Types, Known, [Next]_vars PROVE Types' /\ Known'
  OBVIOUS
<1>1. CASE UNCHANGED vars
  BY <1>1 DEF vars, view, client, history, Types, Known, Existed, Busy
<1> QED
  BY <1>1, TaskTypes, SendTypes, OtherTypes DEF Next, User, Page, Gateway

\* Every variable has its type in every reachable state.
THEOREM TypesAlways == Spec => [](Types /\ Known)
<1>1. Init => Types /\ Known
  BY TypesInit
<1>2. (Types /\ Known) /\ [Next]_vars => (Types /\ Known)'
  BY TypesStep
<1> QED
  BY <1>1, <1>2, PTL DEF Spec

-----------------------------------------------------------------------------
(* One answer at a time.                                                    *)

\* A send that waits for its conversation has the lock to itself, as long as
\* nothing was begun after it.
LockInv ==
    /\ ~crossed => \A s \in Sends : latest = s /\ send[s].pc = "create" => ~streaming
    /\ OneAnswer

\* What is neither a send nor Stop leaves the lock alone.
LEMMA SameLock ==
    ASSUME LockInv, UNCHANGED <<send, streaming, controller>>,
           crossed => crossed', latest' = latest \/ latest' \in Tasks
    PROVE  LockInv'
<1>1. \A s \in Sends : latest' = s => latest = s
  BY Numbers
<1> QED
  BY <1>1 DEF LockInv, OneAnswer, Busy

\* No step takes the lock from an answer, or begins a second one.
LEMMA LockStep == Types /\ Known /\ LockInv /\ [Next]_vars => LockInv'
<1> SUFFICES ASSUME Types, Known, LockInv, [Next]_vars PROVE LockInv'
  OBVIOUS
<1>1. ASSUME NEW t \in Tasks, Open(t) \/ Opened(t) \/ StartNew(t) \/ Started(t) \/ Remove(t)
                                \/ Removed(t) \/ Delete(t)
      PROVE  LockInv'
  <2>1. UNCHANGED <<send, streaming, controller>>
    BY <1>1 DEF Open, Opened, StartNew, Started, Remove, Removed, Delete, client
  <2>2. crossed => crossed'
    BY <1>1 DEF Open, Opened, StartNew, Started, Remove, Removed, Delete, Applied, history
  <2>3. latest' = latest \/ latest' \in Tasks
    BY <1>1 DEF Open, Opened, StartNew, Started, Remove, Removed, Delete, Begun, history
  <2> QED
    BY <2>1, <2>2, <2>3, SameLock
<1>2. ASSUME NEW s \in Sends,
             Ask(s) \/ Answer(s) \/ AnswerUnstored(s) \/ ModelFails(s) \/ PersistPart(s)
      PROVE  LockInv'
  BY <1>2, SameLock DEF Ask, Answer, AnswerUnstored, ModelFails, PersistPart, client, history
<1>3. CASE Get
  BY <1>3, SameLock DEF Get, GetFor, Reads, client, history
<1>4. ASSUME NEW s \in Sends, Send(s) PROVE LockInv'
  <2>1. /\ latest' = s /\ crossed' = crossed /\ ~streaming
        /\ ~crossed => \A r \in Sends : ~Busy(r)
    BY <1>4 DEF Send, Begun, MaySend, LockInv, OneAnswer
  <2>2. CASE activeId = None
    <3>1. /\ UNCHANGED <<streaming, controller>>
          /\ \A r \in Sends : send'[r].pc = IF r = s THEN "create" ELSE send[r].pc
      BY <1>4, <2>2, GoesAt DEF Send, SendPCs
    <3> QED
      BY <2>1, <3>1 DEF LockInv, OneAnswer, Busy
  <2>3. CASE activeId # None
    <3>1. Stream(s, activeId) /\ activeId \in Convs
      BY <1>4, <2>3 DEF Send, Types
    <3>2. /\ \A r \in Sends : send'[r].pc = IF r = s THEN "stream" ELSE send[r].pc
          /\ streaming' = TRUE /\ controller' = s
      BY <3>1, StreamAt
    <3> QED
      BY <2>1, <3>2 DEF LockInv, OneAnswer, Busy
  <2> QED
    BY <2>2, <2>3
<1>5. ASSUME NEW s \in Sends, Created(s) PROVE LockInv'
  <2>1. send[s].pc = "create" /\ latest' = latest
    BY <1>5 DEF Created
  <2>2. CASE Goes(s, "over") /\ UNCHANGED <<streaming, controller, crossed>>
    <3>1. \A r \in Sends : send'[r].pc = IF r = s THEN "over" ELSE send[r].pc
      BY <2>2, GoesAt DEF SendPCs
    <3> QED
      BY <2>1, <2>2, <3>1 DEF LockInv, OneAnswer, Busy
  <2>3. ASSUME NEW c \in Convs, Stream(s, c), Applied(s)
        PROVE  LockInv'
    <3>1. /\ \A r \in Sends : send'[r].pc = IF r = s THEN "stream" ELSE send[r].pc
          /\ streaming' = TRUE /\ controller' = s
      BY <2>3, StreamAt
    <3>2. ~crossed' => ~crossed /\ latest = s /\ ~streaming
      BY <2>1, <2>3 DEF Applied, LockInv
    <3>3. ~crossed' => \A r \in Sends : ~Busy(r)
      BY <3>2 DEF LockInv, OneAnswer
    <3> QED
      BY <2>1, <3>1, <3>2, <3>3 DEF LockInv, OneAnswer, Busy
  <2> QED
    BY <1>5, <2>2, <2>3 DEF Created
<1>6. ASSUME NEW s \in Sends, Returns(s) PROVE LockInv'
  <2>1. /\ send[s].pc = "stream" /\ controller' = None
        /\ UNCHANGED <<streaming, latest, crossed>>
        /\ \A r \in Sends : send'[r].pc = IF r = s THEN "resync" ELSE send[r].pc
    BY <1>6, GoesAt DEF Returns, SendPCs, history
  <2> QED
    BY <2>1 DEF LockInv, OneAnswer, Busy
<1>7. ASSUME NEW s \in Sends, WakeUp(s) PROVE LockInv'
  <2>1. /\ send[s].pc = "sleep"
        /\ UNCHANGED <<streaming, controller, latest, crossed>>
        /\ \A r \in Sends : send'[r].pc = IF r = s THEN "resync" ELSE send[r].pc
    BY <1>7, GoesAt DEF WakeUp, SendPCs, history
  <2> QED
    BY <2>1 DEF LockInv, OneAnswer, Busy
<1>8. ASSUME NEW s \in Sends, Resynced(s) PROVE LockInv'
  <2>1. /\ send[s].pc = "resync" /\ streaming' = FALSE
        /\ UNCHANGED <<controller, latest>>
        /\ \A r \in Sends : send'[r].pc = IF r = s THEN "over" ELSE send[r].pc
    BY <1>8, GoesAt DEF Resynced, Unlocked, SendPCs
  <2>2. crossed => crossed'
    BY <1>8 DEF Resynced, Applied
  <2>3. ~crossed' => \A r \in Sends : send[r].pc \in {"stream", "sleep", "resync"} => r = s
    BY <2>1, <2>2 DEF LockInv, OneAnswer, Busy
  <2>4. ~crossed' => \A r \in Sends : send'[r].pc \notin {"stream", "sleep", "resync"}
    BY <2>1, <2>3
  <2>5. OneAnswer'
    BY <2>1, <2>4 DEF OneAnswer, Busy
  <2> QED
    BY <2>1, <2>2, <2>5 DEF LockInv
<1>9. CASE Stop
  <2>1. PICK s \in Sends : s = controller /\ send[s].pc = "stream"
    BY <1>9 DEF Stop, Types, Known
  <2>2. /\ UNCHANGED <<streaming, latest, crossed>> /\ controller' = None
        /\ \A r \in Sends : send'[r].pc = IF r = s THEN "sleep" ELSE send[r].pc
    BY <1>9, <2>1 DEF Stop, Types, history
  <2> QED
    BY <2>1, <2>2 DEF LockInv, OneAnswer, Busy
<1>10. CASE UNCHANGED vars
  BY <1>10, SameLock DEF vars, client, history
<1> QED
  BY <1>1, <1>2, <1>3, <1>4, <1>5, <1>6, <1>7, <1>8, <1>9, <1>10
     DEF Next, User, Page, Gateway

\* The lock is on exactly while an answer is under way, there is one at a time,
\* and Stop reaches it.
THEOREM OneAnswerAlways == Spec => []OneAnswer
<1>1. Init => LockInv
  BY DEF Init, LockInv, OneAnswer, Busy
<1>2. LockInv => OneAnswer
  BY DEF LockInv
<1>3. Types /\ Known /\ LockInv /\ [Next]_vars => LockInv'
  BY LockStep
<1> QED
  BY <1>1, <1>2, <1>3, TypesAlways, PTL DEF Spec

-----------------------------------------------------------------------------
(* The thread shown is the selected one.                                    *)

Agree == IF detail = None THEN activeId = None ELSE activeId = detail.id

\* Until a result crosses it, the operation begun last keeps the conversation
\* that it selected, and what is shown differs from what is selected only while
\* a thread is on its way.
ShownInv ==
    ~crossed =>
        /\ \A t \in Tasks : latest = t /\ Waiting(t, "open") => activeId = task[t].conv
        /\ \A s \in Sends : latest = s /\ Busy(s) => activeId = send[s].conv
        /\ failed \cap Tasks = {} => Agree \/ \E t \in Tasks : Waiting(t, "open")

\* What leaves the view alone, moves no task and begins no answer keeps it.
LEMMA SameView ==
    ASSUME ShownInv, UNCHANGED <<activeId, detail, task, latest, crossed>>,
           failed \cap Tasks \subseteq failed' \cap Tasks,
           \A s \in Sends : send'[s].conv = send[s].conv /\ (Busy(s)' => Busy(s))
    PROVE  ShownInv'
<1>1. ASSUME ~crossed'
      PROVE  /\ \A t \in Tasks : latest' = t /\ Waiting(t, "open")' => activeId' = task'[t].conv
             /\ \A s \in Sends : latest' = s /\ Busy(s)' => activeId' = send'[s].conv
  BY <1>1 DEF ShownInv, Waiting
<1>2. ASSUME ~crossed', failed' \cap Tasks = {}
      PROVE  Agree' \/ \E t \in Tasks : Waiting(t, "open")'
  BY <1>2 DEF ShownInv, Waiting, Agree
<1> QED
  BY <1>1, <1>2 DEF ShownInv

\* What is selected and what is shown change together, or are on their way to.
LEMMA ShownStep == Types /\ Known /\ ShownInv /\ [Next]_vars => ShownInv'
<1> SUFFICES ASSUME Types, Known, ShownInv, [Next]_vars PROVE ShownInv'
  OBVIOUS
<1>1. ASSUME NEW t \in Tasks, Open(t) PROVE ShownInv'
  <2>1. PICK c \in Convs : Start(t, "open", c) /\ activeId' = c /\ latest' = t
    BY <1>1 DEF Open, Begun
  <2>2. task'[t].pc = "wait" /\ task'[t].kind = "open" /\ task'[t].conv = c
    BY <2>1, TaskAt DEF Kinds
  <2> QED
    BY <2>1, <2>2, Numbers DEF ShownInv, Waiting
<1>2. ASSUME NEW t \in Tasks, Opened(t) PROVE ShownInv'
  <2>1. /\ task'[t].pc = "over" /\ \A u \in Tasks : u # t => task'[u] = task[u]
        /\ UNCHANGED <<activeId, send, latest>> /\ Waiting(t, "open")
    BY <1>2, TaskAt DEF Opened
  <2>2. CASE read[t] # None /\ Show(task[t].conv, read[t]) /\ Applied(t)
    <3>1. ~crossed' => ~crossed /\ latest = t
      BY <2>2 DEF Applied
    <3>2. detail' = [id |-> task[t].conv, seen |-> read[t]]
      BY <2>2 DEF Show
    <3>3. detail' # None /\ detail'.id = task[t].conv
      <4>1. task[t].conv \in Convs
        BY <2>1 DEF Known, Existed, Waiting
      <4>2. read[t] \in SUBSET Messages
        BY <2>2 DEF Types
      <4> QED
        BY <3>2, <4>1, <4>2, Values
    <3>4. ~crossed' => Agree'
      BY <2>1, <3>1, <3>3 DEF ShownInv, Agree
    <3> QED
      BY <2>1, <3>1, <3>4, Numbers DEF ShownInv, Waiting, Busy
  <2>3. CASE failed' = failed \cup {t} /\ UNCHANGED crossed
    BY <2>1, <2>3 DEF ShownInv, Waiting, Busy
  <2> QED
    BY <1>2, <2>2, <2>3 DEF Opened
<1>3. ASSUME NEW t \in Tasks, StartNew(t) \/ Remove(t) PROVE ShownInv'
  <2>1. UNCHANGED <<activeId, detail, send, crossed, failed>> /\ latest' \in {latest, t}
    BY <1>3 DEF StartNew, Remove, Begun, view
  <2>2. /\ task[t].pc = "idle" /\ task'[t].kind # "open"
        /\ \A u \in Tasks : u # t => task'[u] = task[u]
    <3>1. CASE StartNew(t)
      BY <3>1, TaskAt DEF StartNew, Kinds
    <3>2. CASE Remove(t)
      <4>1. PICK c \in Convs : Start(t, IF c = activeId THEN "remove" ELSE "removeOther", c)
        BY <3>2 DEF Remove
      <4> QED
        BY <4>1, TaskAt DEF Kinds
    <3> QED
      BY <1>3, <3>1, <3>2
  <2>3. \A u \in Tasks : Waiting(u, "open") => Waiting(u, "open")'
    BY <2>2 DEF Waiting
  <2>4. \A u \in Tasks : latest' = u /\ Waiting(u, "open")' =>
            latest = u /\ Waiting(u, "open") /\ task'[u] = task[u]
    BY <2>1, <2>2 DEF Waiting
  <2>5. \A s \in Sends : latest' = s => latest = s
    BY <2>1, Numbers
  <2>6. ASSUME ~crossed'
        PROVE  /\ \A u \in Tasks : latest' = u /\ Waiting(u, "open")' => activeId' = task'[u].conv
               /\ \A s \in Sends : latest' = s /\ Busy(s)' => activeId' = send'[s].conv
    BY <2>1, <2>4, <2>5, <2>6 DEF ShownInv, Busy
  <2>7. ASSUME ~crossed', failed' \cap Tasks = {}
        PROVE  Agree' \/ \E u \in Tasks : Waiting(u, "open")'
    BY <2>1, <2>3, <2>7 DEF ShownInv, Agree
  <2> QED
    BY <2>6, <2>7 DEF ShownInv
<1>4. ASSUME NEW t \in Tasks, Started(t) \/ Removed(t) PROVE ShownInv'
  <2>1. /\ ~Waiting(t, "open") /\ task'[t].pc = "over"
        /\ \A u \in Tasks : u # t => task'[u] = task[u]
        /\ UNCHANGED <<send, latest>>
    BY <1>4, TaskAt DEF Started, Removed, Waiting
  <2>2. CASE UNCHANGED view /\ UNCHANGED crossed /\ (failed' = failed \/ failed' = failed \cup {t})
    <3>1. \A u \in Tasks : /\ Waiting(u, "open") <=> Waiting(u, "open")'
                           /\ Waiting(u, "open") => task'[u] = task[u]
      BY <2>1 DEF Waiting
    <3>2. ASSUME ~crossed'
          PROVE  /\ \A u \in Tasks : latest' = u /\ Waiting(u, "open")' => activeId' = task'[u].conv
                 /\ \A s \in Sends : latest' = s /\ Busy(s)' => activeId' = send'[s].conv
      BY <2>1, <2>2, <3>1, <3>2 DEF ShownInv, Busy, view
    <3>3. ASSUME ~crossed', failed' \cap Tasks = {}
          PROVE  Agree' \/ \E u \in Tasks : Waiting(u, "open")'
      BY <2>1, <2>2, <3>1, <3>3 DEF ShownInv, Agree, view
    <3> QED
      BY <3>2, <3>3 DEF ShownInv
  <2>3. CASE Agree' /\ Applied(t)
    <3>1. ~crossed' => latest' = t
      BY <2>1, <2>3 DEF Applied
    <3> QED
      BY <2>1, <2>3, <3>1, Numbers DEF ShownInv, Waiting, Busy
  <2>4. ASSUME NEW c \in Convs, activeId' = c, Show(c, {}) PROVE Agree'
    BY <2>4, Values DEF Show, Agree
  <2>5. ASSUME activeId' = None, detail' = NothingShown PROVE Agree'
    BY <2>5 DEF NothingShown, Agree
  <2>6. CASE Started(t)
    BY <2>2, <2>3, <2>4, <2>6 DEF Started
  <2>7. CASE Removed(t)
    BY <2>2, <2>3, <2>5, <2>7 DEF Removed
  <2> QED
    BY <1>4, <2>6, <2>7
<1>5. ASSUME NEW t \in Tasks, Delete(t) PROVE ShownInv'
  BY <1>5, SameView DEF Delete, view, client, history, Busy
<1>6. ASSUME NEW s \in Sends,
             Ask(s) \/ Answer(s) \/ AnswerUnstored(s) \/ ModelFails(s) \/ PersistPart(s)
      PROVE  ShownInv'
  BY <1>6, SameView
     DEF Ask, Answer, AnswerUnstored, ModelFails, PersistPart, view, client, history, Busy
<1>7. CASE Get
  BY <1>7, SameView DEF Get, GetFor, Reads, view, client, history, Busy
<1>8. ASSUME NEW s \in Sends, Send(s) PROVE ShownInv'
  <2>1. UNCHANGED <<activeId, detail, task, crossed, failed>> /\ latest' = s
    BY <1>8 DEF Send, Begun, view
  <2>2. Busy(s)' => activeId' = send'[s].conv
    <3>1. CASE activeId = None
      <4>1. send'[s].pc = "create"
        BY <1>8, <3>1, GoesAt DEF Send, SendPCs
      <4> QED
        BY <4>1 DEF Busy
    <3>2. CASE activeId # None
      <4>1. Stream(s, activeId) /\ activeId \in Convs
        BY <1>8, <3>2 DEF Send, Types
      <4>2. send'[s].conv = activeId
        BY <4>1, StreamAt
      <4> QED
        BY <2>1, <4>2
    <3> QED
      BY <3>1, <3>2
  <2>3. ASSUME ~crossed'
        PROVE  /\ \A u \in Tasks : latest' = u /\ Waiting(u, "open")' => activeId' = task'[u].conv
               /\ \A r \in Sends : latest' = r /\ Busy(r)' => activeId' = send'[r].conv
    BY <2>1, <2>2, Numbers
  <2>4. ASSUME ~crossed', failed' \cap Tasks = {}
        PROVE  Agree' \/ \E u \in Tasks : Waiting(u, "open")'
    BY <2>1, <2>4 DEF ShownInv, Agree, Waiting
  <2> QED
    BY <2>3, <2>4 DEF ShownInv
<1>9. ASSUME NEW s \in Sends, Created(s) PROVE ShownInv'
  <2>1. send[s].pc = "create" /\ UNCHANGED <<task, latest>>
    BY <1>9 DEF Created
  <2>2. CASE Goes(s, "over") /\ failed' = failed \cup {s} /\ UNCHANGED <<view, crossed>>
    <3>1. \A r \in Sends : /\ send'[r].pc = IF r = s THEN "over" ELSE send[r].pc
                           /\ send'[r].conv = send[r].conv
      BY <2>2, GoesAt DEF SendPCs
    <3>2. \A r \in Sends : Busy(r)' => Busy(r)
      BY <3>1 DEF Busy
    <3> QED
      BY <2>1, <2>2, <3>1, <3>2, SameView DEF view
  <2>3. ASSUME NEW c \in Convs, activeId' = c, Show(c, {}), Stream(s, c), Applied(s)
        PROVE  ShownInv'
    <3>1. send'[s].conv = c
      BY <2>3, StreamAt
    <3>2. Agree'
      BY <2>3, Values DEF Show, Agree
    <3>3. ~crossed' => latest' = s
      BY <2>1, <2>3 DEF Applied
    <3> QED
      BY <2>3, <3>1, <3>2, <3>3, Numbers DEF ShownInv
  <2> QED
    BY <1>9, <2>2, <2>3 DEF Created
<1>10. ASSUME NEW s \in Sends, Returns(s) PROVE ShownInv'
  <2>1. /\ send[s].pc = "stream" /\ UNCHANGED <<activeId, detail, task, latest, crossed>>
        /\ failed \subseteq failed' /\ Goes(s, "resync")
    BY <1>10 DEF Returns, view, history
  <2>2. \A r \in Sends : /\ send'[r].pc = IF r = s THEN "resync" ELSE send[r].pc
                         /\ send'[r].conv = send[r].conv
    BY <2>1, GoesAt DEF SendPCs
  <2>3. \A r \in Sends : Busy(r)' => Busy(r)
    BY <2>1, <2>2 DEF Busy
  <2> QED
    BY <2>1, <2>2, <2>3, SameView
<1>11. ASSUME NEW s \in Sends, WakeUp(s) PROVE ShownInv'
  <2>1. /\ send[s].pc = "sleep" /\ UNCHANGED <<activeId, detail, task, latest, crossed, failed>>
        /\ Goes(s, "resync")
    BY <1>11 DEF WakeUp, view, history
  <2>2. \A r \in Sends : /\ send'[r].pc = IF r = s THEN "resync" ELSE send[r].pc
                         /\ send'[r].conv = send[r].conv
    BY <2>1, GoesAt DEF SendPCs
  <2>3. \A r \in Sends : Busy(r)' => Busy(r)
    BY <2>1, <2>2 DEF Busy
  <2> QED
    BY <2>1, <2>2, <2>3, SameView
<1>12. ASSUME NEW s \in Sends, Resynced(s) PROVE ShownInv'
  <2>1. /\ send[s].pc = "resync" /\ UNCHANGED <<activeId, task, latest>>
        /\ Goes(s, "over")
    BY <1>12 DEF Resynced
  <2>2. \A r \in Sends : /\ send'[r].pc = IF r = s THEN "over" ELSE send[r].pc
                         /\ send'[r].conv = send[r].conv
    BY <2>1, GoesAt DEF SendPCs
  <2>3. \A r \in Sends : Busy(r)' => Busy(r)
    BY <2>1, <2>2 DEF Busy
  <2>4. CASE failed' = failed \cup {s} /\ UNCHANGED <<detail, crossed>>
    BY <2>1, <2>2, <2>3, <2>4, SameView
  <2>5. CASE read[s] # None /\ Show(send[s].conv, read[s]) /\ Applied(s)
    <3>1. send[s].conv \in Convs /\ read[s] \in SUBSET Messages
      BY <2>1, <2>5 DEF Types, Known, Existed, Busy
    <3>2. detail' = [id |-> send[s].conv, seen |-> read[s]]
      BY <2>5 DEF Show
    <3>3. detail' # None /\ detail'.id = send[s].conv
      BY <3>1, <3>2, Values
    <3>4. ~crossed' => ~crossed /\ latest' = s /\ latest = s
      BY <2>1, <2>5 DEF Applied
    <3>5. ~crossed' => Agree'
      BY <2>1, <3>3, <3>4 DEF ShownInv, Busy, Agree
    <3>6. ~Busy(s)'
      BY <2>2 DEF Busy
    <3> QED
      BY <3>4, <3>5, <3>6, Numbers DEF ShownInv
  <2> QED
    BY <1>12, <2>4, <2>5 DEF Resynced
<1>13. CASE Stop
  <2>1. PICK s \in Sends : s = controller /\ send[s].pc = "stream"
    BY <1>13 DEF Stop, Types, Known
  <2>2. /\ UNCHANGED <<activeId, detail, task, latest, crossed, failed>>
        /\ \A r \in Sends : /\ send'[r].pc = IF r = s THEN "sleep" ELSE send[r].pc
                            /\ send'[r].conv = send[r].conv
    BY <1>13, <2>1 DEF Stop, Types, view, history
  <2>3. \A r \in Sends : Busy(r)' => Busy(r)
    BY <2>1, <2>2 DEF Busy
  <2> QED
    BY <2>2, <2>3, SameView
<1>14. CASE UNCHANGED vars
  BY <1>14, SameView DEF vars, view, client, history, Busy
<1> QED
  BY <1>1, <1>2, <1>3, <1>4, <1>5, <1>6, <1>7, <1>8, <1>9, <1>10, <1>11, <1>12, <1>13, <1>14
     DEF Next, User, Page, Gateway

\* When nothing is under way, the thread shown is that of the selected
\* conversation.
THEOREM ShownAlways == Spec => []ShownIsSelected
<1>1. Init => ShownInv
  BY DEF Init, ShownInv, Waiting, Busy, Agree
<1>2. ShownInv => ShownIsSelected
  BY DEF ShownInv, ShownIsSelected, AtRest, Agree, Waiting
<1>3. Types /\ Known /\ ShownInv /\ [Next]_vars => ShownInv'
  BY ShownStep
<1> QED
  BY <1>1, <1>2, <1>3, TypesAlways, PTL DEF Spec

-----------------------------------------------------------------------------
(* What a step may do to each send, turn, thread and request.               *)

SendMove(s) ==
    \/ send'[s] = send[s]
    \/ send[s].pc \in {"idle", "create"} /\ send'[s].pc \in {"create", "stream"}
    \/ send[s].pc = "create" /\ send'[s].pc = "over" /\ s \in failed'
    \/ /\ send'[s].conv = send[s].conv
       /\ send[s].pc = "stream" /\ send'[s].pc = "sleep" /\ send'[s].aborted
       /\ turn'[s] # "asked"
    \/ /\ send'[s].conv = send[s].conv /\ send'[s].aborted = send[s].aborted
       /\ \/ send[s].pc = "stream" /\ send'[s].pc = "resync" /\ turn'[s] # "asked"
          \/ send[s].pc = "sleep" /\ send'[s].pc = "resync"
          \/ /\ send[s].pc = "resync" /\ send'[s].pc = "over" /\ read'[s] = None
             /\ \/ s \in failed'
                \/ read[s] # None /\ Show(send[s].conv, read[s])

\* A turn is asked of a send that streams, and answered once it was asked.
TurnMove(s) ==
    \/ turn'[s] = turn[s] \/ turn'[s] \in {"unstored", "failed", "stored", "refused"}
    \/ /\ turn[s] = "none" /\ turn'[s] = "asked"
       /\ send[s].pc \in {"stream", "sleep"} /\ ~send[s].aborted
       /\ send' = send
       /\ Present(send[s].conv)' => <<s, "question">> \in thread'[send[s].conv]
    \/ /\ turn[s] = "asked" /\ turn'[s] = "answered"
       /\ send' = send
       /\ Present(send[s].conv)' => <<s, "answer">> \in thread'[send[s].conv]

\* A thread that exists keeps its messages until it is deleted.
ThreadMove(c) ==
    thread[c] # None /\ Present(c)' => Present(c) /\ thread[c] \subseteq thread'[c]

\* What a request of p for conversation c gets is the thread at that moment.
Got(p, c) ==
    /\ Present(c) /\ read'[p] = thread[c]
    /\ UNCHANGED <<send, task, thread, turn, failed>>

ReadMove(s) ==
    \/ read'[s] = read[s] \/ read'[s] = None
    \/ send[s].pc = "resync" /\ Got(s, send[s].conv)

TaskMove(t) ==
    \/ /\ task'[t] = task[t]
       /\ \/ read'[t] = read[t]
          \/ Waiting(t, "open") /\ Got(t, task[t].conv)
    \/ task[t].pc = "idle" /\ read'[t] = read[t] /\ (Waiting(t, "open")' => ~streaming')
    \/ /\ task'[t].pc = "over"
       /\ read'[t] = None \/ (~Waiting(t, "open") /\ read'[t] = read[t])

\* What is shown is what a request got, or a conversation that is new.
DetailMove ==
    \/ detail' = detail \/ detail' = None
    \/ \E c \in Convs : thread[c] = None /\ Show(c, {})
    \/ \E t \in Tasks :
          /\ Waiting(t, "open") /\ read[t] # None /\ Show(task[t].conv, read[t])
          /\ ~crossed' => latest = t
          /\ UNCHANGED <<send, turn, thread, failed>>
    \/ \E s \in Sends :
          /\ send[s].pc = "resync" /\ read[s] # None /\ Show(send[s].conv, read[s])
          /\ send'[s].pc = "over" /\ UNCHANGED <<turn, thread, failed>>
          /\ \A r \in Sends : r # s => send'[r] = send[r]

\* Nothing streams anew while an operation on the view is the latest.
HistoryMove ==
    /\ failed \subseteq failed' /\ (~crossed' => ~crossed)
    /\ \A t \in Tasks : latest' = t /\ ~crossed' =>
          (latest = t \/ task[t].pc = "idle") /\ (streaming' => streaming)

Moves ==
    /\ \A s \in Sends : SendMove(s) /\ TurnMove(s) /\ ReadMove(s)
    /\ \A t \in Tasks : TaskMove(t)
    /\ \A c \in Convs : ThreadMove(c)
    /\ DetailMove /\ HistoryMove

\* A new conversation takes no other's place.
LEMMA CreateMove ==
    ASSUME Types, NEW c \in Convs, Create(c)
    PROVE  thread[c] = None /\ \A d \in Convs : ThreadMove(d)
BY ThreadAt DEF ThreadMove, Present

\* A step moves no task but its own, and ends its request with it.
LEMMA TaskStays ==
    ASSUME NEW t \in Tasks
    PROVE  /\ task'[t] = task[t] /\ read'[t] = read[t] => TaskMove(t)
           /\ task'[t].pc = "over" /\ read'[t] = None => TaskMove(t)
           /\ task'[t].pc = "over" /\ ~Waiting(t, "open") /\ read'[t] = read[t] => TaskMove(t)
BY DEF TaskMove

\* The steps of a task.
LEMMA TaskMoves ==
    ASSUME Types, Known, NEW t \in Tasks,
           Open(t) \/ Opened(t) \/ StartNew(t) \/ Started(t) \/ Remove(t) \/ Removed(t)
             \/ Delete(t)
    PROVE  Moves
<1>1. UNCHANGED <<send, turn>>
  BY DEF Open, Opened, StartNew, Started, Remove, Removed, Delete, client
<1>2. \A s \in Sends : SendMove(s) /\ TurnMove(s)
  BY <1>1 DEF SendMove, TurnMove
<1>3. \A s \in Sends : ReadMove(s)
  <2>1. UNCHANGED read \/ read' = [read EXCEPT ![t] = None]
    BY DEF Open, Opened, StartNew, Started, Remove, Removed, Delete, Consumed
  <2> QED
    BY <2>1 DEF ReadMove, Types
<1>4. \A u \in Tasks : TaskMove(u)
  <2>1. CASE Open(t)
    <3>1. PICK c \in Convs : Start(t, "open", c)
      BY <2>1 DEF Open
    <3>2. task[t].pc = "idle" /\ \A u \in Tasks : u # t => task'[u] = task[u]
      BY <3>1, TaskAt DEF Kinds
    <3>3. ~streaming' /\ read' = read
      BY <2>1 DEF Open
    <3>4. TaskMove(t)
      BY <3>2, <3>3 DEF TaskMove
    <3>5. \A u \in Tasks : u # t => TaskMove(u)
      BY <3>2, <3>3, TaskStays
    <3> QED
      BY <3>4, <3>5
  <2>2. CASE Opened(t) \/ Started(t) \/ Removed(t)
    <3>1. task'[t].pc = "over" /\ \A u \in Tasks : u # t => task'[u] = task[u]
      BY <2>2, TaskAt DEF Opened, Started, Removed
    <3>2. CASE Opened(t)
      <4>1. /\ \A u \in Tasks : u # t => read'[u] = read[u]
            /\ read'[t] = None
        BY <3>2 DEF Opened, Consumed, Types
      <4> QED
        BY <3>1, <4>1, TaskStays
    <3>3. CASE Started(t) \/ Removed(t)
      <4>1. read' = read /\ ~Waiting(t, "open")
        BY <3>3 DEF Started, Removed, Waiting
      <4> QED
        BY <3>1, <4>1, TaskStays
    <3> QED
      BY <2>2, <3>2, <3>3
  <2>3. CASE StartNew(t) \/ Remove(t)
    <3>1. PICK kind \in Kinds, c \in {None} \cup Convs : kind # "open" /\ Start(t, kind, c)
      <4>1. CASE StartNew(t)
        BY <4>1 DEF StartNew, Kinds
      <4>2. CASE Remove(t)
        BY <4>2 DEF Remove, Kinds
      <4> QED
        BY <2>3, <4>1, <4>2
    <3>2. /\ task[t].pc = "idle" /\ task'[t].kind # "open"
          /\ \A u \in Tasks : u # t => task'[u] = task[u]
      BY <3>1, TaskAt
    <3>3. read' = read /\ ~Waiting(t, "open")'
      BY <2>3, <3>2 DEF StartNew, Remove, Waiting
    <3>4. TaskMove(t)
      BY <3>2, <3>3 DEF TaskMove
    <3>5. \A u \in Tasks : u # t => TaskMove(u)
      BY <3>2, <3>3, TaskStays
    <3> QED
      BY <3>4, <3>5
  <2>4. CASE Delete(t)
    BY <2>4, TaskStays DEF Delete, client
  <2> QED
    BY <2>1, <2>2, <2>3, <2>4
<1>5. \A c \in Convs : ThreadMove(c)
  <2>1. CASE UNCHANGED thread
    BY <2>1 DEF ThreadMove, Present
  <2>2. CASE Delete(t)
    BY <2>2 DEF Delete, ThreadMove, Present, Types
  <2>3. CASE Started(t)
    BY <2>1, <2>3, CreateMove DEF Started
  <2> QED
    BY <2>1, <2>2, <2>3 DEF Open, Opened, StartNew, Remove, Removed
<1>6. DetailMove
  <2>1. CASE Open(t) \/ StartNew(t) \/ Remove(t) \/ Delete(t)
    BY <2>1 DEF Open, StartNew, Remove, Delete, view, DetailMove
  <2>2. CASE Opened(t)
    <3>1. CASE UNCHANGED detail
      BY <3>1 DEF DetailMove
    <3>2. CASE read[t] # None /\ Show(task[t].conv, read[t]) /\ Applied(t) /\ UNCHANGED failed
      <4>1. ~crossed' => latest = t
        BY <3>2 DEF Applied
      <4>2. UNCHANGED thread /\ Waiting(t, "open")
        BY <2>2 DEF Opened
      <4> QED
        BY <1>1, <3>2, <4>1, <4>2 DEF DetailMove
    <3> QED
      BY <2>2, <3>1, <3>2 DEF Opened
  <2>3. CASE Started(t)
    <3>1. ASSUME NEW c \in Convs, Create(c), Show(c, {}) PROVE DetailMove
      BY <3>1, CreateMove DEF DetailMove
    <3> QED
      BY <2>3, <3>1 DEF Started, view, DetailMove
  <2>4. CASE Removed(t)
    BY <2>4 DEF Removed, view, NothingShown, DetailMove
  <2> QED
    BY <2>1, <2>2, <2>3, <2>4
<1>7. HistoryMove
  <2>1. failed \subseteq failed' /\ UNCHANGED streaming
    <3>1. UNCHANGED streaming
      BY DEF Open, Opened, StartNew, Started, Remove, Removed, Delete, client
    <3>2. UNCHANGED failed \/ failed' = failed \cup {t}
      BY DEF Open, Opened, StartNew, Started, Remove, Removed, Delete, history
    <3> QED
      BY <3>1, <3>2
  <2>2. ~crossed' => ~crossed
    BY DEF Open, Opened, StartNew, Started, Remove, Removed, Delete, Applied, history
  <2>3. latest' = latest \/ (latest' = t /\ task[t].pc = "idle")
    <3>1. CASE Open(t) \/ StartNew(t) \/ Remove(t)
      <4>1. task[t].pc = "idle"
        BY <3>1 DEF Open, StartNew, Remove, Start, Idle
      <4>2. latest' = latest \/ latest' = t
        BY <3>1 DEF Open, StartNew, Remove, Begun
      <4> QED
        BY <4>1, <4>2
    <3>2. CASE Opened(t) \/ Started(t) \/ Removed(t) \/ Delete(t)
      BY <3>2 DEF Opened, Started, Removed, Delete, history
    <3> QED
      BY <3>1, <3>2
  <2> QED
    BY <2>1, <2>2, <2>3 DEF HistoryMove
<1> QED
  BY <1>2, <1>3, <1>4, <1>5, <1>6, <1>7 DEF Moves

\* The steps of a send.
LEMMA SendMoves ==
    ASSUME Types, Known, NEW s \in Sends,
           Send(s) \/ Created(s) \/ Returns(s) \/ WakeUp(s) \/ Resynced(s)
    PROVE  Moves
<1>1. UNCHANGED task /\ \A r \in Sends : r # s => send'[r] = send[r]
  <2>1. ASSUME NEW p, Goes(s, p) PROVE \A r \in Sends : r # s => send'[r] = send[r]
    BY <2>1 DEF Goes, Types
  <2>2. ASSUME NEW c, Stream(s, c) PROVE \A r \in Sends : r # s => send'[r] = send[r]
    BY <2>2 DEF Stream, Types
  <2> QED
    BY <2>1, <2>2 DEF Send, Created, Returns, WakeUp, Resynced
<1>2. SendMove(s)
  <2>1. ASSUME NEW p \in SendPCs, Goes(s, p)
        PROVE  /\ send'[s].pc = p /\ send'[s].conv = send[s].conv
               /\ send'[s].aborted = send[s].aborted
    BY <2>1, GoesAt
  <2>2. ASSUME NEW c \in Convs, Stream(s, c) PROVE send'[s].pc = "stream"
    BY <2>2, StreamAt
  <2>3. CASE Send(s)
    <3>1. send'[s].pc \in {"create", "stream"}
      <4>1. CASE activeId = None
        BY <2>1, <2>3, <4>1 DEF Send, SendPCs
      <4>2. CASE activeId # None
        BY <2>2, <2>3, <4>2 DEF Send, Types
      <4> QED
        BY <4>1, <4>2
    <3>2. send[s].pc = "idle"
      BY <2>3 DEF Send, Idle
    <3> QED
      BY <3>1, <3>2 DEF SendMove
  <2>4. CASE Created(s)
    <3>1. CASE Goes(s, "over") /\ failed' = failed \cup {s}
      BY <2>1, <2>4, <3>1 DEF Created, SendMove, SendPCs
    <3>2. CASE \E c \in Convs : Stream(s, c)
      BY <2>2, <2>4, <3>2 DEF Created, SendMove
    <3> QED
      BY <2>4, <3>1, <3>2 DEF Created
  <2>5. CASE Returns(s)
    <3>1. send[s].pc = "stream" /\ Goes(s, "resync") /\ turn'[s] # "asked"
      BY <2>5 DEF Returns, ResponseEnds, Types
    <3> QED
      BY <2>1, <3>1 DEF SendMove, SendPCs
  <2>6. CASE WakeUp(s)
    BY <2>1, <2>6 DEF WakeUp, SendMove, SendPCs
  <2>7. CASE Resynced(s)
    <3>1. /\ send[s].pc = "resync" /\ Goes(s, "over") /\ read'[s] = None
          /\ s \in failed' \/ (read[s] # None /\ Show(send[s].conv, read[s]))
      BY <2>7 DEF Resynced, Consumed, Types
    <3> QED
      BY <2>1, <3>1 DEF SendMove, SendPCs
  <2> QED
    BY <2>3, <2>4, <2>5, <2>6, <2>7
<1>3. \A r \in Sends : SendMove(r)
  BY <1>1, <1>2 DEF SendMove
<1>4. \A r \in Sends : TurnMove(r)
  <2>1. CASE UNCHANGED turn
    BY <2>1 DEF TurnMove
  <2>2. CASE turn' = [turn EXCEPT ![s] = IF @ = "none" THEN "refused"
                                         ELSE IF @ = "asked" THEN "failed" ELSE @]
    BY <2>2 DEF TurnMove, Types
  <2> QED
    BY <2>1, <2>2 DEF Send, Created, Returns, WakeUp, Resynced
<1>5. /\ \A r \in Sends : ReadMove(r)
      /\ \A t \in Tasks : TaskMove(t)
  <2>1. UNCHANGED read \/ read' = [read EXCEPT ![s] = None]
    BY DEF Send, Created, Returns, WakeUp, Resynced, Consumed
  <2>2. \A r \in Sends : ReadMove(r)
    BY <2>1 DEF ReadMove, Types
  <2>3. \A t \in Tasks : read'[t] = read[t]
    BY <2>1, Numbers DEF Types
  <2> QED
    BY <1>1, <2>2, <2>3, TaskStays
<1>6. \A c \in Convs : ThreadMove(c)
  <2>1. CASE UNCHANGED thread
    BY <2>1 DEF ThreadMove, Present
  <2>2. CASE Created(s)
    BY <2>1, <2>2, CreateMove DEF Created
  <2> QED
    BY <2>1, <2>2 DEF Send, Returns, WakeUp, Resynced
<1>7. DetailMove
  <2>1. CASE Send(s) \/ Returns(s) \/ WakeUp(s)
    BY <2>1 DEF Send, Returns, WakeUp, view, DetailMove
  <2>2. CASE Created(s)
    <3>1. ASSUME NEW c \in Convs, Create(c), Show(c, {}) PROVE DetailMove
      BY <3>1, CreateMove DEF DetailMove
    <3> QED
      BY <2>2, <3>1 DEF Created, view, DetailMove
  <2>3. CASE Resynced(s)
    <3>1. CASE UNCHANGED detail
      BY <3>1 DEF DetailMove
    <3>2. CASE read[s] # None /\ Show(send[s].conv, read[s]) /\ UNCHANGED failed
      <4>1. send[s].pc = "resync" /\ UNCHANGED <<thread, turn>> /\ Goes(s, "over")
        BY <2>3 DEF Resynced
      <4>2. send'[s].pc = "over"
        BY <4>1, GoesAt DEF SendPCs
      <4> QED
        BY <1>1, <3>2, <4>1, <4>2 DEF DetailMove
    <3> QED
      BY <2>3, <3>1, <3>2 DEF Resynced
  <2> QED
    BY <2>1, <2>2, <2>3
<1>8. HistoryMove
  <2>1. failed \subseteq failed'
    BY DEF Send, Created, Returns, WakeUp, Resynced, history
  <2>2. ~crossed' => ~crossed
    BY DEF Send, Created, Returns, WakeUp, Resynced, Applied, history
  <2>3. \A t \in Tasks : latest' = t /\ ~crossed' => latest = t /\ (streaming' => streaming)
    <3>1. CASE Send(s)
      BY <3>1, Numbers DEF Send, Begun
    <3>2. CASE Created(s)
      <4>1. UNCHANGED latest /\ ((UNCHANGED streaming) \/ Applied(s))
        BY <3>2 DEF Created
      <4> QED
        BY <4>1, Numbers DEF Applied
    <3>3. CASE Returns(s) \/ WakeUp(s)
      BY <3>3 DEF Returns, WakeUp, history
    <3>4. CASE Resynced(s)
      BY <3>4 DEF Resynced, Unlocked
    <3> QED
      BY <3>1, <3>2, <3>3, <3>4
  <2> QED
    BY <2>1, <2>2, <2>3 DEF HistoryMove
<1> QED
  BY <1>3, <1>4, <1>5, <1>6, <1>7, <1>8 DEF Moves

\* Stop.
LEMMA StopMoves == Types /\ Known /\ Stop => Moves
<1> SUFFICES ASSUME Types, Known, Stop PROVE Moves
  OBVIOUS
<1>1. PICK s \in Sends : s = controller /\ send[s].pc = "stream"
  BY DEF Stop, Types, Known
<1>2. UNCHANGED <<detail, streaming, task, read, thread, latest, crossed, failed>>
  BY DEF Stop, view, history
<1>3. /\ send'[s].pc = "sleep" /\ send'[s].conv = send[s].conv /\ send'[s].aborted
      /\ \A r \in Sends : r # s => send'[r] = send[r]
  BY <1>1 DEF Stop, Types
<1>4. turn' = [turn EXCEPT ![s] = IF @ = "asked" THEN "failed" ELSE @]
  BY <1>1 DEF Stop
<1>5. \A r \in Sends : SendMove(r)
  <2>1. turn'[s] # "asked"
    BY <1>4 DEF Types
  <2> QED
    BY <1>1, <1>3, <2>1 DEF SendMove
<1>6. \A r \in Sends : TurnMove(r) /\ ReadMove(r)
  BY <1>2, <1>4 DEF TurnMove, ReadMove, Types
<1>7. \A t \in Tasks : TaskMove(t)
  BY <1>2, TaskStays
<1>8. (\A c \in Convs : ThreadMove(c)) /\ DetailMove /\ HistoryMove
  BY <1>2 DEF ThreadMove, Present, DetailMove, HistoryMove
<1> QED
  BY <1>5, <1>6, <1>7, <1>8 DEF Moves

\* What the gateway does to the turns, the threads and the requests, and what
\* nobody does.
LEMMA GatewayMoves ==
    ASSUME Types, Known,
           \/ Get \/ UNCHANGED vars
           \/ \E s \in Sends :
                 Ask(s) \/ Answer(s) \/ AnswerUnstored(s) \/ ModelFails(s) \/ PersistPart(s)
    PROVE  Moves
<1>1. UNCHANGED <<detail, streaming, task, send, latest, crossed, failed>>
  BY DEF Get, GetFor, Reads, Ask, Answer, AnswerUnstored, ModelFails, PersistPart, vars, view,
         client, history
<1>2. DetailMove /\ HistoryMove /\ \A s \in Sends : SendMove(s)
  BY <1>1 DEF DetailMove, HistoryMove, SendMove
<1>3. CASE UNCHANGED vars
  <2>1. UNCHANGED <<turn, thread, read>>
    BY <1>3 DEF vars
  <2>2. /\ \A s \in Sends : TurnMove(s) /\ ReadMove(s)
        /\ \A c \in Convs : ThreadMove(c)
    BY <2>1 DEF TurnMove, ReadMove, ThreadMove, Present
  <2>3. \A t \in Tasks : TaskMove(t)
    BY <1>1, <2>1, TaskStays
  <2> QED
    BY <1>2, <2>2, <2>3 DEF Moves
<1>4. CASE Get
  <2>1. PICK p \in Tasks \cup Sends, c \in Convs :
           /\ Reads(p, c)
           /\ \/ p \in Tasks /\ Waiting(p, "open") /\ c = task[p].conv
              \/ p \in Sends /\ send[p].pc = "resync" /\ c = send[p].conv
    BY <1>4 DEF Get, GetFor, Known, Existed, Waiting, Busy
  <2>2. /\ UNCHANGED <<turn, thread>> /\ Present(c) /\ read' = [read EXCEPT ![p] = thread[c]]
    BY <2>1 DEF Reads
  <2>3. Got(p, c) /\ \A q \in Tasks \cup Sends : q # p => read'[q] = read[q]
    BY <1>1, <2>2 DEF Got, Types
  <2>4. \A s \in Sends : ReadMove(s)
    BY <2>1, <2>3, Numbers DEF ReadMove
  <2>5. \A t \in Tasks : TaskMove(t)
    <3>1. ASSUME NEW t \in Tasks, t = p PROVE TaskMove(t)
      BY <1>1, <2>1, <2>3, <3>1, Numbers DEF TaskMove
    <3> QED
      BY <1>1, <2>3, <3>1, TaskStays
  <2>6. /\ \A s \in Sends : TurnMove(s)
        /\ \A d \in Convs : ThreadMove(d)
    BY <2>2 DEF TurnMove, ThreadMove, Present
  <2> QED
    BY <1>2, <2>4, <2>5, <2>6 DEF Moves
<1>5. ASSUME NEW s \in Sends,
             Ask(s) \/ Answer(s) \/ AnswerUnstored(s) \/ ModelFails(s) \/ PersistPart(s)
      PROVE  Moves
  <2>1. /\ UNCHANGED <<read>>
        /\ \A r \in Sends : r # s => turn'[r] = turn[r]
    BY <1>5 DEF Ask, Answer, AnswerUnstored, ModelFails, PersistPart, Types
  <2>2. /\ \A r \in Sends : ReadMove(r)
        /\ \A r \in Sends : r # s => TurnMove(r)
    BY <2>1 DEF ReadMove, TurnMove
  <2>3. \A t \in Tasks : TaskMove(t)
    BY <1>1, <2>1, TaskStays
  <2>4. PICK c \in Convs : c = send[s].conv
    <3>1. Busy(s) \/ turn[s] # "none"
      BY <1>5 DEF Ask, Answer, AnswerUnstored, ModelFails, PersistPart, Busy
    <3> QED
      BY <3>1 DEF Known, Existed
  <2>5. ASSUME NEW m \in Messages, Present(c), Put(c, m)
        PROVE  m \in thread'[c] /\ \A d \in Convs : ThreadMove(d)
    <3>1. /\ thread'[c] = thread[c] \cup {m}
          /\ \A d \in Convs : d # c => thread'[d] = thread[d]
      BY <2>5, ThreadAt
    <3>2. ThreadMove(c)
      BY <2>5, <3>1 DEF ThreadMove
    <3>3. \A d \in Convs : d # c => ThreadMove(d)
      BY <3>1 DEF ThreadMove, Present
    <3> QED
      BY <3>1, <3>2, <3>3
  <2>6. UNCHANGED thread => \A d \in Convs : ThreadMove(d)
    BY DEF ThreadMove, Present
  <2>7. <<s, "question">> \in Messages /\ <<s, "answer">> \in Messages
    BY DEF Messages
  <2>8. \A d \in Convs : ThreadMove(d)
    BY <1>5, <2>4, <2>5, <2>6, <2>7 DEF Ask, Answer, AnswerUnstored, ModelFails, PersistPart
  <2>9. TurnMove(s)
    <3>1. CASE Ask(s)
      <4>1. CASE Present(c)
        <5>1. /\ <<s, "question">> \in thread'[c] /\ turn[s] = "none"
              /\ turn'[s] = IF send[s].aborted THEN "failed" ELSE "asked"
              /\ send[s].pc \in {"stream", "sleep"}
          BY <2>4, <2>5, <2>7, <3>1, <4>1 DEF Ask, Types
        <5> QED
          BY <1>1, <2>4, <5>1 DEF TurnMove
      <4>2. CASE ~Present(c)
        BY <2>4, <3>1, <4>2 DEF Ask, TurnMove, Types
      <4> QED
        BY <4>1, <4>2
    <3>2. CASE Answer(s)
      <4>1. turn[s] = "asked" /\ turn'[s] = "answered"
        BY <3>2 DEF Answer, Types
      <4>2. Present(send[s].conv)' => <<s, "answer">> \in thread'[send[s].conv]
        <5>1. CASE Present(c)
          BY <1>1, <2>4, <2>5, <2>7, <3>2, <5>1 DEF Answer
        <5>2. CASE ~Present(c)
          BY <1>1, <2>4, <3>2, <5>2 DEF Answer, Present
        <5> QED
          BY <5>1, <5>2
      <4> QED
        BY <1>1, <4>1, <4>2 DEF TurnMove
    <3>3. CASE AnswerUnstored(s) \/ ModelFails(s) \/ PersistPart(s)
      BY <3>3 DEF AnswerUnstored, ModelFails, PersistPart, TurnMove, Types
    <3> QED
      BY <1>5, <3>1, <3>2, <3>3
  <2> QED
    BY <1>2, <2>2, <2>3, <2>8, <2>9 DEF Moves
<1> QED
  BY <1>3, <1>4, <1>5

\* Every step is made of these moves.
LEMMA StepMoves == Types /\ Known /\ [Next]_vars => Moves
BY TaskMoves, SendMoves, StopMoves, GatewayMoves DEF Next, User, Page, Gateway

-----------------------------------------------------------------------------
(* The answer stays on the screen.                                          *)

Seen(s) == {<<s, "question">>, <<s, "answer">>}
\* The answer of s was stored while the client listened, and the resync is over.
Settled(s) == send[s].pc = "over" /\ s \notin failed /\ turn[s] = "answered"

\* Who does not listen any more gets no answer, and what the client reads from
\* then on is the thread with both messages.
StoredInv ==
    /\ \A s \in Sends :
          /\ send[s].pc \in {"sleep", "resync", "over"} => turn[s] # "asked"
          /\ send[s].pc = "sleep" => send[s].aborted
          /\ turn[s] \in {"asked", "answered"} /\ Present(send[s].conv) =>
                <<s, "question">> \in thread[send[s].conv]
          /\ turn[s] = "answered" /\ Present(send[s].conv) =>
                <<s, "answer">> \in thread[send[s].conv]
          /\ send[s].pc = "resync" /\ turn[s] = "answered" /\ read[s] # None =>
                Seen(s) \subseteq read[s]
          /\ send[s].pc # "resync" => read[s] = None
    /\ \A t \in Tasks : ~Waiting(t, "open") => read[t] = None

\* A thread on its way to the screen has the answers that were seen before.
ReadInv ==
    ~crossed =>
        /\ \A t \in Tasks : latest = t /\ Waiting(t, "open") => ~streaming
        /\ \A t \in Tasks, s \in Sends :
              latest = t /\ Waiting(t, "open") /\ read[t] # None /\ Settled(s)
                /\ send[s].conv = task[t].conv => Seen(s) \subseteq read[t]
        /\ \A r, s \in Sends :
              send[r].pc = "resync" /\ read[r] # None /\ Settled(s)
                /\ send[s].conv = send[r].conv => Seen(s) \subseteq read[r]

\* The moves keep what is stored.
LEMMA StoredStep == Types /\ Known /\ StoredInv /\ Moves => StoredInv'
<1> SUFFICES ASSUME Types, Known, StoredInv, Moves PROVE StoredInv'
  OBVIOUS
<1>1. ASSUME NEW s \in Sends PROVE SendMove(s) /\ TurnMove(s) /\ ReadMove(s)
  BY DEF Moves
<1>2. ASSUME NEW s \in Sends, send'[s].pc \in {"sleep", "resync", "over"}
      PROVE  turn'[s] # "asked"
  <2>1. CASE send[s].pc \in {"sleep", "resync", "over"}
    <3>1. turn[s] # "asked" /\ (send[s].pc = "sleep" => send[s].aborted)
      BY <2>1 DEF StoredInv
    <3> QED
      BY <1>1, <2>1, <3>1 DEF TurnMove
  <2>2. CASE send[s].pc = "stream"
    BY <1>1, <1>2, <2>2 DEF SendMove
  <2>3. CASE send[s].pc \in {"idle", "create"}
    <3>1. turn[s] = "none"
      BY <2>3 DEF Known
    <3> QED
      BY <1>1, <2>3, <3>1 DEF TurnMove
  <2> QED
    BY <2>1, <2>2, <2>3 DEF Types, SendPCs
<1>3. ASSUME NEW s \in Sends, send'[s].pc = "sleep" PROVE send'[s].aborted
  BY <1>1, <1>3 DEF SendMove, StoredInv
<1>4. ASSUME NEW s \in Sends, turn'[s] \in {"asked", "answered"}
      PROVE  send'[s].conv = send[s].conv /\ Existed(send[s].conv)
  <2>1. turn[s] # "none" \/ send[s].pc \in {"stream", "sleep"}
    BY <1>1, <1>4 DEF TurnMove
  <2>2. Existed(send[s].conv) /\ send[s].pc \notin {"idle", "create"}
    BY <2>1 DEF Known, Busy
  <2> QED
    BY <1>1, <1>4, <2>2 DEF TurnMove, SendMove
<1>5. ASSUME NEW s \in Sends, turn'[s] \in {"asked", "answered"},
             thread'[send'[s].conv] \notin {None, Gone}
      PROVE  <<s, "question">> \in thread'[send'[s].conv]
  <2>1. PICK c \in Convs : c = send[s].conv /\ c = send'[s].conv /\ thread[c] # None
    BY <1>4, <1>5 DEF Existed
  <2>2. Present(c) /\ thread[c] \subseteq thread'[c]
    BY <1>5, <2>1 DEF Moves, ThreadMove, Present
  <2>3. CASE turn[s] \in {"asked", "answered"}
    BY <2>1, <2>2, <2>3 DEF StoredInv
  <2>4. CASE turn[s] \notin {"asked", "answered"}
    BY <1>1, <1>5, <2>1, <2>4 DEF TurnMove, Present
  <2> QED
    BY <2>3, <2>4
<1>6. ASSUME NEW s \in Sends, turn'[s] = "answered",
             thread'[send'[s].conv] \notin {None, Gone}
      PROVE  <<s, "answer">> \in thread'[send'[s].conv]
  <2>1. PICK c \in Convs : c = send[s].conv /\ c = send'[s].conv /\ thread[c] # None
    BY <1>4, <1>6 DEF Existed
  <2>2. Present(c) /\ thread[c] \subseteq thread'[c]
    BY <1>6, <2>1 DEF Moves, ThreadMove, Present
  <2>3. CASE turn[s] = "answered"
    BY <2>1, <2>2, <2>3 DEF StoredInv
  <2>4. CASE turn[s] # "answered"
    BY <1>1, <1>6, <2>1, <2>4 DEF TurnMove, Present
  <2> QED
    BY <2>3, <2>4
<1>7. ASSUME NEW s \in Sends, send'[s].pc = "resync", turn'[s] = "answered", read'[s] # None
      PROVE  Seen(s) \subseteq read'[s]
  <2>1. CASE read'[s] = read[s]
    <3>1. send[s].pc = "resync" /\ send'[s] = send[s]
      BY <1>1, <1>7, <2>1 DEF SendMove, StoredInv
    <3>2. turn[s] # "asked"
      BY <1>1, <1>7, <3>1 DEF StoredInv
    <3>3. turn[s] = "answered"
      BY <1>1, <1>7, <3>2 DEF TurnMove
    <3> QED
      BY <1>7, <2>1, <3>1, <3>2, <3>3 DEF StoredInv
  <2>2. CASE Got(s, send[s].conv)
    BY <1>7, <2>2 DEF Got, StoredInv, Seen
  <2> QED
    BY <1>1, <1>7, <2>1, <2>2 DEF ReadMove
<1>8. ASSUME NEW s \in Sends, send'[s].pc # "resync" PROVE read'[s] = None
  <2>1. CASE read'[s] = read[s]
    BY <1>1, <1>8, <2>1 DEF SendMove, StoredInv
  <2>2. CASE send[s].pc = "resync" /\ Got(s, send[s].conv)
    BY <1>8, <2>2 DEF Got
  <2> QED
    BY <1>1, <2>1, <2>2 DEF ReadMove
<1>9. ASSUME NEW t \in Tasks, ~Waiting(t, "open")' PROVE read'[t] = None
  <2>1. TaskMove(t) /\ (~Waiting(t, "open") => read[t] = None)
    BY DEF Moves, StoredInv
  <2>2. CASE task'[t] = task[t]
    <3>1. ~Waiting(t, "open")
      BY <1>9, <2>2 DEF Waiting
    <3>2. CASE read'[t] = read[t]
      BY <2>1, <3>1, <3>2
    <3>3. CASE task[t].pc = "idle" \/ task'[t].pc = "over"
      BY <2>1, <3>1, <3>3 DEF TaskMove
    <3> QED
      BY <2>1, <3>1, <3>2, <3>3 DEF TaskMove
  <2>3. CASE task'[t] # task[t]
    BY <2>1, <2>3 DEF TaskMove, Waiting
  <2> QED
    BY <2>2, <2>3
<1> QED
  BY <1>2, <1>3, <1>5, <1>6, <1>7, <1>8, <1>9 DEF StoredInv, Present

\* Who has settled had settled before, or ends its resync with this step.
LEMMA SettledMove ==
    ASSUME Types, Known, StoredInv, Moves, NEW s \in Sends, Settled(s)'
    PROVE  /\ send'[s].conv = send[s].conv /\ turn[s] = "answered" /\ Existed(send[s].conv)
           /\ \/ Settled(s)
              \/ /\ send[s].pc = "resync" /\ read[s] # None
                 /\ Show(send[s].conv, read[s])
<1>1. /\ SendMove(s) /\ TurnMove(s) /\ s \notin failed /\ s \notin failed'
      /\ send'[s].pc = "over" /\ turn'[s] = "answered"
  BY DEF Moves, HistoryMove, Settled
<1>2. /\ send'[s].conv = send[s].conv
      /\ \/ send'[s] = send[s]
         \/ send[s].pc = "resync" /\ read[s] # None /\ Show(send[s].conv, read[s])
  BY <1>1 DEF SendMove
<1>3. send[s].pc \in {"resync", "over"}
  BY <1>1, <1>2
<1>4. turn[s] # "asked"
  BY <1>3 DEF StoredInv
<1>5. turn[s] = "answered"
  BY <1>1, <1>4 DEF TurnMove
<1>6. Existed(send[s].conv)
  BY <1>5 DEF Known
<1> QED
  BY <1>1, <1>2, <1>3, <1>5, <1>6 DEF Settled

\* The moves keep what was read up to date.
LEMMA ReadStep ==
    Types /\ Known /\ LockInv /\ StoredInv /\ ReadInv /\ Moves => ReadInv'
<1> SUFFICES ASSUME Types, Known, LockInv, StoredInv, ReadInv, Moves, ~crossed'
             PROVE  ReadInv'
  BY DEF ReadInv
<1>1. ~crossed /\ OneAnswer
  BY DEF Moves, HistoryMove, LockInv
<1>2. ASSUME NEW t \in Tasks, latest' = t, Waiting(t, "open")'
      PROVE  /\ \/ /\ latest = t /\ Waiting(t, "open") /\ task'[t] = task[t]
                   /\ read'[t] = read[t] \/ Got(t, task[t].conv)
                \/ task[t].pc = "idle" /\ read'[t] = None
             /\ ~streaming'
  <2>1. /\ TaskMove(t) /\ (latest = t \/ task[t].pc = "idle") /\ (streaming' => streaming)
    BY <1>2 DEF Moves, HistoryMove
  <2>2. task'[t].pc = "wait" /\ task'[t].kind = "open"
    BY <1>2 DEF Waiting
  <2>3. CASE task[t].pc = "idle"
    <3>1. read[t] = None
      BY <2>3 DEF StoredInv, Waiting
    <3>2. task'[t] # task[t]
      BY <2>2, <2>3
    <3> QED
      BY <1>2, <2>1, <2>2, <2>3, <3>1, <3>2 DEF TaskMove
  <2>4. CASE task[t].pc # "idle"
    <3>1. /\ task'[t] = task[t] /\ latest = t
          /\ read'[t] = read[t] \/ Got(t, task[t].conv)
      BY <2>1, <2>2, <2>4 DEF TaskMove
    <3>2. Waiting(t, "open")
      BY <2>2, <3>1 DEF Waiting
    <3>3. ~streaming
      BY <1>1, <3>1, <3>2 DEF ReadInv
    <3> QED
      BY <2>1, <3>1, <3>2, <3>3
  <2> QED
    BY <2>3, <2>4
<1>3. ASSUME NEW t \in Tasks, NEW s \in Sends, latest' = t, Waiting(t, "open")',
             read'[t] # None, Settled(s)', send'[s].conv = task'[t].conv
      PROVE  Seen(s) \subseteq read'[t]
  <2>1. /\ latest = t /\ Waiting(t, "open") /\ task'[t] = task[t]
        /\ read'[t] = read[t] \/ Got(t, task[t].conv)
    BY <1>2, <1>3
  <2>2. ~streaming
    BY <1>1, <2>1 DEF ReadInv
  <2>3. ~Busy(s)
    BY <1>1, <2>2 DEF OneAnswer
  <2>4. /\ send'[s].conv = send[s].conv /\ turn[s] = "answered" /\ Settled(s)
    BY <1>3, <2>3, SettledMove DEF Busy
  <2>5. CASE read'[t] = read[t]
    BY <1>1, <1>3, <2>1, <2>4, <2>5 DEF ReadInv
  <2>6. CASE Got(t, task[t].conv)
    BY <1>3, <2>1, <2>4, <2>6 DEF Got, StoredInv, Seen
  <2> QED
    BY <2>1, <2>5, <2>6
<1>4. ASSUME NEW r \in Sends, NEW s \in Sends, send'[r].pc = "resync", read'[r] # None,
             Settled(s)', send'[s].conv = send'[r].conv
      PROVE  Seen(s) \subseteq read'[r]
  <2>1. SendMove(r) /\ ReadMove(r)
    BY DEF Moves
  <2>2. send[r].pc = "resync"
    <3>1. CASE read'[r] = read[r]
      BY <1>4, <3>1 DEF StoredInv
    <3> QED
      BY <1>4, <2>1, <3>1 DEF ReadMove
  <2>3. send'[r] = send[r]
    BY <1>4, <2>1, <2>2 DEF SendMove
  <2>4. r # s
    BY <1>4 DEF Settled
  <2>5. ~Busy(s)
    BY <1>1, <2>2, <2>4 DEF OneAnswer, Busy
  <2>6. send'[s].conv = send[s].conv /\ turn[s] = "answered" /\ Settled(s)
    BY <1>4, <2>5, SettledMove DEF Busy
  <2>7. CASE read'[r] = read[r]
    BY <1>1, <1>4, <2>2, <2>3, <2>6, <2>7 DEF ReadInv
  <2>8. CASE Got(r, send[r].conv)
    BY <1>4, <2>3, <2>6, <2>8 DEF Got, StoredInv, Seen
  <2> QED
    BY <1>4, <2>1, <2>7, <2>8 DEF ReadMove
<1> QED
  BY <1>2, <1>3, <1>4 DEF ReadInv

\* No step takes a settled answer off the screen.
LEMMA StaysStep ==
    Types /\ Known /\ StoredInv /\ ReadInv /\ AnswerStays /\ Moves => AnswerStays'
<1> SUFFICES ASSUME Types, Known, StoredInv, ReadInv, AnswerStays, Moves,
                    NEW s \in Sends, Settled(s)', ~crossed', detail' # None,
                    detail'.id = send'[s].conv, thread'[detail'.id] \notin {None, Gone}
             PROVE  Seen(s) \subseteq detail'.seen
  BY DEF AnswerStays, Settled, Seen, Present
<1>1. ~crossed /\ DetailMove
  BY DEF Moves, HistoryMove
<1>2. /\ send'[s].conv = send[s].conv /\ turn[s] = "answered"
      /\ detail'.id \in Convs /\ thread[detail'.id] # None
      /\ \/ Settled(s)
         \/ send[s].pc = "resync" /\ read[s] # None /\ Show(send[s].conv, read[s])
  BY SettledMove DEF Existed
<1>3. CASE send[s].pc = "resync" /\ read[s] # None /\ Show(send[s].conv, read[s])
  <2>1. detail'.seen = read[s]
    BY <1>3 DEF Show
  <2> QED
    BY <1>2, <1>3, <2>1 DEF StoredInv
<1>4. CASE Settled(s)
  <2>1. CASE detail' = detail
    <3>1. Present(detail.id)
      BY <1>2, <2>1 DEF Moves, ThreadMove, Present
    <3> QED
      BY <1>1, <1>2, <1>4, <2>1, <3>1 DEF AnswerStays, Settled, Seen
  <2>2. ASSUME NEW c \in Convs, thread[c] = None, Show(c, {}) PROVE FALSE
    BY <1>2, <2>2 DEF Show
  <2>3. ASSUME NEW t \in Tasks, Waiting(t, "open"), read[t] # None, Show(task[t].conv, read[t]),
               latest = t
        PROVE  Seen(s) \subseteq detail'.seen
    <3>1. detail'.id = task[t].conv /\ detail'.seen = read[t]
      BY <2>3 DEF Show
    <3> QED
      BY <1>1, <1>2, <1>4, <2>3, <3>1 DEF ReadInv
  <2>4. ASSUME NEW r \in Sends, send[r].pc = "resync", read[r] # None,
               Show(send[r].conv, read[r])
        PROVE  Seen(s) \subseteq detail'.seen
    <3>1. detail'.id = send[r].conv /\ detail'.seen = read[r]
      BY <2>4 DEF Show
    <3> QED
      BY <1>1, <1>2, <1>4, <2>4, <3>1 DEF ReadInv
  <2> QED
    BY <1>1, <2>1, <2>2, <2>3, <2>4 DEF DetailMove
<1> QED
  BY <1>2, <1>3, <1>4

\* An answer that was stored while the client still listened stays on the
\* screen, with its question, when the live text is replaced by the thread
\* (the resync in send()).
THEOREM AnswerStaysAlways == Spec => []AnswerStays
<1> DEFINE Inv == Types /\ Known /\ LockInv /\ StoredInv /\ ReadInv /\ AnswerStays
<1>1. Init => Inv
  <2> SUFFICES ASSUME Init PROVE Inv
    OBVIOUS
  <2>1. LockInv
    BY DEF Init, LockInv, OneAnswer, Busy
  <2>2. StoredInv
    BY DEF Init, StoredInv
  <2>3. ReadInv /\ AnswerStays
    BY DEF Init, ReadInv, AnswerStays, Waiting
  <2> QED
    BY <2>1, <2>2, <2>3, TypesInit
<1>2. Inv /\ [Next]_vars => Inv'
  BY TypesStep, LockStep, StepMoves, StoredStep, ReadStep, StaysStep
<1>3. Inv => AnswerStays
  OBVIOUS
<1> QED
  BY <1>1, <1>2, <1>3, PTL DEF Spec

================================================================================
