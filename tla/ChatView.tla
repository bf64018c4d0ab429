-------------------------------- MODULE ChatView --------------------------------
(***************************************************************************)
(* The chat page of the web client (web/src/components/ChatView.tsx and    *)
(* web/src/api.ts): which conversation is selected, which thread is shown, *)
(* and what becomes of it while requests are under way.                    *)
(*                                                                         *)
(* A handler runs from one await to the next without interruption, and     *)
(* reads the state of the render it was made in.  Answers come in any      *)
(* order.  The gateway is what a browser sees of it: a thread is the set   *)
(* of its messages, <<s, "question">> and <<s, "answer">> for the s-th     *)
(* send; how they get there is ChatTurn's subject.                         *)
(***************************************************************************)
EXTENDS Naturals, FiniteSets

CONSTANTS
    None,
    Gone,
    MaxConvs,   \* conversations, of which the first is there from the beginning
    MaxSends,   \* calls of send()
    MaxTasks,   \* calls of openConversation, startNew and removeConversation
    MaxBegun,   \* calls of all of these
    MaxFaults   \* requests that fail on their way

ASSUME Bounds == {MaxConvs, MaxSends, MaxTasks, MaxBegun, MaxFaults} \subseteq Nat

Convs == 1..MaxConvs
Sends == 1..MaxSends
Tasks == (MaxSends + 1)..(MaxSends + MaxTasks)
Messages == Sends \X {"question", "answer"}

\* None and Gone are neither an id nor a thread.
ASSUME Values ==
    /\ None # Gone /\ None \notin Nat
    /\ None \notin [id : Convs, seen : SUBSET Messages]
    /\ \A messages \in SUBSET Messages : messages \notin {None, Gone}

VARIABLES
    activeId,
    detail,     \* the thread shown: [id, seen], or None
    streaming,
    controller, \* abortRef.current: the send that Stop aborts
    task,       \* [kind, conv, pc] of each of Tasks
    send,       \* [pc, conv, aborted] of each of Sends
    read,       \* what GET has read for a task or send; None before
    thread,     \* at the gateway: conversation -> its messages; None before it
                \* is created, Gone once it is deleted
    turn,       \* at the gateway: the turn of each send
    faults,
    latest,     \* history: the operation on the view that was begun last
    crossed,    \* history: a result was shown that was not the latest one's
    failed      \* history: the operations whose thread could not be loaded

view == <<activeId, detail>>
client == <<streaming, controller, task, send>>
history == <<latest, crossed, failed>>
vars == <<view, client, read, thread, turn, faults, history>>

Present(c) == thread[c] \notin {None, Gone}
\* Calls are taken in their order.
Idle(p, calls, of) ==
    /\ of[p].pc = "idle" /\ \A q \in calls : q < p => of[q].pc # "idle"
    /\ Cardinality({t \in Tasks : task[t].pc # "idle"})
         + Cardinality({s \in Sends : send[s].pc # "idle"}) < MaxBegun

Init ==
    /\ activeId = None /\ detail = None /\ streaming = FALSE /\ controller = None
    /\ task = [t \in Tasks |-> [kind |-> None, conv |-> None, pc |-> "idle"]]
    /\ send = [s \in Sends |-> [pc |-> "idle", conv |-> None, aborted |-> FALSE]]
    /\ read = [p \in Tasks \cup Sends |-> None]
    /\ thread = [c \in Convs |-> IF c = 1 THEN {} ELSE None]
    /\ turn = [s \in Sends |-> "none"]
    /\ faults = 0
    /\ latest = None /\ crossed = FALSE /\ failed = {}

-----------------------------------------------------------------------------
(* What the handlers share.                                                 *)

Begun(p) == latest' = p
\* A result of operation p changes the view.
Applied(p) == crossed' = (crossed \/ latest # p)

Show(c, messages) == detail' = [id |-> c, seen |-> messages]

\* createConversation() has answered.
Create(c) ==
    /\ thread[c] = None /\ \A d \in Convs : d < c => thread[d] # None
    /\ thread' = [thread EXCEPT ![c] = {}]

Fault == faults < MaxFaults /\ faults' = faults + 1

\* Mutation: send() does not look whether an answer is streaming.
Always == TRUE
MaySend == ~streaming

\* Mutation: the input stays locked when an answer is over.
StayLocked == TRUE
Unlocked == FALSE

-----------------------------------------------------------------------------
(* openConversation, startNew, removeConversation.                          *)

Start(t, kind, c) ==
    /\ Idle(t, Tasks, task)
    /\ task' = [task EXCEPT ![t] = [kind |-> kind, conv |-> c, pc |-> "wait"]]
Finish(t) == task' = [task EXCEPT ![t].pc = "over", ![t].conv = None]
Consumed(p) == read' = [read EXCEPT ![p] = None]
Waiting(t, kind) == task[t].pc = "wait" /\ task[t].kind = kind

Open(t) ==
    /\ ~streaming
    /\ \E c \in Convs :
          /\ Present(c)
          /\ Start(t, "open", c)
          /\ activeId' = c
    /\ Begun(t)
    /\ UNCHANGED <<detail, streaming, controller, send, read, thread, turn, faults,
                   crossed, failed>>

\* .then(setDetail), or .catch: the banner.
Opened(t) ==
    /\ Waiting(t, "open")
    /\ Finish(t)
    /\ \/ /\ read[t] # None
          /\ Show(task[t].conv, read[t])
          /\ Applied(t)
          /\ UNCHANGED <<faults, failed>>
       \/ /\ \/ Fault
             \/ ~Present(task[t].conv) /\ UNCHANGED faults
          /\ failed' = failed \cup {t}
          /\ UNCHANGED <<detail, crossed>>
    /\ Consumed(t)
    /\ UNCHANGED <<activeId, streaming, controller, send, thread, turn, latest>>

StartNew(t) ==
    /\ ~streaming
    /\ Start(t, "new", None)
    /\ Begun(t)
    /\ UNCHANGED <<view, streaming, controller, send, read, thread, turn, faults,
                   crossed, failed>>

Started(t) ==
    /\ Waiting(t, "new")
    /\ Finish(t)
    /\ \/ /\ \E c \in Convs : Create(c) /\ activeId' = c /\ Show(c, {})
          /\ Applied(t)
          /\ UNCHANGED <<faults, failed>>
       \/ Fault /\ failed' = failed \cup {t} /\ UNCHANGED <<view, thread, crossed>>
    /\ UNCHANGED <<streaming, controller, send, read, turn, latest>>

\* The handler keeps the activeId of its render: conv is the conversation to
\* delete, "remove" says that it was the selected one.
Remove(t) ==
    /\ \E c \in Convs :
          /\ Present(c)
          /\ Start(t, IF c = activeId THEN "remove" ELSE "removeOther", c)
          /\ IF c = activeId THEN Begun(t) ELSE UNCHANGED latest
    /\ UNCHANGED <<view, streaming, controller, send, read, thread, turn, faults,
                   crossed, failed>>

\* DELETE at the gateway; its messages go with it.
Delete(t) ==
    /\ Waiting(t, "remove") \/ Waiting(t, "removeOther")
    /\ Present(task[t].conv)
    /\ thread' = [thread EXCEPT ![task[t].conv] = Gone]
    /\ UNCHANGED <<view, client, read, turn, faults, history>>

\* Mutation: the thread of the deleted conversation stays on the screen.
KeepShown == detail
NothingShown == None

\* The answer, 204 or 404, or its loss.
Removed(t) ==
    /\ Waiting(t, "remove") \/ Waiting(t, "removeOther")
    /\ Finish(t)
    /\ \/ /\ ~Present(task[t].conv)
          /\ IF task[t].kind = "remove"
             THEN activeId' = None /\ detail' = NothingShown /\ Applied(t)
             ELSE UNCHANGED <<view, crossed>>
          /\ UNCHANGED <<faults, failed>>
       \/ Fault /\ failed' = failed \cup {t} /\ UNCHANGED <<view, crossed>>
    /\ UNCHANGED <<streaming, controller, send, read, thread, turn, latest>>

-----------------------------------------------------------------------------
(* send() and stop().                                                       *)

Goes(s, pc) == send' = [send EXCEPT ![s].pc = pc]

\* From setInput("") to the await of streamMessage.
Stream(s, c) ==
    /\ send' = [send EXCEPT ![s] = [pc |-> "stream", conv |-> c, aborted |-> FALSE]]
    /\ streaming' = TRUE
    /\ controller' = s

Send(s) ==
    /\ Idle(s, Sends, send) /\ MaySend
    /\ IF activeId = None
       THEN Goes(s, "create") /\ UNCHANGED <<streaming, controller>>
       ELSE Stream(s, activeId)
    /\ Begun(s)
    /\ UNCHANGED <<view, task, read, thread, turn, faults, crossed, failed>>

Created(s) ==
    /\ send[s].pc = "create"
    /\ \/ /\ \E c \in Convs :
                Create(c) /\ activeId' = c /\ Show(c, {}) /\ Stream(s, c)
          /\ Applied(s)
          /\ UNCHANGED <<faults, failed>>
       \/ /\ Fault /\ Goes(s, "over") /\ failed' = failed \cup {s}
          /\ UNCHANGED <<view, streaming, controller, thread, crossed>>
    /\ UNCHANGED <<task, read, turn, latest>>

\* Mutation: the answer is over for the client once its last token came.
HeardLastToken(s) == turn[s] \in {"asked", "answered", "unstored", "stored", "refused"}

\* streamMessage returns when the response ends, with "done", with "error", or
\* with a status that is not ok.
ResponseEnds(s) == turn[s] \in {"answered", "unstored", "failed", "stored", "refused"}

\* finally, up to the resync: abortRef is cleared.
Returns(s) ==
    /\ send[s].pc = "stream"
    /\ \/ ResponseEnds(s) /\ UNCHANGED <<turn, faults>>
       \/ /\ Fault                          \* "The response stream failed."
          /\ turn' = [turn EXCEPT ![s] = IF @ = "none" THEN "refused"
                                         ELSE IF @ = "asked" THEN "failed" ELSE @]
    /\ controller' = None
    /\ Goes(s, "resync")
    /\ UNCHANGED <<view, streaming, task, read, thread, history>>

\* stop(): the request is aborted, and finally sleeps first.
Stop ==
    /\ controller # None
    /\ LET s == controller
       IN  /\ send' = [send EXCEPT ![s].pc = "sleep", ![s].aborted = TRUE]
           /\ turn' = [turn EXCEPT ![s] = IF @ = "asked" THEN "failed" ELSE @]
    /\ controller' = None
    /\ UNCHANGED <<view, streaming, task, read, thread, faults, history>>

WakeUp(s) ==
    /\ send[s].pc = "sleep"
    /\ Goes(s, "resync")
    /\ UNCHANGED <<view, streaming, controller, task, read, thread, turn, faults, history>>

\* setDetail(await getConversation(convId)), then the input is free again.
Resynced(s) ==
    /\ send[s].pc = "resync"
    /\ \/ /\ read[s] # None
          /\ Show(send[s].conv, read[s])
          /\ Applied(s)
          /\ UNCHANGED <<faults, failed>>
       \/ /\ \/ Fault
             \/ ~Present(send[s].conv) /\ UNCHANGED faults
          /\ failed' = failed \cup {s}
          /\ UNCHANGED <<detail, crossed>>
    /\ streaming' = Unlocked
    /\ Goes(s, "over")
    /\ Consumed(s)
    /\ UNCHANGED <<activeId, controller, task, thread, turn, latest>>

-----------------------------------------------------------------------------
(* The gateway.                                                             *)

Put(c, message) == thread' = [thread EXCEPT ![c] = @ \cup {message}]

\* GET /v1/conversations/{id} reads the thread.
Reads(p, c) ==
    /\ read[p] = None /\ Present(c)
    /\ read' = [read EXCEPT ![p] = thread[c]]
    /\ UNCHANGED <<view, client, thread, turn, faults, history>>
GetFor(s) == send[s].pc = "resync" /\ Reads(s, send[s].conv)
Get ==
    \/ \E t \in Tasks : Waiting(t, "open") /\ Reads(t, task[t].conv)
    \/ \E s \in Sends : GetFor(s)

\* The question is stored before anything is generated, or 404.
Ask(s) ==
    /\ turn[s] = "none" /\ send[s].pc \in {"stream", "sleep"}
    /\ IF Present(send[s].conv)
       THEN /\ Put(send[s].conv, <<s, "question">>)
            /\ turn' = [turn EXCEPT ![s] = IF send[s].aborted THEN "failed" ELSE "asked"]
       ELSE turn' = [turn EXCEPT ![s] = "refused"] /\ UNCHANGED thread
    /\ UNCHANGED <<view, client, read, faults, history>>

\* Stored in full, before "done"; the foreign key lets no orphan in.
Answer(s) ==
    /\ turn[s] = "asked"
    /\ turn' = [turn EXCEPT ![s] = "answered"]
    /\ IF Present(send[s].conv) THEN Put(send[s].conv, <<s, "answer">>)
       ELSE UNCHANGED thread
    /\ UNCHANGED <<view, client, read, faults, history>>

\* The INSERT fails: it is logged, and "done" is sent all the same.
AnswerUnstored(s) ==
    /\ turn[s] = "asked" /\ Fault
    /\ turn' = [turn EXCEPT ![s] = "unstored"]
    /\ UNCHANGED <<view, client, read, thread, history>>

\* The model fails: an "error" event, and the part is stored by a task.
ModelFails(s) ==
    /\ turn[s] = "asked"
    /\ turn' = [turn EXCEPT ![s] = "failed"]
    /\ UNCHANGED <<view, client, read, thread, faults, history>>

\* What came before the end, at any later time; nothing of an empty part, or
\* when the INSERT fails.
PersistPart(s) ==
    /\ turn[s] = "failed"
    /\ turn' = [turn EXCEPT ![s] = "stored"]
    /\ \/ Present(send[s].conv) /\ Put(send[s].conv, <<s, "answer">>)
       \/ UNCHANGED thread
    /\ UNCHANGED <<view, client, read, faults, history>>

-----------------------------------------------------------------------------
User ==
    \/ Stop
    \/ \E t \in Tasks : Open(t) \/ StartNew(t) \/ Remove(t)
    \/ \E s \in Sends : Send(s)
Page ==
    \/ \E t \in Tasks : Opened(t) \/ Started(t) \/ Removed(t)
    \/ \E s \in Sends : Created(s) \/ Returns(s) \/ WakeUp(s) \/ Resynced(s)
Gateway ==
    \/ Get
    \/ \E t \in Tasks : Delete(t)
    \/ \E s \in Sends :
          Ask(s) \/ Answer(s) \/ AnswerUnstored(s) \/ ModelFails(s) \/ PersistPart(s)

Next == User \/ Page \/ Gateway

\* What a send waits for comes in the end: the gateway's answers and the
\* timer.  The user owes nothing, and other requests may hang.
Awaited ==
    \E s \in Sends :
        Returns(s) \/ WakeUp(s) \/ Resynced(s) \/ Ask(s) \/ Answer(s) \/ GetFor(s)

Spec == Init /\ [][Next]_vars /\ WF_vars(Awaited)

-----------------------------------------------------------------------------
(* Properties.                                                              *)

Busy(s) == send[s].pc \in {"stream", "sleep", "resync"}
AtRest ==
    /\ \A t \in Tasks : task[t].pc # "wait"
    /\ \A s \in Sends : send[s].pc \in {"idle", "over"}

\* When nothing is under way, the thread shown is that of the selected
\* conversation, unless a result came after the user had begun something else,
\* or a thread could not be loaded (openConversation, startNew,
\* removeConversation and send all set one without the other).
ShownIsSelected ==
    AtRest /\ ~crossed /\ failed \cap Tasks = {} =>
        IF detail = None THEN activeId = None ELSE activeId = detail.id

\* The lock is on exactly while an answer is under way, there is one at a time,
\* and Stop reaches it, unless a result crossed another operation
\* (send, stop: streaming is set after an await, abortRef by every send).
OneAnswer ==
    ~crossed =>
        /\ streaming <=> \E s \in Sends : Busy(s)
        /\ \A s, r \in Sends : Busy(s) /\ Busy(r) => s = r
        /\ \A s \in Sends : send[s].pc = "stream" => controller = s

\* An answer that was stored while the client still listened stays on the
\* screen, with its question, when the live text is replaced by the thread:
\* after "done", after a connection that broke before "done" came, and after
\* Stop (the resync in send(), _persist_assistant_turn before "done").  Not
\* promised is an answer whose INSERT failed: "done" is sent and the resync
\* takes it off the screen; nor a part, which a task stores at its own time.
AnswerStays ==
    \A s \in Sends :
        send[s].pc = "over" /\ s \notin failed /\ turn[s] = "answered" /\ ~crossed
          /\ detail # None /\ detail.id = send[s].conv /\ Present(detail.id) =>
            {<<s, "question">>, <<s, "answer">>} \subseteq detail.seen

\* The input does not stay locked: whatever fails, send() comes to its end
\* (the finally of send()).
Unlocks == streaming ~> ~streaming
=============================================================================
