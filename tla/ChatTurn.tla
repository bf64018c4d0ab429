-------------------------------- MODULE ChatTurn --------------------------------
(***************************************************************************)
(* The chat endpoint (gateway/app/chat.py) on the tables conversations and *)
(* messages (gateway/app/db.py): send_message stores the user's turn,      *)
(* streams the answer and stores that, at once or, when the client went    *)
(* away or the model failed, in a task spawned for it.                     *)
(*                                                                         *)
(* Every await on the database is a step, at which other requests, a       *)
(* DELETE of the conversation, a cancellation or a crash may come.  An     *)
(* answer is its number of tokens.                                         *)
(***************************************************************************)
EXTENDS Naturals, FiniteSets

CONSTANTS Turns,      \* requests to send_message
          Convs,      \* conversations
          Window,     \* settings.context_window
          MaxTokens,  \* bound: tokens of an answer
          MaxFaults,  \* bound: failed database calls and crashes
          None

ASSUME ParamAssumption ==
    /\ Window \in Nat \ {0} /\ MaxTokens \in Nat /\ MaxFaults \in Nat
    /\ None \notin Convs \cup Turns

VARIABLES
    convs,    \* the rows of conversations
    title,    \* whose message gave a conversation its title
    rows,     \* the rows of messages
    clock,    \* created_at of the row inserted last
    pc,       \* the await each request is at
    conv,     \* the conversation of a request
    context,  \* the messages replayed to the model
    got,      \* collected: tokens so far
    bg,       \* the task of _spawn_persist, and the await it is at
    outcome,  \* the status that task stores
    ended,    \* history: the model's stream came to its end
    faults

tables == <<convs, title, rows, clock>>
request == <<pc, conv, context, got>>
background == <<bg, outcome>>
vars == <<tables, request, background, ended, faults>>

PCs == {"idle", "addUser", "title", "history", "ready", "started", "generating",
        "store", "touch", "sendDone", "sendError",
        "done", "errored", "cancelled", "gone", "refused", "failed", "dead"}
InFlight == {"addUser", "title", "history", "ready", "started", "generating",
             "store", "touch", "sendDone", "sendError"}
Row == [turn : Turns, role : {"user", "assistant"},
        status : {"complete", "cancelled", "error"}, len : 0..MaxTokens, at : Nat]

TypeOK ==
    /\ convs \subseteq Convs
    /\ title \in [Convs -> Turns \cup {None}]
    /\ rows \subseteq Row /\ IsFiniteSet(rows)
    /\ clock \in Nat
    /\ pc \in [Turns -> PCs]
    /\ conv \in [Turns -> Convs \cup {None}]
    /\ context \in [Turns -> SUBSET Row]
    /\ got \in [Turns -> 0..MaxTokens]
    /\ bg \in [Turns -> {"none", "store", "touch", "over", "lost"}]
    /\ outcome \in [Turns -> {"none", "cancelled", "error"}]
    /\ ended \subseteq Turns
    /\ faults \in 0..MaxFaults
    /\ \A t \in Turns : (bg[t] = "none") <=> (outcome[t] = "none")
    /\ \A t \in Turns : pc[t] \in {"idle"} \cup InFlight => bg[t] = "none" \/ pc[t] = "sendError"

Init ==
    /\ convs = Convs
    /\ title = [c \in Convs |-> None]
    /\ rows = {} /\ clock = 0
    /\ pc = [t \in Turns |-> "idle"]
    /\ conv = [t \in Turns |-> None]
    /\ context = [t \in Turns |-> {}]
    /\ got = [t \in Turns |-> 0]
    /\ bg = [t \in Turns |-> "none"]
    /\ outcome = [t \in Turns |-> "none"]
    /\ ended = {} /\ faults = 0

Goto(t, next) == pc' = [pc EXCEPT ![t] = next]
Fault == faults < MaxFaults /\ faults' = faults + 1

Message(t, role, status, len) ==
    [turn |-> t, role |-> role, status |-> status, len |-> len, at |-> clock + 1]

\* Mutation: messages has no foreign key.
NoForeignKey(t) == TRUE

\* INSERT INTO messages; the foreign key refuses it once the conversation is gone.
HasConv(t) == conv[t] \in convs
AddMessage(t, role, status, len) ==
    /\ rows' = rows \cup {Message(t, role, status, len)}
    /\ clock' = clock + 1

-----------------------------------------------------------------------------
(* send_message up to the response.                                         *)

\* 404 conversation not found, or 422 message content is empty.
Refuse(t, c) ==
    /\ pc[t] = "idle"
    /\ Goto(t, "refused")
    /\ conv' = [conv EXCEPT ![t] = c]
    /\ UNCHANGED <<tables, context, got, background, ended, faults>>

Accept(t, c) ==
    /\ pc[t] = "idle" /\ c \in convs
    /\ Goto(t, "addUser")
    /\ conv' = [conv EXCEPT ![t] = c]
    /\ UNCHANGED <<tables, context, got, background, ended, faults>>

AddUser(t) ==
    /\ pc[t] = "addUser" /\ HasConv(t)
    /\ AddMessage(t, "user", "complete", 0)
    /\ Goto(t, "title")
    /\ UNCHANGED <<convs, title, conv, context, got, background, ended, faults>>

\* UPDATE ... WHERE title IS NULL, on a row that may be gone.
SetTitle(t) ==
    /\ pc[t] = "title"
    /\ title' = IF HasConv(t) /\ title[conv[t]] = None
                THEN [title EXCEPT ![conv[t]] = t] ELSE title
    /\ Goto(t, "history")
    /\ UNCHANGED <<convs, rows, clock, conv, context, got, background, ended, faults>>

Replayable(t) ==
    {m \in rows : conv[m.turn] = conv[t] /\ m.status # "error"}

\* Mutation: ORDER BY created_at ASC LIMIT, the oldest messages.
OldestMessages(s) == {m \in s : Cardinality({n \in s : n.at < m.at}) < Window}

\* ORDER BY created_at DESC LIMIT
Newer(s, m) == {n \in s : n.at > m.at}
RecentMessages(s) == {m \in s : Cardinality(Newer(s, m)) < Window}

History(t) ==
    /\ pc[t] = "history"
    /\ context' = [context EXCEPT ![t] = RecentMessages(Replayable(t))]
    /\ Goto(t, "ready")
    /\ UNCHANGED <<tables, conv, got, background, ended, faults>>

\* The database call raises, for want of the conversation or of the database:
\* the client gets a 500.  A failed INSERT may have been applied.
FailEarly(t) ==
    /\ \/ pc[t] = "addUser" /\ ~HasConv(t) /\ UNCHANGED faults
          /\ UNCHANGED <<rows, clock>>
       \/ pc[t] \in {"addUser", "title", "history"} /\ Fault
          /\ \/ UNCHANGED <<rows, clock>>
             \/ pc[t] = "addUser" /\ HasConv(t) /\ AddMessage(t, "user", "complete", 0)
    /\ Goto(t, "failed")
    /\ UNCHANGED <<convs, title, conv, context, got, background, ended>>

-----------------------------------------------------------------------------
(* stream(): the answer.                                                    *)

\* The generator runs up to the yield of its "start" event.
StartStream(t) ==
    /\ pc[t] = "ready"
    /\ Goto(t, "started")
    /\ UNCHANGED <<tables, conv, context, got, background, ended, faults>>

CallModel(t) ==
    /\ pc[t] = "started"
    /\ Goto(t, "generating")
    /\ UNCHANGED <<tables, conv, context, got, background, ended, faults>>

\* llm.stream() raises outside the try: the conversation's provider is no
\* longer configured.  The response ends without an "error" event.
ProviderGone(t) ==
    /\ pc[t] = "started"
    /\ Goto(t, "failed")
    /\ UNCHANGED <<tables, conv, context, got, background, ended, faults>>

Token(t) ==
    /\ pc[t] = "generating" /\ got[t] < MaxTokens
    /\ got' = [got EXCEPT ![t] = @ + 1]
    /\ UNCHANGED <<tables, pc, conv, context, background, ended, faults>>

GenerationEnds(t) ==
    /\ pc[t] = "generating"
    /\ Goto(t, "store")
    /\ ended' = ended \cup {t}
    /\ UNCHANGED <<tables, conv, context, got, background, faults>>

Spawn(t, status) ==
    /\ bg' = [bg EXCEPT ![t] = "store"]
    /\ outcome' = [outcome EXCEPT ![t] = status]

GenerationFails(t) ==
    /\ pc[t] = "generating"
    /\ Spawn(t, "error")
    /\ Goto(t, "sendError")
    /\ UNCHANGED <<tables, conv, context, got, ended, faults>>

\* Mutation: the answer is stored in the background.
StoreLater(t) ==
    /\ pc[t] = "store"
    /\ Spawn(t, "cancelled")
    /\ Goto(t, "sendDone")
    /\ UNCHANGED <<tables, conv, context, got, ended, faults>>

\* _persist_assistant_turn(..., "complete"); where the conversation is gone, the
\* violated foreign key is swallowed.
Store(t) ==
    /\ pc[t] = "store"
    /\ IF HasConv(t) THEN /\ AddMessage(t, "assistant", "complete", got[t])
                          /\ Goto(t, "touch")
                     ELSE /\ Goto(t, "sendDone")
                          /\ UNCHANGED <<rows, clock>>
    /\ UNCHANGED <<convs, title, conv, context, got, background, ended, faults>>

\* Mutation: _persist_assistant_turn has no "except Exception".
StoreFailsLoudly(t) ==
    /\ pc[t] \in {"store", "touch"}
    /\ UNCHANGED <<rows, clock>> \/ (pc[t] = "store" /\ HasConv(t) /\ AddMessage(t, "assistant", "complete", got[t]))
    /\ Spawn(t, "error")
    /\ Goto(t, "sendError")
    /\ Fault
    /\ UNCHANGED <<convs, title, conv, context, got, ended>>

\* Any other failure is swallowed too; the INSERT may have been applied.
StoreFails(t) ==
    /\ pc[t] \in {"store", "touch"}
    /\ UNCHANGED <<rows, clock>> \/ (pc[t] = "store" /\ HasConv(t) /\ AddMessage(t, "assistant", "complete", got[t]))
    /\ Goto(t, "sendDone")
    /\ Fault
    /\ UNCHANGED <<convs, title, conv, context, got, background, ended>>

\* touch_conversation
Touch(t) ==
    /\ pc[t] = "touch"
    /\ Goto(t, "sendDone")
    /\ UNCHANGED <<tables, conv, context, got, background, ended, faults>>

SendDone(t) ==
    /\ pc[t] = "sendDone"
    /\ Goto(t, "done")
    /\ UNCHANGED <<tables, conv, context, got, background, ended, faults>>

SendError(t) ==
    /\ pc[t] = "sendError"
    /\ Goto(t, "errored")
    /\ UNCHANGED <<tables, conv, context, got, background, ended, faults>>

\* Mutation: nothing is spawned.
CancelForgets(t) ==
    /\ pc[t] \in {"generating", "store", "touch", "sendDone"}
    /\ Goto(t, "cancelled")
    /\ UNCHANGED <<tables, conv, context, got, background, ended, faults>>

\* CancelledError or GeneratorExit inside the try, the awaits of
\* _persist_assistant_turn and the yield of "done" included.  A cancelled INSERT
\* may have been applied.
Cancel(t) ==
    /\ pc[t] \in {"generating", "store", "touch", "sendDone"}
    /\ UNCHANGED <<rows, clock>> \/ (pc[t] = "store" /\ HasConv(t) /\ AddMessage(t, "assistant", "complete", got[t]))
    /\ Spawn(t, "cancelled")
    /\ Goto(t, "cancelled")
    /\ UNCHANGED <<convs, title, conv, context, got, ended, faults>>

\* The client goes away where no handler is: before the first token is asked
\* for, or at the yield of "error".
Leave(t) ==
    /\ pc[t] \in {"ready", "started", "sendError"}
    /\ Goto(t, "gone")
    /\ UNCHANGED <<tables, conv, context, got, background, ended, faults>>

-----------------------------------------------------------------------------
(* The spawned task.                                                        *)

BgGoto(t, next) == bg' = [bg EXCEPT ![t] = next]

\* Mutation: an empty answer is stored as well.
BgStoreEmpty(t) ==
    /\ bg[t] = "store"
    /\ IF HasConv(t) THEN /\ AddMessage(t, "assistant", outcome[t], got[t])
                          /\ BgGoto(t, "touch")
       ELSE BgGoto(t, "over") /\ UNCHANGED <<rows, clock>>
    /\ UNCHANGED <<convs, title, request, outcome, ended, faults>>

\* Without a token nothing but the conversation's updated_at is written.
BgStore(t) ==
    /\ bg[t] = "store"
    /\ IF got[t] = 0 THEN BgGoto(t, "touch") /\ UNCHANGED <<rows, clock>>
       ELSE IF HasConv(t) THEN /\ AddMessage(t, "assistant", outcome[t], got[t])
                               /\ BgGoto(t, "touch")
       ELSE BgGoto(t, "over") /\ UNCHANGED <<rows, clock>>
    /\ UNCHANGED <<convs, title, request, outcome, ended, faults>>

BgTouch(t) ==
    /\ bg[t] = "touch"
    /\ BgGoto(t, "over")
    /\ UNCHANGED <<tables, request, outcome, ended, faults>>

BgFails(t) ==
    /\ bg[t] \in {"store", "touch"}
    /\ UNCHANGED <<rows, clock>>
       \/ (bg[t] = "store" /\ got[t] > 0 /\ HasConv(t)
           /\ AddMessage(t, "assistant", outcome[t], got[t]))
    /\ BgGoto(t, "over")
    /\ Fault
    /\ UNCHANGED <<convs, title, request, outcome, ended>>

-----------------------------------------------------------------------------
(* The rest of the world.                                                   *)

\* DELETE FROM conversations, ON DELETE CASCADE to messages.
Delete(c) ==
    /\ c \in convs
    /\ convs' = convs \ {c}
    /\ rows' = {m \in rows : conv[m.turn] # c}
    /\ UNCHANGED <<title, clock, request, background, ended, faults>>

\* The gateway's process ends, with its requests and spawned tasks.
Crash ==
    /\ pc' = [t \in Turns |-> IF pc[t] \in InFlight THEN "dead" ELSE pc[t]]
    /\ bg' = [t \in Turns |-> IF bg[t] \in {"store", "touch"} THEN "lost" ELSE bg[t]]
    /\ Fault
    /\ UNCHANGED <<tables, conv, context, got, outcome, ended>>

Ask(t) == \/ \E c \in Convs : Refuse(t, c) \/ Accept(t, c)
          \/ AddUser(t) \/ SetTitle(t) \/ History(t) \/ FailEarly(t)
Answer(t) == \/ StartStream(t) \/ CallModel(t) \/ ProviderGone(t) \/ Token(t)
             \/ GenerationEnds(t) \/ GenerationFails(t) \/ Store(t) \/ StoreFails(t)
             \/ Touch(t) \/ SendDone(t) \/ SendError(t) \/ Cancel(t) \/ Leave(t)
Persist(t) == BgStore(t) \/ BgTouch(t) \/ BgFails(t)

Next == \/ \E t \in Turns : Ask(t) \/ Answer(t) \/ Persist(t)
        \/ \E c \in Convs : Delete(c)
        \/ Crash

\* A task that was spawned, and is kept in _pending, runs.
Fairness == \A t \in Turns : WF_vars(BgStore(t)) /\ WF_vars(BgTouch(t))

Spec == Init /\ [][Next]_vars /\ Fairness

-----------------------------------------------------------------------------
(* What the endpoint promises.                                              *)

Answers(t) == {m \in rows : m.turn = t /\ m.role = "assistant"}
Questions(t) == {m \in rows : m.turn = t /\ m.role = "user"}
Stored(t, status) == \E m \in Answers(t) : m.status = status

\* A resumed conversation is honest: a "complete" answer is all that the model
\* said, to the end of its stream, and a partial one is a text of at least a
\* token that the client saw begin (chat.py:56-78, 127-150).
Honest ==
    \A t \in Turns : \A m \in Answers(t) :
        /\ m.len = got[t]
        /\ m.status = "complete" => t \in ended
        /\ m.status # "complete" => m.len > 0

\* Every answer stands behind its question: no interleaving of requests, deletes
\* and spawned tasks leaves an answer alone (chat.py:103, schema.sql:22).
AnswerHasQuestion ==
    \A t \in Turns : \A m \in Answers(t) : \E q \in Questions(t) : q.at < m.at

\* A turn is stored once, unless it is cancelled: then once per status, and
\* nothing that fails makes a second row (chat.py:56-78, 134-150).
StoredOnce ==
    \A t \in Turns :
        /\ \A m, n \in Answers(t) : m.status = n.status => m = n
        /\ pc[t] # "cancelled" => Cardinality(Answers(t)) <= 1

\* The "done" event tells the truth: the answer is stored by then, if its
\* conversation still stands and no database call failed (chat.py:134-138).
DoneMeansStored ==
    \A t \in Turns : pc[t] = "done" /\ HasConv(t) /\ faults = 0 => Stored(t, "complete")

\* The model sees the question it is to answer, unless a window full of messages
\* of other requests was stored behind it before the history was read, or the
\* conversation is gone (chat.py:103-108).
QuestionReplayed ==
    \A t \in Turns :
        (/\ pc[t] \in {"ready", "started", "generating", "store"} /\ HasConv(t)
         /\ Questions(t) \cap context[t] = {})
            => /\ Cardinality(context[t]) = Window
               /\ \A q \in Questions(t) : \A m \in context[t] : q.at < m.at

\* The partial answer of a cancelled or failed turn is stored in the end, if its
\* conversation stands and neither a crash nor the database prevents it
\* (chat.py:81-84, 139-150).
PartialStored ==
    \A t \in Turns :
        (pc[t] \in {"cancelled", "errored"} /\ got[t] > 0)
            ~> (Answers(t) # {} \/ ~HasConv(t) \/ faults > 0)

(* What the source says of itself, and the code does not keep.              *)

\* "complete" is the normal case, "cancelled" and "error" mark partial assistant
\* turns (schema.sql:25-26): a turn is not both.
OneOutcome == \A t \in Turns : Stored(t, "complete") => ~Stored(t, "cancelled")
=============================================================================
