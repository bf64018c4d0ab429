-------------------------------- MODULE Capture --------------------------------
(***************************************************************************)
(* HTTP capture (sdk/inferlog/auto.py) under init, shutdown and ashutdown  *)
(* (sdk/inferlog/__init__.py).                                             *)
(*                                                                         *)
(* A call of the host passes two layers, either of which may log it: the   *)
(* patched httpx Client.send, and inferlog.transport() where the client    *)
(* has one.  Each layer decides by the state it finds when it is reached,  *)
(* and httpx may suspend in between (event hooks, auth flows).  Calls are  *)
(* those that a handler recognises and parses, outside LoggedLLMClient;    *)
(* what submit() does with an event is the subject of Dispatcher.          *)
(***************************************************************************)
EXTENDS Naturals, FiniteSets

CONSTANTS Runtimes,      \* each init() builds a new one
          Calls,         \* the host's httpx calls
          MaxShutdowns,  \* bound: overlapping ashutdown() calls per runtime
          None

ASSUME ParamAssumption == MaxShutdowns \in Nat /\ None \notin Runtimes

VARIABLES
    runtime,    \* runtime._runtime
    enabled,    \* the runtimes with enabled = True
    used,       \* the runtimes built so far
    installed,  \* _state holds the originals and "installed"
    patched,    \* httpx.AsyncClient.send and httpx.Client.send are ours
    pending,    \* ashutdown() calls that await aclose(), per runtime
    kind,       \* what a call is: async or sync, by transport(), streaming, and
                \* sent by send(stream=True), which leaves the body to the host
    pc,         \* where a call is
    rtOf,       \* the runtime each layer logs the call to
    reader,     \* how the host reads the stream: aiter_bytes or aiter_raw
    complete,   \* the stream parser has seen the completion marker
    emitted,    \* the status of the event each layer emitted
    wanted,     \* history: calls made while capture was on for them
    disturbed,  \* history: calls the configuration changed under
    lastInit,   \* history: the runtime of the last init() not yet torn down
    overtaken   \* history: that init() came while an ashutdown() was waiting

config == <<runtime, enabled, used, installed, patched, pending, lastInit, overtaken>>
call == <<kind, pc, rtOf, reader, complete, emitted, wanted>>
vars == <<config, call, disturbed>>

Layers == {"patch", "transport"}
Kinds == {k \in [sync : BOOLEAN, transport : BOOLEAN, streaming : BOOLEAN, held : BOOLEAN] :
             ~(k.sync /\ k.transport)}
PCs == {"idle", "original", "ours", "sending", "wire", "readOk", "readBad", "handed",
        "open", "iterating", "left", "unread", "returned", "raised", "cutShort",
        "cancelled", "broken"}
Statuses == {"none", "success", "error", "cancelled"}

InFlight(c) == pc[c] \in {"original", "ours", "sending"}
Active == runtime # None /\ runtime \in enabled
Capturing(c) == {l \in Layers : rtOf[c][l] # None}

\* The layers whose wrapper the host iterates: the patch wraps aiter_bytes, on
\* which aiter_text and aiter_lines are built, the transport the raw stream.
Seen(c) == {l \in Capturing(c) : reader[c] = "bytes" \/ (reader[c] = "raw" /\ l = "transport")}

TypeOK ==
    /\ runtime \in used \cup {None} /\ lastInit \in used \cup {None}
    /\ used \subseteq Runtimes /\ enabled \subseteq used
    /\ installed \in BOOLEAN /\ patched = installed /\ overtaken \in BOOLEAN
    /\ pending \in [Runtimes -> 0..MaxShutdowns]
    /\ kind \in [Calls -> Kinds]
    /\ pc \in [Calls -> PCs]
    /\ rtOf \in [Calls -> [Layers -> used \cup {None}]]
    /\ reader \in [Calls -> {"none", "bytes", "raw"}]
    /\ complete \in [Calls -> BOOLEAN]
    /\ emitted \in [Calls -> [Layers -> Statuses]]
    /\ wanted \subseteq Calls /\ disturbed \subseteq Calls
    /\ \A c \in Calls :
          /\ "transport" \in Capturing(c) => kind[c].transport
          /\ pc[c] \in {"idle", "original", "ours", "broken"} => Capturing(c) = {}

Init ==
    /\ runtime = None /\ lastInit = None
    /\ used = {} /\ enabled = {}
    /\ installed = FALSE /\ patched = FALSE /\ overtaken = FALSE
    /\ pending = [r \in Runtimes |-> 0]
    /\ kind \in [Calls -> Kinds]
    /\ pc = [c \in Calls |-> "idle"]
    /\ rtOf = [c \in Calls |-> [l \in Layers |-> None]]
    /\ reader = [c \in Calls |-> "none"]
    /\ complete = [c \in Calls |-> FALSE]
    /\ emitted = [c \in Calls |-> [l \in Layers |-> "none"]]
    /\ wanted = {} /\ disturbed = {}

-----------------------------------------------------------------------------
(* Configuration.                                                           *)

Disturb == disturbed' = disturbed \cup {c \in Calls : InFlight(c)}

\* Mutation: a second init() keeps the runtime that is there.
SetRuntimeOnce(r) == runtime' = IF runtime = None THEN r ELSE runtime

SetRuntime(r) == runtime' = r

\* install() patches once; a second one only swaps _state["runtime"].
Install(all) ==
    /\ installed' = (installed \/ all)
    /\ patched' = (patched \/ all)

\* init(capture_all_httpx=all, enabled=on): without "all" the patches of an
\* earlier init() stay.
InitRuntime(r, all, on) ==
    /\ r \notin used
    /\ used' = used \cup {r}
    /\ enabled' = IF on THEN enabled \cup {r} ELSE enabled
    /\ SetRuntime(r)
    /\ Install(all /\ on)
    /\ lastInit' = r
    /\ overtaken' = (\E s \in Runtimes : pending[s] > 0)
    /\ Disturb
    /\ UNCHANGED <<pending, call>>

\* Mutation: _state is cleared, but httpx is not given its methods back.
UninstallForgets ==
    /\ installed' = FALSE
    /\ UNCHANGED patched

\* uninstall() restores the originals and clears _state.
Uninstall ==
    /\ installed' = FALSE
    /\ patched' = IF installed THEN FALSE ELSE patched

\* shutdown()
Shutdown ==
    /\ runtime # None
    /\ Uninstall
    /\ enabled' = enabled \ {runtime}
    /\ runtime' = None
    /\ lastInit' = None
    /\ Disturb
    /\ UNCHANGED <<used, pending, overtaken, call>>

\* ashutdown() up to its await of dispatcher.aclose().
AShutdown ==
    /\ runtime # None
    /\ pending[runtime] < MaxShutdowns
    /\ Uninstall
    /\ enabled' = enabled \ {runtime}
    /\ pending' = [pending EXCEPT ![runtime] = @ + 1]
    /\ lastInit' = None
    /\ Disturb
    /\ UNCHANGED <<runtime, used, overtaken, call>>

\* aclose() has returned: set_runtime(None), whatever runtime is active now.
AShutdownEnds(r) ==
    /\ pending[r] > 0
    /\ pending' = [pending EXCEPT ![r] = @ - 1]
    /\ runtime' = None
    /\ Disturb
    /\ UNCHANGED <<enabled, used, installed, patched, lastInit, overtaken, call>>

\* aclose() raises, or the host cancels the ashutdown().
AShutdownFails(r) ==
    /\ pending[r] > 0
    /\ pending' = [pending EXCEPT ![r] = @ - 1]
    /\ UNCHANGED <<runtime, enabled, used, installed, patched, lastInit, overtaken,
                   call, disturbed>>

-----------------------------------------------------------------------------
(* A call of the host.                                                      *)

Goto(c, next) == pc' = [pc EXCEPT ![c] = next]

Emit(c, layers, status) ==
    emitted' = [emitted EXCEPT ![c] =
                   [l \in Layers |-> IF l \in layers /\ @[l] = "none" THEN status ELSE @[l]]]

\* client.send(request) makes a coroutine of the function it finds; the host
\* may await it at once or hand it to create_task or gather.
Send(c) ==
    /\ pc[c] = "idle"
    /\ Goto(c, IF patched THEN "ours" ELSE "original")
    /\ wanted' = IF Active /\ (patched \/ kind[c].transport) THEN wanted \cup {c} ELSE wanted
    /\ UNCHANGED <<config, kind, rtOf, reader, complete, emitted, disturbed>>

\* The original send, with no layer of ours around it.
StartOriginal(c) ==
    /\ pc[c] = "original"
    /\ Goto(c, "sending")
    /\ UNCHANGED <<config, kind, rtOf, reader, complete, emitted, wanted, disturbed>>

\* _capture_async and _capture_sync up to the call of the original.
StartPatched(c) ==
    /\ pc[c] = "ours" /\ installed
    /\ Goto(c, "sending")
    /\ rtOf' = [rtOf EXCEPT ![c]["patch"] = IF Active THEN runtime ELSE None]
    /\ UNCHANGED <<config, kind, reader, complete, emitted, wanted, disturbed>>

\* _state["async_send"] is a KeyError once uninstall() has cleared _state.
StartBroken(c) ==
    /\ pc[c] = "ours" /\ ~installed
    /\ Goto(c, "broken")
    /\ UNCHANGED <<config, kind, rtOf, reader, complete, emitted, wanted, disturbed>>

\* Mutation: the transport does not look at _state.
LogsAnyway(c) == kind[c].transport /\ Active

\* The transport steps aside while the global patch is installed.
TransportLogs(c) == kind[c].transport /\ Active /\ ~installed

\* httpx hands the request to the client's transport.
Transport(c) ==
    /\ pc[c] = "sending"
    /\ Goto(c, "wire")
    /\ rtOf' = [rtOf EXCEPT ![c]["transport"] = IF TransportLogs(c) THEN runtime ELSE None]
    /\ UNCHANGED <<config, kind, reader, complete, emitted, wanted, disturbed>>

\* The request fails before there is a response.
NetworkError(c) ==
    /\ pc[c] \in {"sending", "wire"}
    /\ Emit(c, Capturing(c), "error")
    /\ Goto(c, "raised")
    /\ UNCHANGED <<config, kind, rtOf, reader, complete, wanted, disturbed>>

\* A status >= 400: the body is read for the error message.
AnswerBad(c) ==
    /\ pc[c] = "wire"
    /\ Goto(c, "readBad")
    /\ UNCHANGED <<config, kind, rtOf, reader, complete, emitted, wanted, disturbed>>

\* A buffered success: the body is read and parsed.  A synchronous stream that
\* httpx reads itself is whole, too, when the patch sees it.
AnswerOk(c) ==
    /\ pc[c] = "wire"
    /\ ~kind[c].streaming \/ (kind[c].sync /\ ~kind[c].held)
    /\ Goto(c, "readOk")
    /\ UNCHANGED <<config, kind, rtOf, reader, complete, emitted, wanted, disturbed>>

\* A synchronous stream: a header-only event, and no wrapper.
AnswerSyncStream(c) ==
    /\ pc[c] = "wire" /\ kind[c].streaming /\ kind[c].sync /\ kind[c].held
    /\ Emit(c, Capturing(c), "success")
    /\ Goto(c, "handed")
    /\ UNCHANGED <<config, kind, rtOf, reader, complete, wanted, disturbed>>

\* Each capturing layer wraps the stream and returns the response.
AnswerStream(c) ==
    /\ pc[c] = "wire" /\ kind[c].streaming /\ ~kind[c].sync
    /\ Goto(c, "open")
    /\ UNCHANGED <<config, kind, rtOf, reader, complete, emitted, wanted, disturbed>>

BodyRead(c) ==
    /\ pc[c] \in {"readOk", "readBad"}
    /\ Emit(c, Capturing(c), IF pc[c] = "readOk" THEN "success" ELSE "error")
    /\ Goto(c, "returned")
    /\ UNCHANGED <<config, kind, rtOf, reader, complete, wanted, disturbed>>

\* Mutation: the patched send logs before it has the body.
BodyFailsUnseen(c) ==
    /\ pc[c] \in {"readOk", "readBad"} /\ ~kind[c].held
    /\ Emit(c, Capturing(c), IF pc[c] = "readOk" THEN "success" ELSE "error")
    /\ Goto(c, "raised")
    /\ UNCHANGED <<config, kind, rtOf, reader, complete, wanted, disturbed>>

\* The connection breaks in a body that httpx reads within send().  The transport
\* swallows that and logs by the status line; httpx, reading again, then raises
\* through the patch.
BodyFails(c) ==
    /\ pc[c] \in {"readOk", "readBad"} /\ ~kind[c].held
    /\ emitted' = [emitted EXCEPT ![c] = [l \in Layers |->
           IF l \notin Capturing(c) THEN "none"
           ELSE IF l = "transport" /\ pc[c] = "readOk" THEN "success" ELSE "error"]]
    /\ Goto(c, "raised")
    /\ UNCHANGED <<config, kind, rtOf, reader, complete, wanted, disturbed>>

\* The connection breaks in a body that is left to the host.  Only the layers
\* read it in send(): either swallows the failure, logs the call by its status
\* line and returns the response, and the host's own read raises.
HeldBodyFails(c) ==
    /\ pc[c] \in {"readOk", "readBad"} /\ kind[c].held
    /\ Emit(c, Capturing(c), IF pc[c] = "readOk" THEN "success" ELSE "error")
    /\ Goto(c, "cutShort")
    /\ UNCHANGED <<config, kind, rtOf, reader, complete, wanted, disturbed>>

\* CancelledError while the call is awaited passes every "except Exception".
Cancel(c) ==
    /\ pc[c] \in {"sending", "wire", "readOk", "readBad"} /\ ~kind[c].sync
    /\ Goto(c, "cancelled")
    /\ UNCHANGED <<config, kind, rtOf, reader, complete, emitted, wanted, disturbed>>

-----------------------------------------------------------------------------
(* The stream in the host's hands.                                          *)

\* The host reads a synchronous stream, which nobody watches.
ReadSyncStream(c) ==
    /\ pc[c] = "handed"
    /\ Goto(c, "returned") \/ Goto(c, "cutShort")
    /\ UNCHANGED <<config, kind, rtOf, reader, complete, emitted, wanted, disturbed>>

\* A send() without stream=True reads the body inside httpx, as aiter_raw does
\* past the wrapper of the patch.
Iterate(c) ==
    /\ pc[c] = "open"
    /\ \E how \in IF kind[c].held THEN {"bytes", "raw"} ELSE {"raw"} :
          reader' = [reader EXCEPT ![c] = how]
    /\ Goto(c, "iterating")
    /\ UNCHANGED <<config, kind, rtOf, complete, emitted, wanted, disturbed>>

\* The host closes the response without reading it.
CloseUnread(c) ==
    /\ pc[c] = "open" /\ kind[c].held
    /\ Goto(c, "unread")
    /\ UNCHANGED <<config, kind, rtOf, reader, complete, emitted, wanted, disturbed>>

\* The completion marker ([DONE], message_stop, done) passes the parsers.
Marker(c) ==
    /\ pc[c] = "iterating" /\ ~complete[c]
    /\ complete' = [complete EXCEPT ![c] = TRUE]
    /\ UNCHANGED <<config, kind, pc, rtOf, reader, emitted, wanted, disturbed>>

\* Mutation: nothing is emitted at the regular end.
ExhaustedSilently(c) ==
    /\ pc[c] = "iterating"
    /\ Goto(c, "returned")
    /\ UNCHANGED <<config, kind, rtOf, reader, complete, emitted, wanted, disturbed>>

Exhausted(c) ==
    /\ pc[c] = "iterating"
    /\ Emit(c, Seen(c), "success")
    /\ Goto(c, "returned")
    /\ UNCHANGED <<config, kind, rtOf, reader, complete, wanted, disturbed>>

\* Where httpx reads, the error comes out of the original send.
StreamError(c) ==
    /\ pc[c] = "iterating"
    /\ Emit(c, IF kind[c].held THEN Seen(c) ELSE Capturing(c), "error")
    /\ Goto(c, "raised")
    /\ UNCHANGED <<config, kind, rtOf, reader, complete, wanted, disturbed>>

\* A stream left before its end is a success if it was complete.
LeftStatus(c) == IF complete[c] THEN "success" ELSE "cancelled"

CancelStream(c) ==
    /\ pc[c] = "iterating"
    /\ Emit(c, Seen(c), LeftStatus(c))
    /\ Goto(c, "cancelled")
    /\ UNCHANGED <<config, kind, rtOf, reader, complete, wanted, disturbed>>

\* The host breaks out of the loop: the generators are closed when they are
\* collected, each at its own time.
Break(c) ==
    /\ pc[c] = "iterating" /\ kind[c].held
    /\ Goto(c, "left")
    /\ UNCHANGED <<config, kind, rtOf, reader, complete, emitted, wanted, disturbed>>

\* Mutation: only a complete stream is logged on GeneratorExit.
FinalizeComplete(c, l) ==
    /\ pc[c] = "left" /\ l \in Seen(c) /\ emitted[c][l] = "none"
    /\ complete[c]
    /\ Emit(c, {l}, LeftStatus(c))
    /\ UNCHANGED <<config, kind, pc, rtOf, reader, complete, wanted, disturbed>>

\* GeneratorExit
Finalize(c, l) ==
    /\ pc[c] = "left" /\ l \in Seen(c) /\ emitted[c][l] = "none"
    /\ Emit(c, {l}, LeftStatus(c))
    /\ UNCHANGED <<config, kind, pc, rtOf, reader, complete, wanted, disturbed>>

-----------------------------------------------------------------------------
Configure ==
    \/ \E r \in Runtimes, all, on \in BOOLEAN : InitRuntime(r, all, on)
    \/ Shutdown \/ AShutdown
    \/ \E r \in Runtimes : AShutdownEnds(r) \/ AShutdownFails(r)

Begin(c) == Send(c) \/ StartOriginal(c) \/ StartPatched(c) \/ StartBroken(c) \/ Transport(c)

Answer(c) == \/ NetworkError(c) \/ AnswerBad(c) \/ AnswerOk(c) \/ AnswerSyncStream(c)
             \/ AnswerStream(c) \/ BodyRead(c) \/ BodyFails(c) \/ HeldBodyFails(c)
             \/ Cancel(c)

Stream(c) == \/ ReadSyncStream(c) \/ Iterate(c) \/ CloseUnread(c) \/ Marker(c)
             \/ Exhausted(c) \/ StreamError(c) \/ CancelStream(c) \/ Break(c)
             \/ \E l \in Layers : Finalize(c, l)

Next == Configure \/ \E c \in Calls : Begin(c) \/ Answer(c) \/ Stream(c)

\* The interpreter collects a generator that is left; asyncio.run closes the
\* rest before its loop ends.
Fairness == \A c \in Calls, l \in Layers : WF_vars(Finalize(c, l))

Spec == Init /\ [][Next]_vars /\ Fairness

-----------------------------------------------------------------------------
(* What capture promises.                                                   *)

\* Two layers, one logger: a call under which the configuration did not change
\* between send() and the transport is captured by one layer if capture was on
\* for it, and by none otherwise (auto.py:151-156, 530-541).
CapturedOnce ==
    \A c \in Calls \ disturbed :
        pc[c] \notin {"idle", "original", "ours", "sending", "raised", "cancelled"} =>
            Cardinality(Capturing(c)) = IF c \in wanted THEN 1 ELSE 0

\* A captured call that returns or raises is emitted, and but once, unless the
\* host read the stream past the wrapper: no error path and no end of a stream is
\* silent (auto.py:174-261, 484-497).  That _emit_safe then loses no event it can
\* build is not said here: see LoggedUnless of StreamLog.
Logged(c) == {l \in Layers : emitted[c][l] # "none"}
LoggedOnce ==
    \A c \in wanted \ disturbed :
        pc[c] \in {"returned", "raised", "cutShort"} /\ reader[c] # "raw"
                /\ Capturing(c) # {} =>
            Cardinality(Logged(c)) = 1

\* The patched send logs as a success a call that then fails at the host only
\* where the failure comes after send(), in a body the host has reserved for
\* itself (stream=True), and that of no asynchronous stream: such a body's
\* failure it swallows (auto.py:201-208) or never sees (auto.py:386-395).  What
\* send() raises, and how a wrapped stream ends, it logs as it is.  The transport
\* may do worse, see BodyFails.
PatchTruthful ==
    \A c \in Calls :
        pc[c] \in {"raised", "cutShort"} /\ emitted[c]["patch"] \notin {"none", "error"} =>
            pc[c] = "cutShort" /\ kind[c].held /\ (kind[c].streaming => kind[c].sync)

\* A patched call finds no original only where uninstall() came between the making
\* of its coroutine and its first step: _state is never half there (auto.py:67-95).
BrokenOnlyByUninstall == \A c \in Calls : pc[c] = "broken" => c \in disturbed

\* The runtime of the last init() stays the active one until it is shut down,
\* unless that init() overtook an ashutdown() still waiting for its drain, whose
\* set_runtime(None) then takes the new runtime away (__init__.py:305-313).
InitSticks == lastInit # None /\ ~overtaken => runtime = lastInit

\* A stream that the host breaks out of is logged by every wrapper it went
\* through, whatever init() and shutdown() do meanwhile (auto.py:250-256, 490-494).
LeftIsLogged ==
    \A c \in Calls : pc[c] = "left" ~> (\A l \in Seen(c) : emitted[c][l] # "none")
=============================================================================
