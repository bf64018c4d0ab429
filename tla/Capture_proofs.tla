----------------------------- MODULE Capture_proofs -----------------------------
(***************************************************************************)
(* Proofs about Capture, for any number of runtimes, calls and overlapping *)
(* ashutdown() calls.                                                      *)
(***************************************************************************)
EXTENDS Capture, FiniteSetTheorems, TLAPS

-----------------------------------------------------------------------------
(* Types.                                                                   *)

\* An event keeps the statuses in range.
LEMMA EmitTypes ==
    ASSUME TypeOK, NEW c \in Calls, NEW S \in SUBSET Layers, NEW s \in Statuses,
           Emit(c, S, s)
    PROVE  emitted' \in [Calls -> [Layers -> Statuses]]
BY DEF TypeOK, Emit

\* So does what is logged of a stream that was left.
LEMMA LeftTypes == ASSUME NEW c PROVE LeftStatus(c) \in Statuses
BY DEF LeftStatus, Statuses

\* A step of a call past its start leaves alone who captures it.
LEMMA CallStepTypes ==
    ASSUME TypeOK, NEW c \in Calls,
           NEW p \in PCs \ {"idle", "original", "ours", "broken"}, Goto(c, p),
           UNCHANGED <<config, kind, rtOf, wanted, disturbed>>,
           reader' \in [Calls -> {"none", "bytes", "raw"}],
           complete' \in [Calls -> BOOLEAN],
           emitted' \in [Calls -> [Layers -> Statuses]]
    PROVE  TypeOK'
BY DEF TypeOK, config, Goto, Capturing

\* A change of the configuration leaves every call as it is.
LEMMA ConfigStepTypes ==
    ASSUME TypeOK, UNCHANGED call, Disturb \/ UNCHANGED disturbed,
           used \subseteq used', used' \subseteq Runtimes,
           runtime' \in used' \cup {None}, lastInit' \in used' \cup {None},
           enabled' \subseteq used', overtaken' \in BOOLEAN,
           installed' \in BOOLEAN, patched' = installed',
           pending' \in [Runtimes -> 0..MaxShutdowns]
    PROVE  TypeOK'
<1>1. UNCHANGED <<kind, pc, rtOf, reader, complete, emitted, wanted>>
  BY DEF call
<1>2. disturbed' \subseteq Calls
  BY DEF TypeOK, Disturb
<1>3. rtOf' \in [Calls -> [Layers -> used' \cup {None}]]
  BY <1>1 DEF TypeOK
<1> QED
  BY <1>1, <1>2, <1>3 DEF TypeOK, Capturing

\* Every variable keeps its type; httpx's methods are ours exactly while _state
\* holds the originals; only a client with transport() is logged by it.
THEOREM TypesAlways == Spec => []TypeOK
<1>1. Init => TypeOK
  <2> SUFFICES ASSUME Init PROVE TypeOK
    OBVIOUS
  <2>1. \A c \in Calls : Capturing(c) = {} /\ pc[c] = "idle"
    BY DEF Init, Capturing
  <2>2. pending \in [Runtimes -> 0..MaxShutdowns] /\ kind \in [Calls -> Kinds]
    BY ParamAssumption DEF Init
  <2> QED
    BY <2>1, <2>2 DEF Init, TypeOK, PCs, Statuses
<1>2. TypeOK /\ [Next]_vars => TypeOK'
  <2> SUFFICES ASSUME TypeOK, [Next]_vars PROVE TypeOK'
    OBVIOUS
  <2>1. ASSUME NEW r \in Runtimes, NEW all \in BOOLEAN, NEW on \in BOOLEAN,
               InitRuntime(r, all, on)
        PROVE  TypeOK'
    <3>1. installed' \in BOOLEAN /\ patched' = installed' /\ overtaken' \in BOOLEAN
      BY <2>1 DEF TypeOK, InitRuntime, Install
    <3> QED
      BY <2>1, <3>1, ConfigStepTypes DEF TypeOK, InitRuntime, SetRuntime
  <2>2. CASE Shutdown
    BY <2>2, ConfigStepTypes DEF TypeOK, Shutdown, Uninstall
  <2>3. CASE AShutdown
    <3>1. runtime \in Runtimes /\ pending[runtime] \in 0..MaxShutdowns
      BY <2>3 DEF TypeOK, AShutdown
    <3>2. pending[runtime] + 1 \in 0..MaxShutdowns
      BY <2>3, <3>1, ParamAssumption DEF AShutdown
    <3>3. pending' \in [Runtimes -> 0..MaxShutdowns]
      BY <2>3, <3>2 DEF TypeOK, AShutdown
    <3> QED
      BY <2>3, <3>3, ConfigStepTypes DEF TypeOK, AShutdown, Uninstall
  <2>4. ASSUME NEW r \in Runtimes, AShutdownEnds(r) PROVE TypeOK'
    <3>1. pending[r] - 1 \in 0..MaxShutdowns
      BY <2>4, ParamAssumption DEF TypeOK, AShutdownEnds
    <3> QED
      BY <2>4, <3>1, ConfigStepTypes DEF TypeOK, AShutdownEnds
  <2>5. ASSUME NEW r \in Runtimes, AShutdownFails(r) PROVE TypeOK'
    <3>1. pending[r] - 1 \in 0..MaxShutdowns
      BY <2>5, ParamAssumption DEF TypeOK, AShutdownFails
    <3> QED
      BY <2>5, <3>1, ConfigStepTypes DEF TypeOK, AShutdownFails
  <2>6. ASSUME NEW c \in Calls, Begin(c) PROVE TypeOK'
    <3> USE DEF TypeOK, Layers, PCs, config, Goto, Capturing
    <3>1. CASE Send(c)
      BY <3>1 DEF Send, Active
    <3>2. CASE StartOriginal(c)
      BY <3>2 DEF StartOriginal
    <3>3. CASE StartPatched(c)
      BY <3>3 DEF StartPatched, Active
    <3>4. CASE StartBroken(c)
      BY <3>4 DEF StartBroken
    <3>5. CASE Transport(c)
      BY <3>5 DEF Transport, TransportLogs, Active
    <3> QED
      BY <2>6, <3>1, <3>2, <3>3, <3>4, <3>5 DEF Begin
  <2>7. ASSUME NEW c \in Calls, Answer(c) PROVE TypeOK'
    <3>1. Capturing(c) \subseteq Layers /\ {"error", "success"} \subseteq Statuses
      BY DEF Capturing, Statuses
    <3>2. /\ reader \in [Calls -> {"none", "bytes", "raw"}]
          /\ complete \in [Calls -> BOOLEAN]
          /\ emitted \in [Calls -> [Layers -> Statuses]]
      BY DEF TypeOK
    <3>3. CASE NetworkError(c)
      BY <3>1, <3>2, <3>3, EmitTypes, CallStepTypes DEF NetworkError, PCs
    <3>4. CASE AnswerBad(c)
      BY <3>2, <3>4, CallStepTypes DEF AnswerBad, PCs
    <3>5. CASE AnswerOk(c)
      BY <3>2, <3>5, CallStepTypes DEF AnswerOk, PCs
    <3>6. CASE AnswerSyncStream(c)
      BY <3>1, <3>2, <3>6, EmitTypes, CallStepTypes DEF AnswerSyncStream, PCs
    <3>7. CASE AnswerStream(c)
      BY <3>2, <3>7, CallStepTypes DEF AnswerStream, PCs
    <3>8. CASE BodyRead(c)
      BY <3>1, <3>2, <3>8, EmitTypes, CallStepTypes DEF BodyRead, PCs
    <3>9. CASE BodyFails(c)
      <4>1. emitted' \in [Calls -> [Layers -> Statuses]]
        BY <3>2, <3>9 DEF BodyFails, Statuses
      <4> QED
        BY <3>2, <3>9, <4>1, CallStepTypes DEF BodyFails, PCs
    <3>10. CASE HeldBodyFails(c)
      BY <3>1, <3>2, <3>10, EmitTypes, CallStepTypes DEF HeldBodyFails, PCs
    <3>11. CASE Cancel(c)
      BY <3>2, <3>11, CallStepTypes DEF Cancel, PCs
    <3> QED
      BY <2>7, <3>3, <3>4, <3>5, <3>6, <3>7, <3>8, <3>9, <3>10, <3>11 DEF Answer
  <2>8. ASSUME NEW c \in Calls, Stream(c) PROVE TypeOK'
    <3>1. /\ Seen(c) \subseteq Layers /\ Capturing(c) \subseteq Layers
          /\ {"error", "success"} \subseteq Statuses
      BY DEF Capturing, Seen, Statuses
    <3>2. /\ reader \in [Calls -> {"none", "bytes", "raw"}]
          /\ complete \in [Calls -> BOOLEAN]
          /\ emitted \in [Calls -> [Layers -> Statuses]]
          /\ pc \in [Calls -> PCs]
      BY DEF TypeOK
    <3>3. CASE Iterate(c)
      BY <3>2, <3>3, CallStepTypes DEF Iterate, PCs
    <3>4. CASE CloseUnread(c)
      BY <3>2, <3>4, CallStepTypes DEF CloseUnread, PCs
    <3>5. CASE Marker(c)
      BY <3>2, <3>5 DEF Marker, TypeOK, config, Capturing
    <3>6. CASE Exhausted(c)
      BY <3>1, <3>2, <3>6, EmitTypes, CallStepTypes DEF Exhausted, PCs
    <3>7. CASE StreamError(c)
      BY <3>1, <3>2, <3>7, EmitTypes, CallStepTypes DEF StreamError, PCs
    <3>8. CASE CancelStream(c)
      BY <3>1, <3>2, <3>8, EmitTypes, LeftTypes, CallStepTypes DEF CancelStream, PCs
    <3>9. CASE Break(c)
      BY <3>2, <3>9, CallStepTypes DEF Break, PCs
    <3>10. ASSUME NEW l \in Layers, Finalize(c, l) PROVE TypeOK'
      <4>1. emitted' \in [Calls -> [Layers -> Statuses]]
        BY <3>10, EmitTypes, LeftTypes DEF Finalize
      <4> QED
        BY <3>10, <4>1 DEF Finalize, TypeOK, config, Capturing
    <3>11. CASE ReadSyncStream(c)
      BY <3>2, <3>11, CallStepTypes DEF ReadSyncStream, PCs
    <3> QED
      BY <2>8, <3>3, <3>4, <3>5, <3>6, <3>7, <3>8, <3>9, <3>10, <3>11 DEF Stream
  <2>9. CASE UNCHANGED vars
    BY <2>9 DEF vars, config, call, TypeOK, Capturing
  <2> QED
    BY <2>1, <2>2, <2>3, <2>4, <2>5, <2>6, <2>7, <2>8, <2>9 DEF Next, Configure
<1> QED
  BY <1>1, <1>2, PTL DEF Spec

-----------------------------------------------------------------------------
(* Who captures a call.                                                     *)

PastTransport == {"wire", "readOk", "readBad", "handed", "open", "iterating", "left",
                  "unread", "returned", "cutShort"}

\* What holds of a call that the configuration has not changed under: which
\* function its send() has found, what each layer has decided or will decide,
\* and that this comes to one layer if capture was on, and to none otherwise.
Decided(c) ==
    /\ pc[c] = "idle" => c \notin wanted
    /\ pc[c] = "ours" => installed
    /\ pc[c] = "original" => ~installed
    /\ pc[c] # "broken"
    /\ InFlight(c) =>
          /\ c \in wanted <=> Active /\ (installed \/ kind[c].transport)
          /\ rtOf[c]["transport"] = None
    /\ pc[c] = "sending" => (rtOf[c]["patch"] # None <=> Active /\ installed)
    /\ rtOf[c]["patch"] = None \/ rtOf[c]["transport"] = None
    /\ pc[c] \in PastTransport =>
          (c \in wanted <=> Capturing(c) # {})

DecidedInv == \A c \in Calls \ disturbed : Decided(c)

\* A change of the configuration disturbs every call that has yet to decide, and
\* what the others have decided stays.
LEMMA ConfigStepDecided ==
    ASSUME DecidedInv, UNCHANGED call, Disturb
    PROVE  DecidedInv'
<1>1. UNCHANGED <<kind, pc, rtOf, wanted>>
  BY DEF call
<1>2. SUFFICES ASSUME NEW c \in Calls \ disturbed' PROVE Decided(c)'
  BY DEF DecidedInv
<1>3. c \notin disturbed /\ ~InFlight(c)
  BY <1>2 DEF Disturb
<1>4. Decided(c)
  BY <1>3 DEF DecidedInv
<1> QED
  BY <1>1, <1>3, <1>4 DEF Decided, InFlight, Capturing

\* A step of one call leaves the others as they are.
LEMMA OthersDecided ==
    ASSUME TypeOK, DecidedInv, NEW c \in Calls, NEW p \in PCs, Goto(c, p),
           UNCHANGED <<config, kind, disturbed>>,
           \A d \in Calls \ {c} : rtOf'[d] = rtOf[d] /\ (d \in wanted' <=> d \in wanted),
           c \notin disturbed => Decided(c)'
    PROVE  DecidedInv'
<1>1. SUFFICES ASSUME NEW d \in Calls \ disturbed, d # c PROVE Decided(d)'
  BY DEF DecidedInv
<1>2. Decided(d) /\ pc'[d] = pc[d]
  BY <1>1 DEF DecidedInv, Goto, TypeOK
<1> QED
  BY <1>1, <1>2 DEF Decided, InFlight, Active, Capturing, config

\* Past the transport, or out of the call, nothing is decided any more.
LEMMA LaterDecided ==
    ASSUME TypeOK, DecidedInv, NEW c \in Calls,
           NEW p \in PastTransport \cup {"raised", "cancelled"}, Goto(c, p),
           UNCHANGED <<config, kind, rtOf, wanted, disturbed>>,
           pc[c] \in PastTransport \/ p \in {"raised", "cancelled"}
    PROVE  DecidedInv'
<1>1. p \in PCs /\ pc'[c] = p
  BY DEF PastTransport, PCs, Goto, TypeOK
<1>2. ASSUME c \notin disturbed PROVE Decided(c)'
  <2>1. Decided(c)
    BY <1>2 DEF DecidedInv
  <2> QED
    BY <1>1, <2>1 DEF Decided, InFlight, Capturing, PastTransport
<1> QED
  BY <1>1, <1>2, OthersDecided

\* Nor is it by a step that changes nothing that was decided on.
LEMMA SameDecided ==
    ASSUME DecidedInv, UNCHANGED <<config, kind, pc, rtOf, wanted, disturbed>>
    PROVE  DecidedInv'
<1>1. UNCHANGED <<runtime, enabled, installed>>
  BY DEF config
<1>2. SUFFICES ASSUME NEW c \in Calls \ disturbed PROVE Decided(c)'
  BY DEF DecidedInv
<1>3. Decided(c)
  BY DEF DecidedInv
<1>4. Capturing(c)' = Capturing(c) /\ (Active' <=> Active) /\ (InFlight(c)' <=> InFlight(c))
  BY <1>1 DEF Capturing, Active, InFlight
<1> QED
  BY <1>1, <1>3, <1>4 DEF Decided

\* What is decided for a call holds of every call that the configuration did not
\* change under: the two layers agree on who logs it.
THEOREM DecidedInvAlways == Spec => []DecidedInv
<1>1. Init => DecidedInv
  <2> SUFFICES ASSUME Init, NEW c \in Calls PROVE Decided(c)
    BY DEF DecidedInv
  <2>1. /\ pc[c] = "idle" /\ c \notin wanted
        /\ rtOf[c]["patch"] = None
    BY DEF Init, Layers
  <2> QED
    BY <2>1 DEF Decided, InFlight, PastTransport
<1>2. TypeOK /\ DecidedInv /\ [Next]_vars => DecidedInv'
  <2> SUFFICES ASSUME TypeOK, DecidedInv, [Next]_vars PROVE DecidedInv'
    OBVIOUS
  <2>1. ASSUME NEW r \in Runtimes, NEW all \in BOOLEAN, NEW on \in BOOLEAN,
               InitRuntime(r, all, on)
        PROVE  DecidedInv'
    BY <2>1, ConfigStepDecided DEF InitRuntime
  <2>2. CASE Shutdown
    BY <2>2, ConfigStepDecided DEF Shutdown
  <2>3. CASE AShutdown
    BY <2>3, ConfigStepDecided DEF AShutdown
  <2>4. ASSUME NEW r \in Runtimes, AShutdownEnds(r) PROVE DecidedInv'
    BY <2>4, ConfigStepDecided DEF AShutdownEnds
  <2>5. ASSUME NEW r \in Runtimes, AShutdownFails(r) PROVE DecidedInv'
    BY <2>5 DEF AShutdownFails, call, DecidedInv, Decided, InFlight, Active, Capturing
  <2>6. ASSUME NEW c \in Calls, Begin(c) PROVE DecidedInv'
    <3> USE DEF Goto, config, InFlight, PastTransport
    <3>0. /\ rtOf[c] \in [Layers -> used \cup {None}] /\ kind[c].transport \in BOOLEAN
          /\ pc[c] \in {"idle", "original", "ours", "broken"} =>
                rtOf[c]["patch"] = None /\ rtOf[c]["transport"] = None
      BY DEF TypeOK, Kinds, Layers, Capturing
    <3>1. CASE Send(c)
      <4>1. c \notin disturbed => Decided(c)'
        BY <3>0, <3>1 DEF Send, DecidedInv, Decided, Active, TypeOK
      <4> QED
        BY <3>1, <4>1, OthersDecided DEF Send, PCs
    <3>2. CASE StartOriginal(c)
      <4>1. c \notin disturbed => Decided(c)'
        BY <3>0, <3>2 DEF StartOriginal, DecidedInv, Decided, Active, TypeOK
      <4> QED
        BY <3>2, <4>1, OthersDecided DEF StartOriginal, PCs
    <3>3. CASE StartPatched(c)
      <4>1. /\ rtOf'[c]["patch"] = IF Active THEN runtime ELSE None
            /\ rtOf'[c]["transport"] = rtOf[c]["transport"]
            /\ \A d \in Calls \ {c} : rtOf'[d] = rtOf[d]
            /\ pc'[c] = "sending"
        BY <3>0, <3>3 DEF StartPatched, TypeOK, Layers
      <4>2. c \notin disturbed => Decided(c)'
        BY <3>0, <3>3, <4>1 DEF StartPatched, DecidedInv, Decided, Active
      <4> QED
        BY <3>3, <4>1, <4>2, OthersDecided DEF StartPatched, PCs
    <3>4. CASE StartBroken(c)
      <4>1. c \in disturbed
        BY <3>4 DEF StartBroken, DecidedInv, Decided
      <4> QED
        BY <3>4, <4>1, OthersDecided DEF StartBroken, PCs
    <3>5. CASE Transport(c)
      <4>1. /\ rtOf'[c]["transport"] = IF TransportLogs(c) THEN runtime ELSE None
            /\ rtOf'[c]["patch"] = rtOf[c]["patch"]
            /\ \A d \in Calls \ {c} : rtOf'[d] = rtOf[d]
            /\ pc'[c] = "wire"
        BY <3>0, <3>5 DEF Transport, TypeOK, Layers
      <4>2. Capturing(c)' # {} <=> rtOf'[c]["patch"] # None \/ rtOf'[c]["transport"] # None
        BY DEF Capturing, Layers
      <4>3. c \notin disturbed => Decided(c)'
        BY <3>0, <3>5, <4>1, <4>2 DEF Transport, TransportLogs, DecidedInv, Decided, Active
      <4> QED
        BY <3>5, <4>1, <4>3, OthersDecided DEF Transport, PCs
    <3> QED
      BY <2>6, <3>1, <3>2, <3>3, <3>4, <3>5 DEF Begin
  <2>7. ASSUME NEW c \in Calls, Answer(c) PROVE DecidedInv'
    BY <2>7, LaterDecided
       DEF Answer, NetworkError, AnswerBad, AnswerOk, AnswerSyncStream, AnswerStream,
           BodyRead, BodyFails, HeldBodyFails, Cancel, PastTransport
  <2>8. ASSUME NEW c \in Calls, Stream(c) PROVE DecidedInv'
    <3>1. CASE Marker(c) \/ \E l \in Layers : Finalize(c, l)
      BY <3>1, SameDecided DEF Marker, Finalize
    <3>2. CASE ~(Marker(c) \/ \E l \in Layers : Finalize(c, l))
      BY <2>8, <3>2, LaterDecided
         DEF Stream, ReadSyncStream, Iterate, CloseUnread, Exhausted, StreamError, CancelStream, Break,
             PastTransport
    <3> QED
      BY <3>1, <3>2
  <2>9. CASE UNCHANGED vars
    BY <2>9, SameDecided DEF vars, call
  <2> QED
    BY <2>1, <2>2, <2>3, <2>4, <2>5, <2>6, <2>7, <2>8, <2>9 DEF Next, Configure
<1> QED
  BY <1>1, <1>2, TypesAlways, PTL DEF Spec

\* With at most one of two layers capturing, their number says whether one does.
LEMMA OneLayer ==
    ASSUME NEW c \in Calls, rtOf[c]["patch"] = None \/ rtOf[c]["transport"] = None
    PROVE  Cardinality(Capturing(c)) = IF Capturing(c) = {} THEN 0 ELSE 1
<1>1. Capturing(c) \in {{}, {"patch"}, {"transport"}}
  BY DEF Capturing, Layers
<1> QED
  BY <1>1, FS_EmptySet, FS_Singleton

\* A call that the configuration did not change under is captured by exactly one
\* layer if capture was on for it, and by none otherwise.
THEOREM CapturedOnceAlways == Spec => []CapturedOnce
<1>1. TypeOK /\ DecidedInv => CapturedOnce
  <2> SUFFICES ASSUME TypeOK, DecidedInv, NEW c \in Calls \ disturbed,
                      pc[c] \notin {"idle", "original", "ours", "sending", "raised", "cancelled"}
               PROVE  Cardinality(Capturing(c)) = IF c \in wanted THEN 1 ELSE 0
    BY DEF CapturedOnce
  <2>1. Decided(c) /\ pc[c] \in PCs
    BY DEF DecidedInv, TypeOK
  <2>2. pc[c] \in PastTransport
    BY <2>1 DEF Decided, PCs, PastTransport
  <2> QED
    BY <2>1, <2>2, OneLayer DEF Decided
<1> QED
  BY <1>1, TypesAlways, DecidedInvAlways, PTL

\* Capture breaks a call of the host only if uninstall() came between the making
\* of its coroutine and its first step.
THEOREM BrokenOnlyAlways == Spec => []BrokenOnlyByUninstall
<1>1. DecidedInv => BrokenOnlyByUninstall
  BY DEF DecidedInv, Decided, BrokenOnlyByUninstall
<1> QED
  BY <1>1, DecidedInvAlways, PTL
-----------------------------------------------------------------------------
(* What is logged of a call.                                                *)

Unlogged == {"idle", "original", "ours", "sending", "wire", "readOk", "readBad", "open",
             "iterating", "unread", "broken"}

\* No layer logs a call before it is over, or its stream is the host's; then each
\* capturing layer does that the host did not read past, and the patch logs no
\* success of a call that fails, unless it fails in a body that is the host's.
Events(c) ==
    /\ pc[c] \in Unlogged => \A l \in Layers : emitted[c][l] = "none"
    /\ pc[c] = "iterating" => reader[c] \in {"bytes", "raw"}
    /\ pc[c] \in {"handed", "returned", "raised", "cutShort"} /\ reader[c] # "raw" =>
          \A l \in Layers : emitted[c][l] # "none" <=> l \in Capturing(c)
    /\ pc[c] = "raised" => emitted[c]["patch"] \in {"none", "error"}
    /\ pc[c] \in {"handed", "cutShort"} => kind[c].held
    /\ pc[c] = "handed" => kind[c].sync /\ kind[c].streaming
    /\ pc[c] = "readOk" => kind[c].sync \/ ~kind[c].streaming
    /\ pc[c] = "cutShort" /\ emitted[c]["patch"] \notin {"none", "error"} =>
          (kind[c].streaming => kind[c].sync)

EventInv == \A c \in Calls : Events(c)

\* Events speak of one call, so a step of another one does not matter.
LEMMA OthersEvents ==
    ASSUME TypeOK, EventInv, NEW c \in Calls, Events(c)', UNCHANGED kind,
           \A d \in Calls \ {c} : /\ pc'[d] = pc[d] /\ rtOf'[d] = rtOf[d]
                                  /\ reader'[d] = reader[d] /\ emitted'[d] = emitted[d]
    PROVE  EventInv'
BY DEF EventInv, Events, Capturing

\* A step that leaves a call unlogged, or leaves what is logged, to the next step.
LEMMA SilentEvents ==
    ASSUME TypeOK, EventInv, NEW c \in Calls,
           NEW p \in (Unlogged \ {"iterating"}) \cup {"left", "cancelled"}, Goto(c, p),
           pc[c] \in Unlogged, p = "readOk" => kind[c].sync \/ ~kind[c].streaming,
           UNCHANGED <<kind, reader, emitted>>,
           \A d \in Calls \ {c} : rtOf'[d] = rtOf[d]
    PROVE  EventInv'
<1>1. /\ pc'[c] = p /\ p \notin {"iterating", "handed", "returned", "raised", "cutShort"}
      /\ \A d \in Calls \ {c} : pc'[d] = pc[d]
  BY DEF Goto, TypeOK, Unlogged
<1>2. Events(c)'
  BY <1>1 DEF EventInv, Events
<1> QED
  BY <1>1, <1>2, OthersEvents

\* A step that logs a call by all that capture it, and ends it.
LEMMA LastEvents ==
    ASSUME TypeOK, EventInv, NEW c \in Calls, pc[c] \in Unlogged,
           NEW p \in {"handed", "returned", "raised", "cutShort"}, Goto(c, p),
           NEW S \in SUBSET Capturing(c), reader[c] # "raw" => S = Capturing(c),
           NEW s \in {"success", "error"}, Emit(c, S, s), p = "raised" => s = "error",
           p \in {"handed", "cutShort"} => kind[c].held,
           p = "handed" => kind[c].sync /\ kind[c].streaming,
           p = "cutShort" /\ s # "error" => (kind[c].streaming => kind[c].sync),
           UNCHANGED <<kind, rtOf, reader>>
    PROVE  EventInv'
<1>1. /\ pc'[c] = p
      /\ \A d \in Calls \ {c} : pc'[d] = pc[d] /\ emitted'[d] = emitted[d]
  BY DEF Goto, Emit, TypeOK
<1>2. \A l \in Layers : emitted'[c][l] = IF l \in S THEN s ELSE "none"
  <2>1. emitted'[c] = [l \in Layers |-> IF l \in S /\ emitted[c][l] = "none"
                                      THEN s ELSE emitted[c][l]]
    BY DEF Emit, TypeOK
  <2>2. \A l \in Layers : emitted[c][l] = "none"
    BY DEF EventInv, Events
  <2> QED
    BY <2>1, <2>2
<1>3. Capturing(c)' = Capturing(c) /\ reader'[c] = reader[c] /\ kind'[c] = kind[c]
  BY DEF Capturing
<1>4. Events(c)'
  BY <1>1, <1>2, <1>3 DEF Events, Unlogged, Layers
<1> QED
  BY <1>1, <1>4, OthersEvents

\* What is logged of a call, and when, for every call and configuration.
THEOREM EventInvAlways == Spec => []EventInv
<1>1. Init => EventInv
  <2> SUFFICES ASSUME Init, NEW c \in Calls PROVE Events(c)
    BY DEF EventInv
  <2>1. pc[c] = "idle" /\ \A l \in Layers : emitted[c][l] = "none"
    BY DEF Init
  <2> QED
    BY <2>1 DEF Events
<1>2. TypeOK /\ EventInv /\ [Next]_vars => EventInv'
  <2> SUFFICES ASSUME TypeOK, EventInv, [Next]_vars PROVE EventInv'
    OBVIOUS
  <2>1. CASE Configure
    <3>1. UNCHANGED <<kind, pc, rtOf, reader, emitted>>
      BY <2>1 DEF Configure, InitRuntime, Shutdown, AShutdown, AShutdownEnds,
                  AShutdownFails, call
    <3> QED
      BY <3>1 DEF EventInv, Events, Capturing
  <2>2. ASSUME NEW c \in Calls, Begin(c) PROVE EventInv'
    <3>1. \A d \in Calls \ {c} : rtOf'[d] = rtOf[d]
      BY <2>2 DEF Begin, Send, StartOriginal, StartPatched, StartBroken, Transport, TypeOK
    <3>2. UNCHANGED <<kind, reader, emitted>> /\ pc[c] \in Unlogged
      BY <2>2 DEF Begin, Send, StartOriginal, StartPatched, StartBroken, Transport, Unlogged
    <3>3. Goto(c, "ours") \/ Goto(c, "original") \/ Goto(c, "sending")
             \/ Goto(c, "broken") \/ Goto(c, "wire")
      BY <2>2 DEF Begin, Send, StartOriginal, StartPatched, StartBroken, Transport
    <3> QED
      BY <3>1, <3>2, <3>3, SilentEvents DEF Unlogged
  <2>3. ASSUME NEW c \in Calls, Answer(c) PROVE EventInv'
    <3>1. CASE AnswerBad(c) \/ AnswerOk(c) \/ AnswerStream(c) \/ Cancel(c)
      BY <3>1, SilentEvents DEF AnswerBad, AnswerOk, AnswerStream, Cancel, Unlogged
    <3>2. CASE NetworkError(c)
      BY <3>2, LastEvents DEF NetworkError, Unlogged
    <3>3. CASE AnswerSyncStream(c)
      BY <3>3, LastEvents DEF AnswerSyncStream, Unlogged
    <3>4. CASE BodyRead(c)
      BY <3>4, LastEvents DEF BodyRead, Unlogged
    <3>5. CASE HeldBodyFails(c)
      <4>1. pc[c] = "readOk" => kind[c].sync \/ ~kind[c].streaming
        BY DEF EventInv, Events
      <4> QED
        BY <3>5, <4>1, LastEvents DEF HeldBodyFails, Unlogged
    <3>6. CASE BodyFails(c)
      <4>1. /\ pc'[c] = "raised" /\ UNCHANGED <<kind, reader, rtOf>>
            /\ \A d \in Calls \ {c} : pc'[d] = pc[d] /\ emitted'[d] = emitted[d]
            /\ \A l \in Layers : emitted'[c][l] =
                  IF l \notin Capturing(c) THEN "none"
                  ELSE IF l = "transport" /\ pc[c] = "readOk" THEN "success" ELSE "error"
        BY <3>6 DEF BodyFails, Goto, TypeOK
      <4>2. Capturing(c)' = Capturing(c)
        BY <4>1 DEF Capturing
      <4>3. Events(c)'
        BY <4>1, <4>2 DEF Events, Unlogged, Layers
      <4> QED
        BY <4>1, <4>3, OthersEvents
    <3> QED
      BY <2>3, <3>1, <3>2, <3>3, <3>4, <3>5, <3>6 DEF Answer
  <2>4. ASSUME NEW c \in Calls, Stream(c) PROVE EventInv'
    <3>1. CASE Iterate(c)
      <4>1. /\ pc'[c] = "iterating" /\ reader'[c] \in {"bytes", "raw"}
            /\ \A d \in Calls \ {c} : pc'[d] = pc[d] /\ reader'[d] = reader[d]
            /\ UNCHANGED <<kind, emitted, rtOf>> /\ pc[c] = "open"
        BY <3>1 DEF Iterate, Goto, TypeOK
      <4>2. Events(c)'
        BY <4>1 DEF EventInv, Events, Unlogged
      <4> QED
        BY <4>1, <4>2, OthersEvents
    <3>2. CASE CloseUnread(c) \/ Break(c)
      BY <3>2, SilentEvents DEF CloseUnread, Break, Unlogged
    <3>3. CASE Marker(c)
      BY <3>3 DEF Marker, EventInv, Events, Capturing
    <3>4. ASSUME pc[c] = "iterating"
          PROVE  Seen(c) \in SUBSET Capturing(c) /\ (reader[c] # "raw" => Seen(c) = Capturing(c))
      BY <3>4 DEF Seen, EventInv, Events
    <3>5. CASE Exhausted(c)
      BY <3>4, <3>5, LastEvents DEF Exhausted, Unlogged
    <3>6. CASE StreamError(c)
      BY <3>4, <3>6, LastEvents DEF StreamError, Unlogged
    <3>7. ASSUME pc'[c] \in {"left", "cancelled"}, UNCHANGED <<kind, rtOf, reader>>,
                 \A d \in Calls \ {c} : pc'[d] = pc[d] /\ emitted'[d] = emitted[d]
          PROVE  EventInv'
      <4>1. Events(c)'
        BY <3>7 DEF Events, Unlogged
      <4> QED
        BY <3>7, <4>1, OthersEvents
    <3>8. CASE CancelStream(c)
      BY <3>7, <3>8 DEF CancelStream, Goto, Emit, TypeOK
    <3>9. ASSUME NEW l \in Layers, Finalize(c, l) PROVE EventInv'
      BY <3>7, <3>9 DEF Finalize, Emit, TypeOK
    <3>10. CASE ReadSyncStream(c)
      <4>1. /\ pc[c] = "handed" /\ pc'[c] \in {"returned", "cutShort"}
            /\ UNCHANGED <<kind, rtOf, reader, emitted>>
            /\ \A d \in Calls \ {c} : pc'[d] = pc[d]
        BY <3>10 DEF ReadSyncStream, Goto, TypeOK
      <4>2. Events(c)'
        BY <4>1 DEF EventInv, Events, Unlogged, Capturing
      <4> QED
        BY <4>1, <4>2, OthersEvents
    <3> QED
      BY <2>4, <3>1, <3>2, <3>3, <3>5, <3>6, <3>8, <3>9, <3>10 DEF Stream
  <2>5. CASE UNCHANGED vars
    BY <2>5 DEF vars, call, EventInv, Events, Capturing
  <2> QED
    BY <2>1, <2>2, <2>3, <2>4, <2>5 DEF Next
<1> QED
  BY <1>1, <1>2, TypesAlways, PTL DEF Spec

\* A captured call that returns or raises is logged once, by the one layer that
\* captures it, unless the host read the stream past the wrapper.
THEOREM LoggedOnceAlways == Spec => []LoggedOnce
<1>1. TypeOK /\ DecidedInv /\ EventInv => LoggedOnce
  <2> SUFFICES ASSUME TypeOK, DecidedInv, EventInv, NEW c \in wanted \ disturbed,
                      pc[c] \in {"returned", "raised", "cutShort"}, reader[c] # "raw",
                      Capturing(c) # {}
               PROVE  Cardinality(Logged(c)) = 1
    BY DEF LoggedOnce
  <2>1. c \in Calls /\ Decided(c) /\ Events(c)
    BY DEF TypeOK, DecidedInv, EventInv
  <2>2. Logged(c) = Capturing(c)
    BY <2>1 DEF Events, Logged, Capturing
  <2> QED
    BY <2>1, <2>2, OneLayer DEF Decided
<1> QED
  BY <1>1, TypesAlways, DecidedInvAlways, EventInvAlways, PTL

\* The patched send logs no success of a call that fails at the host, unless it
\* fails after send(), in a body the host has reserved for itself.
THEOREM PatchTruthfulAlways == Spec => []PatchTruthful
<1>1. EventInv => PatchTruthful
  BY DEF EventInv, Events, PatchTruthful
<1> QED
  BY <1>1, EventInvAlways, PTL

-----------------------------------------------------------------------------
(* The runtime of the last init().                                          *)

\* While a runtime from init() is to stay, it is the active one, and no
\* ashutdown() waits that could take it away.
StayInv == lastInit # None /\ ~overtaken =>
               runtime = lastInit /\ \A r \in Runtimes : pending[r] = 0

\* An init() that no ashutdown() was waiting under stays in force until the next
\* shutdown, whatever calls and shutdowns came before.
THEOREM InitSticksAlways == Spec => []InitSticks
<1>1. Init => StayInv
  BY DEF Init, StayInv
<1>2. TypeOK /\ StayInv /\ [Next]_vars => StayInv'
  <2> SUFFICES ASSUME TypeOK, StayInv, [Next]_vars PROVE StayInv'
    OBVIOUS
  <2>1. ASSUME NEW r \in Runtimes, NEW all \in BOOLEAN, NEW on \in BOOLEAN,
               InitRuntime(r, all, on)
        PROVE  StayInv'
    <3>1. ~overtaken' => \A s \in Runtimes : pending[s] = 0
      BY <2>1 DEF InitRuntime, TypeOK
    <3> QED
      BY <2>1, <3>1 DEF InitRuntime, SetRuntime, StayInv
  <2>2. CASE Shutdown \/ AShutdown
    BY <2>2 DEF Shutdown, AShutdown, StayInv
  <2>3. ASSUME NEW r \in Runtimes, AShutdownEnds(r) \/ AShutdownFails(r) PROVE StayInv'
    BY <2>3 DEF AShutdownEnds, AShutdownFails, StayInv
  <2>4. ASSUME NEW c \in Calls, Begin(c) \/ Answer(c) \/ Stream(c) PROVE UNCHANGED config
    BY <2>4 DEF Begin, Send, StartOriginal, StartPatched, StartBroken, Transport,
                Answer, NetworkError, AnswerBad, AnswerOk, AnswerSyncStream, AnswerStream,
                BodyRead, BodyFails, HeldBodyFails, Cancel,
                Stream, ReadSyncStream, Iterate, CloseUnread, Marker, Exhausted, StreamError,
                CancelStream, Break, Finalize
  <2>5. CASE UNCHANGED config
    BY <2>5 DEF config, StayInv
  <2> QED
    BY <2>1, <2>2, <2>3, <2>4, <2>5 DEF Next, Configure, vars
<1>3. StayInv => InitSticks
  BY DEF StayInv, InitSticks
<1> QED
  BY <1>1, <1>2, <1>3, TypesAlways, PTL DEF Spec
=============================================================================
