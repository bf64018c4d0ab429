---------------------------- MODULE StreamLog_proofs ----------------------------
(***************************************************************************)
(* What holds of StreamLog for every set of calls.                         *)
(*                                                                         *)
(* Which calls get a row: what the SDK bounds is within what the ingestion *)
(* service accepts, however long the texts and tags of an event are, and   *)
(* so every captured call gets its row unless nobody saw it, the sampler   *)
(* shed it, or a field that only the service bounds is unfit.              *)
(*                                                                         *)
(* What the row says: for bodies of every length, cut into chunks in every *)
(* way.  The parsers' loops, and the definitions they are compared with,   *)
(* are recursive functions of the number of bytes or lines; what they      *)
(* compute is shown by induction on that number (Induction).  HasRead says *)
(* what a parser holds that has consumed n lines; LoopInv is the invariant *)
(* of the loop of feed(); BufferInv, TimeInv and EventInv are those of the *)
(* stream, its times, and the event and its row.                           *)
(***************************************************************************)
EXTENDS StreamLog, SequenceTheorems, WellFoundedInduction, TLAPS

-----------------------------------------------------------------------------
(* Sizes.                                                                   *)

\* What the SDK leaves of a text or a dict is less than the service accepts.
LEMMA Limits ==
    /\ {PreviewChars, ErrorChars, MaxErrorChars, MaxTagKeys, MaxDictBytes,
        IngestPreviewChars, IngestDictBytes} \subseteq Nat
    /\ PreviewChars <= 280 /\ IngestPreviewChars >= 680
    /\ MaxDictBytes >= 2 /\ MaxDictBytes <= IngestDictBytes
BY DEF PreviewChars, ErrorChars, MaxErrorChars, MaxTagKeys, MaxDictBytes,
       IngestPreviewChars, IngestDictBytes

\* A cut text has at most the limit.
LEMMA CutBound ==
    ASSUME NEW n \in Nat, NEW limit \in Nat
    PROVE  Cut(n, limit) \in 0..limit
<1>1. \E x \in {n, limit} : \A y \in {n, limit} : x <= y
  OBVIOUS
<1> QED
  BY <1>1 DEF Cut, Min

\* A preview, redacted after it was cut, is within what the service accepts, unless
\* the host's redactor lengthens it.
LEMMA PreviewFits ==
    ASSUME NEW n \in Nat, NEW redactor
    PROVE  /\ Redact(Cut(n, PreviewChars), redactor) \in Nat
           /\ Redact(Cut(n, PreviewChars), redactor) <= IngestPreviewChars
                <=> ~(redactor = "lengthens" /\ n > 0)
<1>1. PICK k \in 0..PreviewChars : k = Cut(n, PreviewChars)
  BY CutBound, Limits
<1>2. k \in Nat /\ k <= 280
  BY Limits
<1>3. k + 10 * (k \div 7) \in Nat /\ k + 10 * (k \div 7) <= 680 /\ k <= 680
  BY <1>2
<1>4. k > 0 <=> n > 0
  BY <1>1 DEF Cut, Min, PreviewChars
<1>5. IngestPreviewChars \in Nat /\ IngestPreviewChars >= 680
  BY Limits
<1>6. CASE redactor = "addresses"
  BY <1>1, <1>2, <1>3, <1>5, <1>6 DEF Redact
<1>7. CASE redactor = "lengthens"
  BY <1>1, <1>2, <1>3, <1>4, <1>5, <1>7 DEF Redact
<1>8. CASE redactor \notin {"addresses", "lengthens"}
  BY <1>1, <1>2, <1>3, <1>5, <1>8 DEF Redact
<1> QED
  BY <1>6, <1>7, <1>8

\* A redacted text has a length.
LEMMA RedactNat ==
    ASSUME NEW n \in Nat, NEW redactor PROVE Redact(n, redactor) \in Nat
<1>1. n + 10 * (n \div 7) \in Nat /\ IngestPreviewChars + 1 \in Nat
  BY Limits
<1> QED
  BY <1>1 DEF Redact

\* A set of numbers up to a bound has its maximum.
LEMMA MaxIn ==
    ASSUME NEW N \in Nat, NEW S \in SUBSET (0..N), S # {}
    PROVE  Max(S) \in S
<1> DEFINE T == {k \in Nat : \E x \in S : k = N - x}
<1>1. T \subseteq Nat /\ T # {}
  <2>1. PICK x \in S : TRUE
    OBVIOUS
  <2>2. N - x \in T
    BY <2>1
  <2> QED
    BY <2>2
<1>2. \E k \in T : \A j \in T : ~ (<<j, k>> \in OpToRel(<, Nat))
  BY <1>1, NatLessThanWellFounded, WFMin
<1>3. PICK k \in T : \A j \in T : ~ (j < k)
  BY <1>1, <1>2 DEF OpToRel
<1>4. PICK x \in S : k = N - x
  OBVIOUS
<1>5. \A y \in S : x >= y
  <2>1. ASSUME NEW y \in S PROVE x >= y
    <3>1. N - y \in T
      OBVIOUS
    <3>2. ~ (N - y < N - x)
      BY <1>3, <1>4, <3>1
    <3> QED
      BY <3>2
  <2> QED
    BY <2>1
<1> QED
  BY <1>5 DEF Max

\* A dict that the SDK has capped fits the service's bound.
LEMMA CapDictFits ==
    ASSUME NEW d, Len(d) \in Nat
    PROVE  JsonLen(CapDict(d)) \in 0..MaxDictBytes
<1> DEFINE capped == CapKeys(d)
           fitting == {n \in 1..Len(capped) : JsonLen(SubSeq(capped, 1, n)) \in 0..MaxDictBytes}
           m == Max(fitting \cup {0})
<1>1. Len(capped) \in Nat
  <2>1. Cut(Len(d), MaxTagKeys) \in Nat
    BY CutBound, Limits
  <2> QED
    BY <2>1 DEF CapKeys
<1>2. m \in fitting \cup {0}
  <2>1. fitting \cup {0} \in SUBSET (0..Len(capped)) /\ fitting \cup {0} # {}
    BY <1>1
  <2> HIDE DEF fitting
  <2> QED
    BY <1>1, <2>1, MaxIn
<1>3. CapDict(d) = SubSeq(capped, 1, m)
  BY DEF CapDict
<1>4. CASE m = 0
  <2>1. SubSeq(capped, 1, 0) = <<>>
    BY DEF CapKeys
  <2>2. JsonLen(<<>>) \in 0..MaxDictBytes
    <3>1. JsonLen(<<>>) = 2
      BY DEF JsonLen
    <3> QED
      BY <3>1, Limits
  <2> QED
    BY <1>3, <1>4, <2>1, <2>2
<1>5. CASE m \in fitting
  BY <1>3, <1>5
<1> QED
  BY <1>2, <1>4, <1>5

-----------------------------------------------------------------------------
(* The row.                                                                 *)

\* Whether the host's redactor has made a preview too long.
Lengthened(e) ==
    call.shape.redactor = "lengthens" /\ (call.shape.input > 0 \/ e.figures.text # None)

\* What an emitted event has of its call, and how long it may be.
Describes(e) ==
    /\ e.service = call.shape.service /\ e.model = call.shape.model
    /\ e.conversation = call.shape.conversation
    /\ e.counts = IF CountsOf(e.figures) = {} THEN "fit" ELSE call.shape.counts
    /\ e.input <= IngestPreviewChars /\ e.output <= IngestPreviewChars <=> ~Lengthened(e)
    /\ e.error \in Nat
    /\ e.tags = call.shape.tags /\ e.metadata = Transport
    /\ DOMAIN e = {"figures", "status", "ttft", "service", "model", "conversation",
                   "counts", "input", "output", "error", "tags", "metadata"}

LoggedInv ==
    /\ call \in Calls
    /\ pc \in {"request", "stream", "event", "over"}
    /\ pc = "stream" => Captured
    /\ pc = "event" => Describes(event)
    /\ LoggedUnless

\* The service accepts the payload exactly if no field is unfit.
LEMMA PayloadFits ==
    ASSUME NEW e, Describes(e), call \in Calls
    PROVE  IngestEvent(Payload(e)) <=> ~Unfit(e)
<1>1. /\ call.shape.service \in Nat /\ call.shape.model \in Nat
      /\ call.shape.conversation \in {"none", "uuid", "text"}
      /\ call.shape.counts \in {"fit", "unfit"}
      /\ Len(call.shape.tags) \in Nat
  BY CallType DEF Shape
<1>2. JsonLen(CapDict(e.tags)) \in 0..MaxDictBytes
  BY <1>1, CapDictFits DEF Describes
<1>3. JsonLen(CapDict(e.metadata)) \in 0..MaxDictBytes
  <2>1. Len(Transport) \in Nat
    BY DEF Transport
  <2> QED
    BY <2>1, CapDictFits DEF Describes
<1>4. Cut(e.error, MaxErrorChars) \in 0..MaxErrorChars
  BY CutBound, Limits DEF Describes
<1> DEFINE p == Payload(e)
<1>5. /\ p.service = e.service /\ p.model = e.model /\ p.conversation = e.conversation
      /\ p.counts = e.counts /\ p.input = e.input /\ p.output = e.output
      /\ p.error = Cut(e.error, MaxErrorChars)
      /\ p.tags = CapDict(e.tags) /\ p.metadata = CapDict(e.metadata)
  BY DEF Payload, Describes
<1>6. /\ p.error <= MaxErrorChars
      /\ JsonLen(p.tags) <= IngestDictBytes /\ JsonLen(p.metadata) <= IngestDictBytes
  <2> HIDE DEF p
  <2> QED
    BY <1>2, <1>3, <1>4, <1>5, Limits
<1> HIDE DEF p
<1>7. IngestEvent(p) <=>
          /\ p.service <= IngestNameChars /\ p.model <= IngestNameChars
          /\ p.conversation \in {"none", "uuid"} /\ p.counts = "fit"
          /\ p.input <= IngestPreviewChars /\ p.output <= IngestPreviewChars
  BY <1>6 DEF IngestEvent
<1>8. p.input <= IngestPreviewChars /\ p.output <= IngestPreviewChars <=> ~Lengthened(e)
  BY <1>5 DEF Describes
<1>9. p.counts = "fit" <=> ~(call.shape.counts = "unfit" /\ CountsOf(e.figures) # {})
  BY <1>1, <1>5 DEF Describes
<1>10. IngestEvent(p) <=> ~Unfit(e)
  BY <1>1, <1>5, <1>7, <1>8, <1>9 DEF Describes, Unfit, Lengthened, IngestNameChars
<1> QED
  BY <1>10 DEF p

\* What emit() leaves behind: an event, or nothing where the host's sampler or redactor
\* raises.
LEMMA Emits ==
    ASSUME NEW status, NEW figures, NEW first, NEW errorChars,
           Emit(status, figures, first, errorChars)
    PROVE  /\ call' = call /\ row' = row
           /\ \/ /\ event'.status = status
                 /\ event'.figures = [text |-> Preview(figures.text), prompt |-> figures.prompt,
                                      completion |-> figures.completion,
                                      total |-> figures.total]
                 /\ DOMAIN event' = {"figures", "status", "ttft", "service", "model",
                                     "conversation", "counts", "input", "output", "error",
                                     "tags", "metadata"}
                 /\ \E kept \in Keeps(status) : /\ pc' = IF kept THEN "event" ELSE "over"
                                                /\ fate' = IF kept THEN "" ELSE "sampled"
              \/ /\ event' = event /\ pc' = "over" /\ fate' = "swallowed"
                 /\ call.sampler = "raises" \/ call.shape.redactor = "raises"
<1> DEFINE mayRaise == call.sampler = "raises" \/ call.shape.redactor = "raises"
           shown == [text |-> Preview(figures.text), prompt |-> figures.prompt,
                     completion |-> figures.completion, total |-> figures.total]
           fields == {"figures", "status", "ttft", "service", "model", "conversation",
                      "counts", "input", "output", "error", "tags", "metadata"}
           sampled == \E kept \in Keeps(status) : /\ pc' = IF kept THEN "event" ELSE "over"
                                                 /\ fate' = IF kept THEN "" ELSE "sampled"
<1>1. \/ Swallow /\ mayRaise
      \/ /\ \E service, model, conversation, counts, input, output, error, tags :
                event' = [figures |-> shown, status |-> status, ttft |-> first,
                          service |-> service, model |-> model,
                          conversation |-> conversation, counts |-> counts,
                          input |-> input, output |-> output, error |-> error,
                          tags |-> tags, metadata |-> Transport]
         /\ sampled /\ UNCHANGED <<call, row>>
  <2>1. ASSUME Swallow, mayRaise PROVE Swallow /\ mayRaise
    BY <2>1
  <2> SUFFICES ASSUME ~(Swallow /\ mayRaise)
               PROVE  /\ \E service, model, conversation, counts, input, output, error, tags :
                            event' = [figures |-> shown, status |-> status, ttft |-> first,
                                      service |-> service, model |-> model,
                                      conversation |-> conversation, counts |-> counts,
                                      input |-> input, output |-> output, error |-> error,
                                      tags |-> tags, metadata |-> Transport]
                      /\ sampled /\ UNCHANGED <<call, row>>
    OBVIOUS
  <2> HIDE DEF sampled, shown
  <2>2. /\ event' = [figures |-> shown, status |-> status, ttft |-> first,
                     service |-> call.shape.service, model |-> call.shape.model,
                     conversation |-> call.shape.conversation,
                     counts |-> IF CountsOf(figures) = {} THEN "fit" ELSE call.shape.counts,
                     input |-> Redact(Cut(call.shape.input, PreviewChars), call.shape.redactor),
                     output |-> IF Preview(figures.text) = None THEN 0
                                ELSE Redact(Cut(call.shape.output, PreviewChars),
                                            call.shape.redactor),
                     error |-> Redact(Cut(errorChars, ErrorChars), call.shape.redactor),
                     tags |-> call.shape.tags, metadata |-> Transport]
        /\ sampled /\ UNCHANGED <<call, row>>
    BY DEF Emit, RedactorRaises, sampled, shown
  <2> QED
    BY <2>2
<1> HIDE DEF sampled, shown
<1>2. CASE Swallow /\ mayRaise
  BY <1>2 DEF Swallow
<1>3. CASE /\ \E service, model, conversation, counts, input, output, error, tags :
                event' = [figures |-> shown, status |-> status, ttft |-> first,
                          service |-> service, model |-> model,
                          conversation |-> conversation, counts |-> counts,
                          input |-> input, output |-> output, error |-> error,
                          tags |-> tags, metadata |-> Transport]
           /\ sampled /\ UNCHANGED <<call, row>>
  <2>1. event'.status = status /\ event'.figures = shown /\ DOMAIN event' = fields
    BY <1>3
  <2> QED
    BY <1>3, <2>1 DEF sampled, shown
<1> QED
  BY <1>1, <1>2, <1>3

\* Whatever emit() says of a call, its event describes it, and the sampler sheds
\* no error and no cancellation where it must not.
LEMMA EmitStep ==
    ASSUME LoggedInv, NEW status, NEW figures, NEW first, NEW errorChars \in Nat,
           Emit(status, figures, first, errorChars), Handler # None
    PROVE  LoggedInv'
<1>1. /\ call.shape.input \in Nat /\ call.shape.output \in Nat /\ call.shape.output > 0
      /\ call' = call
  <2>1. call' = call
    BY Emits
  <2> QED
    BY <2>1, CallType DEF LoggedInv, Shape
<1>2. CASE fate' = "swallowed" /\ pc' = "over" /\ MayRaise
  <2>1. MayRaise'
    BY <1>1, <1>2 DEF MayRaise, Handler, Streaming, OpenAILike
  <2> QED
    BY <1>1, <1>2, <2>1 DEF LoggedInv, LoggedUnless
<1>3. CASE event' # event \/ fate' # "swallowed"
  <2> DEFINE text == Preview(figures.text)
             input == Redact(Cut(call.shape.input, PreviewChars), call.shape.redactor)
             output == IF text = None THEN 0
                       ELSE Redact(Cut(call.shape.output, PreviewChars), call.shape.redactor)
             error == Redact(Cut(errorChars, ErrorChars), call.shape.redactor)
             figured == [text |-> text, prompt |-> figures.prompt,
                         completion |-> figures.completion, total |-> figures.total]
             counts == IF CountsOf(figures) = {} THEN "fit" ELSE call.shape.counts
  <2>1. /\ event' = [figures |-> figured, status |-> status, ttft |-> first,
                     service |-> call.shape.service, model |-> call.shape.model,
                     conversation |-> call.shape.conversation, counts |-> counts,
                     input |-> input, output |-> output, error |-> error,
                     tags |-> call.shape.tags, metadata |-> Transport]
        /\ \E kept \in Keeps(status) : /\ pc' = IF kept THEN "event" ELSE "over"
                                       /\ fate' = IF kept THEN "" ELSE "sampled"
    BY <1>3 DEF Emit, Swallow
  <2>2. error \in Nat
    <3>1. Cut(errorChars, ErrorChars) \in Nat
      BY CutBound, Limits
    <3> QED
      BY <3>1, RedactNat
  <2>3. input <= IngestPreviewChars /\ output <= IngestPreviewChars
          <=> ~(call.shape.redactor = "lengthens" /\ (call.shape.input > 0 \/ text # None))
    <3>1. /\ input <= IngestPreviewChars
                <=> ~(call.shape.redactor = "lengthens" /\ call.shape.input > 0)
          /\ Redact(Cut(call.shape.output, PreviewChars), call.shape.redactor)
                  <= IngestPreviewChars
                <=> call.shape.redactor # "lengthens"
      BY <1>1, PreviewFits
    <3>2. 0 <= IngestPreviewChars
      BY Limits
    <3> HIDE DEF text, input
    <3> QED
      BY <3>1, <3>2
  <2>4. CountsOf(figured) = CountsOf(figures) /\ figured.text = text
    BY DEF CountsOf
  <2> HIDE DEF text, input, output, error, figured, counts
  <2>5. Describes(event')
    <3>1. /\ event'.figures = figured /\ event'.counts = counts
          /\ event'.input = input /\ event'.output = output /\ event'.error = error
          /\ event'.service = call.shape.service /\ event'.model = call.shape.model
          /\ event'.conversation = call.shape.conversation
          /\ event'.tags = call.shape.tags /\ event'.metadata = Transport
          /\ DOMAIN event' = {"figures", "status", "ttft", "service", "model",
                              "conversation", "counts", "input", "output", "error",
                              "tags", "metadata"}
      BY <2>1
    <3> QED
      BY <2>2, <2>3, <2>4, <3>1 DEF Describes, Lengthened, counts
  <2>6. Describes(event)'
    BY <1>1, <2>5 DEF Describes, Lengthened
  <2>7. event'.status = status
    BY <2>1
  <2>8. PICK kept \in Keeps(status) : /\ pc' = IF kept THEN "event" ELSE "over"
                                      /\ fate' = IF kept THEN "" ELSE "sampled"
    BY <2>1
  <2>9. CASE kept
    BY <1>1, <2>6, <2>8, <2>9 DEF LoggedInv, LoggedUnless
  <2>10. CASE ~kept
    <3>1. ~(call.sampler = "errors" /\ status # "success")
      BY <2>8, <2>10 DEF Keeps
    <3>2. LoggedUnless'
      BY <1>1, <2>7, <2>8, <2>10, <3>1 DEF LoggedUnless
    <3> QED
      BY <1>1, <2>8, <2>10, <3>2 DEF LoggedInv
  <2> QED
    BY <2>9, <2>10
<1> QED
  BY <1>2, <1>3, Emits DEF MayRaise

\* Whatever its texts and tags, a call to a provider gets its row, unless its request
\* could not be parsed, nobody saw it, its event was swallowed or shed, or one of the
\* fields that only the service bounds is unfit.
THEOREM LoggedAlways == Spec => []LoggedUnless
<1>1. Init => LoggedInv
  BY DEF Init, LoggedInv, LoggedUnless
<1>2. LoggedInv /\ [Next]_vars => LoggedInv'
  <2> SUFFICES ASSUME LoggedInv, [Next]_vars PROVE LoggedInv'
    OBVIOUS
  <2>0. call.shape.error \in Nat /\ 0 \in Nat
    BY CallType DEF LoggedInv, Shape
  <2>1. CASE PassThrough
    BY <2>1 DEF PassThrough, LoggedInv, LoggedUnless, Handler, Captured
  <2>2. CASE Fails
    BY <2>0, <2>2, EmitStep DEF Fails, Captured
  <2>3. CASE Buffered
    <3> DEFINE figures == IF call.cut \/ "odd" \in ToSet(call.body) THEN NoFigures
                          ELSE ParseResponse(Answer)
    <3>1. CASE Unstrippable(figures)
      <4>1. Swallow /\ Handler # "anthropic" /\ call.shape.content = "parts"
            /\ ~Streaming(call.request)
        BY <2>3, <3>1 DEF Buffered, Unstrippable
      <4>2. MayRaise' /\ call' = call /\ fate' = "swallowed" /\ pc' = "over"
        BY <4>1 DEF Swallow, MayRaise, Handler, Streaming, OpenAILike
      <4> QED
        BY <4>2 DEF LoggedInv, LoggedUnless
    <3>2. CASE ~Unstrippable(figures)
      <4>1. Emit("success", figures, None, 0) /\ Handler # None
        BY <2>3, <3>2 DEF Buffered, Captured
      <4> QED
        BY <2>0, <4>1, EmitStep
    <3> QED
      BY <3>1, <3>2
  <2>4. CASE HeadersOnly
    BY <2>0, <2>4, EmitStep DEF HeadersOnly, Captured
  <2>5. CASE Attach
    BY <2>5 DEF Attach, LoggedInv, LoggedUnless, Handler, Captured
  <2>6. CASE Chunk
    <3>1. pc = "stream" /\ pc' = pc /\ call' = call
      BY <2>6 DEF Chunk
    <3> QED
      BY <3>1 DEF LoggedInv, LoggedUnless, Handler, Captured
  <2>7. CASE Exhausted \/ Leave \/ Breaks
    BY <2>0, <2>7, EmitStep DEF Exhausted, Leave, Breaks, EmitStream, LoggedInv, Captured
  <2>8. CASE Unseen
    BY <2>8 DEF Unseen, LoggedInv, LoggedUnless
  <2>9. CASE Ingest
    <3>1. IngestEvent(Payload(event)) <=> ~Unfit(event)
      BY <2>9, PayloadFits DEF Ingest, LoggedInv
    <3>2. pc' = "over" /\ call' = call /\ event' = event
          /\ fate' = IF IngestEvent(Payload(event)) THEN "stored" ELSE "refused"
      BY <2>9 DEF Ingest
    <3>3. Unfit(event)' <=> Unfit(event)
      BY <3>2 DEF Unfit
    <3> QED
      BY <3>1, <3>2, <3>3 DEF LoggedInv, LoggedUnless
  <2>10. CASE UNCHANGED vars
    <3>1. UNCHANGED <<call, pc, event, fate>>
      BY <2>10 DEF vars
    <3>2. /\ Unfit(event)' <=> Unfit(event)
          /\ MayRaise' <=> MayRaise
          /\ Describes(event)' <=> Describes(event)
          /\ Handler' = Handler /\ Captured' = Captured
      BY <3>1 DEF Unfit, MayRaise, Describes, Lengthened, Handler, Streaming, OpenAILike, Captured
    <3> QED
      BY <3>1, <3>2 DEF LoggedInv, LoggedUnless
  <2> QED
    BY <2>1, <2>2, <2>3, <2>4, <2>5, <2>6, <2>7, <2>8, <2>9, <2>10 DEF Next
<1>3. LoggedInv => LoggedUnless
  BY DEF LoggedInv
<1> QED
  BY <1>1, <1>2, <1>3, PTL DEF Spec

-----------------------------------------------------------------------------
(* Loops over a body.                                                       *)

\* A set that holds 0, and with each number the next, holds them all.
LEMMA Induction ==
    ASSUME NEW T \in SUBSET Nat, 0 \in T, \A k \in T : k + 1 \in T
    PROVE  \A n \in Nat : n \in T
<1> SUFFICES ASSUME Nat \ T # {} PROVE FALSE
  OBVIOUS
<1>1. \E n \in Nat \ T : \A j \in Nat \ T : ~ (<<j, n>> \in OpToRel(<, Nat))
  BY NatLessThanWellFounded, WFMin, Nat \ T \subseteq Nat
<1>2. PICK n \in Nat \ T : \A j \in Nat \ T : ~ (j < n)
  BY <1>1 DEF OpToRel
<1>3. n # 0 /\ n - 1 \in Nat
  BY <1>2
<1>4. n - 1 \in T
  BY <1>2, <1>3
<1> QED
  BY <1>2, <1>3, <1>4

Begin(bytes) == [bytes |-> bytes, from |-> 1, raised |-> FALSE, parser |-> parser]
Turn(s, bytes, k) == IF bytes[k] % 3 = 0 THEN Take(s, k) ELSE s

\* The loop of feed() exists: it begins with the parser as it is, and takes one
\* byte at a time.
LEMMA LoopAt ==
    ASSUME NEW bytes, Len(bytes) \in Nat
    PROVE  /\ Loop(bytes)[0] = Begin(bytes)
           /\ \A k \in 1..Len(bytes) : Loop(bytes)[k] = Turn(Loop(bytes)[k - 1], bytes, k)
<1> DEFINE Upto(f, k) == IF k = 0 THEN Begin(bytes) ELSE Turn(f[k - 1], bytes, k)
           T == {m \in Nat : \E f : f = [k \in 0..m |-> Upto(f, k)]}
<1>1. 0 \in T
  <2> DEFINE f == [k \in 0..0 |-> Begin(bytes)]
  <2>1. f = [k \in 0..0 |-> Upto(f, k)]
    OBVIOUS
  <2> QED
    BY <2>1
<1>2. ASSUME NEW m \in T PROVE m + 1 \in T
  <2>1. PICK f : f = [k \in 0..m |-> Upto(f, k)]
    OBVIOUS
  <2> DEFINE g == [k \in 0..(m + 1) |-> IF k = m + 1 THEN Turn(f[m], bytes, k) ELSE f[k]]
  <2>2. \A k \in 0..m : f[k] = Upto(f, k)
    BY <2>1
  <2>3. ASSUME NEW k \in 0..(m + 1) PROVE g[k] = Upto(g, k)
    <3>1. CASE k = m + 1
      <4>1. g[k - 1] = f[m] /\ g[k] = Turn(f[m], bytes, k) /\ k # 0
        BY <3>1
      <4> QED
        BY <3>1, <4>1
    <3>2. CASE k \in 0..m
      <4>1. g[k] = f[k] /\ (k # 0 => g[k - 1] = f[k - 1])
        BY <3>2
      <4> HIDE DEF g
      <4> QED
        BY <2>2, <3>2, <4>1
    <3> QED
      BY <3>1, <3>2
  <2>4. g = [k \in 0..(m + 1) |-> Upto(g, k)]
    <3>1. g = [k \in 0..(m + 1) |-> g[k]]
      OBVIOUS
    <3> HIDE DEF g
    <3> QED
      BY <2>3, <3>1
  <2> HIDE DEF g, Upto
  <2>5. \E h : h = [k \in 0..(m + 1) |-> Upto(h, k)]
    BY <2>4
  <2> QED
    BY <2>5
<1>3. \E f : f = [k \in 0..Len(bytes) |-> Upto(f, k)]
  <2>1. T \in SUBSET Nat
    OBVIOUS
  <2> HIDE DEF T
  <2>2. Len(bytes) \in T
    BY <1>1, <1>2, <2>1, Induction
  <2> QED
    BY <2>2 DEF T
<1>4. Loop(bytes) = [k \in 0..Len(bytes) |-> Upto(Loop(bytes), k)]
  BY <1>3 DEF Loop, Begin, Turn
<1>5. \A k \in 0..Len(bytes) : Loop(bytes)[k] = Upto(Loop(bytes), k)
  BY <1>4
<1> QED
  BY <1>5

\* Opaque names for the provers: how many lines a body has, and the kind of each.
Length == Len(call.body)
Line(n) == call.body[n]

WithPieces(text, pieces, n) == text \o pieces[n]

\* Joined exists: the text of n lines is that of one less and the pieces of the n-th.
LEMMA JoinedAt ==
    ASSUME Length \in Nat, NEW pieces
    PROVE  /\ Joined(pieces)[0] = <<>>
           /\ \A n \in 1..Length : Joined(pieces)[n] = Joined(pieces)[n - 1] \o pieces[n]
<1> DEFINE Upto(f, k) == IF k = 0 THEN <<>> ELSE WithPieces(f[k - 1], pieces, k)
           T == {m \in Nat : \E f : f = [k \in 0..m |-> Upto(f, k)]}
<1>1. 0 \in T
  <2> DEFINE f == [k \in 0..0 |-> <<>>]
  <2>1. f = [k \in 0..0 |-> Upto(f, k)]
    OBVIOUS
  <2> QED
    BY <2>1
<1>2. ASSUME NEW m \in T PROVE m + 1 \in T
  <2>1. PICK f : f = [k \in 0..m |-> Upto(f, k)]
    OBVIOUS
  <2> DEFINE g == [k \in 0..(m + 1) |-> IF k = m + 1 THEN WithPieces(f[m], pieces, k) ELSE f[k]]
  <2>2. \A k \in 0..m : f[k] = Upto(f, k)
    BY <2>1
  <2>3. ASSUME NEW k \in 0..(m + 1) PROVE g[k] = Upto(g, k)
    <3>1. CASE k = m + 1
      <4>1. g[k - 1] = f[m] /\ g[k] = WithPieces(f[m], pieces, k) /\ k # 0
        BY <3>1
      <4> QED
        BY <3>1, <4>1
    <3>2. CASE k \in 0..m
      <4>1. g[k] = f[k] /\ (k # 0 => g[k - 1] = f[k - 1])
        BY <3>2
      <4> HIDE DEF g
      <4> QED
        BY <2>2, <3>2, <4>1
    <3> QED
      BY <3>1, <3>2
  <2>4. g = [k \in 0..(m + 1) |-> Upto(g, k)]
    <3>1. g = [k \in 0..(m + 1) |-> g[k]]
      OBVIOUS
    <3> HIDE DEF g
    <3> QED
      BY <2>3, <3>1
  <2> HIDE DEF g, Upto
  <2>5. \E h : h = [k \in 0..(m + 1) |-> Upto(h, k)]
    BY <2>4
  <2> QED
    BY <2>5
<1>3. \E f : f = [k \in 0..Length |-> Upto(f, k)]
  <2>1. T \in SUBSET Nat
    OBVIOUS
  <2> HIDE DEF T
  <2>2. Length \in T
    BY <1>1, <1>2, <2>1, Induction
  <2> QED
    BY <2>2 DEF T
<1>4. Joined(pieces) = [k \in 0..Length |-> Upto(Joined(pieces), k)]
  BY <1>3 DEF Joined, WithPieces, Length
<1>5. \A k \in 0..Length : Joined(pieces)[k] = Upto(Joined(pieces), k)
  BY <1>4
<1>6. \A n \in 1..Length : Joined(pieces)[n] = WithPieces(Joined(pieces)[n - 1], pieces, n)
  BY <1>5
<1>7. Joined(pieces)[0] = <<>>
  BY <1>5
<1> QED
  BY <1>6, <1>7 DEF WithPieces

GatewayBegin ==
    [text |-> <<>>, prompt |-> None, completion |-> None, total |-> None, input |-> 0]

\* The gateway's provider reads a line after the ones before it.
LEMMA GatewayAt ==
    ASSUME Length \in Nat
    PROVE  /\ GatewayLoop[0] = GatewayBegin
           /\ \A n \in 1..Length : GatewayLoop[n] = GatewayLine(GatewayLoop[n - 1], n)
<1> DEFINE Upto(f, k) == IF k = 0 THEN GatewayBegin ELSE GatewayLine(f[k - 1], k)
           T == {m \in Nat : \E f : f = [k \in 0..m |-> Upto(f, k)]}
<1>1. 0 \in T
  <2> DEFINE f == [k \in 0..0 |-> GatewayBegin]
  <2>1. f = [k \in 0..0 |-> Upto(f, k)]
    OBVIOUS
  <2> QED
    BY <2>1
<1>2. ASSUME NEW m \in T PROVE m + 1 \in T
  <2>1. PICK f : f = [k \in 0..m |-> Upto(f, k)]
    OBVIOUS
  <2> DEFINE g == [k \in 0..(m + 1) |-> IF k = m + 1 THEN GatewayLine(f[m], k) ELSE f[k]]
  <2>2. \A k \in 0..m : f[k] = Upto(f, k)
    BY <2>1
  <2>3. ASSUME NEW k \in 0..(m + 1) PROVE g[k] = Upto(g, k)
    <3>1. CASE k = m + 1
      <4>1. g[k - 1] = f[m] /\ g[k] = GatewayLine(f[m], k) /\ k # 0
        BY <3>1
      <4> QED
        BY <3>1, <4>1
    <3>2. CASE k \in 0..m
      <4>1. g[k] = f[k] /\ (k # 0 => g[k - 1] = f[k - 1])
        BY <3>2
      <4> HIDE DEF g
      <4> QED
        BY <2>2, <3>2, <4>1
    <3> QED
      BY <3>1, <3>2
  <2>4. g = [k \in 0..(m + 1) |-> Upto(g, k)]
    <3>1. g = [k \in 0..(m + 1) |-> g[k]]
      OBVIOUS
    <3> HIDE DEF g
    <3> QED
      BY <2>3, <3>1
  <2> HIDE DEF g, Upto
  <2>5. \E h : h = [k \in 0..(m + 1) |-> Upto(h, k)]
    BY <2>4
  <2> QED
    BY <2>5
<1>3. \E f : f = [k \in 0..Length |-> Upto(f, k)]
  <2>1. T \in SUBSET Nat
    OBVIOUS
  <2> HIDE DEF T
  <2>2. Length \in T
    BY <1>1, <1>2, <2>1, Induction
  <2> QED
    BY <2>2 DEF T
<1>4. GatewayLoop = [k \in 0..Length |-> Upto(GatewayLoop, k)]
  BY <1>3 DEF GatewayLoop, GatewayBegin, Length
<1>5. \A k \in 0..Length : GatewayLoop[k] = Upto(GatewayLoop, k)
  BY <1>4
<1> QED
  BY <1>5
-----------------------------------------------------------------------------
(* What has been read of a body.                                            *)

Kinds == {"start", "text", "blank", "other", "both", "usage", "done", "noise", "odd"}

\* A body has a length, and each of its lines a kind.
LEMMA BodyType ==
    ASSUME call \in Calls
    PROVE  /\ Length \in Nat
           /\ \A n \in 1..Length : Line(n) \in Kinds
BY CallType DEF Body, Kinds, Length, Line

\* A captured request is read by one of three parsers.
LEMMA Handlers ==
    ASSUME Handler # None PROVE OpenAILike \/ Handler = "anthropic" \/ Handler = "ollama"
BY DEF Handler, Identify, OpenAILike

\* The lines of a kind among n lines are those among one less, and perhaps the n-th.
LEMMA LineAt ==
    ASSUME NEW k, NEW n \in Nat, n # 0
    PROVE  /\ LinesOf({k}, n - 1) \in SUBSET (1..(n - 1))
           /\ LinesOf({k}, n) = IF Line(n) = k THEN LinesOf({k}, n - 1) \cup {n}
                                ELSE LinesOf({k}, n - 1)
BY DEF LinesOf, Line

LastOf(S) == IF S = {} THEN None ELSE Max(S)

\* A line after others is the last of them.
LEMMA LastAt ==
    ASSUME NEW n \in Nat, n > 0, NEW S \in SUBSET (1..(n - 1))
    PROVE  LastOf(S \cup {n}) = n
<1>1. S \cup {n} \in SUBSET (0..n) /\ S \cup {n} # {}
  OBVIOUS
<1>2. \A x \in S \cup {n} : (\A y \in S \cup {n} : x >= y) <=> x = n
  OBVIOUS
<1>3. Max(S \cup {n}) = n
  BY <1>2 DEF Max
<1> QED
  BY <1>3 DEF LastOf

\* The lines of which a parser takes one piece, and those of which it takes two.
OnePiece(n) == Line(n) \in {"text", "blank"} \/ (OpenAILike /\ Line(n) = "other")
TwoPieces(n) == OpenAILike /\ Line(n) = "both"

LEMMA HeardAt ==
    ASSUME Length \in Nat, NEW n \in 1..Length
    PROVE  Heard[n] = IF OnePiece(n) THEN <<n>> ELSE IF TwoPieces(n) THEN <<n, n>> ELSE <<>>
BY DEF Heard, Length, Line, OnePiece, TwoPieces

\* The text is a sequence of lines, empty as long as there was no line of text.
LEMMA TextEmpty ==
    ASSUME Length \in Nat
    PROVE  \A n \in 0..Length : /\ TextLines(n) \in Seq(Nat)
                                /\ TextLines(n) = <<>> <=> Texts(n) = {}
<1> DEFINE T == {n \in Nat : n <= Length =>
                     /\ TextLines(n) \in Seq(Nat)
                     /\ TextLines(n) = <<>> <=> Texts(n) = {}}
<1>1. 0 \in T
  <2>1. TextLines(0) = <<>>
    BY JoinedAt DEF TextLines
  <2>2. Texts(0) = {}
    BY DEF Texts
  <2>3. <<>> \in Seq(Nat)
    OBVIOUS
  <2> QED
    BY <2>1, <2>2, <2>3
<1>2. ASSUME NEW m \in T PROVE m + 1 \in T
  <2>1. SUFFICES ASSUME m + 1 <= Length
                 PROVE  /\ TextLines(m + 1) \in Seq(Nat)
                        /\ TextLines(m + 1) = <<>> <=> Texts(m + 1) = {}
    OBVIOUS
  <2>2. m \in Nat /\ m + 1 \in Nat /\ m + 1 \in 1..Length /\ (m + 1) - 1 = m
    BY <2>1
  <2>3. TextLines(m + 1) = TextLines(m) \o Heard[m + 1]
    BY <2>2, JoinedAt DEF TextLines
  <2>4. TextLines(m) \in Seq(Nat) /\ (TextLines(m) = <<>> <=> Texts(m) = {})
    BY <2>1
  <2>5. /\ Heard[m + 1] \in Seq(Nat)
        /\ Heard[m + 1] = <<>> <=> ~OnePiece(m + 1) /\ ~TwoPieces(m + 1)
    <3>1. PICK i \in Nat : i = m + 1
      BY <2>2
    <3>2. /\ <<i>> \in Seq(Nat) /\ <<i, i>> \in Seq(Nat) /\ <<>> \in Seq(Nat)
          /\ <<i>> # <<>> /\ <<i, i>> # <<>>
      OBVIOUS
    <3>3. Heard[i] = IF OnePiece(i) THEN <<i>> ELSE IF TwoPieces(i) THEN <<i, i>> ELSE <<>>
      BY <2>2, <3>1, HeardAt
    <3>4. PICK one, two : one = <<i>> /\ two = <<i, i>>
      OBVIOUS
    <3>5. /\ Heard[i] \in Seq(Nat)
          /\ Heard[i] = <<>> <=> ~OnePiece(i) /\ ~TwoPieces(i)
      <4> HIDE DEF T
      <4>1. /\ one \in Seq(Nat) /\ two \in Seq(Nat) /\ one # <<>> /\ two # <<>>
            /\ Heard[i] = IF OnePiece(i) THEN one ELSE IF TwoPieces(i) THEN two ELSE <<>>
        BY <3>2, <3>3, <3>4
      <4> QED
        BY <3>2, <4>1
    <3> HIDE DEF T
    <3> QED
      BY <3>1, <3>5
  <2>6. Texts(m + 1) = IF Heard[m + 1] # <<>> THEN Texts(m) \cup {m + 1} ELSE Texts(m)
    <3>1. 1..(m + 1) = (1..m) \cup {m + 1}
      BY <2>2
    <3> HIDE DEF T
    <3> QED
      BY <3>1 DEF Texts
  <2> HIDE DEF T
  <2>7. PICK a \in Seq(Nat) : a = TextLines(m)
    BY <2>4
  <2>8. PICK b \in Seq(Nat) : b = Heard[m + 1]
    BY <2>5
  <2>9. a \o b \in Seq(Nat) /\ (a \o b = <<>> <=> a = <<>> /\ b = <<>>)
    <3>1. Len(a \o b) = Len(a) + Len(b) /\ a \o b \in Seq(Nat)
      BY ConcatProperties
    <3>2. \A c \in Seq(Nat) : c = <<>> <=> Len(c) = 0
      BY EmptySeq
    <3>3. Len(a) \in Nat /\ Len(b) \in Nat
      OBVIOUS
    <3> QED
      BY <3>1, <3>2, <3>3
  <2> QED
    BY <2>3, <2>4, <2>6, <2>7, <2>8, <2>9
<1>3. T \in SUBSET Nat
  OBVIOUS
<1>4. \A n \in Nat : n \in T
  <2> HIDE DEF T
  <2> QED
    BY <1>1, <1>2, <1>3, Induction
<1> QED
  BY <1>4

\* What a line adds to the text.
LEMMA TextAt ==
    ASSUME Length \in Nat, NEW n \in 1..Length
    PROVE  TextLines(n) = IF OnePiece(n) THEN TextLines(n - 1) \o <<n>>
                          ELSE IF TwoPieces(n) THEN TextLines(n - 1) \o <<n, n>>
                          ELSE TextLines(n - 1)
<1>1. TextLines(n) = TextLines(n - 1) \o Heard[n]
  BY JoinedAt DEF TextLines
<1>2. TextLines(n - 1) \in Seq(Nat)
  BY TextEmpty
<1>3. TextLines(n - 1) \o <<>> = TextLines(n - 1)
  BY <1>2, ConcatEmptySeq
<1> QED
  BY <1>1, <1>3, HeardAt

\* What the parser holds when it has consumed n lines.
HasRead(p, n) ==
    /\ p = [text |-> p.text, prompt |-> p.prompt, completion |-> p.completion,
            total |-> p.total, completed |-> p.completed]
    /\ p.text = TextLines(n)
    /\ p.prompt = IF Opens(n) = {} THEN None ELSE PromptTokens
    /\ p.completion = LastOf(Counts(n))
    /\ p.total \in {None, Sum(p.prompt, p.completion)}
    /\ p.completed = (LinesOf({"done"}, n) # {})

\* A line that raises changes nothing.
LEMMA OddReads ==
    ASSUME Length \in Nat, NEW n \in 1..Length, NEW p, HasRead(p, n - 1),
           Line(n) = "odd"
    PROVE  HasRead(p, n)
<1>1. TextLines(n) = TextLines(n - 1)
  BY TextAt DEF OnePiece, TwoPieces
<1>0. n \in Nat /\ n # 0
  OBVIOUS
<1>2. /\ LinesOf({"start"}, n) = LinesOf({"start"}, n - 1)
      /\ LinesOf({"usage"}, n) = LinesOf({"usage"}, n - 1)
      /\ LinesOf({"done"}, n) = LinesOf({"done"}, n - 1)
  BY <1>0, LineAt
<1>3. /\ Counts(n) = Counts(n - 1) /\ Opens(n) = Opens(n - 1)
      /\ LinesOf({"done"}, n) = LinesOf({"done"}, n - 1)
  BY <1>2 DEF Counts, Opens
<1> QED
  BY <1>1, <1>3 DEF HasRead

\* Each parser takes from a line what the line has, and keeps the rest.
LEMMA ParseReads ==
    ASSUME call \in Calls, Handler # None, NEW n \in 1..Length,
           NEW p, HasRead(p, n - 1), Line(n) # "odd"
    PROVE  HasRead(Parse(p, n), n)
<1>0. Length \in Nat /\ Line(n) \in Kinds /\ n - 1 \in Nat /\ n \in Nat /\ n # 0 /\ n > 0
  BY BodyType
<1> DEFINE kind == Line(n)
<1>8. p = [text |-> p.text, prompt |-> p.prompt, completion |-> p.completion,
           total |-> p.total, completed |-> p.completed]
  BY DEF HasRead
<1>9. /\ p.text = TextLines(n - 1)
      /\ p.prompt = IF Opens(n - 1) = {} THEN None ELSE PromptTokens
      /\ p.completion = LastOf(Counts(n - 1))
      /\ p.total \in {None, Sum(p.prompt, p.completion)}
      /\ p.completed = (LinesOf({"done"}, n - 1) # {})
  BY DEF HasRead
<1>1. TextLines(n) = IF kind \in {"text", "blank"} \/ (OpenAILike /\ kind = "other")
                     THEN TextLines(n - 1) \o <<n>>
                     ELSE IF OpenAILike /\ kind = "both" THEN TextLines(n - 1) \o <<n, n>>
                     ELSE TextLines(n - 1)
  BY <1>0, TextAt DEF OnePiece, TwoPieces
<1>2. LinesOf({"done"}, n) # {} <=> kind = "done" \/ LinesOf({"done"}, n - 1) # {}
  BY <1>0, LineAt
<1>3. ASSUME NEW k \in {"done", "usage"}
      PROVE  LastOf(LinesOf({k}, n)) = IF kind = k THEN n ELSE LastOf(LinesOf({k}, n - 1))
  <2>1. /\ LinesOf({k}, n - 1) \in SUBSET (1..(n - 1))
        /\ LinesOf({k}, n) = IF kind = k THEN LinesOf({k}, n - 1) \cup {n}
                             ELSE LinesOf({k}, n - 1)
    BY <1>0, LineAt
  <2>2. LastOf(LinesOf({k}, n - 1) \cup {n}) = n
    BY <1>0, <2>1, LastAt
  <2> QED
    BY <2>1, <2>2
<1>4. ASSUME NEW k \in {"done", "usage", "start"}
      PROVE  LinesOf({k}, n) = {} <=> kind # k /\ LinesOf({k}, n - 1) = {}
  BY <1>0, LineAt
<1>10. PromptTokens # None /\ n # None
  BY <1>0, NoneIsNoTime DEF PromptTokens
<1>5. CASE OpenAILike
  <2>1. /\ Handler # "anthropic" /\ Handler # "ollama"
        /\ \A m : Counts(m) = LinesOf({"usage"}, m) /\ Opens(m) = LinesOf({"usage"}, m)
    BY <1>5 DEF OpenAILike, Counts, Opens
  <2>2. Parse(p, n) = ParseOpenAI(p, n)
    BY <1>5, <2>1, Zenon DEF Parse
  <2>3. LastOf(Counts(n)) = IF kind = "usage" THEN n ELSE LastOf(Counts(n - 1))
    BY <1>3, <2>1
  <2>4. Opens(n) = {} <=> kind # "usage" /\ Opens(n - 1) = {}
    BY <1>4, <2>1
  <2>5. CASE kind = "usage"
    BY <1>1, <1>2, <1>8, <1>9, <1>10, <2>2, <2>3, <2>4, <2>5
    DEF HasRead, Line, ParseOpenAI, Counted, Sum
  <2>6. CASE kind # "usage"
    BY <1>1, <1>2, <1>5, <2>2, <2>3, <2>4, <2>6 DEF HasRead, Line, ParseOpenAI
  <2> QED
    BY <2>5, <2>6
<1>6. CASE Handler = "anthropic"
  <2>1. /\ ~OpenAILike
        /\ \A m : Counts(m) = LinesOf({"usage"}, m) /\ Opens(m) = LinesOf({"start"}, m)
    BY <1>6 DEF OpenAILike, Counts, Opens
  <2>2. Parse(p, n) = ParseAnthropic(p, n)
    BY <1>6, <2>1 DEF Parse
  <2>3. LastOf(Counts(n)) = IF kind = "usage" THEN n ELSE LastOf(Counts(n - 1))
    BY <1>3, <2>1
  <2>4. Opens(n) = {} <=> kind # "start" /\ Opens(n - 1) = {}
    BY <1>4, <2>1
  <2>5. CASE kind = "usage"
    BY <1>1, <1>2, <2>2, <2>3, <2>4, <2>5 DEF HasRead, Line, ParseAnthropic, CountAnswer
  <2>6. CASE kind = "start"
    BY <1>1, <1>2, <2>2, <2>3, <2>4, <2>6 DEF HasRead, Line, ParseAnthropic, Sum
  <2>7. CASE kind \notin {"usage", "start"}
    BY <1>1, <1>2, <2>1, <2>2, <2>3, <2>4, <2>7 DEF HasRead, Line, ParseAnthropic
  <2> QED
    BY <2>5, <2>6, <2>7
<1>7. CASE Handler = "ollama"
  <2>1. /\ ~OpenAILike /\ Handler # "anthropic"
        /\ \A m : Counts(m) = LinesOf({"done"}, m) /\ Opens(m) = LinesOf({"done"}, m)
    BY <1>7 DEF OpenAILike, Counts, Opens
  <2>2. Parse(p, n) = ParseOllama(p, n)
    BY <2>1 DEF Parse
  <2>3. LastOf(Counts(n)) = IF kind = "done" THEN n ELSE LastOf(Counts(n - 1))
    BY <1>3, <2>1
  <2>4. Opens(n) = {} <=> kind # "done" /\ Opens(n - 1) = {}
    BY <1>4, <2>1
  <2>5. CASE kind = "done"
    BY <1>1, <1>2, <1>8, <1>9, <1>10, <2>2, <2>3, <2>4, <2>5
    DEF HasRead, Line, ParseOllama, Counted, Sum
  <2>6. CASE kind # "done"
    BY <1>1, <1>2, <2>1, <2>2, <2>3, <2>4, <2>6 DEF HasRead, Line, ParseOllama
  <2> QED
    BY <2>5, <2>6
<1> QED
  BY <1>5, <1>6, <1>7, Handlers

-----------------------------------------------------------------------------
(* The loop of feed().                                                      *)

\* Consecutive bytes of the body, from the beginning of line m + 1.
From(m, L) == [b \in 1..L |-> 3 * m + b]

\* The three bytes of a line, found in the buffer, are that line.
LEMMA LineBytes ==
    ASSUME NEW m \in Nat, NEW L \in Nat, NEW j \in Nat, 3 * j + 3 <= L, NEW i, i = m + j + 1
    PROVE  /\ From(m, L)[3 * j + 3] \div 3 = i
           /\ SubSeq(From(m, L), 3 * j + 1, 3 * j + 3) = <<3 * i - 2, 3 * i - 1, 3 * i>>
<1> DEFINE part == SubSeq(From(m, L), 3 * j + 1, 3 * j + 3)
<1>1. 3 * j + 1 \in 1..L /\ 3 * j + 2 \in 1..L /\ 3 * j + 3 \in 1..L
  OBVIOUS
<1>2. /\ From(m, L)[3 * j + 1] = 3 * i - 2 /\ From(m, L)[3 * j + 2] = 3 * i - 1
      /\ From(m, L)[3 * j + 3] = 3 * i
  BY <1>1 DEF From
<1>3. From(m, L) \in Seq(Nat) /\ Len(From(m, L)) = L
  BY DEF From
<1>4. /\ part \in Seq(Nat) /\ Len(part) = 3
      /\ part[1] = 3 * i - 2 /\ part[2] = 3 * i - 1 /\ part[3] = 3 * i
  <2> HIDE DEF From
  <2> QED
    BY <1>1, <1>2, <1>3
<1>5. (3 * i) \div 3 = i
  OBVIOUS
<1>6. part = <<3 * i - 2, 3 * i - 1, 3 * i>>
  <2> HIDE DEF part
  <2> QED
    BY <1>4
<1> QED
  BY <1>2, <1>5, <1>6

\* What the loop has when it has seen k bytes: it is past j lines, and has read
\* them; it looks for the end of the next, unless the last one raised.
LoopInv(s, m, L, k) ==
    \E j \in Nat, r \in BOOLEAN : \E p :
        /\ s = [bytes |-> From(m, L), from |-> 3 * j + 1, raised |-> r, parser |-> p]
        /\ HasRead(p, m + j)
        /\ 3 * j <= k
        /\ ~r => k < 3 * j + 3
        /\ r => j > 0 /\ Line(m + j) = "odd"

\* Each byte that the loop looks at keeps that so.
LEMMA TurnKeeps ==
    ASSUME call \in Calls, Handler # None, NEW m \in Nat, NEW L \in Nat,
           3 * m + L <= 3 * Length, NEW k \in 1..L, NEW s, LoopInv(s, m, L, k - 1)
    PROVE  LoopInv(Turn(s, From(m, L), k), m, L, k)
<1> DEFINE bytes == From(m, L)
           t == Turn(s, bytes, k)
<1>1. PICK j \in Nat, r \in BOOLEAN : \E p :
          /\ s = [bytes |-> bytes, from |-> 3 * j + 1, raised |-> r, parser |-> p]
          /\ HasRead(p, m + j)
          /\ 3 * j <= k - 1
          /\ ~r => k - 1 < 3 * j + 3
          /\ r => j > 0 /\ Line(m + j) = "odd"
  BY DEF LoopInv
<1>2. PICK p :
          /\ s = [bytes |-> bytes, from |-> 3 * j + 1, raised |-> r, parser |-> p]
          /\ HasRead(p, m + j)
          /\ 3 * j <= k - 1
          /\ ~r => k - 1 < 3 * j + 3
          /\ r => j > 0 /\ Line(m + j) = "odd"
  BY <1>1
<1>3. /\ s.bytes = bytes /\ s.from = 3 * j + 1 /\ s.raised = r /\ s.parser = p
      /\ k \in Nat /\ Length \in Nat
  BY <1>2, BodyType
<1>4. bytes[k] = 3 * m + k /\ (bytes[k] % 3 = 0 <=> k % 3 = 0)
  BY <1>3 DEF From
<1> HIDE DEF t, bytes
<1>6. CASE r \/ bytes[k] % 3 # 0
  <2>1. t = s
    BY <1>3, <1>6 DEF Turn, Take, t
  <2>2. 3 * j <= k
    BY <1>2, <1>3
  <2>3. ~r => k < 3 * j + 3
    <3>1. ASSUME ~r PROVE k # 3 * j + 3
      BY <1>3, <1>4, <1>6, <3>1
    <3>2. ~r => k - 1 < 3 * j + 3
      BY <1>2
    <3> QED
      BY <1>3, <3>1, <3>2
  <2>4. LoopInv(s, m, L, k)
    BY <1>2, <2>2, <2>3 DEF LoopInv, bytes
  <2> QED
    BY <2>1, <2>4 DEF t, bytes
<1>7. CASE ~r /\ bytes[k] % 3 = 0
  <2>1. k = 3 * j + 3
    <3>1. 3 * j <= k - 1 /\ k - 1 < 3 * j + 3
      BY <1>2, <1>7
    <3>2. k \in Nat /\ k % 3 = 0
      BY <1>3, <1>4, <1>7
    <3> QED
      BY <3>1, <3>2
  <2>2. PICK i \in Nat : i = m + j + 1
    OBVIOUS
  <2>3. i \in 1..Length /\ i - 1 = m + j
    BY <1>3, <2>1, <2>2
  <2>4. /\ bytes[k] \div 3 = i
        /\ SubSeq(bytes, 3 * j + 1, k) = <<3 * i - 2, 3 * i - 1, 3 * i>>
    <3>1. 3 * j + 3 <= L
      BY <2>1
    <3> QED
      BY <2>1, <2>2, <3>1, LineBytes DEF bytes
  <2>5. HasRead(p, i - 1)
    BY <1>2, <2>3
  <2>6. t = IF Line(i) = "odd" THEN [s EXCEPT !.from = k + 1, !.raised = TRUE]
            ELSE [s EXCEPT !.from = k + 1, !.parser = Parse(@, i)]
    <3>1. t = Take(s, k)
      BY <1>7 DEF Turn, t
    <3>2. Take(s, k) = IF Line(i) = "odd" THEN [s EXCEPT !.from = k + 1, !.raised = TRUE]
                       ELSE [s EXCEPT !.from = k + 1, !.parser = Parse(@, i)]
      BY <1>3, <1>7, <2>4 DEF Take, Line
    <3> QED
      BY <3>1, <3>2
  <2>7. /\ k + 1 = 3 * (j + 1) + 1 /\ j + 1 \in Nat /\ j + 1 > 0
        /\ 3 * (j + 1) <= k /\ k < 3 * (j + 1) + 3 /\ i = m + (j + 1)
    BY <2>1, <2>2
  <2>8. CASE Line(i) = "odd"
    <3>1. t = [s EXCEPT !.from = k + 1, !.raised = TRUE]
      BY <2>6, <2>8
    <3>2. t = [bytes |-> bytes, from |-> k + 1, raised |-> TRUE, parser |-> p]
      BY <1>2, <3>1
    <3>3. HasRead(p, i)
      BY <1>3, <2>3, <2>5, <2>8, OddReads
    <3>4. LoopInv(t, m, L, k)
      BY <2>7, <2>8, <3>2, <3>3 DEF LoopInv, bytes
    <3> QED
      BY <3>4 DEF t, bytes
  <2>9. CASE Line(i) # "odd"
    <3>1. t = [s EXCEPT !.from = k + 1, !.parser = Parse(@, i)]
      BY <2>6, <2>9
    <3>2. t = [bytes |-> bytes, from |-> k + 1, raised |-> r, parser |-> Parse(p, i)]
      BY <1>2, <3>1
    <3>3. HasRead(Parse(p, i), i)
      BY <2>3, <2>5, <2>9, ParseReads
    <3>4. LoopInv(t, m, L, k)
      BY <1>7, <2>7, <3>2, <3>3 DEF LoopInv, bytes
    <3> QED
      BY <3>4 DEF t, bytes
  <2> QED
    BY <2>8, <2>9
<1> QED
  BY <1>6, <1>7 DEF t, bytes

\* And so at the end of feed().
LEMMA FeedKeeps ==
    ASSUME call \in Calls, Handler # None, NEW m \in Nat, NEW L \in Nat,
           3 * m + L <= 3 * Length, HasRead(parser, m)
    PROVE  LoopInv(Loop(From(m, L))[L], m, L, L)
<1> DEFINE T == {k \in Nat : k <= L => LoopInv(Loop(From(m, L))[k], m, L, k)}
<1>0. Len(From(m, L)) = L
  BY DEF From
<1>1. 0 \in T
  <2>1. Loop(From(m, L))[0] =
            [bytes |-> From(m, L), from |-> 3 * 0 + 1, raised |-> FALSE, parser |-> parser]
    BY <1>0, LoopAt DEF Begin
  <2>2. HasRead(parser, m + 0) /\ 3 * 0 <= 0 /\ 0 < 3 * 0 + 3 /\ 0 \in Nat
    OBVIOUS
  <2> HIDE DEF T
  <2>3. LoopInv(Loop(From(m, L))[0], m, L, 0)
    BY <2>1, <2>2, Zenon DEF LoopInv
  <2> QED
    BY <2>3 DEF T
<1>2. ASSUME NEW k \in T PROVE k + 1 \in T
  <2> SUFFICES ASSUME k + 1 <= L PROVE LoopInv(Loop(From(m, L))[k + 1], m, L, k + 1)
    OBVIOUS
  <2>1. LoopInv(Loop(From(m, L))[k], m, L, k) /\ k \in Nat
    OBVIOUS
  <2> HIDE DEF T
  <2>2. k + 1 \in 1..L /\ (k + 1) - 1 = k
    BY <2>1
  <2>3. Loop(From(m, L))[k + 1] = Turn(Loop(From(m, L))[k], From(m, L), k + 1)
    BY <1>0, <2>2, LoopAt
  <2>4. LoopInv(Turn(Loop(From(m, L))[k], From(m, L), k + 1), m, L, k + 1)
    BY <2>1, <2>2, TurnKeeps
  <2> QED
    BY <2>3, <2>4
<1>3. T \in SUBSET Nat
  OBVIOUS
<1>4. L \in T
  <2> HIDE DEF T
  <2> QED
    BY <1>1, <1>2, <1>3, Induction
<1> QED
  BY <1>4

-----------------------------------------------------------------------------
(* The stream.                                                              *)

\* What the body says does not change with the state.
LEMMA SameBody ==
    ASSUME call' = call
    PROVE  /\ Handler' = Handler /\ Length' = Length /\ Size' = Size /\ Whole' = Whole
           /\ OneChoice' = OneChoice /\ Answer' = Answer
           /\ \A n : TextLines(n)' = TextLines(n) /\ Texts(n)' = Texts(n)
           /\ \A n : Counts(n)' = Counts(n) /\ Opens(n)' = Opens(n)
           /\ \A kinds, n : LinesOf(kinds, n)' = LinesOf(kinds, n)
           /\ \A p, n : HasRead(p, n)' = HasRead(p, n)
           /\ \A text : Preview(text)' = Preview(text)
<1>1. Handler' = Handler /\ Length' = Length /\ Size' = Size /\ OpenAILike' = OpenAILike
  BY DEF Handler, Length, Size, OpenAILike
<1>2. \A n : TextLines(n)' = TextLines(n) /\ Texts(n)' = Texts(n)
  BY <1>1 DEF TextLines, Texts, Joined, Heard
<1>3. \A kinds, n : LinesOf(kinds, n)' = LinesOf(kinds, n)
  BY DEF LinesOf
<1>4. \A n : Counts(n)' = Counts(n) /\ Opens(n)' = Opens(n)
  BY <1>1, <1>3 DEF Counts, Opens
<1>5. \A p, n : HasRead(p, n)' = HasRead(p, n)
  BY <1>2, <1>3, <1>4 DEF HasRead
<1>6. Whole' = Whole /\ OneChoice' = OneChoice
  BY <1>1, <1>3, <1>4 DEF Whole, OneChoice
<1>7. Answer' = Answer
  <2>1. FirstChoice' = FirstChoice
    BY <1>1 DEF FirstChoice
  <2>2. Joined(FirstChoice)' = Joined(FirstChoice)
    BY <2>1 DEF Joined
  <2> QED
    BY <1>4, <2>2 DEF Answer
<1>8. \A text : Preview(text)' = Preview(text)
  BY DEF Preview, Strip
<1> QED
  BY <1>1, <1>2, <1>3, <1>4, <1>5, <1>6, <1>7, <1>8

\* More lines hold at least the same lines of a kind.
LEMMA LinesGrow ==
    ASSUME NEW k, NEW a \in Nat, NEW b \in Nat, a <= b
    PROVE  LinesOf({k}, a) \subseteq LinesOf({k}, b) /\ Texts(a) \subseteq Texts(b)
BY DEF LinesOf, Texts

\* The buffer holds what has arrived behind the lines that the parser consumed.
BufferInv ==
    /\ arrived \in Nat /\ arrived <= 3 * Length
    /\ \E m \in Nat, L \in Nat :
          /\ 3 * m + L = arrived /\ buffer = From(m, L)
          /\ HasRead(parser, m)
          /\ Clean => L < 3

\* Bytes that follow each other.
LEMMA FromJoins ==
    ASSUME NEW f \in Seq(Nat), NEW c \in Seq(Nat), NEW m \in Nat,
           \A b \in 1..Len(f) : f[b] = 3 * m + b,
           \A b \in 1..Len(c) : c[b] = 3 * m + (Len(f) + b)
    PROVE  f \o c = From(m, Len(f) + Len(c))
<1> DEFINE both == f \o c
<1>1. Len(f) \in Nat /\ Len(c) \in Nat
  OBVIOUS
<1>2. /\ both \in Seq(Nat) /\ Len(both) = Len(f) + Len(c)
      /\ \A b \in 1..(Len(f) + Len(c)) : both[b] = IF b <= Len(f) THEN f[b] ELSE c[b - Len(f)]
  BY ConcatProperties
<1> HIDE DEF both
<1>3. ASSUME NEW b \in 1..(Len(f) + Len(c)) PROVE both[b] = 3 * m + b
  <2>1. CASE b <= Len(f)
    <3>1. b \in 1..Len(f)
      BY <1>1, <2>1
    <3> QED
      BY <1>2, <2>1, <3>1
  <2>2. CASE ~(b <= Len(f))
    <3>1. b - Len(f) \in 1..Len(c) /\ Len(f) + (b - Len(f)) = b
      BY <1>1, <2>2
    <3>2. c[b - Len(f)] = 3 * m + (Len(f) + (b - Len(f)))
      BY <3>1
    <3> QED
      BY <1>2, <2>2, <3>1, <3>2
  <2> QED
    BY <2>1, <2>2
<1>4. both = [b \in 1..(Len(f) + Len(c)) |-> both[b]]
  BY <1>1, <1>2
<1>5. both = [b \in 1..(Len(f) + Len(c)) |-> 3 * m + b]
  BY <1>3, <1>4
<1> QED
  BY <1>5 DEF From, both

\* What one chunk does.
Reads(m, n, raised) ==
    /\ arrived < arrived' /\ 3 * n <= arrived'
    /\ buffer' = From(n, arrived' - 3 * n)
    /\ HasRead(parser, m) /\ HasRead(parser', n)
    /\ Clean => m = Lines
    /\ ~raised => arrived' - 3 * n < 3
    /\ raised => n > 0 /\ Line(n) = "odd"
    /\ ttft' = IF ttft = None /\ parser.text = <<>> /\ parser'.text # <<>> /\ ~raised
               THEN arrived' ELSE ttft
    /\ firstText' = IF firstText = None /\ Texts(arrived' \div 3) # {}
                    THEN arrived' ELSE firstText

\* A chunk is read up to its last newline, or up to the line that raises.
LEMMA ChunkReads ==
    ASSUME call \in Calls, Handler # None, BufferInv, Chunk
    PROVE  /\ arrived' \in Nat /\ arrived' <= 3 * Length /\ call' = call
           /\ \E m \in Nat, n \in Nat, raised \in BOOLEAN : m \in 0..Length /\ Reads(m, n, raised)
<1>1. PICK m \in Nat, L \in Nat :
          /\ 3 * m + L = arrived /\ buffer = From(m, L)
          /\ HasRead(parser, m)
          /\ Clean => L < 3
  BY DEF BufferInv
<1>2. Length \in Nat /\ arrived \in Nat /\ arrived <= 3 * Length
  BY BodyType DEF BufferInv
<1>3. Size \in Int /\ Size <= 3 * Length
  <2>1. CASE call.cut
    BY <1>2, <2>1 DEF Size, Length
  <2>2. CASE ~call.cut
    BY <1>2, <2>2 DEF Size, Length
  <2> QED
    BY <2>1, <2>2
<1> DEFINE chunk(a) == [b \in 1..(a - arrived) |-> arrived + b]
           fed(a) == Feed(chunk(a))
<1>4. PICK a \in (arrived + 1)..Size :
          /\ arrived' = a
          /\ parser' = fed(a).parser
          /\ buffer' = Rest(fed(a))
          /\ ttft' = IF ttft = None /\ FirstToken(fed(a)) THEN a ELSE ttft
          /\ firstText' = IF firstText = None /\ Texts(a \div 3) # {} THEN a
                          ELSE firstText
  BY Zenon DEF Chunk
<1>5. a \in Nat /\ arrived < a /\ a <= 3 * Length
  BY <1>2, <1>3
<1> DEFINE K == a - 3 * m
           s == Loop(From(m, K))[K]
<1>6. K \in Nat /\ 3 * m + K = a /\ L <= K
  BY <1>1, <1>2, <1>5
<1>7. fed(a) = s
  <2>1. /\ From(m, L) \in Seq(Nat) /\ Len(From(m, L)) = L
        /\ \A b \in 1..L : From(m, L)[b] = 3 * m + b
    BY DEF From
  <2>2. From(m, L) \o chunk(a) = From(m, K)
    <3>1. PICK D \in Nat : D = a - arrived
      BY <1>2, <1>5
    <3>2. L + D = K /\ arrived = 3 * m + L
      BY <1>1, <1>2, <1>5, <3>1
    <3>3. chunk(a) = [b \in 1..D |-> arrived + b]
      BY <3>1
    <3>4. /\ chunk(a) \in Seq(Nat) /\ Len(chunk(a)) = D
          /\ \A b \in 1..D : chunk(a)[b] = 3 * m + (L + b)
      <4> HIDE DEF chunk, K
      <4> QED
        BY <1>2, <3>2, <3>3
    <3> HIDE DEF chunk, K
    <3>5. From(m, L) \o chunk(a) = From(m, L + D)
      BY <2>1, <3>4, FromJoins
    <3> QED
      BY <3>2, <3>5
  <2>3. Len(From(m, K)) = K
    BY <1>6 DEF From
  <2> HIDE DEF chunk, K
  <2> QED
    BY <1>1, <2>2, <2>3 DEF Feed
<1>8. LoopInv(s, m, K, K)
  BY <1>1, <1>5, <1>6, FeedKeeps
<1> HIDE DEF s, fed
<1>9. PICK j \in Nat, r \in BOOLEAN : \E p :
          /\ s = [bytes |-> From(m, K), from |-> 3 * j + 1, raised |-> r, parser |-> p]
          /\ HasRead(p, m + j)
          /\ 3 * j <= K
          /\ ~r => K < 3 * j + 3
          /\ r => j > 0 /\ Line(m + j) = "odd"
  BY <1>8 DEF LoopInv
<1>10. PICK p :
          /\ s = [bytes |-> From(m, K), from |-> 3 * j + 1, raised |-> r, parser |-> p]
          /\ HasRead(p, m + j)
          /\ 3 * j <= K
          /\ ~r => K < 3 * j + 3
          /\ r => j > 0 /\ Line(m + j) = "odd"
  BY <1>9
<1>11. /\ s.bytes = From(m, K) /\ s.from = 3 * j + 1 /\ s.raised = r /\ s.parser = p
  BY <1>10
<1>12. PICK n \in Nat : n = m + j
  OBVIOUS
<1>13. 3 * n <= a /\ (~r => a - 3 * n < 3) /\ (r => n > 0) /\ a - 3 * n = K - 3 * j
  BY <1>6, <1>10, <1>12
<1>14. Rest(s) = From(n, a - 3 * n)
  <2>1. Rest(s) = SubSeq(From(m, K), 3 * j + 1, K)
    <3>1. Len(From(m, K)) = K
      BY <1>6 DEF From
    <3> QED
      BY <1>11, <3>1 DEF Rest
  <2>2. SubSeq(From(m, K), 3 * j + 1, K) = [b \in 1..(K - 3 * j) |-> From(m, K)[b + 3 * j]]
    <3>1. From(m, K) \in Seq(Nat) /\ Len(From(m, K)) = K
      BY <1>6 DEF From
    <3>2. 3 * j + 1 \in 1..(K + 1) /\ K \in 0..K /\ K - (3 * j + 1) + 1 = K - 3 * j
      BY <1>6, <1>10
    <3> HIDE DEF K
    <3> QED
      BY <1>6, <3>1, <3>2
  <2>3. \A b \in 1..(K - 3 * j) : From(m, K)[b + 3 * j] = 3 * n + b
    <3>1. \A b \in 1..(K - 3 * j) : b + 3 * j \in 1..K /\ 3 * m + (b + 3 * j) = 3 * n + b
      BY <1>6, <1>10, <1>12
    <3> QED
      BY <3>1 DEF From
  <2> HIDE DEF K
  <2> QED
    BY <1>13, <2>1, <2>2, <2>3 DEF From
<1>15. Clean => m = Lines
  BY <1>1, <1>2 DEF Lines
<1>16. m \in 0..Length
  BY <1>1, <1>2
<1>17. Reads(m, n, r)
  <2>1. FirstToken(s) <=> parser.text = <<>> /\ p.text # <<>> /\ ~r
    BY <1>11 DEF FirstToken
  <2>2. parser' = p /\ buffer' = From(n, a - 3 * n) /\ HasRead(p, n)
    BY <1>4, <1>7, <1>10, <1>11, <1>12, <1>14
  <2>3. r => n > 0 /\ Line(n) = "odd"
    BY <1>10, <1>12, <1>13
  <2> HIDE DEF K
  <2> QED
    BY <1>1, <1>4, <1>5, <1>7, <1>13, <1>15, <2>1, <2>2, <2>3 DEF Reads
<1> QED
  BY <1>4, <1>5, <1>16, <1>17 DEF Chunk

\* A chunk leaves behind the consumed lines what arrived after them.
LEMMA BufferStep ==
    ASSUME call \in Calls, Handler # None, BufferInv, Chunk
    PROVE  BufferInv'
<1>1. /\ arrived' \in Nat /\ arrived' <= 3 * Length /\ call' = call
      /\ \E m \in Nat, n \in Nat, raised \in BOOLEAN : m \in 0..Length /\ Reads(m, n, raised)
  BY ChunkReads
<1>2. PICK m \in Nat, n \in Nat, raised \in BOOLEAN : m \in 0..Length /\ Reads(m, n, raised)
  BY <1>1
<1>7. PICK a \in Nat : a = arrived'
  BY <1>1
<1>8. /\ 3 * n <= a /\ (~raised => a - 3 * n < 3) /\ (raised => n > 0 /\ Line(n) = "odd")
      /\ buffer' = From(n, a - 3 * n) /\ HasRead(parser', n)
  BY <1>2, <1>7, Zenon DEF Reads
<1>9. a - 3 * n \in Nat
  BY <1>8
<1>3. PICK L \in Nat : L = a - 3 * n
  BY <1>9
<1>10. 3 * n + L = a /\ (~raised => L < 3) /\ n <= a \div 3 /\ a \div 3 \in Nat
  BY <1>3, <1>8
<1>4. Clean' => L < 3
  <2>1. CASE ~raised
    BY <1>10, <2>1
  <2>2. CASE raised
    <3>1. n \in 1..(a \div 3) /\ Line(n) = "odd"
      BY <1>8, <1>10, <2>2
    <3>2. n \in LinesOf({"odd"}, a \div 3)
      BY <3>1 DEF LinesOf, Line
    <3>3. LinesOf({"odd"}, Lines)' = LinesOf({"odd"}, a \div 3)
      BY <1>1, <1>7 DEF LinesOf, Lines
    <3> QED
      BY <3>2, <3>3 DEF Clean
  <2> QED
    BY <2>1, <2>2
<1>5. buffer' = From(n, L) /\ 3 * n + L = arrived' /\ HasRead(parser', n)
  BY <1>3, <1>7, <1>8, <1>10
<1>6. HasRead(parser, n)' /\ Length' = Length /\ From(n, L)' = From(n, L)
  BY <1>1, <1>5, SameBody DEF From
<1> QED
  BY <1>1, <1>4, <1>5, <1>6 DEF BufferInv

\* The times: ttft is not before the first text arrived, and is that time unless a
\* line raised.
TimeInv ==
    /\ firstText = None <=> Texts(Lines) = {}
    /\ firstText # None => firstText \in Nat /\ firstText <= arrived
    /\ ttft # None => ttft \in Nat /\ firstText # None /\ firstText <= ttft
    /\ Clean => ttft = firstText

\* A chunk that brings the first text is the one whose time is taken.
LEMMA TimeStep ==
    ASSUME call \in Calls, Handler # None, BufferInv, TimeInv, Chunk
    PROVE  TimeInv'
<1>1. /\ arrived' \in Nat /\ arrived' <= 3 * Length /\ call' = call
      /\ \E m \in Nat, n \in Nat, raised \in BOOLEAN : m \in 0..Length /\ Reads(m, n, raised)
  BY ChunkReads
<1>2. PICK m \in Nat, n \in Nat, raised \in BOOLEAN : m \in 0..Length /\ Reads(m, n, raised)
  BY <1>1
<1>20. PICK a \in Nat : a = arrived'
  BY <1>1
<1>21. a \div 3 \in Nat
  OBVIOUS
<1>3. PICK now \in Nat : now = a \div 3
  BY <1>21
<1>22. PICK b \in Nat : b = arrived
  BY DEF BufferInv
<1>23. b \div 3 \in Nat
  OBVIOUS
<1>4. PICK then \in Nat : then = b \div 3
  BY <1>23
<1>24. Lines = then /\ arrived' \div 3 = now
  BY <1>3, <1>4, <1>20, <1>22 DEF Lines
<1>5. /\ then <= now /\ n <= now /\ n \in 0..Length /\ arrived < arrived' /\ arrived \in Nat
      /\ (~raised => n = now) /\ Length \in Nat
  <2>1. b < a /\ 3 * n <= a /\ (~raised => a - 3 * n < 3)
    BY <1>2, <1>20, <1>22, Zenon DEF Reads
  <2>2. Length \in Nat /\ a <= 3 * Length
    BY <1>1, <1>20, BodyType
  <2>3. then <= now /\ n <= now /\ (~raised => n = now) /\ n \in 0..Length
    BY <1>3, <1>4, <2>1, <2>2
  <2> QED
    BY <1>20, <1>22, <2>1, <2>2, <2>3
<1>6. /\ Texts(Lines)' = Texts(now)
      /\ LinesOf({"odd"}, Lines)' = LinesOf({"odd"}, now)
      /\ Texts(Lines) = Texts(then)
      /\ LinesOf({"odd"}, Lines) = LinesOf({"odd"}, then)
  <2>1. Lines' = now
    BY <1>3, <1>20 DEF Lines
  <2>2. Texts(Lines)' = {i \in 1..(Lines') : Heard'[i] # <<>>} /\ Heard' = Heard
    BY <1>1 DEF Texts, Heard, OpenAILike, Handler
  <2> QED
    BY <1>1, <1>24, <2>1, <2>2 DEF LinesOf, Texts
<1>7. /\ Texts(then) \subseteq Texts(now)
      /\ LinesOf({"odd"}, then) \subseteq LinesOf({"odd"}, now)
      /\ Texts(n) \subseteq Texts(now)
  BY <1>5, LinesGrow
<1>8. parser'.text # <<>> <=> Texts(n) # {}
  <2>1. parser'.text = TextLines(n)
    BY <1>2 DEF Reads, HasRead
  <2> QED
    BY <1>5, <2>1, TextEmpty
<1>9. parser.text # <<>> <=> Texts(m) # {}
  <2>1. parser.text = TextLines(m)
    BY <1>2 DEF Reads, HasRead
  <2> QED
    BY <1>2, <1>5, <2>1, TextEmpty
<1>10. /\ ttft' = IF ttft = None /\ parser.text = <<>> /\ parser'.text # <<>> /\ ~raised
                  THEN arrived' ELSE ttft
       /\ firstText' = IF firstText = None /\ Texts(now) # {}
                       THEN arrived' ELSE firstText
  BY <1>2, <1>24, Zenon DEF Reads
<1>11. /\ firstText = None <=> Texts(then) = {}
       /\ firstText # None => firstText \in Nat /\ firstText <= arrived
       /\ ttft # None => ttft \in Nat /\ firstText # None /\ firstText <= ttft
       /\ LinesOf({"odd"}, then) = {} => ttft = firstText
  BY <1>6 DEF TimeInv, Clean
<1>12. arrived' # None
  BY <1>1, NoneIsNoTime
<1>13. firstText' = None <=> Texts(now) = {}
  BY <1>7, <1>10, <1>11, <1>12
<1>14. firstText' # None => firstText' \in Nat /\ firstText' <= arrived'
  BY <1>1, <1>5, <1>10, <1>11
<1>15. ttft' # None => ttft' \in Nat /\ firstText' # None /\ firstText' <= ttft'
  <2>1. CASE ttft = None /\ parser.text = <<>> /\ parser'.text # <<>> /\ ~raised
    <3>1. ttft' = arrived' /\ Texts(now) # {}
      BY <1>7, <1>8, <1>10, <2>1
    <3> QED
      BY <1>1, <1>13, <1>14, <3>1
  <2>2. CASE ttft' = ttft /\ ttft # None
    BY <1>10, <1>11, <2>2
  <2>3. CASE ttft' = None
    BY <2>3
  <2> QED
    BY <1>10, <2>1, <2>2, <2>3
<1>16. LinesOf({"odd"}, now) = {} => ttft' = firstText'
  <2> SUFFICES ASSUME LinesOf({"odd"}, now) = {} PROVE ttft' = firstText'
    OBVIOUS
  <2>1. ~raised
    <3>1. raised => n \in LinesOf({"odd"}, now)
      BY <1>2, <1>5 DEF Reads, LinesOf, Line
    <3> QED
      BY <3>1
  <2>2. n = now /\ m = then /\ ttft = firstText
    <3>1. LinesOf({"odd"}, then) = {}
      BY <1>7
    <3>2. Clean
      BY <1>6, <3>1 DEF Clean
    <3> QED
      BY <1>2, <1>5, <1>11, <1>24, <2>1, <3>1, <3>2 DEF Reads
  <2>3. CASE firstText = None
    BY <1>8, <1>9, <1>10, <1>11, <2>1, <2>2, <2>3
  <2>4. CASE firstText # None
    BY <1>10, <2>2, <2>4
  <2> QED
    BY <2>3, <2>4
<1> QED
  BY <1>6, <1>13, <1>14, <1>15, <1>16 DEF TimeInv, Clean

-----------------------------------------------------------------------------
(* The event and its row.                                                   *)

\* The answer, and the total that the service will make of the counts.
RightCounts(f) ==
    /\ f.prompt = Answer.input /\ f.completion = Answer.output
    /\ f.total \in {None, Sum(f.prompt, f.completion)}
Right(f) == RightCounts(f) /\ (OneChoice => f.text = Answer.text)

\* What the event shows of it.
RightShown(f) == RightCounts(f) /\ (OneChoice => f.text = Preview(Answer.text))

\* Whether the log must say what the whole answer says.
Seen == Whole /\ ~(call.sync /\ Streaming(call.request))

HonestEvent ==
    event # None /\ arrived > 0 /\ Clean =>
        /\ event.status = "cancelled" => LinesOf({"done"}, Lines) = {}
        /\ event.status = "success" => arrived = Size \/ LinesOf({"done"}, Lines) # {}

EventInv ==
    /\ pc \in {"request", "stream", "event", "over"}
    /\ pc = "request" => arrived = 0
    /\ pc = "stream" => Handler # None
    /\ pc \in {"request", "stream"} => event = None
    /\ pc # "over" => row = None
    /\ HonestEvent
    /\ pc = "event" => DOMAIN event = {"figures", "status", "ttft", "service", "model",
                                       "conversation", "counts", "input", "output",
                                       "error", "tags", "metadata"}
    /\ pc = "event" /\ event.status = "success" /\ Seen => RightShown(event.figures)
    /\ SameFigures

StreamInv == call \in Calls /\ BufferInv /\ TimeInv /\ EventInv

\* A body that is whole ends with its only end marker, and Anthropic opens it.
LEMMA WholeBody ==
    ASSUME Length \in Nat, Whole
    PROVE  /\ Length > 0 /\ Size = 3 * Length
           /\ LinesOf({"odd"}, Length) = {} /\ LinesOf({"done"}, Length) = {Length}
           /\ Handler = "anthropic" => Line(1) = "start" /\ Counts(Length) # {}
BY DEF Whole, Size, Length, Line

\* All of such a body, or its end marker, has been read only when every line has.
LEMMA WholeRead ==
    ASSUME call \in Calls, BufferInv, Whole, arrived = Size \/ parser.completed
    PROVE  HasRead(parser, Length)
<1>1. Length \in Nat /\ arrived \in Nat /\ arrived <= 3 * Length
  BY BodyType DEF BufferInv
<1>2. PICK m \in Nat, L \in Nat :
          /\ 3 * m + L = arrived /\ buffer = From(m, L)
          /\ HasRead(parser, m)
          /\ Clean => L < 3
  BY DEF BufferInv
<1>3. /\ Size = 3 * Length /\ LinesOf({"done"}, Length) = {Length}
      /\ LinesOf({"odd"}, Length) = {}
  BY <1>1, WholeBody
<1>4. m <= Length
  BY <1>1, <1>2
<1>5. m = Length
  <2>1. CASE arrived = Size
    <3>1. Lines = Length
      <4>1. (3 * Length) \div 3 = Length
        BY <1>1
      <4> QED
        BY <1>3, <2>1, <4>1 DEF Lines
    <3>2. L < 3
      BY <1>2, <1>3, <3>1 DEF Clean
    <3> QED
      BY <1>1, <1>2, <1>3, <2>1, <3>2
  <2>2. CASE parser.completed
    <3>1. LinesOf({"done"}, m) # {}
      BY <1>2, <2>2 DEF HasRead
    <3>2. LinesOf({"done"}, m) \subseteq LinesOf({"done"}, Length)
      BY <1>1, <1>4, LinesGrow
    <3>3. Length \in LinesOf({"done"}, m)
      BY <1>3, <3>1, <3>2
    <3>4. Length \in 1..m
      BY <3>3 DEF LinesOf
    <3> QED
      BY <1>1, <1>4, <3>4
  <2> QED
    BY <2>1, <2>2
<1> QED
  BY <1>2, <1>5

\* Of one choice the parsers hear what the others read.
LEMMA ChoiceText ==
    ASSUME Length \in Nat, OneChoice
    PROVE  Answer.text = TextLines(Length)
<1>1. \A n \in 1..Length : OpenAILike => Line(n) \notin {"other", "both"}
  BY DEF OneChoice, LinesOf, Length, Line
<1>2. Heard = FirstChoice
  BY <1>1 DEF Heard, FirstChoice, Length, Line
<1> QED
  BY <1>2 DEF Answer, TextLines, Length

\* A parser that has read every line has the answer.
LEMMA ReadIsRight ==
    ASSUME Length \in Nat, NEW p, HasRead(p, Length)
    PROVE  Right([text |-> p.text, prompt |-> p.prompt,
                  completion |-> p.completion, total |-> p.total])
<1>1. OneChoice => p.text = Answer.text
  BY ChoiceText DEF HasRead
<1> QED
  BY <1>1 DEF HasRead, Right, RightCounts, Answer, LastOf, Length

\* Where the opening of an answer carries the prompt's tokens with the others, both
\* counts are there or neither is.
LEMMA OpensCounts ==
    ASSUME Handler # "anthropic" PROVE Opens(Length) = Counts(Length)
BY DEF Opens

\* The counts of an answer are numbers of lines.
LEMMA AnswerType ==
    ASSUME Length \in Nat
    PROVE  /\ Answer.input = IF Opens(Length) = {} THEN None ELSE PromptTokens
           /\ Answer.output = LastOf(Counts(Length))
           /\ Counts(Length) # {} => LastOf(Counts(Length)) \in 1..Length
           /\ Answer.output = None <=> Counts(Length) = {}
           /\ Answer.input = None <=> Opens(Length) = {}
<1>1. /\ Answer.input = IF Opens(Length) = {} THEN None ELSE PromptTokens
      /\ Answer.output = LastOf(Counts(Length))
  BY DEF Answer, LastOf, Length
<1>2. Counts(Length) \in SUBSET (0..Length) /\ Counts(Length) \subseteq 1..Length
  BY DEF Counts, LinesOf
<1>3. Counts(Length) # {} => LastOf(Counts(Length)) \in 1..Length
  BY <1>2, MaxIn DEF LastOf
<1>4. PromptTokens # None /\ \A n \in 1..Length : n # None
  BY NoneIsNoTime DEF PromptTokens
<1> QED
  BY <1>1, <1>3, <1>4 DEF LastOf

\* An unstreamed response has it too.
LEMMA ResponseIsRight ==
    ASSUME Length \in Nat
    PROVE  Right(ParseResponse(Answer))
<1>1. CASE OpenAILike
  <2>1. Opens(Length) = Counts(Length)
    BY <1>1, OpensCounts DEF OpenAILike
  <2>5. Handler # "anthropic"
    BY <1>1 DEF OpenAILike
  <2>2. ParseResponse(Answer) = OpenAIResponse(Answer)
    BY <1>1, <2>5 DEF ParseResponse
  <2>3. Answer.output = None <=> Answer.input = None
    BY <2>1, AnswerType
  <2>4. Answer.input \in {None, PromptTokens}
    BY AnswerType
  <2> QED
    BY <2>2, <2>3, <2>4 DEF OpenAIResponse, Right, RightCounts, Sum
<1>2. CASE ~OpenAILike /\ Handler = "anthropic"
  BY <1>2 DEF ParseResponse, AnthropicResponse, Right, RightCounts
<1>3. CASE ~OpenAILike /\ Handler # "anthropic"
  BY <1>3 DEF ParseResponse, OllamaResponse, Right, RightCounts
<1> QED
  BY <1>1, <1>2, <1>3

\* What the service makes of the right counts is what the response says.
LEMMA RightRow ==
    ASSUME Length \in Nat, NEW f, RightCounts(f)
    PROVE  [prompt |-> f.prompt, completion |-> f.completion, total |-> TotalTokens(f)]
               = Tokens(ParseResponse(Answer))
<1>1. TotalTokens(f) = Sum(Answer.input, Answer.output)
  BY DEF RightCounts, TotalTokens
<1>2. CASE OpenAILike
  <2>1. Opens(Length) = Counts(Length)
    BY <1>2, OpensCounts DEF OpenAILike
  <2>5. Handler # "anthropic"
    BY <1>2 DEF OpenAILike
  <2>2. ParseResponse(Answer) = OpenAIResponse(Answer)
    BY <1>2, <2>5 DEF ParseResponse
  <2>3. Answer.output = None <=> Answer.input = None
    BY <2>1, AnswerType
  <2>4. Answer.input \in {None, PromptTokens}
    BY AnswerType
  <2> QED
    BY <1>1, <2>2, <2>3, <2>4 DEF OpenAIResponse, RightCounts, Tokens, Sum
<1>3. CASE ~OpenAILike /\ Handler = "anthropic"
  BY <1>1, <1>3 DEF ParseResponse, AnthropicResponse, RightCounts, Tokens
<1>4. CASE ~OpenAILike /\ Handler # "anthropic"
  BY <1>1, <1>4 DEF ParseResponse, OllamaResponse, RightCounts, Tokens
<1> QED
  BY <1>2, <1>3, <1>4

\* What the gateway's provider has when it has read n lines.
GatewayHas(g, n) ==
    /\ g = [text |-> g.text, prompt |-> g.prompt, completion |-> g.completion,
            total |-> g.total, input |-> g.input]
    /\ OneChoice => g.text = TextLines(n)
    /\ g.prompt = IF Counts(n) = {} THEN None ELSE PromptTokens
    /\ g.completion = LastOf(Counts(n))
    /\ g.total = Sum(g.prompt, g.completion)
    /\ Handler = "anthropic" /\ n > 0 => g.input = PromptTokens

\* A line that opens, carries text or counts adds to what the gateway has.
LEMMA GatewayStep ==
    ASSUME call \in Calls, Handler \in {"openai", "anthropic"}, Whole,
           NEW n \in 1..Length, NEW g, GatewayHas(g, n - 1)
    PROVE  GatewayHas(GatewayLine(g, n), n)
<1>0. Length \in Nat /\ n - 1 \in Nat /\ n \in Nat /\ n # 0 /\ n > 0
  BY BodyType
<1> DEFINE kind == Line(n)
<1>1. OneChoice =>
          /\ TextLines(n) = IF kind \in {"text", "blank"} THEN TextLines(n - 1) \o <<n>>
                            ELSE TextLines(n - 1)
          /\ OpenAILike => kind \notin {"other", "both"}
  <2>1. OneChoice /\ OpenAILike => kind \notin {"other", "both"}
    BY <1>0 DEF OneChoice, LinesOf, Length, Line
  <2> QED
    BY <1>0, <2>1, TextAt DEF OnePiece, TwoPieces
<1>2. Counts(n) = LinesOf({"usage"}, n) /\ Counts(n - 1) = LinesOf({"usage"}, n - 1)
  BY DEF Counts
<1>3. /\ LinesOf({"usage"}, n - 1) \in SUBSET (1..(n - 1))
      /\ LinesOf({"usage"}, n) = IF kind = "usage" THEN LinesOf({"usage"}, n - 1) \cup {n}
                                 ELSE LinesOf({"usage"}, n - 1)
  BY <1>0, LineAt
<1>4. LastOf(LinesOf({"usage"}, n - 1) \cup {n}) = n
  BY <1>0, <1>3, LastAt
<1>5. /\ Counts(n) = {} <=> kind # "usage" /\ Counts(n - 1) = {}
      /\ LastOf(Counts(n)) = IF kind = "usage" THEN n ELSE LastOf(Counts(n - 1))
  BY <1>2, <1>3, <1>4
<1>6. PromptTokens # None /\ n # None
  BY <1>0, NoneIsNoTime DEF PromptTokens
<1>7. g = [text |-> g.text, prompt |-> g.prompt, completion |-> g.completion,
           total |-> g.total, input |-> g.input]
  BY DEF GatewayHas
<1>8. /\ OneChoice => g.text = TextLines(n - 1)
      /\ g.prompt = IF Counts(n - 1) = {} THEN None ELSE PromptTokens
      /\ g.completion = LastOf(Counts(n - 1))
      /\ g.total = Sum(g.prompt, g.completion)
      /\ Handler = "anthropic" /\ n - 1 > 0 => g.input = PromptTokens
  BY DEF GatewayHas
<1>9. CASE Handler = "openai"
  <2>1. GatewayLine(g, n) = GatewayOpenAI(g, n) /\ Handler # "anthropic" /\ OpenAILike
    BY <1>9 DEF GatewayLine, OpenAILike
  <2>2. CASE kind = "usage"
    BY <1>1, <1>5, <1>6, <1>7, <1>8, <2>1, <2>2 DEF GatewayHas, GatewayOpenAI, Line, Counted, Sum
  <2>3. CASE kind # "usage"
    BY <1>1, <1>5, <1>7, <1>8, <2>1, <2>3 DEF GatewayHas, GatewayOpenAI, Line
  <2> QED
    BY <2>2, <2>3
<1>10. CASE Handler = "anthropic"
  <2>1. GatewayLine(g, n) = GatewayAnthropic(g, n)
    BY <1>10 DEF GatewayLine, OpenAILike
  <2>2. Line(1) = "start"
    BY <1>0, <1>10, WholeBody
  <2>3. CASE kind = "usage"
    <3>1. n # 1
      BY <2>2, <2>3
    <3>2. n - 1 > 0
      BY <1>0, <3>1
    <3>3. g.input = PromptTokens
      BY <1>8, <1>10, <3>2
    <3>4. GatewayLine(g, n) = [text |-> g.text, prompt |-> PromptTokens, completion |-> n,
                               total |-> PromptTokens + n, input |-> PromptTokens]
      BY <1>7, <2>1, <2>3, <3>3 DEF GatewayAnthropic, Line
    <3>5. Sum(PromptTokens, n) = PromptTokens + n
      BY <1>6 DEF Sum
    <3> QED
      BY <1>1, <1>5, <1>8, <2>3, <3>4, <3>5 DEF GatewayHas
  <2>4. CASE kind = "start"
    <3>1. GatewayLine(g, n) = [text |-> g.text, prompt |-> g.prompt, completion |-> g.completion,
                               total |-> g.total, input |-> PromptTokens]
      BY <1>7, <2>1, <2>4 DEF GatewayAnthropic, Line
    <3> QED
      BY <1>1, <1>5, <1>8, <2>4, <3>1 DEF GatewayHas
  <2>5. CASE kind \notin {"usage", "start"}
    <3>1. n - 1 > 0
      BY <1>0, <2>2, <2>5
    <3>2. GatewayLine(g, n) = [text |-> IF kind \in {"text", "blank"} THEN g.text \o <<n>> ELSE g.text,
                               prompt |-> g.prompt, completion |-> g.completion,
                               total |-> g.total, input |-> g.input]
      BY <1>7, <2>1, <2>5 DEF GatewayAnthropic, Line
    <3> QED
      BY <1>1, <1>5, <1>8, <2>5, <3>1, <3>2 DEF GatewayHas
  <2> QED
    BY <2>3, <2>4, <2>5
<1> QED
  BY <1>9, <1>10

\* The gateway stores of a whole body what the response says.
LEMMA GatewayRight ==
    ASSUME call \in Calls, Handler \in {"openai", "anthropic"}, Whole
    PROVE  /\ Tokens(GatewayReads) = Tokens(ParseResponse(Answer))
           /\ OneChoice => GatewayReads.text = Answer.text
<1>0. Length \in Nat
  BY BodyType
<1> DEFINE T == {n \in Nat : n <= Length => GatewayHas(GatewayLoop[n], n)}
<1>1. 0 \in T
  <2>1. GatewayLoop[0] = GatewayBegin /\ TextLines(0) = <<>>
    BY <1>0, GatewayAt, JoinedAt DEF TextLines
  <2>2. Counts(0) = {}
    BY DEF Counts, LinesOf
  <2> QED
    BY <2>1, <2>2 DEF GatewayHas, GatewayBegin, LastOf, Sum
<1>2. ASSUME NEW n \in T PROVE n + 1 \in T
  <2> SUFFICES ASSUME n + 1 <= Length PROVE GatewayHas(GatewayLoop[n + 1], n + 1)
    OBVIOUS
  <2>1. GatewayHas(GatewayLoop[n], n) /\ n \in Nat
    BY <1>0
  <2> HIDE DEF T
  <2>2. n + 1 \in 1..Length /\ (n + 1) - 1 = n
    BY <1>0, <2>1
  <2>3. GatewayLoop[n + 1] = GatewayLine(GatewayLoop[n], n + 1)
    BY <1>0, <2>2, GatewayAt
  <2>4. GatewayHas(GatewayLine(GatewayLoop[n], n + 1), n + 1)
    BY <2>1, <2>2, GatewayStep
  <2> QED
    BY <2>3, <2>4
<1>3. T \in SUBSET Nat
  OBVIOUS
<1>4. Length \in T
  <2> HIDE DEF T
  <2> QED
    BY <1>0, <1>1, <1>2, <1>3, Induction
<1>5. GatewayHas(GatewayReads, Length)
  BY <1>0, <1>4 DEF GatewayReads, Length
<1>6. Counts(Length) = {} <=> Opens(Length) = {}
  <2>1. CASE Handler = "openai"
    BY <2>1, OpensCounts
  <2>2. CASE Handler = "anthropic"
    <3>1. Line(1) = "start" /\ Length > 0 /\ Counts(Length) # {}
      BY <1>0, <2>2, WholeBody
    <3>2. 1 \in Opens(Length)
      BY <1>0, <2>2, <3>1 DEF Opens, LinesOf, Line
    <3> QED
      BY <3>1, <3>2
  <2> QED
    BY <2>1, <2>2
<1> DEFINE f == Tokens(GatewayReads)
<1>7. /\ f.prompt = Answer.input /\ f.completion = Answer.output
      /\ f.total = Sum(Answer.input, Answer.output)
  BY <1>0, <1>5, <1>6, AnswerType DEF GatewayHas, Tokens
<1>8. RightCounts(f)
  BY <1>7 DEF RightCounts
<1>9. f = [prompt |-> f.prompt, completion |-> f.completion, total |-> f.total]
  BY DEF Tokens
<1>10. TotalTokens(f) = f.total
  BY <1>7, <1>8 DEF TotalTokens, RightCounts
<1> HIDE DEF f
<1>11. f = Tokens(ParseResponse(Answer))
  BY <1>0, <1>8, <1>9, <1>10, RightRow
<1>12. OneChoice => GatewayReads.text = Answer.text
  BY <1>0, <1>5, ChoiceText DEF GatewayHas
<1> QED
  BY <1>11, <1>12 DEF f

-----------------------------------------------------------------------------
(* The steps.                                                               *)

\* What the steps that leave the stream alone keep.
LEMMA Unread ==
    ASSUME BufferInv, TimeInv, call' = call, UNCHANGED unread
    PROVE  /\ BufferInv' /\ TimeInv'
           /\ LinesOf({"done"}, Lines)' = LinesOf({"done"}, Lines)
           /\ Clean' = Clean /\ Seen' = Seen /\ Size' = Size
           /\ Answer' = Answer /\ ParseResponse(Answer)' = ParseResponse(Answer)
           /\ \A f : RightShown(f)' = RightShown(f)
<1>1. /\ arrived' = arrived /\ buffer' = buffer /\ parser' = parser
      /\ ttft' = ttft /\ firstText' = firstText
  BY DEF unread
<1>2. /\ Handler' = Handler /\ Length' = Length /\ Size' = Size /\ Whole' = Whole
      /\ \A kinds, n : LinesOf(kinds, n)' = LinesOf(kinds, n)
      /\ \A p, n : HasRead(p, n)' = HasRead(p, n)
      /\ \A n : Texts(n)' = Texts(n)
      /\ Answer' = Answer /\ OneChoice' = OneChoice
      /\ Preview(Answer.text)' = Preview(Answer.text)
  <2>1. PICK text : text = Answer.text
    OBVIOUS
  <2>2. Answer' = Answer /\ Preview(text)' = Preview(text)
    BY SameBody
  <2>3. Preview(Answer.text)' = Preview(text)'
    BY <2>1, <2>2 DEF Preview, Strip
  <2> QED
    BY <2>1, <2>2, <2>3, SameBody
<1>3. /\ LinesOf({"odd"}, Lines)' = LinesOf({"odd"}, Lines)
      /\ LinesOf({"done"}, Lines)' = LinesOf({"done"}, Lines)
      /\ Texts(Lines)' = Texts(Lines)
  BY <1>1 DEF LinesOf, Lines, Texts, Heard, OpenAILike, Handler
<1>4. Clean' = Clean
  BY <1>3 DEF Clean
<1>5. Seen' = Seen
  BY <1>2 DEF Seen, Streaming, OpenAILike
<1>6. Answer' = Answer
  BY <1>2
<1>7. ParseResponse(Answer)' = ParseResponse(Answer)
  BY <1>2, <1>6 DEF ParseResponse, OpenAILike, OpenAIResponse, AnthropicResponse, OllamaResponse
<1>8. \A f : RightShown(f)' = RightShown(f)
  BY <1>2, <1>6 DEF RightShown, RightCounts
<1>9. BufferInv'
  <2>1. PICK m \in Nat, L \in Nat :
            /\ 3 * m + L = arrived /\ buffer = From(m, L)
            /\ HasRead(parser, m)
            /\ Clean => L < 3
    BY DEF BufferInv
  <2>2. HasRead(parser, m)'
    <3>1. HasRead(parser', m)
      BY <1>1, <2>1
    <3> QED
      BY <1>1, <1>2, <2>1
  <2> QED
    BY <1>1, <1>2, <1>4, <2>1, <2>2 DEF BufferInv, From
<1>10. TimeInv'
  BY <1>1, <1>3, <1>4 DEF TimeInv
<1> QED
  BY <1>2, <1>3, <1>4, <1>5, <1>6, <1>7, <1>8, <1>9, <1>10

\* The steps of a call that emit nothing.
LEMMA SilentKeeps ==
    ASSUME StreamInv, call' = call, UNCHANGED unread, event' = event, row' = row,
           pc' \in {"stream", "over"}, pc \in {"request", "stream"},
           pc' = "stream" => Handler # None
    PROVE  StreamInv'
<1>1. BufferInv' /\ TimeInv'
  BY Unread DEF StreamInv
<1>2. event' = None /\ row' = None
  BY DEF StreamInv, EventInv
<1>3. HonestEvent' /\ SameFigures'
  BY <1>2 DEF HonestEvent, SameFigures
<1>4. Handler' = Handler
  BY SameBody
<1>5. EventInv'
  BY <1>2, <1>3, <1>4 DEF EventInv
<1> QED
  BY <1>1, <1>5 DEF StreamInv

\* An event that says the truth of a call that was not logged before.
LEMMA EmitKeeps ==
    ASSUME StreamInv, pc \in {"request", "stream"}, UNCHANGED unread,
           NEW status, NEW figures, NEW first, NEW errorChars,
           Emit(status, figures, first, errorChars),
           arrived > 0 /\ Clean =>
               /\ status = "cancelled" => LinesOf({"done"}, Lines) = {}
               /\ status = "success" => arrived = Size \/ LinesOf({"done"}, Lines) # {},
           status = "success" /\ Seen => Right(figures)
    PROVE  StreamInv'
<1> DEFINE shown == [text |-> Preview(figures.text), prompt |-> figures.prompt,
                     completion |-> figures.completion, total |-> figures.total]
<1>1. call' = call /\ row' = row
  BY Emits
<1>2. CASE event' = event /\ pc' = "over"
  BY <1>1, <1>2, SilentKeeps
<1>3. CASE /\ event'.status = status /\ event'.figures = shown
           /\ DOMAIN event' = {"figures", "status", "ttft", "service", "model",
                               "conversation", "counts", "input", "output", "error",
                               "tags", "metadata"}
           /\ pc' \in {"event", "over"}
  <2>1. BufferInv' /\ TimeInv'
    BY <1>1, Unread DEF StreamInv
  <2>2. HonestEvent'
    <3>1. /\ LinesOf({"done"}, Lines)' = LinesOf({"done"}, Lines)
          /\ Clean' = Clean /\ Size' = Size /\ arrived' = arrived
      BY <1>1, Unread DEF StreamInv, unread
    <3> QED
      BY <1>3, <3>1 DEF HonestEvent
  <2>3. event'.status = "success" /\ Seen' => RightShown(event.figures)'
    <3>1. Seen' = Seen /\ \A f : RightShown(f)' = RightShown(f)
      BY <1>1, Unread DEF StreamInv
    <3>2. Right(figures) => RightShown(shown)
      BY DEF Right, RightShown, RightCounts
    <3> HIDE DEF shown
    <3>3. PICK f : f = shown
      OBVIOUS
    <3>4. RightShown(f)' <=> RightShown(f)
      BY <3>1
    <3>5. RightShown(event.figures)' <=> RightShown(f)'
      BY <1>3, <3>3 DEF RightShown, RightCounts
    <3> QED
      BY <1>3, <3>1, <3>2, <3>3, <3>4, <3>5
  <2>4. row' = None
    BY <1>1 DEF StreamInv, EventInv
  <2>5. SameFigures'
    BY <2>4 DEF SameFigures
  <2>6. EventInv'
    BY <1>3, <2>2, <2>3, <2>4, <2>5 DEF EventInv
  <2> QED
    BY <1>1, <2>1, <2>6 DEF StreamInv
<1> QED
  BY <1>2, <1>3, Emits

\* What the row of a successful call must say.
Agrees(r) ==
    /\ Tokens(r) = Tokens(ParseResponse(Answer))
    /\ Handler \in {"openai", "anthropic"} => Tokens(r) = Tokens(GatewayReads)
    /\ r.cost <=> call.shape.priced /\ Answer.input # None /\ Answer.output # None
    /\ OneChoice =>
          /\ r.text = Preview(Answer.text)
          /\ Handler \in {"openai", "anthropic"} => r.text = Preview(GatewayReads.text)

\* SameFigures, in these words.
LEMMA FiguresAgree ==
    SameFigures <=> (row # None /\ row.status = "success" /\ Seen => Agrees(row))
BY DEF SameFigures, Seen, Agrees

\* It depends on the call alone.
LEMMA SameAgrees ==
    ASSUME call' = call
    PROVE  Seen' = Seen /\ \A r : Agrees(r)' <=> Agrees(r)
<1>1. /\ Handler' = Handler /\ Whole' = Whole /\ Answer' = Answer /\ OneChoice' = OneChoice
      /\ \A text : Preview(text)' = Preview(text)
  BY SameBody
<1>2. Seen' = Seen
  BY <1>1 DEF Seen, Streaming, OpenAILike
<1>4. ParseResponse(Answer)' = ParseResponse(Answer)
  BY <1>1 DEF ParseResponse, OpenAILike, OpenAIResponse, AnthropicResponse, OllamaResponse
<1>5. \A g, i : GatewayLine(g, i)' = GatewayLine(g, i)
  BY <1>1 DEF GatewayLine, OpenAILike, GatewayOpenAI, GatewayAnthropic, Counted
<1>6. GatewayReads' = GatewayReads
  BY <1>5 DEF GatewayReads, GatewayLoop
<1>7. Tokens(GatewayReads)' = Tokens(GatewayReads)
      /\ Tokens(ParseResponse(Answer))' = Tokens(ParseResponse(Answer))
  BY <1>4, <1>6 DEF Tokens
<1>8. Preview(Answer.text)' = Preview(Answer.text)
      /\ Preview(GatewayReads.text)' = Preview(GatewayReads.text)
  BY <1>1, <1>6 DEF Preview, Strip
<1>9. ASSUME NEW r PROVE Agrees(r)' <=> Agrees(r)
  BY <1>1, <1>7, <1>8 DEF Agrees, Tokens
<1> QED
  BY <1>2, <1>9

\* The row that the service makes of the right figures.
LEMMA RowAgrees ==
    ASSUME call \in Calls, Whole, NEW p, RightShown(p.figures)
    PROVE  Agrees(ProcessEvent(p))
<1> DEFINE r == ProcessEvent(p)
           f == p.figures
<1>0. Length \in Nat
  BY BodyType
<1>1. /\ Tokens(r) = [prompt |-> f.prompt, completion |-> f.completion,
                      total |-> TotalTokens(f)]
      /\ r.cost = HasCost(f) /\ r.text = f.text
  BY DEF ProcessEvent, Tokens
<1>2. Tokens(r) = Tokens(ParseResponse(Answer))
  BY <1>0, <1>1, RightRow DEF RightShown
<1>3. Handler \in {"openai", "anthropic"} =>
          /\ Tokens(r) = Tokens(GatewayReads)
          /\ OneChoice => GatewayReads.text = Answer.text
  BY <1>2, GatewayRight
<1>4. r.cost <=> call.shape.priced /\ Answer.input # None /\ Answer.output # None
  BY <1>1 DEF HasCost, RightShown, RightCounts
<1>5. OneChoice => r.text = Preview(Answer.text)
  BY <1>1 DEF RightShown
<1> HIDE DEF r
<1> QED
  BY <1>2, <1>3, <1>4, <1>5 DEF Agrees, r

\* The service's row of an event says what the event says.
LEMMA IngestKeeps ==
    ASSUME StreamInv, Ingest
    PROVE  StreamInv'
<1>1. /\ call' = call /\ event' = event /\ UNCHANGED unread /\ pc = "event" /\ pc' = "over"
      /\ row' = row \/ row' = ProcessEvent(Payload(event))
      /\ row = None
  BY DEF Ingest, StreamInv, EventInv
<1>2. BufferInv' /\ TimeInv'
  BY <1>1, Unread DEF StreamInv
<1>3. HonestEvent'
  <2>1. /\ LinesOf({"done"}, Lines)' = LinesOf({"done"}, Lines)
        /\ Clean' = Clean /\ Size' = Size /\ arrived' = arrived
    BY <1>1, Unread DEF StreamInv, unread
  <2> QED
    BY <1>1, <2>1 DEF HonestEvent, StreamInv, EventInv
<1>4. SameFigures'
  <2> DEFINE r == ProcessEvent(Payload(event))
  <2>1. CASE row' = row
    BY <1>1, <2>1 DEF SameFigures
  <2>2. CASE row' = r
    <3>1. Payload(event).figures = event.figures /\ Payload(event).status = event.status
      BY <1>1 DEF Payload, StreamInv, EventInv
    <3>2. r.status = event.status
      BY <3>1 DEF ProcessEvent
    <3>3. event.status = "success" /\ Seen => Agrees(r)
      BY <1>1, <3>1, RowAgrees DEF Seen, StreamInv, EventInv
    <3> HIDE DEF r
    <3>4. PICK s : s = r
      OBVIOUS
    <3>5. Seen' = Seen /\ (Agrees(s)' <=> Agrees(s))
      BY <1>1, SameAgrees
    <3>6. Agrees(row)' <=> Agrees(s)'
      BY <2>2, <3>4 DEF Agrees, Tokens
    <3>7. row'.status = "success" /\ Seen' => Agrees(row)'
      BY <2>2, <3>2, <3>3, <3>4, <3>5, <3>6
    <3>8. SameFigures' <=> (row # None /\ row.status = "success" /\ Seen => Agrees(row))'
      BY FiguresAgree, PTL
    <3> QED
      BY <3>7, <3>8
  <2> QED
    BY <1>1, <2>1, <2>2
<1>5. EventInv'
  BY <1>1, <1>3, <1>4 DEF EventInv
<1> QED
  BY <1>1, <1>2, <1>5 DEF StreamInv, unread

\* A chunk changes what has been read, and nothing of the event or the row.
LEMMA ChunkKeeps ==
    ASSUME StreamInv, Chunk
    PROVE  StreamInv'
<1>1. /\ pc = "stream" /\ pc' = pc /\ call' = call /\ event' = event /\ row' = row
      /\ event = None /\ row = None /\ Handler # None
  BY DEF Chunk, StreamInv, EventInv
<1>2. BufferInv' /\ TimeInv'
  BY <1>1, BufferStep, TimeStep DEF StreamInv
<1>3. HonestEvent' /\ SameFigures'
  BY <1>1 DEF HonestEvent, SameFigures
<1>4. Handler' = Handler
  BY <1>1, SameBody
<1>5. EventInv'
  BY <1>1, <1>3, <1>4 DEF EventInv
<1> QED
  BY <1>1, <1>2, <1>5 DEF StreamInv

\* The three ends of a stream: at the end of the body, left by the host, broken.
LEMMA EndKeeps ==
    ASSUME StreamInv, Exhausted \/ Leave \/ Breaks
    PROVE  StreamInv'
<1> DEFINE f == [text |-> parser.text, prompt |-> parser.prompt,
                 completion |-> parser.completion, total |-> parser.total]
<1>1. pc = "stream" /\ UNCHANGED unread
  BY DEF Exhausted, Leave, Breaks, EmitStream, unread
<1>2. ASSUME Seen, arrived = Size \/ parser.completed PROVE Right(f)
  <2>1. HasRead(parser, Length) /\ Length \in Nat
    BY <1>2, WholeRead, BodyType DEF StreamInv, Seen
  <2> QED
    BY <2>1, ReadIsRight
<1>3. Clean => (parser.completed <=> LinesOf({"done"}, Lines) # {})
  <2>1. PICK m \in Nat, L \in Nat :
            /\ 3 * m + L = arrived /\ HasRead(parser, m) /\ (Clean => L < 3)
    BY DEF BufferInv, StreamInv
  <2>2. L < 3 => (3 * m + L) \div 3 = m
    OBVIOUS
  <2>3. Clean => Lines = m
    BY <2>1, <2>2 DEF Lines
  <2> QED
    BY <2>1, <2>3 DEF HasRead
<1> HIDE DEF f
<1>4. CASE Exhausted
  <2>1. arrived = Size /\ Emit("success", f, ttft, 0)
    BY <1>4 DEF Exhausted, EmitStream, f
  <2>2. Seen => Right(f)
    BY <1>2, <2>1
  <2> QED
    BY <1>1, <2>1, <2>2, EmitKeeps
<1>5. CASE Leave
  <2>1. Emit(LeftStatus(parser), f, ttft, 0)
    BY <1>5 DEF Leave, EmitStream, f
  <2>2. LeftStatus(parser) = IF parser.completed THEN "success" ELSE "cancelled"
    BY DEF LeftStatus
  <2>3. PICK status : status = LeftStatus(parser)
    OBVIOUS
  <2>4. /\ status = "success" <=> parser.completed
        /\ status = "cancelled" <=> ~parser.completed
    BY <2>2, <2>3
  <2>5. status = "success" /\ Seen => Right(f)
    BY <1>2, <2>4
  <2> QED
    BY <1>1, <1>3, <2>1, <2>3, <2>4, <2>5, EmitKeeps
<1>6. CASE Breaks
  <2>1. Emit("error", f, ttft, call.shape.error)
    BY <1>6 DEF Breaks, EmitStream, f
  <2> QED
    BY <1>1, <2>1, EmitKeeps
<1> QED
  BY <1>4, <1>5, <1>6

\* The two responses that are logged without a stream, and the call that fails.
LEMMA RequestKeeps ==
    ASSUME StreamInv, Fails \/ Buffered \/ HeadersOnly
    PROVE  StreamInv'
<1>1. pc = "request" /\ UNCHANGED unread /\ arrived = 0 /\ ~(arrived > 0) /\ Length \in Nat
  BY BodyType DEF Fails, Buffered, HeadersOnly, StreamInv, EventInv
<1>2. CASE Fails
  <2>1. Emit("error", NoFigures, None, call.shape.error)
    BY <1>2 DEF Fails
  <2> QED
    BY <1>1, <2>1, EmitKeeps
<1>3. CASE Buffered
  <2>1. PICK f : /\ f = IF call.cut \/ "odd" \in ToSet(call.body) THEN NoFigures
                         ELSE ParseResponse(Answer)
                 /\ Swallow \/ Emit("success", f, None, 0)
    BY <1>3 DEF Buffered
  <2>2. Seen => "odd" \notin ToSet(call.body) /\ ~call.cut
    <3>1. Seen => \A n \in 1..Length : Line(n) # "odd"
      BY <1>1, WholeBody DEF Seen, LinesOf, Line
    <3> QED
      BY <1>1, <3>1 DEF ToSet, Length, Line, StreamInv, Body, Seen, Whole
  <2>3. Seen => Right(f)
    BY <1>1, <2>1, <2>2, ResponseIsRight
  <2>4. CASE Swallow
    BY <1>1, <2>4, SilentKeeps DEF Swallow
  <2>5. CASE Emit("success", f, None, 0)
    BY <1>1, <2>3, <2>5, EmitKeeps
  <2> QED
    BY <2>1, <2>4, <2>5
<1>4. CASE HeadersOnly
  <2>1. Emit("success", NoFigures, None, 0) /\ ~Seen
    BY <1>4 DEF HeadersOnly, Seen
  <2> QED
    BY <1>1, <2>1, EmitKeeps
<1> QED
  BY <1>2, <1>3, <1>4

\* A call begins with nothing read and nothing said.
LEMMA InitStream ==
    ASSUME Init PROVE StreamInv
<1>1. Length \in Nat /\ call \in Calls
  BY BodyType DEF Init
<1>2. LinesOf({"done"}, 0) = {} /\ Texts(0) = {} /\ Opens(0) = {} /\ Counts(0) = {}
  BY DEF LinesOf, Opens, Counts, Texts
<1>3. HasRead(parser, 0)
  <2>1. TextLines(0) = <<>>
    BY <1>1, JoinedAt DEF TextLines
  <2> QED
    BY <1>2, <2>1 DEF Init, HasRead, NewParser, LastOf
<1>4. BufferInv
  <2>1. buffer = From(0, 0)
    <3>1. From(0, 0) \in Seq(Nat) /\ Len(From(0, 0)) = 0
      BY DEF From
    <3>2. From(0, 0) = <<>>
      BY <3>1
    <3>3. buffer = <<>>
      BY DEF Init
    <3> QED
      BY <3>2, <3>3
  <2>2. 3 * 0 + 0 = arrived /\ arrived \in Nat /\ arrived <= 3 * Length
    <3>1. arrived = 0
      BY DEF Init
    <3> QED
      BY <1>1, <3>1
  <2> QED
    BY <1>3, <2>1, <2>2 DEF BufferInv
<1>5. TimeInv
  <2>1. Lines = 0
    <3>1. arrived = 0
      BY DEF Init
    <3>2. 0 \div 3 = 0
      OBVIOUS
    <3> QED
      BY <3>1, <3>2 DEF Lines
  <2> QED
    BY <1>2, <2>1 DEF Init, TimeInv
<1>6. EventInv
  BY DEF Init, EventInv, HonestEvent, SameFigures
<1> QED
  BY <1>1, <1>4, <1>5, <1>6 DEF StreamInv

\* Every step of a call keeps what has been read, timed and said true.
LEMMA StreamStep ==
    ASSUME StreamInv, [Next]_vars PROVE StreamInv'
<1>1. CASE PassThrough \/ Attach \/ Unseen
  <2>1. /\ call' = call /\ UNCHANGED unread /\ event' = event /\ row' = row
        /\ pc' \in {"stream", "over"} /\ pc \in {"request", "stream"}
        /\ pc' = "stream" => Handler # None
    BY <1>1 DEF PassThrough, Attach, Unseen, Captured
  <2> QED
    BY <2>1, SilentKeeps
<1>2. CASE Fails \/ Buffered \/ HeadersOnly
  BY <1>2, RequestKeeps
<1>3. CASE Chunk
  BY <1>3, ChunkKeeps
<1>4. CASE Exhausted \/ Leave \/ Breaks
  BY <1>4, EndKeeps
<1>5. CASE Ingest
  BY <1>5, IngestKeeps
<1>6. CASE UNCHANGED vars
  <2>1. /\ call' = call /\ UNCHANGED unread /\ event' = event /\ row' = row /\ pc' = pc
        /\ arrived' = arrived
    BY <1>6 DEF vars, unread
  <2>2. BufferInv' /\ TimeInv'
    BY <2>1, Unread DEF StreamInv
  <2>3. HonestEvent'
    <3>1. /\ LinesOf({"done"}, Lines)' = LinesOf({"done"}, Lines)
          /\ Clean' = Clean /\ Size' = Size
      BY <2>1, Unread DEF StreamInv
    <3> QED
      BY <2>1, <3>1 DEF HonestEvent, StreamInv, EventInv
  <2>4. SameFigures'
    <3>1. PICK s : s = row
      OBVIOUS
    <3>2. Seen' = Seen /\ (Agrees(s)' <=> Agrees(s))
      BY <2>1, SameAgrees
    <3>3. Agrees(row)' <=> Agrees(s)'
      BY <2>1, <3>1 DEF Agrees, Tokens
    <3>4. row # None /\ row.status = "success" /\ Seen => Agrees(s)
      BY <3>1, FiguresAgree DEF StreamInv, EventInv
    <3>5. SameFigures' <=> (row # None /\ row.status = "success" /\ Seen => Agrees(row))'
      BY FiguresAgree, PTL
    <3> QED
      BY <2>1, <3>2, <3>3, <3>4, <3>5
  <2>5. Handler' = Handler /\ Seen' = Seen /\ \A f : RightShown(f)' = RightShown(f)
    BY <2>1, Unread, SameBody DEF StreamInv
  <2>6. pc = "event" /\ event.status = "success" /\ Seen => RightShown(event.figures)'
    <3>1. PICK f : f = event.figures
      OBVIOUS
    <3>2. RightShown(event.figures)' <=> RightShown(f)'
      BY <2>1, <3>1 DEF RightShown, RightCounts
    <3> QED
      BY <2>5, <3>1, <3>2 DEF StreamInv, EventInv
  <2>7. EventInv'
    BY <2>1, <2>3, <2>4, <2>5, <2>6 DEF StreamInv, EventInv
  <2> QED
    BY <2>1, <2>2, <2>7 DEF StreamInv
<1> QED
  BY <1>1, <1>2, <1>3, <1>4, <1>5, <1>6 DEF Next

\* Whatever the body and the chunks it came in, every state of a call is sound.
THEOREM StreamAlways == Spec => []StreamInv
BY InitStream, StreamStep, PTL DEF Spec

\* What the parser holds depends on the lines it has consumed and not on the
\* chunks they came in.
THEOREM ChunksAlways == Spec => []ChunksDoNotMatter
<1>1. StreamInv => ChunksDoNotMatter
  <2> SUFFICES ASSUME StreamInv PROVE ChunksDoNotMatter
    OBVIOUS
  <2>1. PICK m \in Nat, L \in Nat :
            /\ 3 * m + L = arrived /\ buffer = From(m, L)
            /\ HasRead(parser, m)
            /\ Clean => L < 3
    BY DEF StreamInv, BufferInv
  <2>2. Len(buffer) = L
    BY <2>1 DEF From
  <2>3. arrived - Len(buffer) = 3 * m /\ (3 * m) \div 3 = m /\ (L < 3 => (3 * m + L) \div 3 = m)
    BY <2>1, <2>2
  <2>4. Clean => m = Lines
    BY <2>1, <2>3 DEF Lines
  <2>5. buffer = [b \in 1..Len(buffer) |-> 3 * m + b]
    BY <2>1, <2>2 DEF From
  <2>6. /\ parser.text = TextLines(m)
        /\ parser.completion = IF Counts(m) = {} THEN None ELSE Max(Counts(m))
        /\ parser.completed <=> LinesOf({"done"}, m) # {}
    BY <2>1 DEF HasRead, LastOf
  <2> QED
    BY <2>3, <2>4, <2>5, <2>6 DEF ChunksDoNotMatter
<1> QED
  BY <1>1, StreamAlways, PTL

\* The time to first token is that of the chunk which completed the first line of
\* text, and a stream that the host left is a success exactly if its end marker
\* had come.
THEOREM HonestAlways == Spec => []HonestStream
<1>1. StreamInv => HonestStream
  BY DEF StreamInv, TimeInv, EventInv, HonestEvent, HonestStream
<1> QED
  BY <1>1, StreamAlways, PTL

\* A stored row of a successful call has the same token counts whether the answer was
\* streamed or not and however it was cut, the same as the gateway stores of it, and a
\* cost if the provider counted and the model has a price; of one choice its text is
\* the preview of what the gateway stores in full.
THEOREM FiguresAlways == Spec => []SameFigures
<1>1. StreamInv => SameFigures
  BY DEF StreamInv, EventInv
<1> QED
  BY <1>1, StreamAlways, PTL

================================================================================
