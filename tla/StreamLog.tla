------------------------------- MODULE StreamLog -------------------------------
(***************************************************************************)
(* One captured HTTP call, from its request to the row of inference_logs   *)
(* that says what it answered: the provider handlers and stream parsers of *)
(* sdk/inferlog/parsers.py, the stream capture and the event of            *)
(* sdk/inferlog/auto.py, and the ingestion service's validation and        *)
(* enrichment.  How often an event is emitted is Capture's subject, how it *)
(* travels is Pipeline's; here the question is what it says.               *)
(*                                                                         *)
(* The body of a streamed response is a sequence of lines:                 *)
(*   "start"  the provider's opening (Anthropic: with the prompt's tokens) *)
(*   "text"   a piece of the answer                                        *)
(*   "blank"  a piece of it that is only white space                       *)
(*   "other", "both"  an OpenAI chunk with a piece of another choice than  *)
(*            the first, and one with a piece of each                      *)
(*   "usage"  token counts (OpenAI, Anthropic)                             *)
(*   "done"   the end-of-stream marker (Ollama: with the token counts)     *)
(*   "noise"  blank, a comment, an event of another type, not JSON         *)
(*   "odd"    JSON of a shape that makes feed() raise                      *)
(* A line is three bytes, the last of them its newline: byte b of the body *)
(* belongs to line (b + 2) \div 3.                                         *)
(***************************************************************************)
EXTENDS Integers, SequencesExt, FiniteSetsExt, EventShape

CONSTANTS
    None,
    Calls,          \* the calls a host may make
    PreviewPieces   \* the pieces of an answer that a preview has room for

\* A request "parses" unless its body is a stream that was not read, or JSON that is
\* not an object.
Request == [post : BOOLEAN, host : {"openai", "anthropic", "other"}, path : STRING,
            stream : {"absent", "true", "false"}, parses : BOOLEAN]
Body == Seq({"start", "text", "blank", "other", "both", "usage", "done", "noise", "odd"})
\* What the event carries besides the answer: lengths, the conversation_id, whether
\* the model has a price, what the redactor does to the texts, whether the provider's
\* token counts are such as the service accepts, whether the content of an unstreamed
\* answer is a string or a list of parts, and the tags.
Shape == [service : Nat, model : Nat, conversation : {"none", "uuid", "text"},
          priced : BOOLEAN, input : Nat, output : Nat \ {0}, error : Nat,
          redactor : {"leaves", "addresses", "lengthens", "raises"},
          counts : {"fit", "unfit"}, content : {"string", "parts"},
          tags : Seq([key : Nat, chars : Nat, wide : BOOLEAN])]

ASSUME NoneIsNoTime == None \notin Nat

ASSUME PreviewType == PreviewPieces \in Nat \ {0}

ASSUME CallType ==
    Calls \subseteq [request : Request, body : Body, cut : BOOLEAN, sync : BOOLEAN,
                     sampler : {"keep_all", "errors", "some", "raises"}, shape : Shape]

VARIABLES
    call,
    pc,         \* "request", "stream", "event", or "over"
    arrived,    \* bytes of the body that the host has read
    buffer,     \* parser._buffer
    parser,     \* the other fields of the StreamParser
    ttft,       \* state._ttft_ms: the bytes arrived when it was set
    event,      \* the InferenceEvent, once emitted
    row,        \* its row of inference_logs
    fate,       \* "", "passed" on, "unseen", "swallowed" by _emit_safe's except,
                \* "sampled" away, "refused" (422), "stored"
    firstText   \* history: the bytes arrived with the chunk that completed
                \* the first line of text

vars == <<call, pc, arrived, buffer, parser, ttft, event, row, fate, firstText>>

-----------------------------------------------------------------------------
(* The request.                                                             *)

\* matches() of the four handlers.  A host is "openai", "anthropic" or any
\* "other"; a path stands for its ending.
MatchesOpenAI(r) == r.post /\ r.host = "openai" /\ r.path = "/chat/completions"
MatchesAnthropic(r) == r.post /\ r.host = "anthropic" /\ r.path = "/v1/messages"
MatchesOllama(r) == r.post /\ r.path \in {"/api/chat", "/api/generate"}
MatchesCompatible(r) == r.post /\ r.host = "other" /\ r.path = "/chat/completions"

\* The first of HANDLERS that matches; no request matches two of them.
Identify(r) ==
    CASE MatchesOpenAI(r) -> "openai"
      [] MatchesAnthropic(r) -> "anthropic"
      [] MatchesOllama(r) -> "ollama"
      [] MatchesCompatible(r) -> "openai_compatible"
      [] OTHER -> None

\* RequestMeta.streaming, of a request whose "stream" is absent, true or false:
\* OpenAI and Anthropic stream if asked to, Ollama unless told not to.
OpenAIStreams(r) == r.stream = "true"
AnthropicStreams(r) == r.stream = "true"
OllamaStreams(r) == r.stream # "false"

Handler == Identify(call.request)
OpenAILike == Handler \in {"openai", "openai_compatible"}
Captured == Handler # None /\ call.request.parses
Streaming(r) ==
    CASE OpenAILike -> OpenAIStreams(r)
      [] Handler = "anthropic" -> AnthropicStreams(r)
      [] OTHER -> OllamaStreams(r)

-----------------------------------------------------------------------------
(* The stream parsers.                                                      *)

NoFigures == [text |-> <<>>, prompt |-> None, completion |-> None, total |-> None]
NewParser == [text |-> <<>>, prompt |-> None, completion |-> None, total |-> None,
              completed |-> FALSE]

\* The prompt has PromptTokens; the counts after line i say i tokens of answer.
PromptTokens == 2

Sum(a, b) == IF a = None \/ b = None THEN None ELSE a + b

\* Mutation: the usage of message_delta replaces all of message_start's.
CountAfresh(p, i) == [p EXCEPT !.prompt = None, !.completion = i]

\* message_delta completes what message_start began to count.
CountAnswer(p, i) == [p EXCEPT !.completion = i, !.total = Sum(p.prompt, i)]

Counted(p, i) ==
    [p EXCEPT !.prompt = PromptTokens, !.completion = i, !.total = PromptTokens + i]

\* What feed() does with line i, whose kind is not "odd".  A text is the sequence of
\* the lines its pieces are from.  OpenAI's chunk lists the choices that it has a
\* piece of, and each is added to the one text.
ParseOpenAI(p, i) ==
    CASE call.body[i] \in {"text", "blank", "other"} -> [p EXCEPT !.text = @ \o <<i>>]
      [] call.body[i] = "both" -> [p EXCEPT !.text = @ \o <<i, i>>]
      [] call.body[i] = "usage" -> Counted(p, i)
      [] call.body[i] = "done" -> [p EXCEPT !.completed = TRUE]
      [] OTHER -> p
ParseAnthropic(p, i) ==
    CASE call.body[i] = "start" -> [p EXCEPT !.prompt = PromptTokens]
      [] call.body[i] \in {"text", "blank"} -> [p EXCEPT !.text = @ \o <<i>>]
      [] call.body[i] = "usage" -> CountAnswer(p, i)
      [] call.body[i] = "done" -> [p EXCEPT !.completed = TRUE]
      [] OTHER -> p
ParseOllama(p, i) ==
    CASE call.body[i] \in {"text", "blank"} -> [p EXCEPT !.text = @ \o <<i>>]
      [] call.body[i] = "done" -> [Counted(p, i) EXCEPT !.completed = TRUE]
      [] OTHER -> p

\* make_stream_parser()
Parse(p, i) ==
    CASE OpenAILike -> ParseOpenAI(p, i)
      [] Handler = "anthropic" -> ParseAnthropic(p, i)
      [] OTHER -> ParseOllama(p, i)

\* One turn of "while b'\n' in self._buffer": the buffer has been cut after the
\* newline at position k when the line is looked at, so that a line that raises
\* is gone and what follows it stays.
Take(s, k) ==
    IF s.raised THEN s
    ELSE LET line == SubSeq(s.bytes, s.from, k)
             i == s.bytes[k] \div 3
             whole == line = <<3 * i - 2, 3 * i - 1, 3 * i>>
         IN  IF whole /\ call.body[i] = "odd"
             THEN [s EXCEPT !.from = k + 1, !.raised = TRUE]
             ELSE [s EXCEPT !.from = k + 1,
                            !.parser = IF whole THEN Parse(@, i) ELSE @]

\* The loop, after it has seen k of the bytes.
Loop(bytes) ==
    LET seen[k \in 0..Len(bytes)] ==
            IF k = 0 THEN [bytes |-> bytes, from |-> 1, raised |-> FALSE, parser |-> parser]
            ELSE IF bytes[k] % 3 = 0 THEN Take(seen[k - 1], k) ELSE seen[k - 1]
    IN  seen

\* self._buffer += chunk, and the loop.
Feed(chunk) == Loop(buffer \o chunk)[Len(buffer \o chunk)]

-----------------------------------------------------------------------------
(* The event: _emit_safe().                                                 *)

Keeps(status) ==
    CASE call.sampler = "keep_all" -> {TRUE}
      [] call.sampler = "errors" -> IF status = "success" THEN BOOLEAN ELSE {TRUE}
      [] OTHER -> BOOLEAN

Transport == <<[key |-> 17, chars |-> 4, wide |-> FALSE],
               [key |-> 9, chars |-> 5, wide |-> FALSE]>>

\* (text or "").strip()[:280] or None, and its redaction: white space at the ends
\* goes, and what the preview has no room for.
Strip(text) ==
    LET said == {k \in 1..Len(text) : call.body[text[k]] # "blank"}
    IN  IF said = {} THEN <<>> ELSE SubSeq(text, Min(said), Max(said))
Preview(text) ==
    LET shown == SubSeq(Strip(text), 1, Cut(Len(Strip(text)), PreviewPieces))
    IN  IF shown = <<>> THEN None
        ELSE [pieces |-> shown, masked |-> call.shape.redactor \in {"addresses", "lengthens"}]

CountsOf(f) == {f.prompt, f.completion, f.total} \ {None}

\* Redactor.redact does not call the host's redactor for want of a text.
RedactorRaises(text, errorChars) ==
    /\ call.shape.redactor = "raises"
    /\ call.shape.input > 0 \/ text # None \/ errorChars > 0

\* "inferlog auto-emit failed (swallowed)"
Swallow == pc' = "over" /\ fate' = "swallowed" /\ UNCHANGED <<call, event, row>>

Emit(status, figures, first, errorChars) ==
    LET shape == call.shape
        text == Preview(figures.text)
        preview(n) == Redact(Cut(n, PreviewChars), shape.redactor)
        e == [figures |-> [text |-> text, prompt |-> figures.prompt,
                           completion |-> figures.completion, total |-> figures.total],
              status |-> status, ttft |-> first,
              service |-> shape.service, model |-> shape.model,
              conversation |-> shape.conversation,
              counts |-> IF CountsOf(figures) = {} THEN "fit" ELSE shape.counts,
              input |-> preview(shape.input),
              output |-> IF text = None THEN 0 ELSE preview(shape.output),
              error |-> Redact(Cut(errorChars, ErrorChars), shape.redactor),
              tags |-> shape.tags, metadata |-> Transport]
        raises == call.sampler = "raises" \/ RedactorRaises(text, errorChars)
    IN  \/ raises /\ Swallow
        \/ /\ ~raises
           /\ event' = e
           /\ \E kept \in Keeps(status) :
                 /\ pc' = IF kept THEN "event" ELSE "over"
                 /\ fate' = IF kept THEN "" ELSE "sampled"
           /\ UNCHANGED <<call, row>>

\* What the stream's state has, at emit().
EmitStream(status, errorChars) ==
    /\ pc = "stream"
    /\ Emit(status, [text |-> parser.text, prompt |-> parser.prompt,
                     completion |-> parser.completion, total |-> parser.total],
            ttft, errorChars)
    /\ UNCHANGED <<arrived, buffer, parser, ttft, firstText>>

-----------------------------------------------------------------------------
(* The steps of a call.                                                     *)

Size == 3 * Len(call.body) - (IF call.cut THEN 1 ELSE 0)

Init ==
    /\ call \in Calls
    /\ pc = "request" /\ arrived = 0 /\ buffer = <<>>
    /\ parser = NewParser
    /\ ttft = None /\ event = None /\ row = None /\ fate = "" /\ firstText = None

unread == <<arrived, buffer, parser, ttft, firstText>>

\* No handler: the request is none of our business.  Or parse_request raises.
PassThrough ==
    /\ pc = "request" /\ ~Captured
    /\ pc' = "over" /\ fate' = "passed"
    /\ UNCHANGED <<call, unread, event, row>>

\* The original send raises, or the status is 400 or more.
Fails ==
    /\ pc = "request" /\ Captured
    /\ Emit("error", NoFigures, None, call.shape.error)
    /\ UNCHANGED unread

\* The pieces of text that line i has: for the parsers, and those of the first
\* choice, which are all that the others read.
Heard ==
    [i \in 1..Len(call.body) |->
        CASE call.body[i] \in {"text", "blank"} -> <<i>>
          [] OpenAILike /\ call.body[i] = "other" -> <<i>>
          [] OpenAILike /\ call.body[i] = "both" -> <<i, i>>
          [] OTHER -> <<>>]
FirstChoice ==
    [i \in 1..Len(call.body) |->
        IF call.body[i] \in {"text", "blank"} \/ (OpenAILike /\ call.body[i] = "both")
        THEN <<i>> ELSE <<>>]

\* The pieces of the first n lines, joined.
Joined(pieces) ==
    LET text[n \in 0..Len(call.body)] ==
            IF n = 0 THEN <<>> ELSE text[n - 1] \o pieces[n]
    IN  text
TextLines(n) == Joined(Heard)[n]
LinesOf(kinds, n) == {i \in 1..n : call.body[i] \in kinds}
Counts(n) == LinesOf({IF Handler = "ollama" THEN "done" ELSE "usage"}, n)
Opens(n) == IF Handler = "anthropic" THEN LinesOf({"start"}, n) ELSE Counts(n)
Texts(n) == {i \in 1..n : Heard[i] # <<>>}

\* What an unstreamed response with the same content carries.
Answer ==
    LET n == Len(call.body)
    IN  [text |-> Joined(FirstChoice)[n],
         input |-> IF Opens(n) = {} THEN None ELSE PromptTokens,
         output |-> IF Counts(n) = {} THEN None ELSE Max(Counts(n))]

\* parse_response() of a body that parses: OpenAI reports the total.
OpenAIResponse(a) ==
    [text |-> a.text, prompt |-> a.input, completion |-> a.output,
     total |-> IF a.output = None THEN None ELSE PromptTokens + a.output]
AnthropicResponse(a) ==
    [text |-> a.text, prompt |-> a.input, completion |-> a.output,
     total |-> Sum(a.input, a.output)]
OllamaResponse(a) ==
    [text |-> a.text, prompt |-> a.input, completion |-> a.output,
     total |-> Sum(a.input, a.output)]
ParseResponse(a) ==
    CASE OpenAILike -> OpenAIResponse(a)
      [] Handler = "anthropic" -> AnthropicResponse(a)
      [] OTHER -> OllamaResponse(a)

\* An answer that _emit_safe cannot strip: Anthropic's parts are joined, the
\* others' content is taken as it is.
Unstrippable(figures) ==
    /\ Handler # "anthropic" /\ call.shape.content = "parts"
    /\ figures.text # <<>>

\* Not streaming: the body is read to its end before the host has it.  If it is not
\* the JSON of an answer, or breaks off (of a response that the host asked to hold:
\* otherwise the send itself has failed), the call is a success without figures.
Buffered ==
    /\ pc = "request" /\ Captured /\ ~Streaming(call.request)
    /\ LET figures == IF call.cut \/ "odd" \in ToSet(call.body) THEN NoFigures
                      ELSE ParseResponse(Answer)
       IN  IF Unstrippable(figures) THEN Swallow ELSE Emit("success", figures, None, 0)
    /\ UNCHANGED unread

\* A synchronous stream is logged by its headers.
HeadersOnly ==
    /\ pc = "request" /\ Captured /\ Streaming(call.request) /\ call.sync
    /\ Emit("success", NoFigures, None, 0)
    /\ UNCHANGED unread

Attach ==
    /\ pc = "request" /\ Captured /\ Streaming(call.request) /\ ~call.sync
    /\ pc' = "stream"
    /\ UNCHANGED <<call, unread, event, row, fate>>

\* Mutation: the time to first token is taken at the first chunk.
FirstChunk(s) == TRUE

\* state.feed: text where there was none before, and no exception.
FirstToken(s) == parser.text = <<>> /\ s.parser.text # <<>> /\ ~s.raised

\* Mutation: what follows the last newline is forgotten.
NoRest(s) == <<>>

Rest(s) == SubSeq(s.bytes, s.from, Len(s.bytes))

Chunk ==
    /\ pc = "stream"
    /\ \E n \in (arrived + 1)..Size :
          LET s == Feed([b \in 1..(n - arrived) |-> arrived + b])
          IN  /\ arrived' = n
              /\ parser' = s.parser
              /\ buffer' = Rest(s)
              /\ ttft' = IF ttft = None /\ FirstToken(s) THEN n ELSE ttft
              /\ firstText' = IF firstText = None /\ Texts(n \div 3) # {} THEN n ELSE firstText
    /\ UNCHANGED <<call, pc, event, row, fate>>

Exhausted == arrived = Size /\ EmitStream("success", 0)

\* The host stops reading, or is cancelled.
LeftStatus(p) == IF p.completed THEN "success" ELSE "cancelled"
Leave == EmitStream(LeftStatus(parser), 0)

Breaks == EmitStream("error", call.shape.error)

\* Nothing is emitted for an async call that is cancelled before its response
\* is there, nor for a stream that the host never asks aiter_bytes() for.
Unseen ==
    /\ ~call.sync
    /\ \/ pc = "request" /\ Captured
       \/ pc = "stream" /\ arrived = 0
    /\ pc' = "over" /\ fate' = "unseen"
    /\ UNCHANGED <<call, unread, event, row>>

\* enrich.total_tokens and enrich.estimate_cost.
TotalTokens(f) == IF f.total # None THEN f.total ELSE Sum(f.prompt, f.completion)
HasCost(f) == call.shape.priced /\ f.prompt # None /\ f.completion # None

\* The texts are stored as they came: the service's own redaction is off by default.
ProcessEvent(p) ==
    [text |-> p.figures.text, prompt |-> p.figures.prompt,
     completion |-> p.figures.completion, total |-> TotalTokens(p.figures),
     cost |-> HasCost(p.figures), status |-> p.status, ttft |-> p.ttft,
     metadata |-> Len(p.metadata) + Len(p.tags)]

\* The event's payload reaches the API, and the worker if it is valid.
Ingest ==
    /\ pc = "event"
    /\ pc' = "over"
    /\ LET p == Payload(event)
       IN  IF IngestEvent(p) THEN fate' = "stored" /\ row' = ProcessEvent(p)
           ELSE fate' = "refused" /\ UNCHANGED row
    /\ UNCHANGED <<call, unread, event>>

Next ==
    \/ PassThrough \/ Fails \/ Buffered \/ HeadersOnly \/ Attach
    \/ Chunk \/ Exhausted \/ Leave \/ Breaks \/ Unseen
    \/ Ingest

Spec == Init /\ [][Next]_vars

-----------------------------------------------------------------------------
(* Properties.                                                              *)

\* The lines that arrived without one that raises before them.
Lines == arrived \div 3
Clean == LinesOf({"odd"}, Lines) = {}

\* What the parser holds depends on the lines it has consumed and not on the
\* chunks they came in; a line that raises costs itself and a delay, and
\* without one nothing but an unfinished line is held back
\* (feed() of the three parsers, _AsyncStreamState.feed).
ChunksDoNotMatter ==
    LET bytes == arrived - Len(buffer)
        n == bytes \div 3
    IN  pc = "stream" =>
            /\ buffer = [b \in 1..Len(buffer) |-> bytes + b]
            /\ bytes = 3 * n
            /\ Clean => n = Lines
            /\ parser.text = TextLines(n)
            /\ parser.completion = IF Counts(n) = {} THEN None ELSE Max(Counts(n))
            /\ parser.completed <=> LinesOf({"done"}, n) # {}

\* How the gateway's own providers read the same lines, for the messages table
\* (gateway/app/llm.py).
GatewayOpenAI(g, i) ==
    CASE call.body[i] \in {"text", "blank", "other", "both"} -> [g EXCEPT !.text = @ \o <<i>>]
      [] call.body[i] = "usage" -> Counted(g, i)
      [] OTHER -> g
GatewayAnthropic(g, i) ==
    CASE call.body[i] = "start" -> [g EXCEPT !.input = PromptTokens]
      [] call.body[i] \in {"text", "blank"} -> [g EXCEPT !.text = @ \o <<i>>]
      [] call.body[i] = "usage" ->
            [g EXCEPT !.prompt = g.input, !.completion = i, !.total = g.input + i]
      [] OTHER -> g
GatewayLine(g, i) == IF OpenAILike THEN GatewayOpenAI(g, i) ELSE GatewayAnthropic(g, i)
GatewayLoop ==
    LET read[i \in 0..Len(call.body)] ==
            IF i = 0
            THEN [text |-> <<>>, prompt |-> None, completion |-> None, total |-> None,
                  input |-> 0]
            ELSE GatewayLine(read[i - 1], i)
    IN  read
GatewayReads == GatewayLoop[Len(call.body)]

Tokens(r) == [prompt |-> r.prompt, completion |-> r.completion, total |-> r.total]

\* A body that is all there, and as the provider's protocol says: its end marker is
\* its last line, and Anthropic counts, the prompt first.
Whole == LET n == Len(call.body)
         IN  /\ ~call.cut /\ LinesOf({"odd"}, n) = {}
             /\ n > 0 /\ LinesOf({"done"}, n) = {n}
             /\ Handler = "anthropic" => call.body[1] = "start" /\ Counts(n) # {}
OneChoice == OpenAILike => LinesOf({"other", "both"}, Len(call.body)) = {}

\* A stored row of a successful call has the same token counts whether the answer
\* was streamed or not and however it was cut, the same as the gateway stores of
\* it, and a cost if the provider counted and the model has a price.  Its text is
\* the preview, stripped, cut and redacted, of what the unstreamed answer says and
\* the gateway stores in full; not so of several choices, which a streamed call
\* logs all mixed.
SameFigures ==
    row # None /\ row.status = "success" /\ Whole
      /\ ~(call.sync /\ Streaming(call.request)) =>
        /\ Tokens(row) = Tokens(ParseResponse(Answer))
        /\ Handler \in {"openai", "anthropic"} => Tokens(row) = Tokens(GatewayReads)
        /\ row.cost <=> call.shape.priced /\ Answer.input # None /\ Answer.output # None
        /\ OneChoice =>
              /\ row.text = Preview(Answer.text)
              /\ Handler \in {"openai", "anthropic"} => row.text = Preview(GatewayReads.text)

\* The time to first token is that of the chunk which completed the first line
\* of text (later only if a line raised), and a stream that the host left is
\* a success exactly if its end marker had come.
HonestStream ==
    /\ ttft # None => firstText # None /\ ttft >= firstText
    /\ pc = "stream" /\ Clean => ttft = firstText
    /\ event # None /\ arrived > 0 /\ Clean =>
        /\ event.status = "cancelled" => LinesOf({"done"}, Lines) = {}
        /\ event.status = "success" => arrived = Size \/ LinesOf({"done"}, Lines) # {}

\* What only the service bounds: names are not cut by the SDK, a conversation_id may
\* be any text, the provider's counts are passed on, and a redactor of the host's
\* has the last word on the length of a preview.
Unfit(e) ==
    LET shape == call.shape
    IN  \/ shape.model > IngestNameChars \/ shape.service > IngestNameChars
        \/ shape.conversation = "text"
        \/ shape.counts = "unfit" /\ CountsOf(e.figures) # {}
        \/ shape.redactor = "lengthens" /\ (shape.input > 0 \/ e.figures.text # None)

\* Where _emit_safe's except can be reached.
MayRaise ==
    \/ call.sampler = "raises" \/ call.shape.redactor = "raises"
    \/ call.shape.content = "parts" /\ Handler # "anthropic" /\ ~Streaming(call.request)

\* Whatever its texts and tags, a call to a provider gets its row, and otherwise it
\* is one of these: its request could not be parsed; nobody saw it; a sampler or
\* redactor of the host's raised or the answer was not a string, and the event was
\* swallowed; the sampler shed it, which AlwaysKeepErrors does to no error and no
\* cancellation; or a field that only the service bounds is unfit, and then the
\* service does refuse it.
LoggedUnless ==
    pc = "over" /\ Handler # None =>
        \/ fate = "stored" /\ ~Unfit(event)
        \/ fate = "refused" /\ Unfit(event)
        \/ fate = "passed" /\ ~call.request.parses
        \/ fate = "unseen"
        \/ fate = "swallowed" /\ MayRaise
        \/ fate = "sampled" /\ ~(call.sampler = "errors" /\ event.status # "success")
=============================================================================
