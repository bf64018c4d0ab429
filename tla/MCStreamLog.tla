------------------------------ MODULE MCStreamLog ------------------------------
(* The calls: every body of a few lines with an ordinary event, and every    *)
(* event of extreme size for a body of one.                                  *)
EXTENDS StreamLog

CONSTANT MaxLines   \* lines before the provider's closing ones

Asking(host, path, stream) ==
    [post |-> TRUE, host |-> host, path |-> path, stream |-> stream, parses |-> TRUE]

Plain == [service |-> 12, model |-> 11, conversation |-> "uuid", priced |-> TRUE,
          input |-> 40, output |-> 40, error |-> 30, redactor |-> "leaves",
          counts |-> "fit", content |-> "string", tags |-> <<>>]

Middles ==
    UNION {[1..n -> {"text", "noise", "odd"}] : n \in 0..MaxLines}
    \cup UNION {[1..n -> {"text", "blank", "other", "both"}] : n \in 0..(MaxLines - 1)}
    \cup {<<"text", "blank", "text">>, <<"blank", "text", "blank">>}

\* What a provider sends first and last; the stream may break off anywhere, and
\* OpenAI counts only if asked to.
Opening(h) == IF h = "anthropic" THEN <<"start">> ELSE <<>>
Closings(h) ==
    CASE h = "ollama" -> {<<>>, <<"done">>}
      [] h = "anthropic" -> {<<>>, <<"usage">>, <<"usage", "done">>}
      [] OTHER -> {<<>>, <<"usage">>, <<"done">>, <<"usage", "done">>}
Bodies(h) == {Opening(h) \o mid \o end : mid \in Middles, end \in Closings(h)}

Requests ==
    {Asking(e[1], e[2], s) :
        e \in {<<"openai", "/chat/completions">>, <<"anthropic", "/v1/messages">>,
               <<"other", "/api/chat">>, <<"other", "/chat/completions">>,
               <<"anthropic", "/chat/completions">>},
        s \in {"absent", "true"}}
    \cup {[Asking("openai", "/chat/completions", "true") EXCEPT !.post = FALSE],
          [Asking("openai", "/chat/completions", "true") EXCEPT !.parses = FALSE]}

Streams ==
    UNION {{[request |-> r, body |-> b, cut |-> c, sync |-> FALSE,
             sampler |-> "keep_all", shape |-> Plain] :
               b \in Bodies(Identify(r)), c \in BOOLEAN} : r \in Requests}

Item(k, n, w) == [key |-> k, chars |-> n, wide |-> w]
ManyItems(n, k, c, w) == [i \in 1..n |-> Item(k, c, w)]

Shapes ==
    [service : {12, 129}, model : {128, 129},
     conversation : {"none", "uuid", "text"}, priced : {FALSE},
     input : {9000}, output : {9000}, error : {9000}, redactor : {"leaves", "addresses"},
     counts : {"fit"}, content : {"string"},
     tags : {<<>>, ManyItems(40, 10, 300, TRUE), ManyItems(32, 10, 112, FALSE),
             <<Item(9000, 1, FALSE)>>, <<Item(10, 300, TRUE), Item(9000, 1, FALSE)>>}]

\* What the host and the provider may do to an event of ordinary size.
Odd ==
    [service : {12}, model : {11}, conversation : {"uuid"}, priced : {TRUE},
     input : {0, 40}, output : {40}, error : {0, 30},
     redactor : {"leaves", "lengthens", "raises"},
     counts : {"fit", "unfit"}, content : {"string", "parts"}, tags : {<<>>}]

Events(provider, bodies, samplers, shapes) ==
    {[request |-> Asking(provider[1], provider[2], s), body |-> b, cut |-> FALSE,
      sync |-> y, sampler |-> p, shape |-> m] :
        s \in {"false", "true"}, b \in bodies, y \in BOOLEAN, p \in samplers, m \in shapes}

MCCalls ==
    Streams
    \cup Events(<<"openai", "/chat/completions">>, {<<"text", "done">>},
                {"keep_all", "errors", "some"}, Shapes)
    \cup UNION {Events(provider, {<<"start", "text", "usage", "done">>, <<"done">>},
                       {"keep_all", "raises"}, Odd) :
                   provider \in {<<"openai", "/chat/completions">>,
                                 <<"anthropic", "/v1/messages">>, <<"other", "/api/chat">>}}
=============================================================================
