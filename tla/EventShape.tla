------------------------------ MODULE EventShape ------------------------------
(***************************************************************************)
(* The size of an inference event at the places that bound it: the SDK's   *)
(* to_payload() (sdk/inferlog/events.py) and the ingestion service's       *)
(* IngestEvent (ingestion/app/events.py).  A text is its length, a tag or  *)
(* metadata dict the sequence of its items, in the order of insertion.     *)
(*                                                                         *)
(* An item is [key |-> length, chars |-> length of the value as a string,  *)
(* wide |-> whether it is written with characters that JSON escapes].      *)
(***************************************************************************)
EXTENDS Naturals, SequencesExt, FiniteSetsExt

PreviewChars == 280     \* sdk: _PREVIEW_CHARS
ErrorChars == 500       \* sdk: str(exc)[:500]
MaxErrorChars == 2000   \* sdk and ingestion
MaxTagKeys == 32
MaxValueChars == 256
MaxDictBytes == 4096
IngestPreviewChars == 4000
IngestNameChars == 128
IngestDictBytes == 8192

\* s[:limit], and _cap_str, whose last character becomes an ellipsis.
Cut(n, limit) == Min({n, limit})

\* Redactor.redact, by what it does to the texts of the event: it leaves them as
\* they are; it replaces addresses, of which a text grows the most, from the six
\* characters and a separator of an e-mail address to the sixteen of
\* [REDACTED_EMAIL]; or the host's own redactor or patterns lengthen them.
Redact(n, redactor) ==
    CASE redactor = "addresses" -> n + 10 * (n \div 7)
      [] redactor = "lengthens" /\ n > 0 -> IngestPreviewChars + 1
      [] OTHER -> n

\* The bytes of a value in JSON: \uXXXX for each wide character, and for the
\* ellipsis of a value that was cut.
Width(v) == IF v.wide THEN 6 ELSE 1
CapValue(v) == IF v.chars <= MaxValueChars THEN v.chars * Width(v)
               ELSE (MaxValueChars - 1) * Width(v) + 6

\* len(json.dumps(d)): braces, "key": "value", and ", " between the items.
JsonLen(d) ==
    IF d = <<>> THEN 2
    ELSE FoldLeft(LAMBDA sum, v : sum + v.key + v.bytes + 6, 2, d) + 2 * (Len(d) - 1)

\* items[:_MAX_TAG_KEYS], each value capped.
CapKeys(d) ==
    [i \in 1..Cut(Len(d), MaxTagKeys) |-> [key |-> d[i].key, bytes |-> CapValue(d[i])]]

\* popitem() takes the last item, until the dict fits or is empty.
CapDict(d) ==
    LET capped == CapKeys(d)
        fitting == {n \in 1..Len(capped) : JsonLen(SubSeq(capped, 1, n)) \in 0..MaxDictBytes}
    IN  SubSeq(capped, 1, Max(fitting \cup {0}))

Payload(e) ==
    [e EXCEPT !.error = Cut(@, MaxErrorChars),
              !.tags = CapDict(@), !.metadata = CapDict(@)]

\* Validation of one event by IngestEvent; conversation is "none", "uuid", or
\* "text" for any other string, and counts is "unfit" if one of the event's token
\* counts is negative or not an integer.  The other bounds cannot be missed:
\* latency_ms and ttft_ms are read from a monotonic clock, and provider, status and
\* error_type are among the few that the SDK has.
IngestEvent(p) ==
    /\ p.service <= IngestNameChars /\ p.model <= IngestNameChars
    /\ p.conversation \in {"none", "uuid"}
    /\ p.counts = "fit"
    /\ p.input <= IngestPreviewChars /\ p.output <= IngestPreviewChars
    /\ p.error <= MaxErrorChars
    /\ JsonLen(p.tags) <= IngestDictBytes
    /\ JsonLen(p.metadata) <= IngestDictBytes
=============================================================================
