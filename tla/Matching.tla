------------------------------ MODULE Matching ------------------------------
(***************************************************************************)
(* What a scan does with the bytes of one record: decoding to wire text    *)
(* (scan/decode.go), encoding back (scan/encode.go), and the two matchers  *)
(* (scan/regex.go, scan/jsonpath.go).  A Go string is its bytes, so wire   *)
(* texts and raw bytes are the same words; what the Go libraries say of a  *)
(* word, a pattern or a path is a constant.                                *)
(***************************************************************************)
EXTENDS Integers, Sequences, FiniteSets, Functions

CONSTANTS
    Words,      \* byte strings, wire texts among them
    Empty,      \* the empty one
    UTF8,       \* utf8.Valid
    Parsed,     \* the JSON node each word that is valid JSON stands for
    Base64,     \* the base64 text of each word that a record may hold
    Found,      \* the words each regular expression matches
    Slow,       \* the words each needs longer than regexTimeout for
    Selected    \* the nodes each JSONPath selects from each node

(* A decoded JSON value: its Go type, and its content (or elements). *)
IsNode(n) == n.t \in {"null", "bool", "number", "string", "array", "object"}

IsJSON(b) == b \in DOMAIN Parsed

Raw == DOMAIN Base64

ASSUME MatchingAssumption ==
    /\ Empty \in (UTF8 \cap Raw) \ DOMAIN Parsed
    /\ DOMAIN Parsed \subseteq UTF8 /\ UTF8 \subseteq Words
    /\ \A b \in DOMAIN Parsed : IsNode(Parsed[b])
    /\ Raw \subseteq Words /\ IsInjective(Base64) /\ Range(Base64) \subseteq UTF8
    /\ Words \ UTF8 \subseteq Raw

(* A record's bytes, as the client library holds them. *)
Record == [key : Raw, value : Raw, headers : Seq(Raw)]

-----------------------------------------------------------------------------
Wire(text, encoding) == [text |-> text, encoding |-> encoding]

AutoDecode(b) ==
    IF IsJSON(b) THEN Wire(b, "json")
    ELSE IF b \in UTF8 THEN Wire(b, "string")
    ELSE Wire(Base64[b], "base64")

(* A format is obeyed where the bytes allow it; any other falls back to    *)
(* the auto-detection, an unknown one included.                            *)
DecodeBytes(b, format) ==
    IF format = "base64" THEN Wire(Base64[b], "base64")
    ELSE IF format = "json" /\ IsJSON(b) THEN Wire(b, "json")
    ELSE IF format = "string" /\ b \in UTF8 THEN Wire(b, "string")
    ELSE AutoDecode(b)

(* Headers are never taken for JSON. *)
DecodeHeader(b) == IF b \in UTF8 THEN Wire(b, "string") ELSE Wire(Base64[b], "base64")

Decode(r, format) ==
    [key |-> DecodeBytes(r.key, format),
     value |-> DecodeBytes(r.value, format),
     headers |-> [i \in DOMAIN r.headers |-> DecodeHeader(r.headers[i])]]

(* EncodeValue, where it does not report an error. *)
Encodable(w) ==
    \/ w.encoding \in {"", "string", "json"}
    \/ w.encoding = "base64" /\ w.text \in Range(Base64)

Encode(w) ==
    IF w.encoding = "base64" THEN CHOOSE b \in Raw : Base64[b] = w.text ELSE w.text

-----------------------------------------------------------------------------
(* The texts a field selects from a decoded record. *)
FieldTexts(r, field) ==
    CASE field = "value" -> <<r.value.text>>
      [] field = "key" -> <<r.key.text>>
      [] field = "headers" -> [i \in DOMAIN r.headers |-> r.headers[i].text]

(* The fields in the order asked for, the value by default. *)
RegexTexts(r, fields) ==
    LET asked == IF fields = <<>> THEN <<"value">> ELSE fields
        from[n \in 0..Len(asked)] ==
            IF n = 0 THEN <<>> ELSE from[n - 1] \o FieldTexts(r, asked[n])
    IN  from[Len(asked)]

(* The first text that is found, or whose search times out, decides. *)
RegexSays(r, pattern, fields) ==
    LET texts == RegexTexts(r, fields)
        decisive == {i \in DOMAIN texts : texts[i] \in Found[pattern] \cup Slow[pattern]}
    IN  IF decisive = {} THEN "miss"
        ELSE LET first == CHOOSE i \in decisive : \A j \in decisive : i <= j
             IN  IF texts[first] \in Slow[pattern] THEN "skip" ELSE "match"

-----------------------------------------------------------------------------
Ops == {"eq", "neq", "contains", "regex", "exists", "gt", "lt", "gte", "lte"}

(* jsonEqual: arrays and objects are equal to nothing, themselves included. *)
JsonEqual(a, b) == a.t = b.t /\ a.t \notin {"array", "object"} /\ a.v = b.v

(* jsonContains: a substring, or an element.  A string node lists the      *)
(* words it contains.                                                      *)
JsonContains(n, v) ==
    \/ n.t = "string" /\ v.t = "string" /\ v.v \in n.parts
    \/ n.t = "array" /\ \E e \in n.elements : JsonEqual(e, v)

BothNumbers(a, b) == a.t = "number" /\ b.t = "number"

EvalOp(op, n, v) ==
    CASE op = "eq" -> JsonEqual(n, v)
      [] op = "neq" -> ~ JsonEqual(n, v)
      [] op = "contains" -> JsonContains(n, v)
      [] op = "regex" -> n.t = "string" /\ n.v \in Found[v.v]
      [] op = "gt" -> BothNumbers(n, v) /\ n.v > v.v
      [] op = "lt" -> BothNumbers(n, v) /\ n.v < v.v
      [] op = "gte" -> BothNumbers(n, v) /\ n.v >= v.v
      [] op = "lte" -> BothNumbers(n, v) /\ n.v <= v.v

(* The value's text, as decoded, is parsed: what is not JSON is skipped,   *)
(* and so is everything once the format asks for base64.                   *)
FilterSays(r, path, op, v) ==
    IF ~ IsJSON(r.value.text) THEN "skip"
    ELSE LET nodes == Selected[path][Parsed[r.value.text]]
         IN  IF IF op = "exists" THEN nodes # {} ELSE \E n \in nodes : EvalOp(op, n, v)
             THEN "match" ELSE "miss"

-----------------------------------------------------------------------------
(* The constructors' errors: an invalid pattern or path, and a regex value *)
(* that is not a string or no pattern.                                     *)
Compiles(m) ==
    CASE m.type = "all" -> TRUE
      [] m.type = "regex" -> m.pattern \in DOMAIN Found
      [] m.type = "filter" ->
            /\ m.path \in DOMAIN Selected
            /\ m.op = "regex" => m.value.t = "string" /\ m.value.v \in DOMAIN Found

Verdict(m, raw) ==
    LET r == Decode(raw, m.format)
    IN  CASE m.type = "all" -> "match"
          [] m.type = "regex" -> RegexSays(r, m.pattern, m.fields)
          [] m.type = "filter" -> FilterSays(r, m.path, m.op, m.value)
=============================================================================
