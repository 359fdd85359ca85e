----------------------------- MODULE MCMessages -----------------------------
(* One read or write of a topic of two partitions, one with a hole, that   *)
(* grows and loses records meanwhile.                                      *)
EXTENDS Writes, TLC

MCPartitions == {0, 1}

MCMaxOffset == 3

MCLogs == {(0 :> [live |-> {0, 1}, hw |-> 2]) @@ (1 :> [live |-> {1}, hw |-> 2])}

(* Words: JSON numbers, text, bytes that are no text, and their base64. *)
MCRaw == {"", "five", "list", "text", "\\xff"}

MCBase64 == [w \in MCRaw |-> "b64:" \o w]

MCWords == MCRaw \cup {MCBase64[w] : w \in MCRaw}

MCUTF8 == MCWords \ {"\\xff"}

Number(n) == [t |-> "number", v |-> n]
Text1(w) == [t |-> "string", v |-> w, parts |-> {"", w}]
List1 == [t |-> "array", elements |-> {Number(5), Text1("text")}]

MCParsed == ("five" :> Number(5)) @@ ("list" :> List1)

MCFound == ("t" :> {"text", "b64:text"}) @@ (".*" :> MCUTF8 \ {"list"})

MCSlow == [p \in {"t", ".*"} |-> IF p = ".*" THEN {"list"} ELSE {}]

(* "$" selects the value itself, "$[*]" the elements of a list. *)
MCSelected ==
    [path \in {"$", "$[*]"} |->
        [n \in {Number(5), List1} |->
            IF path = "$" THEN {n} ELSE IF n.t = "array" THEN n.elements ELSE {}]]

R(k, v) == [key |-> k, value |-> v, headers |-> <<"text">>]

MCPayload ==
    [r \in MCPartitions \X (0..2) |->
        IF r = <<0, 0>> THEN R("text", "five")
        ELSE IF r = <<1, 1>> THEN R("", "list")
        ELSE IF r = <<0, 1>> THEN R("five", "\\xff") ELSE R("text", "text")]

All(format) == [type |-> "all", format |-> format]
Regex(pattern, fields) == [type |-> "regex", format |-> "", pattern |-> pattern, fields |-> fields]
Filter(path, op, value, format) ==
    [type |-> "filter", format |-> format, path |-> path, op |-> op, value |-> value]

MCMatchers ==
    {All(""), All("base64"), Regex("t", <<"key", "value">>), Regex(".*", <<>>), Regex("(", <<>>),
     Filter("$", "gte", Number(5), ""), Filter("$[*]", "contains", Text1("text"), ""),
     Filter("$", "contains", Number(5), ""), Filter("$", "regex", Number(5), ""),
     Filter("$", "exists", Number(5), "base64")}

MCKind ==
    [m \in MCMatchers |-> [r \in MCPartitions \X (0..2) |->
        IF Compiles(m) THEN Verdict(m, MCPayload[r]) ELSE "miss"]]

MCTime == [r \in MCPartitions \X (0..2) |-> IF r[1] = 1 THEN 2 ELSE r[2] + 1]

MCSize == [r \in MCPartitions \X (0..2) |-> 1]

MCDefault == [n \in BoundNames |-> IF n = "maxBytes" THEN 9 ELSE 2]

MCCeiling == [n \in BoundNames |-> IF n = "maxBytes" THEN 9 ELSE 3]

MCBounds ==
    {[latest |-> FALSE, maxMessages |-> 0, maxScanned |-> 0, maxBytes |-> 0, timed |-> FALSE,
      matcher |-> All("")]}

Open == [readOnly |-> FALSE, dataPlaneLock |-> FALSE, disabled |-> {}]

MCPolicies == {Open, [Open EXCEPT !.dataPlaneLock = TRUE]}

Op == [tier |-> "operator", breakGlass |-> FALSE]
Glass == [tier |-> "operator", breakGlass |-> TRUE]
Peek == [tier |-> "reader", breakGlass |-> TRUE]

At(kind, n) == [kind |-> kind, at |-> n]

Zero == [n \in BoundNames |-> 0]

Ask1(id, caller, partition, from, to, asked, matcher) ==
    [id |-> id, caller |-> caller, form |-> "ok", partition |-> partition, from |-> from, to |-> to,
     at |-> 0, asked |-> asked, matcher |-> matcher, preserve |-> FALSE]

Beginning == At("beginning", 0)

Plain(id) == Ask1(id, Op, -1, Beginning, Absent, Zero, All(""))

MCAsks ==
    {Ask1("M1", Glass, -1, Beginning, Absent, Zero, All("")),
     Ask1("M1", Op, -1, At("latest", 0), Absent, [Zero EXCEPT !["limit"] = 1], All("")),
     Ask1("M1", Op, 0, At("offset", 1), At("offset", 2), [Zero EXCEPT !["limit"] = -1], All("base64")),
     Ask1("M1", Op, 9, At("offset", 1), At("latest", 0), Zero, All("")),
     Ask1("M3", Op, -1, At("timestamp", 2), At("timestamp", 3), [Zero EXCEPT !["maxScan"] = 3],
          Regex("t", <<"key", "value">>)),
     Ask1("M3", Peek, 1, At("timestamp", 2), Absent, Zero, Regex(".*", <<>>)),
     Ask1("M4", Op, 0, Beginning, At("timestamp", 2), Zero, Filter("$", "gte", Number(5), "")),
     Ask1("M4", Op, 1, Beginning, At("offset", 9), Zero, Filter("$[*]", "contains", Text1("text"), "")),
     Ask1("M4", Op, 1, Beginning, Absent, Zero, Filter("$", "contains", Number(5), "")),
     Ask1("M3", Op, -1, Beginning, Absent, Zero, Regex("(", <<>>)),
     Ask1("M4", Op, -1, Beginning, Absent, Zero, Filter("$", "regex", Number(5), "")),
     Ask1("M4", Op, 0, Beginning, Absent, Zero, Filter("$", "exists", Number(5), "base64")),
     [Plain("M3") EXCEPT !.form = "limit"], [Plain("M4") EXCEPT !.form = "vocabulary"],
     [Plain("M1") EXCEPT !.to = At("unreadable", 0)],
     [Plain("M1") EXCEPT !.asked["maxTimeMs"] = 9],
     Ask1("M8", Op, -1, At("offset", 2), At("offset", 1), Zero, All("")),
     [Plain("M8") EXCEPT !.preserve = TRUE],
     Ask1("T4", Op, -1, At("timestamp", 2), At("timestamp", 3), Zero, All("")),
     Ask1("T4", Op, -1, At("timestamp", 3), At("timestamp", 1), Zero, All("")),
     Ask1("T4", Op, -1, At("timestamp", 1), At("unreadable", 0), Zero, All(""))}
    \cup {[Ask1("M2", c, 0, Beginning, Absent, Zero, All("")) EXCEPT !.at = o] :
             c \in {Op, Glass}, o \in {1, 2, 3}}
    \cup {[Ask1("M2", Op, 9, Beginning, Absent, Zero, All("")) EXCEPT !.at = 1]}

(* A record nobody has yet, and a scan that no bound stops. *)
MCUnbounded ==
    {[Ask1("M2", Op, 0, Beginning, Absent, Zero, All("")) EXCEPT !.at = 2],
     Ask1("M1", Op, 1, Beginning, Absent,
          [Zero EXCEPT !["limit"] = -1, !["maxBytes"] = -1, !["maxTimeMs"] = -1], All(""))}

Text(w) == Wire(w, "string")

I(key, value, partition) == [key |-> key, value |-> value, headers |-> <<>>, partition |-> partition]

MCItems ==
    {<<I(Text("text"), Wire("five", "json"), -1), I(Wire("", ""), Wire("b64:\\xff", "base64"), 0)>>,
     <<I(Text("text"), Wire("text", "base64"), -1)>>,
     <<I(Text("five"), Text("list"), 1), I(Text("five"), Text("list"), 1)>>}

Sub(id, caller, shape, typed, media, size, list) ==
    [id |-> id, caller |-> caller, shape |-> shape, typed |-> typed, media |-> media, size |-> size,
     items |-> list]

Tombstone == I(Text("text"), EmptyItem.value, 1)

MCSubmissions ==
    {Sub("M5", Op, "list", TRUE, "json", 1, s) : s \in MCItems}
    \cup {Sub("M6", c, "list", TRUE, m, z, s) :
             c \in {Glass, Peek}, m \in {"ndjson", "other"}, z \in {1, 9}, s \in MCItems}
    \cup {Sub("M5", Op, "object", FALSE, "json", 1, <<Tombstone>>),
          Sub("M5", Op, "garbage", FALSE, "json", 1, <<>>),
          Sub("M6", Op, "list", FALSE, "json", 1, <<>>),
          Sub("M7", Op, "object", TRUE, "json", 1, <<Tombstone>>)}

(* A list of records, one of which has a field of the wrong type. *)
MCMistyped == {Sub("M5", Op, "list", FALSE, "json", 1, <<>>)}

MCHash == [w \in MCWords |-> IF w = "five" THEN 1 ELSE 0]
=============================================================================
