---------------------------- MODULE MCGroupAdmin ----------------------------
(* Two groups, one member, and two topics, of which one has two partitions. *)
EXTENDS GroupAdmin, TLC

MCIds == <<"g", "h">>

t0 == <<"t", 0>>
t1 == <<"t", 1>>
u0 == <<"u", 0>>

MCTPs == {t0, t1, u0}

MCStamp == [r \in MCTPs \X (0..2) |-> r[2] + 1]

Offsets(a, b, c) == (t0 :> a) @@ (t1 :> b) @@ (u0 :> c)

S(known0, members0, g, h) ==
    [parts |-> MCTPs, begin |-> Offsets(0, 1, 0), end |-> Offsets(1, 2, 1), known |-> known0,
     members |-> members0, committed |-> ("g" :> g) @@ ("h" :> h)]

NoMembers == ("g" :> {}) @@ ("h" :> {})

MCStarts ==
    {S({"g", "h"}, NoMembers, (t0 :> 1) @@ (t1 :> 1), t0 :> 0),
     S({"g"}, ("g" :> {"m"}) @@ ("h" :> {}), (t1 :> 2) @@ (u0 :> 0), <<>>),
     S({"h"}, NoMembers, <<>>, Offsets(1, 1, 1))}

A(id) ==
    [id |-> id, group |-> "g", source |-> "h", topics |-> {}, mode |-> "latest", at |-> 0,
     offsets |-> <<>>, form |-> "ok", names |-> {}, confirm |-> "g", dryRun |-> FALSE,
     state |-> "", page |-> 1, pageSize |-> 0]

MCAsks ==
    {A("G1"), [A("G1") EXCEPT !.page = 2, !.pageSize = 1], [A("G1") EXCEPT !.state = "Empty", !.page = 3],
     [A("G1") EXCEPT !.pageSize = 9], [A("G1") EXCEPT !.pageSize = -1], A("G2"), [A("G3") EXCEPT !.topics = {"t"}],
     A("G4"), [A("G4") EXCEPT !.mode = "earliest", !.topics = {"t", "u"}],
     [A("G4") EXCEPT !.mode = "timestamp", !.at = 2], [A("G4") EXCEPT !.mode = "offset", !.at = 1],
     [A("G4") EXCEPT !.mode = "other"], [A("G4") EXCEPT !.form = "malformed"],
     [A("G4") EXCEPT !.mode = "other", !.offsets = (t0 :> -1) @@ (u0 :> 0)],
     A("G5"), [A("G5") EXCEPT !.confirm = "h"], A("G6"), [A("G6") EXCEPT !.names = {"m"}],
     A("G7"), [A("G7") EXCEPT !.topics = {"t"}], [A("G7") EXCEPT !.dryRun = TRUE],
     [A("G7") EXCEPT !.group = "h", !.source = "g", !.confirm = "h"]}
=============================================================================
