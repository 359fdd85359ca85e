------------------------------ MODULE MCAdmin ------------------------------
(***************************************************************************)
(* Values for the constants of Admin: clusters and credentials, and one    *)
(* request of each kind.                                                   *)
(***************************************************************************)
EXTENDS Admin

MCNames == <<"__c", "t", "u">>

MCDir == [x \in {1, 2} \X {"__c", "t", "u"} |-> "d"]

MCDefault == [k \in {"k", "p"} |-> "0"]

P(replicas, leader, isr, end) ==
    [replicas |-> replicas, adding |-> {}, removing |-> {}, leader |-> leader, isr |-> isr, end |-> end]

T(parts, config) == [internal |-> FALSE, parts |-> parts, config |-> config]

Healthy ==
    [topics |-> ("t" :> T(<<P(<<1, 2>>, 1, {1, 2}, 1)>>, "k" :> "1"))
                @@ ("__c" :> [T(<<P(<<1>>, 1, {1}, 0)>>, <<>>) EXCEPT !.internal = TRUE]),
     configs |-> (1 :> ("k" :> "1")) @@ (2 :> ("p" :> "1"))]

Ailing ==
    [topics |-> ("t" :> T(<<P(<<1, 2>>, 2, {2}, 1),
                            [P(<<2>>, 2, {2}, 0) EXCEPT !.adding = {2}, !.removing = {1}]>>, <<>>))
                @@ ("u" :> T(<<P(<<1>>, -1, {}, 1)>>, "k" :> "2")),
     configs |-> 2 :> <<>>]

MCClusters == {Healthy, Ailing}

alice == {<<"user", "alice">>}
Anyone == {<<"user", "default">>}
Nameless == {<<"user", "">>}

NoUsers == ("alice" :> <<>>) @@ ("bob" :> <<>>)

MCSecrets ==
    {[users |-> NoUsers, quotas |-> Anyone :> ("rate" :> 1)],
     [users |-> ("alice" :> (("sha256" :> 2) @@ ("sha512" :> 1))) @@ ("bob" :> <<>>),
      quotas |-> (Anyone :> ("rate" :> 1)) @@ (alice :> (("mutations" :> 1) @@ ("rate" :> 2)))]}

A(id) ==
    [id |-> id, op |-> "", confirm |-> NoPlan.target, dryRun |-> FALSE, broker |-> 1, topic |-> "", seconds |-> 0,
     pattern |-> "", change |-> [set |-> <<>>, reset |-> {}], moves |-> <<>>, wanted |-> <<>>,
     allowDelete |-> FALSE, user |-> "alice", mechanism |-> "", iterations |-> 0, entity |-> alice,
     set |-> <<>>, remove |-> {}, type |-> "", internal |-> FALSE, page |-> 1, pageSize |-> 0]

Moving1 == <<<<"reassign", <<"t", 1>>, <<2>>>>, <<"reassign", <<"u", 1>>, <<2, 3>>>>>>
Cancelling == <<<<"cancel", <<"t", 2>>, <<>>>>, <<"cancel", <<"u", 1>>, <<>>>>>>
Electing(how) == <<<<how, <<"t", 1>>, <<>>>>, <<how, <<"u", 1>>, <<>>>>>>

Moves(moved) == [A("C9") EXCEPT !.moves = moved, !.confirm = MoveTarget(moved)]

Wants(wanted) ==
    [A("C12") EXCEPT !.wanted = wanted, !.confirm = Token("C12", {<<n, wanted[n]>> : n \in DOMAIN wanted})]

Def(config) == [partitions |-> 1, rf |-> 1, config |-> config]

Change5 == [A("C5") EXCEPT !.change = [set |-> "k" :> "2", reset |-> {"p"}], !.confirm = <<"C5", {1}>>]

ClusterAsks ==
    {A(id) : id \in {"C1", "C2", "C4", "C6", "C7", "C10", "C11"}}
    \cup {[A("C2") EXCEPT !.broker = 2], [A("C8") EXCEPT !.broker = -1], A("C8"),
          [A("C10") EXCEPT !.topic = "t", !.seconds = 2], [A("C10") EXCEPT !.seconds = 9],
          [A("C11") EXCEPT !.pattern = "t"], [A("C11") EXCEPT !.pattern = "("],
          Change5, [Change5 EXCEPT !.dryRun = TRUE], [Change5 EXCEPT !.confirm = <<"C5", {2}>>],
          Moves(Moving1), Moves(Cancelling), Moves(Electing("PREFERRED")), Moves(Electing("UNCLEAN")),
          Wants(("t" :> Def("k" :> "2")) @@ ("u" :> Def("k" :> "1"))),
          [Wants("u" :> Def("k" :> "2")) EXCEPT !.allowDelete = TRUE], Wants("u" :> Def(<<>>)),
          Wants("t" :> Def(("k" :> "2") @@ ("p" :> "")))}

Alter(entity) ==
    [A("S2") EXCEPT !.op = "alter", !.entity = entity, !.set = "rate" :> 2, !.remove = {"mutations"},
                    !.confirm = QuotaTarget(entity)]

Delete(mechanism) == [A("S1") EXCEPT !.op = "delete", !.mechanism = mechanism, !.confirm = <<"S1", {"alice"}>>]

SecurityAsks ==
    {[A(id) EXCEPT !.op = "list"] : id \in {"S1", "S2"}}
    \cup {[A("S2") EXCEPT !.op = "list", !.type = "ip"],
          [A("S1") EXCEPT !.op = "create", !.mechanism = "sha256"],
          [A("S1") EXCEPT !.op = "create", !.mechanism = "sha512", !.iterations = 5],
          Delete(""), Delete("sha256"), [Delete("") EXCEPT !.dryRun = TRUE], [Delete("") EXCEPT !.user = "bob"],
          [Delete("") EXCEPT !.confirm = <<"S1", {"bob"}>>],
          Alter(alice), Alter({}), Alter(Nameless), [Alter(alice) EXCEPT !.confirm = QuotaTarget(Nameless)]}

Paged(page, size) == [A("T1") EXCEPT !.internal = TRUE, !.page = page, !.pageSize = size]

(* Pages 2 and 3 of one topic each, one too large, one of negative size,   *)
(* and one whose first place is more than an int can hold.                 *)
TopicAsks ==
    {Paged(2, 1), Paged(3, 1), Paged(1, 5), Paged(1, -1), Paged(2, -1), Paged(5, 4), A("T1"),
     [A("T1") EXCEPT !.pattern = "("], [A("T1") EXCEPT !.pattern = "u"]}
    \cup {[A(id) EXCEPT !.topic = n] : id \in {"T2", "T3"}, n \in {"t", "u"}}

MCAsks == ClusterAsks \cup SecurityAsks \cup TopicAsks
=============================================================================
