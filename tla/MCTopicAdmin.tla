---------------------------- MODULE MCTopicAdmin ----------------------------
(* The topic commands against other clients of the cluster.                *)
EXTENDS TopicAdminProofs, TLC

CONSTANTS n1, n2, v1, r1

MCNames == {n1, n2}
MCValues == {v1}
MCRequests == {r1}

MCCall(op, name, confirm) ==
    [op |-> op, name |-> name, items |-> << >>, targets |-> {}, pattern |-> FALSE, count |-> 1,
     value |-> v1, offsets |-> << >>, confirm |-> confirm, dryRun |-> FALSE]

(* T5 to T8: one topic, lists, a pattern both names match, a duplicate. *)
MCNameCalls ==
    {[MCCall("T5", n1, {}) EXCEPT !.dryRun = d] : d \in BOOLEAN}
    \cup {[MCCall("T6", n1, {}) EXCEPT !.items = s] : s \in {<<n1, n2>>, <<n1, n1>>}}
    \cup {MCCall("T7", n1, {n1})}
    \cup {[MCCall("T8", n1, c) EXCEPT !.targets = {n1, n2}, !.pattern = p, !.dryRun = d] :
             c \in {{n1}, {n1, n2}}, p \in BOOLEAN, d \in {FALSE}}
    \cup {[MCCall("T8", n1, {n1, n2}) EXCEPT !.dryRun = TRUE]}

MCTruncations == {0 :> 1, (0 :> 2) @@ (1 :> 1), 0 :> -1, 2 :> 0}

(* One topic: its creation and deletion, growth, truncations (one of them to -1), a purge. *)
MCLogCalls ==
    {MCCall("T5", n1, {}), [MCCall("T6", n1, {}) EXCEPT !.items = <<n1, n1>>], MCCall("T7", n1, {n1}),
     MCCall("T9", n1, {n1}), [MCCall("T10", n1, {n1}) EXCEPT !.count = 2],
     MCCall("T12", n1, {n1}), [MCCall("T12", n1, {n1}) EXCEPT !.dryRun = TRUE]}
    \cup {[MCCall("T11", n1, {n1}) EXCEPT !.offsets = o] : o \in MCTruncations}

MCCalls == MCNameCalls \cup MCLogCalls
=============================================================================
