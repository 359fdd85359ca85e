------------------------------- MODULE Admin -------------------------------
(***************************************************************************)
(* One topic view, cluster or security request, and what others do         *)
(* meanwhile to what that request is about.                                *)
(***************************************************************************)
EXTENDS TopicViews, SecurityAdmin

vars == <<reqVars, done, moves, past, clusterVars, securityVars>>

ASSUME AdminAssumption == \A a \in Asks : a.id \in TopicIds \cup ClusterIds \cup SecurityIds

AskTopics == ask.id \in TopicIds

AskCluster == ask.id \in ClusterIds

AskSecurity == ~ AskTopics /\ ~ AskCluster

Now == [topics |-> topics, configs |-> configs, users |-> users, quotas |-> quotas]

Init ==
    /\ Start(Unseen) /\ ClusterInit /\ SecurityInit
    /\ past = <<Now>>

Request ==
    \/ (Confirm \/ Attempt \/ CallFails) /\ UNCHANGED <<clusterVars, securityVars>>
    \/ AskCluster /\ ClusterStep /\ UNCHANGED securityVars
    \/ AskTopics /\ TopicStep /\ UNCHANGED securityVars
    \/ AskSecurity /\ SecurityStep /\ UNCHANGED clusterVars

Next ==
    /\ \/ Request /\ UNCHANGED moves
       \/ ~ AskSecurity /\ ClusterOthers /\ UNCHANGED securityVars
       \/ AskSecurity /\ SecurityOthers /\ UNCHANGED clusterVars
    /\ past' = IF Now' = Now THEN past ELSE Append(past, Now')

Spec == Init /\ [][Next]_vars
=============================================================================
