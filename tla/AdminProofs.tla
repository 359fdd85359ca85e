---------------------------- MODULE AdminProofs ----------------------------
(***************************************************************************)
(* The security commands S1 and S2, the changes of the cluster, C5, C9 and *)
(* C12, and the views T1, T2, C4, C10 and C11, for every number of users,  *)
(* entities, topics, partitions and moves of others: what is answered was  *)
(* done, and nothing else, and what is shown was there.                    *)
(***************************************************************************)
EXTENDS Admin, SequenceTheorems, FiniteSetTheorems, WellFoundedInduction, TLAPS

(* The history ends with the present. *)
PastIsKept == past \in Seq(Range(past)) /\ past # <<>> /\ past[Len(past)] = Now

(* A request is answered once, and then it is over; it changes something   *)
(* at its last call but one, but for an import, which does one change      *)
(* after the other.                                                        *)
Quiet ==
    /\ pc # "done" => reply.code = ""
    /\ done # {} => pc \in {"reread", "done"} \/ (ask.id = "C12" /\ pc = "apply")
    /\ reply.code \notin {"", "ok", "KafkaError", "NotFound"} => done = {}
    /\ done # {} => ask.id \in {"C5", "C9", "C12"} \cup SecurityIds

Base ==
    /\ PastIsKept /\ Quiet
    /\ ask \in Asks
    /\ DOMAIN users = Users
    /\ \A e \in DOMAIN quotas : Named(e) /\ e \subseteq Components

(* S1 create: the user was without the mechanism at a time. *)
WasAbsent == \E i \in DOMAIN past : ask.mechanism \notin DOMAIN past[i].users[ask.user]

(* S1 delete: the plan is what the user had at a time, of what was asked for. *)
WasThere ==
    /\ plan.changes[1] # {}
    /\ \E i \in DOMAIN past :
          LET has == DOMAIN past[i].users[ask.user]
          IN  plan.changes[1] = IF ask.mechanism = "" THEN has ELSE has \cap {ask.mechanism}

(* S2 alter: the values asked for were in effect at a time. *)
WasInEffect ==
    \E i \in DOMAIN past :
        LET values == QuotasOf(past[i].quotas, ask.entity) IN
        /\ \A key \in DOMAIN ask.set \ ask.remove : key \in DOMAIN values /\ values[key] = ask.set[key]
        /\ ask.remove \cap DOMAIN values = {}

(* What a security request has found by the step it is at. *)
SecurityFound ==
    ask.id \in SecurityIds =>
        /\ pc = "upsert" => ask.op = "create" /\ WasAbsent
        /\ ask.op = "delete" /\ pc \in {"confirm", "attempt", "apply"} => WasThere
        /\ pc = "reread" => ask.op = "alter" /\ WasInEffect /\ Named(ask.entity)

SecurityInv == Base /\ SecurityFound /\ CredentialsAsTold

-----------------------------------------------------------------------------
(* Nothing but the moment of a step changes the history. *)
LEMMA PastGrows ==
    ASSUME PastIsKept, [Next]_vars
    PROVE  /\ PastIsKept'
           /\ Len(past') \in DOMAIN past' /\ past'[Len(past')] = Now'
           /\ \A i \in DOMAIN past : i \in DOMAIN past' /\ past'[i] = past[i] /\ i <= Len(past')
           /\ DOMAIN past' \subseteq Nat
<1>1. CASE past' = past /\ Now' = Now
  BY <1>1 DEF PastIsKept
<1>2. CASE past' = Append(past, Now')
  <2> DEFINE S == Range(past) \cup {Now'}
  <2>1. past \in Seq(S) /\ Now' \in S
    BY DEF PastIsKept
  <2> HIDE DEF S
  <2>2. /\ past' \in Seq(S) /\ Len(past') = Len(past) + 1 /\ past'[Len(past')] = Now'
        /\ \A i \in 1..Len(past) : past'[i] = past[i]
    BY <1>2, <2>1
  <2>3. past' \in Seq(Range(past'))
    BY <2>2 DEF Range
  <2> QED
    BY <2>1, <2>2, <2>3 DEF PastIsKept
<1>3. [Next]_vars => (past' = past /\ Now' = Now) \/ past' = Append(past, Now')
  BY DEF Next, vars, clusterVars, securityVars, Now
<1> QED
  BY <1>1, <1>2, <1>3

(* One step of the next-state relation, told by what it may be: of the     *)
(* request or of others, at the cluster or at the credentials.             *)
SharedStep == (Confirm \/ Attempt \/ CallFails) /\ UNCHANGED <<clusterVars, securityVars>>

(* The steps there are. *)
LEMMA StepsAre ==
    ASSUME [Next]_vars
    PROVE  \/ UNCHANGED vars
           \/ SharedStep
           \/ AskCluster /\ ClusterStep /\ UNCHANGED securityVars
           \/ AskTopics /\ TopicStep /\ UNCHANGED securityVars
           \/ AskSecurity /\ SecurityStep /\ UNCHANGED clusterVars
           \/ ~ AskSecurity /\ ClusterOthers /\ UNCHANGED securityVars
           \/ AskSecurity /\ SecurityOthers /\ UNCHANGED clusterVars
BY DEF Next, Request, SharedStep

(* What others do leaves the request as it is, and ends with it. *)
LEMMA OthersLeave ==
    ASSUME ClusterOthers \/ SecurityOthers
    PROVE  UNCHANGED <<ask, pc, seen, plan, reply, done>> /\ pc # "done"
BY DEF ClusterOthers, OthersMove, BrokerFails, SecurityOthers, Others, reqVars

(* What an answer does. *)
LEMMA ReplyIs ==
    ASSUME NEW code, NEW value, Reply(code, value)
    PROVE  pc' = "done" /\ reply'.code = code /\ reply'.value = value
BY DEF Reply

(* The steps of a request are those of its plan: each is made at one pc,   *)
(* and no step but a change of the cluster or the credentials changes      *)
(* done.                                                                   *)
LEMMA SharedQuiet ==
    ASSUME Quiet, SharedStep
    PROVE  Quiet' /\ ask' = ask
<1> USE DEF Quiet, SharedStep, At, Goto, Reply
<1>1. CASE Confirm
  BY <1>1 DEF Confirm
<1>2. CASE Attempt
  BY <1>2 DEF Attempt
<1>3. CASE CallFails
  BY <1>3 DEF CallFails
<1> QED
  BY <1>1, <1>2, <1>3

(* The same of the security commands. *)
LEMMA SecurityQuiet ==
    ASSUME Quiet, ask.id \in SecurityIds, SecurityStep
    PROVE  Quiet' /\ ask' = ask
<1> USE DEF Quiet, Securing, Changing, At, Goto, SecurityIds
<1>1. CASE HandleSecurity
  BY <1>1, ReplyIs DEF HandleSecurity
<1>2. CASE ListSecurity
  BY <1>2, ReplyIs DEF ListSecurity
<1>3. CASE PlanDelete
  BY <1>3, ReplyIs DEF PlanDelete
<1>4. CASE PlanAlterQuota
  BY <1>4, ReplyIs DEF PlanAlterQuota
<1>5. CASE UserHasMechanism
  <2>1. pc \notin {"done"} /\ done = {}
    BY <1>5 DEF UserHasMechanism
  <2> QED
    BY <1>5, <2>1, ReplyIs DEF UserHasMechanism
<1>6. CASE Upsert
  <2>1. pc \notin {"done"} /\ done = {}
    BY <1>6 DEF Upsert
  <2> QED
    BY <1>6, <2>1, ReplyIs DEF Upsert
<1>7. CASE ApplyDelete
  <2>1. pc \notin {"done"} /\ done = {}
    BY <1>7 DEF ApplyDelete
  <2> QED
    BY <1>7, <2>1, ReplyIs DEF ApplyDelete
<1>8. CASE ApplyAlterQuota
  <2>1. pc \notin {"done"} /\ done = {}
    BY <1>8 DEF ApplyAlterQuota
  <2> QED
    BY <1>8, <2>1, ReplyIs DEF ApplyAlterQuota
<1>9. CASE RereadQuota
  BY <1>9, ReplyIs DEF RereadQuota
<1> QED
  BY <1>1, <1>2, <1>3, <1>4, <1>5, <1>6, <1>7, <1>8, <1>9 DEF SecurityStep

(* The same of the topic views. *)
LEMMA TopicQuiet ==
    ASSUME Quiet, TopicStep
    PROVE  Quiet' /\ ask' = ask
<1> USE DEF Quiet, Reading, Describing, Offsets, At, Goto, Reply
<1>1. CASE HandleView
  BY <1>1, ReplyIs DEF HandleView
<1>2. CASE ListTopics
  BY <1>2, ReplyIs DEF ListTopics
<1>3. CASE DescribeParts
  BY <1>3, ReplyIs DEF DescribeParts
<1>4. CASE DescribeBegins
  BY <1>4, ReplyIs DEF DescribeBegins
<1>5. CASE DescribeEnds
  BY <1>5, ReplyIs DEF DescribeEnds
<1>6. CASE DescribeConfigs
  BY <1>6, ReplyIs DEF DescribeConfigs
<1>7. CASE DescribeSize
  BY <1>7, ReplyIs DEF DescribeSize
<1> QED
  BY <1>1, <1>2, <1>3, <1>4, <1>5, <1>6, <1>7 DEF TopicStep

(* The same of the cluster commands. *)
LEMMA ClusterQuiet ==
    ASSUME Quiet, ClusterStep
    PROVE  Quiet' /\ ask' = ask
<1> USE DEF Quiet, Reading, Planning, Applying, At, Goto
<1>1. CASE Handle
  BY <1>1, ReplyIs DEF Handle
<1>2. CASE ReadOnce
  BY <1>2, ReplyIs DEF ReadOnce
<1>3. CASE List
  BY <1>3, ReplyIs DEF List
<1>4. CASE Sample("first")
  BY <1>4, ReplyIs DEF Sample
<1>5. CASE Pause
  BY <1>5, ReplyIs DEF Pause
<1>6. CASE Sample("last")
  BY <1>6, ReplyIs DEF Sample
<1>7. CASE Throughput
  BY <1>7, ReplyIs DEF Throughput
<1>8. CASE DescribeNext
  BY <1>8, ReplyIs DEF DescribeNext
<1>9. CASE Export
  BY <1>9, ReplyIs DEF Export
<1>10. CASE PlanImport
  BY <1>10, ReplyIs DEF PlanImport
<1>11. CASE PlanBrokerConfig
  BY <1>11, ReplyIs DEF PlanBrokerConfig
<1>12. CASE AlterBroker
  BY <1>12, ReplyIs DEF AlterBroker
<1>13. CASE Reread
  BY <1>13, ReplyIs DEF Reread
<1>14. CASE MovePartitions
  BY <1>14, ReplyIs DEF MovePartitions
<1>15. CASE SkipDelete
  BY <1>15, ReplyIs DEF SkipDelete, Importing
<1>16. CASE ImportOne
  BY <1>16, ReplyIs DEF ImportOne, Importing, Item
<1>17. CASE ImportFails
  BY <1>17, ReplyIs DEF ImportFails, Importing, Item
<1>18. CASE Imported
  BY <1>18, ReplyIs DEF Imported
<1> QED
  BY <1>1, <1>2, <1>3, <1>4, <1>5, <1>6, <1>7, <1>8, <1>9, <1>10, <1>11, <1>12, <1>13, <1>14, <1>15, <1>16, <1>17,
     <1>18 DEF ClusterStep

-----------------------------------------------------------------------------
(* Who asks for a security command. *)
LEMMA SecurityAsk ==
    ASSUME ask \in Asks
    PROVE  /\ AskSecurity <=> ask.id \in SecurityIds
           /\ AskSecurity => ask.user \in Users /\ ask.entity \subseteq Components
BY AdminAssumption, SecurityAssumption
   DEF AskSecurity, AskTopics, AskCluster, SecurityIds, ClusterIds, TopicIds, IsSecurityAsk

(* The request stays the same, and says and does nothing once answered. *)
LEMMA QuietKept ==
    ASSUME Quiet, ask \in Asks, [Next]_vars
    PROVE  Quiet' /\ ask' = ask
<1>1. CASE UNCHANGED vars
  BY <1>1 DEF vars, reqVars, Quiet
<1>2. CASE SharedStep
  BY <1>2, SharedQuiet
<1>3. CASE ClusterStep
  BY <1>3, ClusterQuiet
<1>4. CASE TopicStep
  BY <1>4, TopicQuiet
<1>5. CASE AskSecurity /\ SecurityStep
  BY <1>5, SecurityQuiet, SecurityAsk
<1>6. CASE ClusterOthers \/ SecurityOthers
  BY <1>6, OthersLeave DEF Quiet
<1> QED
  BY <1>1, <1>2, <1>3, <1>4, <1>5, <1>6, StepsAre

(* The users there are stay the same. *)
LEMMA UsersKept ==
    ASSUME DOMAIN users = Users, [Next]_vars
    PROVE  DOMAIN users' = Users
<1>1. CASE UNCHANGED securityVars \/ UNCHANGED vars
  BY <1>1 DEF vars, securityVars
<1>2. CASE SecurityStep
  <2>1. users' = users \/ Upsert \/ ApplyDelete
    BY <1>2 DEF SecurityStep, HandleSecurity, ListSecurity, PlanDelete, PlanAlterQuota, UserHasMechanism,
                ApplyAlterQuota, RereadQuota, Securing, securityVars
  <2>2. CASE Upsert
    BY <2>2 DEF Upsert
  <2>3. CASE ApplyDelete
    BY <2>3 DEF ApplyDelete
  <2> QED
    BY <2>1, <2>2, <2>3
<1>3. CASE SecurityOthers
  BY <1>3 DEF SecurityOthers
<1> QED
  BY <1>1, <1>2, <1>3, StepsAre DEF SharedStep

(* Kafka keeps no quotas of what it does not take for an entity. *)
LEMMA NamedKept ==
    ASSUME ask \in Asks, \A e \in DOMAIN quotas : Named(e) /\ e \subseteq Components, [Next]_vars
    PROVE  \A e \in DOMAIN quotas' : Named(e) /\ e \subseteq Components
<1>1. CASE UNCHANGED securityVars \/ UNCHANGED vars
  BY <1>1 DEF vars, securityVars
<1>2. CASE AskSecurity /\ SecurityStep
  <2>1. quotas' = quotas \/ ApplyAlterQuota
    BY <1>2 DEF SecurityStep, HandleSecurity, ListSecurity, PlanDelete, PlanAlterQuota, UserHasMechanism,
                Upsert, ApplyDelete, RereadQuota, Securing, securityVars
  <2>2. CASE ApplyAlterQuota
    BY <1>2, <2>2, SecurityAsk DEF ApplyAlterQuota, With, Restrict
  <2> QED
    BY <2>1, <2>2
<1>3. CASE AskSecurity /\ SecurityOthers
  <2>1. CASE UNCHANGED quotas
    BY <2>1
  <2>2. CASE \E e \in {x \in DOMAIN quotas \cup {ask.entity} : Named(x)}, k \in QuotaKeys :
                quotas' \in {With(quotas, e, [x \in {k} |-> 3]), Restrict(quotas, DOMAIN quotas \ {e})}
    BY <1>3, <2>2, SecurityAsk DEF With, Restrict
  <2> QED
    BY <1>3, <2>1, <2>2 DEF SecurityOthers
<1> QED
  BY <1>1, <1>2, <1>3, StepsAre DEF SharedStep

(* Every step keeps what all commands rest on. *)
LEMMA BaseKept == Base /\ [Next]_vars => Base'
BY PastGrows, QuietKept, UsersKept, NamedKept DEF Base

(* It holds at the start. *)
LEMMA InitBase == Init => Base
<1> SUFFICES ASSUME Init PROVE Base
  OBVIOUS
<1>1. PastIsKept
  <2> DEFINE S == {Now}
  <2>1. past = <<Now>> /\ Now \in S
    BY DEF Init
  <2>2. <<Now>> \in Seq(S) /\ Len(<<Now>>) = 1 /\ <<Now>>[1] = Now
    BY <2>1
  <2> QED
    BY <2>1, <2>2 DEF PastIsKept, Range
<1>2. Quiet /\ ask \in Asks
  BY DEF Init, Start, Quiet
<1>3. DOMAIN users = Users /\ \A e \in DOMAIN quotas : Named(e) /\ e \subseteq Components
  BY SecurityAssumption DEF Init, SecurityInit
<1> QED
  BY <1>1, <1>2, <1>3 DEF Base

-----------------------------------------------------------------------------
(* What was found stays found, since the history only grows. *)
LEMMA FoundKept ==
    ASSUME Base, [Next]_vars
    PROVE  /\ WasAbsent => WasAbsent'
           /\ WasThere /\ plan' = plan => WasThere'
           /\ WasInEffect => WasInEffect'
<1>1. /\ \A i \in DOMAIN past : i \in DOMAIN past' /\ past'[i] = past[i]
      /\ ask' = ask
  BY PastGrows, QuietKept DEF Base
<1>2. WasAbsent => WasAbsent'
  BY <1>1 DEF WasAbsent
<1>3. WasThere /\ plan' = plan => WasThere'
  BY <1>1 DEF WasThere
<1>4. WasInEffect => WasInEffect'
  BY <1>1 DEF WasInEffect
<1> QED
  BY <1>2, <1>3, <1>4

(* The present is part of the history. *)
LEMMA PresentIsPast ==
    ASSUME Base
    PROVE  \E i \in DOMAIN past : past[i].users = users /\ past[i].quotas = quotas
<1>1. Len(past) \in DOMAIN past /\ past[Len(past)] = Now
  BY DEF Base, PastIsKept
<1> QED
  BY <1>1 DEF Now

(* No success, nothing to keep of what it says. *)
NoSuccess == reply.code # "ok"

(* No success, nothing to keep of what it says. *)
LEMMA NothingTold == Quiet /\ NoSuccess => CredentialsAsTold
BY DEF CredentialsAsTold, Quiet, NoSuccess

(* Two entities that Kafka takes have different descriptors. *)
LEMMA DescriptorTells ==
    ASSUME NEW d, NEW e, d \subseteq Components, e \subseteq Components, Named(d), Named(e),
           Descriptor(d) = Descriptor(e)
    PROVE  d \subseteq e
<1> SUFFICES ASSUME NEW c \in d PROVE c \in e
  OBVIOUS
<1> DEFINE Blank(x) == IF x = "default" THEN "" ELSE x
<1>1. <<c[1], Blank(c[2])>> \in Descriptor(e)
  BY DEF Descriptor
<1>2. PICK x \in e : <<c[1], Blank(c[2])>> = <<x[1], Blank(x[2])>>
  BY <1>1 DEF Descriptor
<1>3. c[2] # "" /\ x[2] # ""
  BY DEF Named
<1>4. c[1] = x[1] /\ c[2] = x[2]
  BY <1>2, <1>3
<1>5. c = <<c[1], c[2]>> /\ x = <<x[1], x[2]>>
  BY DEF Components
<1> QED
  BY <1>4, <1>5

(* So what is read of one is of that one. *)
LEMMA CurrentIs ==
    ASSUME \A e \in DOMAIN quotas : Named(e) /\ e \subseteq Components,
           NEW entity, Named(entity), entity \subseteq Components,
           NEW values \in CurrentQuotas(entity)
    PROVE  values = QuotasOf(quotas, entity)
<1>1. \A e \in DOMAIN quotas : Descriptor(e) = Descriptor(entity) => e = entity
  <2> TAKE e \in DOMAIN quotas
  <2> HAVE Descriptor(e) = Descriptor(entity)
  <2>1. e \subseteq entity
    BY DescriptorTells
  <2>2. entity \subseteq e
    BY DescriptorTells
  <2> QED
    BY <2>1, <2>2
<1>2. CASE entity \in DOMAIN quotas
  <2>1. {e \in DOMAIN quotas : Descriptor(e) = Descriptor(entity)} = {entity}
    BY <1>1, <1>2
  <2> QED
    BY <1>2, <2>1 DEF CurrentQuotas, QuotasOf
<1>3. CASE entity \notin DOMAIN quotas
  <2>1. {e \in DOMAIN quotas : Descriptor(e) = Descriptor(entity)} = {}
    BY <1>1, <1>3
  <2> QED
    BY <1>3, <2>1 DEF CurrentQuotas, QuotasOf
<1> QED
  BY <1>2, <1>3

-----------------------------------------------------------------------------
(* The steps of a security request. *)
LEMMA SharedFinds ==
    ASSUME SecurityInv, [Next]_vars, SharedStep
    PROVE  SecurityFound' /\ CredentialsAsTold'
<1>1. ask' = ask /\ plan' = plan /\ Base'
  BY BaseKept, QuietKept DEF SecurityInv, Base, SharedStep, Confirm, Attempt, CallFails
<1>2. /\ pc \in {"confirm", "attempt"} \/ pc' = "done"
      /\ pc' \in {"attempt", "apply", "done"}
      /\ pc' \in {"attempt", "apply"} => pc \in {"confirm", "attempt"}
      /\ reply'.code # "ok"
  <2>1. pc # "done" => reply.code = ""
    BY DEF SecurityInv, Base, Quiet
  <2>2. CASE Confirm
    <3>1. CASE ask.dryRun
      BY <2>2, <3>1, ReplyIs DEF Confirm, At
    <3>2. CASE ~ ask.dryRun /\ ask.confirm # plan.target
      BY <2>2, <3>2, ReplyIs DEF Confirm, At
    <3>3. CASE ~ ask.dryRun /\ ask.confirm = plan.target
      BY <2>1, <2>2, <3>3 DEF Confirm, At, Goto
    <3> QED
      BY <3>1, <3>2, <3>3
  <2>3. CASE Attempt
    <3>1. CASE Goto("apply")
      BY <2>1, <2>3, <3>1 DEF Attempt, At, Goto
    <3>2. CASE Reply("AuditUnavailable", <<>>)
      BY <2>3, <3>2 DEF Attempt, At, Reply
    <3> QED
      BY <2>3, <3>1, <3>2 DEF Attempt
  <2>4. CASE CallFails
    BY <2>4 DEF CallFails, Reply
  <2> QED
    BY <2>2, <2>3, <2>4 DEF SharedStep
<1>3. SecurityFound'
  BY <1>1, <1>2, FoundKept DEF SecurityInv, SecurityFound
<1>4. Quiet' /\ NoSuccess' => CredentialsAsTold'
  BY NothingTold, PTL
<1> QED
  BY <1>1, <1>2, <1>3, <1>4 DEF Base, NoSuccess

(* What others do leaves what was found. *)
LEMMA OthersFind ==
    ASSUME SecurityInv, [Next]_vars, ClusterOthers \/ SecurityOthers
    PROVE  SecurityFound' /\ CredentialsAsTold'
<1>1. /\ UNCHANGED <<ask, pc, seen, plan, reply, done>> /\ pc # "done"
      /\ Base'
  BY OthersLeave, BaseKept DEF SecurityInv
<1>2. SecurityFound'
  BY <1>1, FoundKept DEF SecurityInv, SecurityFound
<1>3. Quiet' /\ NoSuccess' => CredentialsAsTold'
  BY NothingTold, PTL
<1>4. reply'.code = ""
  BY <1>1 DEF SecurityInv, Base, Quiet
<1> QED
  BY <1>1, <1>2, <1>3, <1>4 DEF Base, NoSuccess

(* A step that answers without success, or is not of S1 or S2's found. *)
LEMMA EndsWithout ==
    ASSUME Base', pc' = "done", NoSuccess'
    PROVE  SecurityFound' /\ CredentialsAsTold'
<1>1. Quiet' /\ NoSuccess' => CredentialsAsTold'
  BY NothingTold, PTL
<1>2. SecurityFound'
  BY DEF SecurityFound
<1> QED
  BY <1>1, <1>2 DEF Base

(* A step that does not answer. *)
LEMMA GoesOn ==
    ASSUME Base', pc' # "done"
    PROVE  CredentialsAsTold'
<1>1. Quiet' /\ NoSuccess' => CredentialsAsTold'
  BY NothingTold, PTL
<1>2. Quiet' /\ NoSuccess'
  BY DEF Base, Quiet, NoSuccess
<1> QED
  BY <1>1, <1>2

(* What is there after a step is in the history then. *)
LEMMA PresentIsPastThen ==
    ASSUME Base'
    PROVE  \E i \in DOMAIN past' : past'[i].users = users' /\ past'[i].quotas = quotas'
<1>1. Len(past') \in DOMAIN past' /\ past'[Len(past')] = Now'
  BY DEF Base, PastIsKept
<1> QED
  BY <1>1 DEF Now

(* The plan of a delete is of what the user has, and not of nothing. *)
LEMMA PlanDeleteFinds ==
    ASSUME SecurityInv, [Next]_vars, AskSecurity, PlanDelete
    PROVE  SecurityFound' /\ CredentialsAsTold'
<1>1. Base' /\ ask' = ask /\ users' = users
  BY BaseKept, QuietKept DEF SecurityInv, Base, PlanDelete, Securing, securityVars
<1>2. CASE pc' = "done"
  <2>1. NoSuccess'
    <3>1. Reply("NotFound", <<>>)
      BY <1>2 DEF PlanDelete, Goto
    <3> QED
      BY <3>1 DEF Reply, NoSuccess
  <2> QED
    BY <1>1, <1>2, <2>1, EndsWithout
<1>3. CASE pc' # "done"
  <2>1. /\ pc' = "confirm" /\ ask.op = "delete"
        /\ HasUser(ask.user) /\ ask.mechanism \in DOMAIN users[ask.user] \cup {""}
        /\ plan' = [target |-> <<"S1", {ask.user}>>,
                    changes |-> IF ask.mechanism = "" THEN <<DOMAIN users[ask.user]>> ELSE <<{ask.mechanism}>>]
    BY <1>3, ReplyIs DEF PlanDelete, Securing, Planned, Goto
  <2>2. plan'.changes[1] = IF ask.mechanism = "" THEN DOMAIN users[ask.user] ELSE {ask.mechanism}
    BY <2>1
  <2>3. PICK i \in DOMAIN past' : past'[i].users = users'
    BY <1>1, PresentIsPastThen
  <2>4. plan'.changes[1] # {}
    BY <2>1, <2>2 DEF HasUser
  <2>5. plan'.changes[1] = IF ask.mechanism = "" THEN DOMAIN past'[i].users[ask.user]
                           ELSE DOMAIN past'[i].users[ask.user] \cap {ask.mechanism}
    BY <1>1, <2>1, <2>2, <2>3
  <2>6. WasThere'
    BY <1>1, <2>4, <2>5 DEF WasThere
  <2>7. SecurityFound'
    BY <2>1, <2>6 DEF SecurityFound
  <2> QED
    BY <1>1, <1>3, <2>7, GoesOn
<1> QED
  BY <1>2, <1>3

(* A create goes on only if the user is without the mechanism. *)
LEMMA UserHasMechanismFinds ==
    ASSUME SecurityInv, [Next]_vars, AskSecurity, UserHasMechanism
    PROVE  SecurityFound' /\ CredentialsAsTold'
<1>1. Base' /\ ask' = ask /\ users' = users
  BY BaseKept, QuietKept DEF SecurityInv, Base, UserHasMechanism, Securing, securityVars
<1>2. CASE pc' = "done"
  <2>1. NoSuccess'
    BY <1>2, ReplyIs DEF UserHasMechanism, Goto, NoSuccess
  <2> QED
    BY <1>1, <1>2, <2>1, EndsWithout
<1>3. CASE pc' # "done"
  <2>1. pc' = "upsert" /\ ask.op = "create" /\ ask.mechanism \notin DOMAIN users[ask.user]
    BY <1>3, ReplyIs DEF UserHasMechanism, Securing, Goto
  <2>2. PICK i \in DOMAIN past' : past'[i].users = users'
    BY <1>1, PresentIsPastThen
  <2>3. WasAbsent'
    BY <1>1, <2>1, <2>2 DEF WasAbsent
  <2>4. SecurityFound'
    BY <1>1, <2>1, <2>3 DEF SecurityFound
  <2> QED
    BY <1>1, <1>3, <2>4, GoesOn
<1> QED
  BY <1>2, <1>3

(* And then it puts the credential. *)
LEMMA UpsertFinds ==
    ASSUME SecurityInv, [Next]_vars, AskSecurity, Upsert
    PROVE  SecurityFound' /\ CredentialsAsTold'
<1>1. /\ Base' /\ ask' = ask /\ pc = "upsert" /\ pc' = "done"
      /\ ask.id \in SecurityIds /\ ask.user \in Users /\ DOMAIN users = Users
  BY BaseKept, QuietKept, SecurityAsk, ReplyIs DEF SecurityInv, Base, Upsert, Changing, At
<1>2. ask.op = "create" /\ WasAbsent'
  BY <1>1, FoundKept DEF SecurityInv, SecurityFound
<1>3. users'[ask.user][ask.mechanism] = Iterations
  BY <1>1 DEF Upsert, With
<1>4. SecurityFound'
  BY <1>1 DEF SecurityFound
<1>5. reply'.code \in {"ok", "KafkaError"}
  BY ReplyIs DEF Upsert
<1>6. Iterations' = Iterations
  BY <1>1 DEF Iterations
<1>7. CredentialsAsTold'
  BY <1>1, <1>2, <1>3, <1>5, <1>6 DEF CredentialsAsTold, WasAbsent
<1> QED
  BY <1>4, <1>7

(* A delete takes away what its plan tells. *)
LEMMA ApplyDeleteFinds ==
    ASSUME SecurityInv, [Next]_vars, AskSecurity, ApplyDelete
    PROVE  SecurityFound' /\ CredentialsAsTold'
<1> DEFINE has == DOMAIN users[ask.user]
           told == plan.changes[1]
<1>1. /\ Base' /\ ask' = ask /\ pc = "apply" /\ pc' = "done" /\ plan' = plan
      /\ ask.id \in SecurityIds /\ ask.user \in Users /\ DOMAIN users = Users /\ ask.op = "delete"
  BY BaseKept, QuietKept, SecurityAsk, ReplyIs DEF SecurityInv, Base, ApplyDelete, Changing, At
<1>2. WasThere /\ WasThere'
  BY <1>1, FoundKept DEF SecurityInv, SecurityFound
<1>3. PICK gone \in {told \cap has} \cup (IF told \subseteq has THEN {} ELSE {{}}) :
         /\ users' = [users EXCEPT ![ask.user] = Restrict(@, has \ gone)]
         /\ done' = IF gone = {} THEN {} ELSE {gone}
         /\ IF told \subseteq has THEN Reply("ok", ask.user) \/ Reply("KafkaError", <<>>)
            ELSE Reply("NotFound", <<>>)
  BY DEF ApplyDelete
<1>4. SecurityFound'
  BY <1>1 DEF SecurityFound
<1>5. CASE told \subseteq has
  <2>1. gone = told /\ told # {}
    BY <1>2, <1>3, <1>5 DEF WasThere
  <2>2. done' = {told}
    BY <1>3, <2>1
  <2>3. DOMAIN users'[ask.user] \cap told = {}
    BY <1>1, <1>3, <2>1 DEF Restrict
  <2>4. reply'.code \in {"ok", "KafkaError"}
    BY <1>3, <1>5, ReplyIs
  <2>5. CredentialsAsTold'
    BY <1>1, <1>2, <2>2, <2>3, <2>4 DEF CredentialsAsTold, WasThere
  <2> QED
    BY <1>4, <2>5
<1>6. CASE ~ told \subseteq has
  BY <1>1, <1>3, <1>6, ReplyIs, EndsWithout DEF NoSuccess
<1> QED
  BY <1>5, <1>6

(* The values asked for are in effect when they are altered. *)
LEMMA ApplyAlterQuotaFinds ==
    ASSUME SecurityInv, [Next]_vars, AskSecurity, ApplyAlterQuota
    PROVE  SecurityFound' /\ CredentialsAsTold'
<1>1. Base' /\ ask' = ask /\ ask.op = "alter"
  BY BaseKept, QuietKept DEF SecurityInv, Base, ApplyAlterQuota, Changing, At
<1>2. CASE pc' = "done"
  <2>1. NoSuccess'
    BY <1>2, ReplyIs DEF ApplyAlterQuota, Goto, NoSuccess
  <2> QED
    BY <1>1, <1>2, <2>1, EndsWithout
<1>3. CASE pc' # "done"
  <2> DEFINE new == Amended(QuotasOf(quotas, ask.entity), ask.set, ask.remove)
  <2>1. /\ pc' = "reread" /\ Named(ask.entity)
        /\ quotas' = IF DOMAIN new = {} THEN Restrict(quotas, DOMAIN quotas \ {ask.entity})
                     ELSE With(quotas, ask.entity, new)
    BY <1>3, ReplyIs DEF ApplyAlterQuota, Goto
  <2>2. /\ \A key \in DOMAIN ask.set \ ask.remove : key \in DOMAIN new /\ new[key] = ask.set[key]
        /\ ask.remove \cap DOMAIN new = {}
    BY DEF Amended
  <2>3. \/ QuotasOf(quotas', ask.entity) = new
        \/ DOMAIN new = {} /\ QuotasOf(quotas', ask.entity) = <<>>
    <3> HIDE DEF new
    <3>1. CASE DOMAIN new = {}
      BY <2>1, <3>1 DEF QuotasOf, Restrict
    <3>2. CASE DOMAIN new # {}
      BY <2>1, <3>2 DEF QuotasOf, With
    <3> QED
      BY <3>1, <3>2
  <2>4. DOMAIN <<>> = {}
    OBVIOUS
  <2> HIDE DEF new
  <2>5. PICK i \in DOMAIN past' : past'[i].quotas = quotas'
    BY <1>1, PresentIsPastThen
  <2>6. /\ \A key \in DOMAIN ask.set \ ask.remove :
              key \in DOMAIN QuotasOf(quotas', ask.entity) /\ QuotasOf(quotas', ask.entity)[key] = ask.set[key]
        /\ ask.remove \cap DOMAIN QuotasOf(quotas', ask.entity) = {}
    BY <2>2, <2>3, <2>4
  <2>7. WasInEffect'
    BY <1>1, <2>5, <2>6 DEF WasInEffect
  <2>8. SecurityFound'
    BY <1>1, <2>1, <2>7 DEF SecurityFound
  <2> QED
    BY <1>1, <1>3, <2>8, GoesOn
<1> QED
  BY <1>2, <1>3

(* And what is told of them was there then or after. *)
LEMMA RereadQuotaFinds ==
    ASSUME SecurityInv, [Next]_vars, AskSecurity, RereadQuota
    PROVE  SecurityFound' /\ CredentialsAsTold'
<1>1. /\ Base' /\ ask' = ask /\ quotas' = quotas /\ pc = "reread" /\ pc' = "done"
      /\ ask.id \in SecurityIds /\ ask.op = "alter" /\ ask.entity \subseteq Components
  BY BaseKept, QuietKept, SecurityAsk, ReplyIs DEF SecurityInv, Base, RereadQuota, Securing, securityVars, At
<1>2. WasInEffect /\ Named(ask.entity)
  BY <1>1 DEF SecurityInv, SecurityFound
<1>3. PICK values \in CurrentQuotas(ask.entity) : Reply("ok", Fields(values))
  BY DEF RereadQuota
<1>4. values = QuotasOf(quotas, ask.entity)
  BY <1>1, <1>2, CurrentIs DEF SecurityInv, Base
<1>5. reply'.code = "ok" /\ reply'.value = Fields(QuotasOf(quotas, ask.entity))
  BY <1>3, <1>4, ReplyIs
<1>6. PICK i \in DOMAIN past :
         LET at == QuotasOf(past[i].quotas, ask.entity) IN
         /\ \A key \in DOMAIN ask.set \ ask.remove : key \in DOMAIN at /\ at[key] = ask.set[key]
         /\ ask.remove \cap DOMAIN at = {}
  BY <1>2 DEF WasInEffect
<1>7. i \in DOMAIN past' /\ past'[i] = past[i] /\ i <= Len(past') /\ Len(past') \in DOMAIN past'
      /\ past'[Len(past')].quotas = quotas
  BY <1>1, PastGrows DEF SecurityInv, Base, Now
<1>8. \E k, j \in DOMAIN past' :
         LET Of(n) == QuotasOf(past'[n].quotas, ask'.entity) IN
         /\ k <= j /\ reply'.value = Fields(Of(j))
         /\ \A key \in DOMAIN ask'.set \ ask'.remove : key \in DOMAIN Of(k) /\ Of(k)[key] = ask'.set[key]
         /\ ask'.remove \cap DOMAIN Of(k) = {}
  <2>1. reply'.value = Fields(QuotasOf(past'[Len(past')].quotas, ask'.entity))
    BY <1>1, <1>5, <1>7
  <2> QED
    BY <1>1, <1>6, <1>7, <2>1
<1>9. CredentialsAsTold'
  BY <1>1, <1>5, <1>8 DEF CredentialsAsTold
<1>10. SecurityFound'
  BY <1>1 DEF SecurityFound
<1> QED
  BY <1>9, <1>10

(* The rest finds nothing: a handler, a list, and the plan of quotas, which *)
(* are read again later.                                                    *)
LEMMA OthersOfSecurityFind ==
    ASSUME SecurityInv, [Next]_vars, AskSecurity, HandleSecurity \/ ListSecurity \/ PlanAlterQuota
    PROVE  SecurityFound' /\ CredentialsAsTold'
<1>1. Base' /\ ask' = ask /\ ask.id \in SecurityIds
  BY BaseKept, QuietKept, SecurityAsk DEF SecurityInv, Base
<1>2. ask.id = "S1" => ask.op \in {"list", "create", "delete"}
  BY SecurityAssumption DEF SecurityInv, Base, IsSecurityAsk, SecurityIds
<1>3. CASE HandleSecurity
  <2>1. pc' = IF ask.op = "create" THEN "attempt" ELSE "describe"
    BY <1>3 DEF HandleSecurity, Goto
  <2>2. SecurityFound'
    BY <1>1, <2>1 DEF SecurityFound
  <2> QED
    BY <1>1, <2>1, <2>2, GoesOn
<1>4. CASE ListSecurity
  <2>1. ask.op = "list" /\ pc' = "done" /\ reply'.code = "ok"
    BY <1>4, ReplyIs DEF ListSecurity
  <2> QED
    BY <1>1, <2>1 DEF SecurityFound, CredentialsAsTold
<1>5. CASE PlanAlterQuota
  <2>1. ask.op = "alter" /\ pc' = "confirm"
    BY <1>5 DEF PlanAlterQuota, Goto
  <2>2. SecurityFound'
    BY <1>1, <2>1 DEF SecurityFound
  <2> QED
    BY <1>1, <2>1, <2>2, GoesOn
<1> QED
  BY <1>3, <1>4, <1>5

-----------------------------------------------------------------------------
(* A request of another kind is told nothing here. *)
LEMMA NotSecurity ==
    ASSUME ask'.id \notin SecurityIds
    PROVE  SecurityFound' /\ CredentialsAsTold'
BY DEF SecurityFound, CredentialsAsTold

(* What a security request has found, and what it tells, is right, whatever *)
(* others do to credentials and quotas between its calls.                   *)
THEOREM SecurityInvariance == Spec => []SecurityInv
<1>1. Init => SecurityInv
  <2> SUFFICES ASSUME Init PROVE SecurityInv
    OBVIOUS
  <2>1. pc = "http" /\ reply.code = ""
    BY DEF Init, Start
  <2> QED
    BY <2>1, InitBase DEF SecurityInv, SecurityFound, CredentialsAsTold
<1>2. SecurityInv /\ [Next]_vars => SecurityInv'
  <2> SUFFICES ASSUME SecurityInv, [Next]_vars PROVE SecurityFound' /\ CredentialsAsTold'
    BY BaseKept DEF SecurityInv
  <2>1. ask' = ask /\ (AskSecurity <=> ask.id \in SecurityIds)
    BY QuietKept, SecurityAsk DEF SecurityInv, Base
  <2>2. CASE UNCHANGED vars
    BY <2>2 DEF vars, reqVars, clusterVars, securityVars, SecurityInv, SecurityFound, WasThere, WasAbsent, WasInEffect,
                CredentialsAsTold, Iterations
  <2>3. CASE ~ AskSecurity
    BY <2>1, <2>3, NotSecurity
  <2>4. CASE SharedStep
    BY <2>4, SharedFinds
  <2>5. CASE ClusterOthers \/ SecurityOthers
    BY <2>5, OthersFind
  <2>6. CASE AskSecurity /\ SecurityStep
    BY <2>6, OthersOfSecurityFind, PlanDeleteFinds, UserHasMechanismFinds, UpsertFinds, ApplyDeleteFinds,
       ApplyAlterQuotaFinds, RereadQuotaFinds DEF SecurityStep
  <2> QED
    BY <2>2, <2>3, <2>4, <2>5, <2>6, StepsAre DEF AskSecurity
<1> QED
  BY <1>1, <1>2, PTL DEF Spec

(* S1 and S2 do what they tell, whatever others do between their calls. *)
THEOREM CredentialsTold == Spec => []CredentialsAsTold
<1>1. SecurityInv => CredentialsAsTold
  BY DEF SecurityInv
<1> QED
  BY <1>1, SecurityInvariance, PTL

-----------------------------------------------------------------------------
(* The topics there are have the names and the shape of topics; a request  *)
(* that moves partitions finds each on a broker.                           *)
HasShape(t) ==
    /\ IsTopic(t)
    /\ ask.id = "C9" => \A i \in DOMAIN t.parts : t.parts[i].replicas # <<>>

ClusterShape == DOMAIN topics \subseteq Range(Names) /\ \A n \in DOMAIN topics : HasShape(topics[n])

(* The calls that the commands that change the cluster make. *)
Path ==
    /\ ask.id = "C5" => pc \in {"http", "current", "confirm", "attempt", "apply", "reread", "done"}
    /\ ask.id = "C9" => pc \in {"http", "confirm", "attempt", "apply", "done"}
    /\ ask.id = "C12" => pc \in {"http", "list", "describe", "confirm", "attempt", "apply", "done"}

(* C5: the values asked for were in effect at a time. *)
BrokerWas ==
    \E i \in DOMAIN past :
        LET at == past[i].configs[ask.broker] IN
        /\ ask.broker \in DOMAIN past[i].configs
        /\ \A k \in DOMAIN ask.change.set \ ask.change.reset : Effective(at, k) = ask.change.set[k]
        /\ DOMAIN at \cap ask.change.reset = {}

(* C12: the configuration read of a topic is one it had. *)
HadConfig(n, config) ==
    \E i \in DOMAIN past : n \in DOMAIN past[i].topics /\ config = Described(past[i].topics[n].config)

ImportSeen ==
    /\ DOMAIN seen.listed \subseteq Range(Names)
    /\ \A n \in (DOMAIN ask.wanted \cap DOMAIN seen.listed) \ seen.todo :
          n \in DOMAIN seen.config /\ HadConfig(n, seen.config[n])

(* C12: each change of the plan is one that is wanted, and what is wanted  *)
(* and neither was there nor is a secret to be empty is in the plan.       *)
IsChange(c) ==
    \/ c[1] = "create" /\ c[2] \in DOMAIN ask.wanted /\ c[3] = ask.wanted[c[2]]
    \/ /\ c[1] = "alter" /\ c[2] \in DOMAIN ask.wanted
       /\ c[3].reset = {} /\ DOMAIN c[3].set \subseteq DOMAIN ask.wanted[c[2]].config
       /\ \A k \in DOMAIN c[3].set : c[3].set[k] = ask.wanted[c[2]].config[k]
    \/ c[1] = "delete" /\ c[2] \in Range(Names) \ DOMAIN ask.wanted

Sets(c, n, k) == c[2] = n /\ (c[1] = "create" \/ (c[1] = "alter" /\ k \in DOMAIN c[3].set))

WantedEmpty(n, k) == k \in Sensitive /\ ask.wanted[n].config[k] = ""

RightPlan(changes) ==
    /\ changes \in Seq(Range(changes))
    /\ \A i \in DOMAIN changes : IsChange(changes[i])
    /\ \A n \in DOMAIN ask.wanted : \A k \in DOMAIN ask.wanted[n].config :
          WasSet(n, k) \/ WantedEmpty(n, k) \/ \E i \in DOMAIN changes : Sets(changes[i], n, k)

(* C12: the items so far answer for the changes so far, and a success sets *)
(* what its change sets.                                                   *)
Action(c) == IF c[1] = "delete" /\ ~ ask.allowDelete THEN "skipped" ELSE c[1]

ItemOf(e, c) ==
    /\ e[1] = Action(c) /\ e[2] = c[2]
    /\ e[3] = TRUE /\ e[1] # "skipped" =>
          /\ <<e[1], e[2]>> \in done
          /\ \A k \in DOMAIN ask.wanted[e[2]].config : Sets(c, e[2], k) => WasSet(e[2], k)

ImportItems ==
    /\ seen.items \in Seq(Range(seen.items))
    /\ Len(seen.items) <= Len(plan.changes)
    /\ \A i \in DOMAIN seen.items : ItemOf(seen.items[i], plan.changes[i])
    /\ \A d \in done :
          /\ \E i \in DOMAIN seen.items : <<seen.items[i][1], seen.items[i][2]>> = d
          /\ d[1] = "delete" => d[2] \notin DOMAIN ask.wanted /\ ask.allowDelete

SeenShape ==
    seen = [todo |-> seen.todo, listed |-> seen.listed, config |-> seen.config, first |-> seen.first,
            last |-> seen.last, items |-> seen.items]

ClusterFound ==
    /\ ask.id = "C9" /\ pc \in {"confirm", "attempt", "apply"} => plan.changes = ask.moves
    /\ ask.id = "C5" /\ pc = "reread" => BrokerWas
    /\ ask.id = "C12" =>
          /\ SeenShape
          /\ pc \notin {"apply", "done"} => seen.items = <<>>
          /\ pc = "describe" => ImportSeen
          /\ pc \in {"confirm", "attempt", "apply"} => RightPlan(plan.changes) /\ ImportItems

ClusterInv == Base /\ ClusterShape /\ Path /\ ClusterFound /\ AppliedAsTold

-----------------------------------------------------------------------------
(* Topics and partitions that are changed keep their shape. *)
LEMMA TopicWithParts ==
    ASSUME NEW t, IsTopic(t), NEW parts \in Seq(Partition)
    PROVE  /\ IsTopic([t EXCEPT !.parts = parts])
           /\ [t EXCEPT !.parts = parts].parts = parts
           /\ [t EXCEPT !.parts = parts].config = t.config
<1> DEFINE u == [internal |-> t.internal, parts |-> parts, config |-> t.config]
<1>1. [t EXCEPT !.parts = parts] = u
  BY DEF IsTopic
<1>2. u = [internal |-> u.internal, parts |-> u.parts, config |-> u.config] /\ u.parts = parts /\ u.config = t.config
  OBVIOUS
<1> QED
  BY <1>1, <1>2 DEF IsTopic

(* The same of one whose configuration is changed. *)
LEMMA TopicWithConfig ==
    ASSUME NEW t, IsTopic(t), NEW config
    PROVE  /\ IsTopic([t EXCEPT !.config = config])
           /\ [t EXCEPT !.config = config].parts = t.parts
           /\ [t EXCEPT !.config = config].config = config
<1> DEFINE u == [internal |-> t.internal, parts |-> t.parts, config |-> config]
<1>1. [t EXCEPT !.config = config] = u
  BY DEF IsTopic
<1>2. u = [internal |-> u.internal, parts |-> u.parts, config |-> u.config] /\ u.parts = t.parts /\ u.config = config
  OBVIOUS
<1> QED
  BY <1>1, <1>2 DEF IsTopic

(* A topic that is created is one, on a broker if it has a replica. *)
LEMMA CreatedIs ==
    ASSUME NEW def, def.partitions \in Nat, def.rf \in Nat
    PROVE  /\ IsTopic(Created(def, 1)) /\ Created(def, 1).config = def.config
           /\ def.rf = 1 => \A i \in DOMAIN Created(def, 1).parts : Created(def, 1).parts[i].replicas # <<>>
<1> DEFINE p == [replicas |-> [k \in 1..def.rf |-> 1 + k - 1], adding |-> {}, removing |-> {}, leader |-> 1,
                 isr |-> 1..(1 + def.rf - 1), end |-> 0]
           parts == [i \in 1..def.partitions |-> p]
           t == [internal |-> FALSE, config |-> def.config, parts |-> parts]
<1>1. Created(def, 1) = t
  BY DEF Created
<1>2. p \in Partition
  BY DEF Partition
<1>3. def.rf = 1 => p.replicas # <<>>
  <2>1. def.rf = 1 => 1 \in DOMAIN p.replicas
    OBVIOUS
  <2>2. DOMAIN <<>> = {}
    OBVIOUS
  <2> QED
    BY <2>1, <2>2
<1>4. DOMAIN parts = 1..def.partitions /\ \A i \in 1..def.partitions : parts[i] = p
  OBVIOUS
<1> HIDE DEF p
<1>5. parts \in Seq(Partition)
  BY <1>2
<1> HIDE DEF parts
<1>6. t = [internal |-> t.internal, parts |-> t.parts, config |-> t.config] /\ t.parts = parts /\ t.config = def.config
  OBVIOUS
<1> HIDE DEF t
<1>7. IsTopic(t)
  BY <1>5, <1>6 DEF IsTopic
<1> QED
  BY <1>1, <1>3, <1>4, <1>6, <1>7

-----------------------------------------------------------------------------
(* The names of a set, sorted.  There is such a sequence: if not, there is *)
(* a least number of names among which not every one can be sorted, and a  *)
(* sequence of fewer can be extended by the last.                          *)

(* A nonempty set of numbers has a least one. *)
LEMMA Least ==
    ASSUME NEW S, S \subseteq Nat, S # {}
    PROVE  \E m \in S : \A n \in S : m <= n
<1> DEFINE Below == {p \in Nat \X Nat : p[1] < p[2]}
<1>1. IsWellFoundedOn(Below, Nat)
  BY NatLessThanWellFounded DEF OpToRel
<1>2. PICK m \in S : \A n \in S : ~ (<<n, m>> \in Below)
  <2> HIDE DEF Below
  <2>1. S \subseteq Nat /\ S # {}
    OBVIOUS
  <2> QED
    BY <1>1, <2>1, WFMin
<1>3. \A n \in S : n < m => <<n, m>> \in Below
  OBVIOUS
<1>4. \A n \in S : ~ (n < m)
  BY <1>2, <1>3
<1> QED
  BY <1>4

(* Those of S among the first k names, and a sequence that sorts them. *)
Among(S, k) == {n \in S : \E i \in 1..k : Names[i] = n}

Sorts(s, S, k) == s \in Seq(Among(S, k)) /\ Len(s) <= k /\ Range(s) = Among(S, k) /\ Ascending(s)

(* A sequence of the names up to one is extended by the next. *)
LEMMA SortedMore ==
    ASSUME NEW S, S \subseteq Range(Names), NEW k \in 1..Len(Names), NEW s, Sorts(s, S, k - 1)
    PROVE  \E t : Sorts(t, S, k)
<1>1. Names \in Seq(STRING) /\ k \in DOMAIN Names /\ k \in Nat /\ Len(Names) \in Nat /\ DOMAIN Names = 1..Len(Names)
  BY ClusterAssumption
<1>2. Among(S, k) = Among(S, k - 1) \cup (IF Names[k] \in S THEN {Names[k]} ELSE {})
  BY <1>1 DEF Among
<1>3. CASE Names[k] \notin S
  <2>1. Among(S, k) = Among(S, k - 1)
    BY <1>2, <1>3
  <2>2. Len(s) \in Nat
    BY DEF Sorts
  <2>3. Sorts(s, S, k)
    BY <1>1, <2>1, <2>2 DEF Sorts
  <2> QED
    BY <2>3
<1>4. CASE Names[k] \in S
  <2> DEFINE T == Among(S, k)
             t == Append(s, Names[k])
  <2>1. T = Among(S, k - 1) \cup {Names[k]}
    BY <1>2, <1>4
  <2>2. s \in Seq(T) /\ Names[k] \in T
    BY <2>1 DEF Sorts
  <2> HIDE DEF T
  <2>3. /\ t \in Seq(T) /\ Len(t) = Len(s) + 1 /\ Len(s) \in Nat
        /\ \A i \in 1..Len(s) : t[i] = s[i]
        /\ t[Len(s) + 1] = Names[k]
    BY <2>2, AppendProperties
  <2> HIDE DEF t
  <2>4. DOMAIN t = 1..(Len(s) + 1) /\ DOMAIN s = 1..Len(s)
    BY <2>2, <2>3
  <2>5. Range(t) = T
    <3>1. Range(t) = Range(s) \cup {Names[k]}
      BY <2>3, <2>4 DEF Range
    <3> QED
      BY <2>1, <3>1 DEF Sorts
  <2>6. Ascending(t)
    <3> SUFFICES ASSUME NEW a \in DOMAIN t, NEW b \in DOMAIN t, a < b
                 PROVE  \E i, j \in DOMAIN Names : i < j /\ Names[i] = t[a] /\ Names[j] = t[b]
      BY DEF Ascending
    <3>1. a \in 1..Len(s) /\ t[a] = s[a]
      BY <2>3, <2>4
    <3>2. CASE b \in 1..Len(s)
      BY <2>3, <2>4, <3>1, <3>2 DEF Sorts, Ascending
    <3>3. CASE b = Len(s) + 1
      <4>1. s[a] \in Among(S, k - 1)
        BY <2>4, <3>1 DEF Sorts, Range
      <4>2. PICK i \in 1..(k - 1) : Names[i] = s[a]
        BY <4>1 DEF Among
      <4> QED
        BY <1>1, <2>3, <3>1, <3>3, <4>2
    <3> QED
      BY <2>3, <2>4, <3>2, <3>3
  <2>7. Sorts(t, S, k)
    BY <1>1, <2>3, <2>5, <2>6 DEF Sorts, T
  <2> QED
    BY <2>7
<1> QED
  BY <1>3, <1>4

(* So there is one of all of them. *)
LEMMA SortedIs ==
    ASSUME NEW S, S \subseteq Range(Names)
    PROVE  Sorted(S) \in Seq(S) /\ Range(Sorted(S)) = S /\ Ascending(Sorted(S))
<1> DEFINE Bad == {k \in 0..Len(Names) : ~ \E s : Sorts(s, S, k)}
<1>1. Names \in Seq(STRING) /\ Len(Names) \in Nat /\ DOMAIN Names = 1..Len(Names)
  BY ClusterAssumption
<1>2. Sorts(<<>>, S, 0)
  <2>1. Among(S, 0) = {}
    BY DEF Among
  <2>2. <<>> \in Seq({}) /\ Len(<<>>) = 0 /\ DOMAIN <<>> = {}
    OBVIOUS
  <2> QED
    BY <2>1, <2>2 DEF Sorts, Range, Ascending
<1>3. Bad = {}
  <2> SUFFICES ASSUME Bad # {} PROVE FALSE
    OBVIOUS
  <2>1. PICK k \in Bad : \A n \in Bad : k <= n
    <3>1. Bad \subseteq Nat
      BY <1>1
    <3> HIDE DEF Bad
    <3> QED
      BY <3>1, Least
  <2>2. k # 0 /\ k \in 1..Len(Names) /\ k - 1 \in 0..Len(Names)
    BY <1>1, <1>2
  <2>3. k - 1 \notin Bad
    BY <2>1, <2>2
  <2>4. PICK s : Sorts(s, S, k - 1)
    BY <2>2, <2>3
  <2>5. \E t : Sorts(t, S, k)
    BY <2>2, <2>4, SortedMore
  <2> QED
    BY <2>1, <2>5
<1>4. PICK s : Sorts(s, S, Len(Names))
  BY <1>1, <1>3
<1>5. Among(S, Len(Names)) = S
  BY <1>1 DEF Among, Range
<1>6. s \in UNION {[1..k -> S] : k \in 0..Len(Names)} /\ Range(s) = S /\ Ascending(s)
  <2>1. s \in [1..Len(s) -> S] /\ Len(s) \in 0..Len(Names)
    BY <1>1, <1>4, <1>5 DEF Sorts
  <2> QED
    BY <1>4, <1>5, <2>1 DEF Sorts
<1>7. Sorted(S) \in UNION {[1..k -> S] : k \in 0..Len(Names)} /\ Range(Sorted(S)) = S /\ Ascending(Sorted(S))
  BY <1>6 DEF Sorted
<1>8. PICK k \in 0..Len(Names) : Sorted(S) \in [1..k -> S]
  BY <1>7
<1>9. Sorted(S) \in Seq(S)
  BY <1>1, <1>8
<1> QED
  BY <1>7, <1>9

(* The steps of a plan, one for each name. *)
LEMMA StepsAreFor ==
    ASSUME NEW action, NEW of, DOMAIN of \subseteq Range(Names)
    PROVE  /\ Steps(action, of) \in Seq(Range(Steps(action, of)))
           /\ Range(Steps(action, of)) = {<<action, n, of[n]>> : n \in DOMAIN of}
<1> DEFINE names == Sorted(DOMAIN of)
           steps == [i \in DOMAIN names |-> <<action, names[i], of[names[i]]>>]
<1>1. names \in Seq(DOMAIN of) /\ Range(names) = DOMAIN of
  BY SortedIs
<1> HIDE DEF names
<1>2. Len(names) \in Nat /\ DOMAIN names = 1..Len(names)
  BY <1>1
<1>3. Range(steps) = {<<action, n, of[n]>> : n \in DOMAIN of}
  BY <1>1 DEF Range
<1>4. \A i \in 1..Len(names) : steps[i] \in Range(steps)
  BY <1>2 DEF Range
<1>5. steps \in [1..Len(names) -> Range(steps)]
  BY <1>2, <1>4
<1>6. steps \in Seq(Range(steps))
  BY <1>2, <1>5
<1>7. Steps(action, of) = steps
  BY DEF Steps, names
<1> QED
  BY <1>3, <1>6, <1>7

(* What is changed of a topic that differs from what is wanted. *)
Changed(want, config) == [set |-> Restrict(want.config, Differing(want, config)), reset |-> {}]

(* What a plan of C12 consists of: every name to create, alter or delete.  *)
LEMMA ImportChangesAre ==
    ASSUME NEW wanted, NEW present, NEW config,
           DOMAIN wanted \subseteq Range(Names), present \subseteq Range(Names),
           NEW changes, changes = ImportChanges(wanted, present, config)
    PROVE  /\ changes \in Seq(Range(changes))
           /\ Range(changes) = {<<"create", n, wanted[n]>> : n \in DOMAIN wanted \ present}
                   \cup {<<"alter", n, Changed(wanted[n], config[n])>> :
                             n \in {x \in DOMAIN wanted \cap present : Differing(wanted[x], config[x]) # {}}}
                   \cup {<<"delete", n, "">> : n \in present \ DOMAIN wanted}
<1> DEFINE alter == {n \in DOMAIN wanted \cap present : Differing(wanted[n], config[n]) # {}}
           a == Restrict(wanted, DOMAIN wanted \ present)
           b == [n \in alter |-> Changed(wanted[n], config[n])]
           c == [n \in present \ DOMAIN wanted |-> ""]
<1>1. changes = Steps("create", a) \o Steps("alter", b) \o Steps("delete", c)
  BY DEF ImportChanges, Changed
<1>2. /\ DOMAIN a = DOMAIN wanted \ present /\ \A n \in DOMAIN wanted \ present : a[n] = wanted[n]
      /\ DOMAIN b = alter /\ \A n \in alter : b[n] = Changed(wanted[n], config[n])
      /\ DOMAIN c = present \ DOMAIN wanted /\ \A n \in present \ DOMAIN wanted : c[n] = ""
  BY DEF Restrict
<1>3. /\ DOMAIN a \subseteq Range(Names) /\ DOMAIN b \subseteq Range(Names) /\ DOMAIN c \subseteq Range(Names)
  BY <1>2
<1>4. /\ Range(Steps("create", a)) = {<<"create", n, wanted[n]>> : n \in DOMAIN wanted \ present}
      /\ Range(Steps("alter", b)) = {<<"alter", n, Changed(wanted[n], config[n])>> : n \in alter}
      /\ Range(Steps("delete", c)) = {<<"delete", n, "">> : n \in present \ DOMAIN wanted}
  <2> HIDE DEF a, b, c, alter
  <2>1. Range(Steps("create", a)) = {<<"create", n, a[n]>> : n \in DOMAIN a}
    BY <1>3, StepsAreFor
  <2>2. Range(Steps("alter", b)) = {<<"alter", n, b[n]>> : n \in DOMAIN b}
    BY <1>3, StepsAreFor
  <2>3. Range(Steps("delete", c)) = {<<"delete", n, c[n]>> : n \in DOMAIN c}
    BY <1>3, StepsAreFor
  <2>4. {<<"create", n, a[n]>> : n \in DOMAIN a} = {<<"create", n, wanted[n]>> : n \in DOMAIN wanted \ present}
    BY <1>2
  <2>5. {<<"alter", n, b[n]>> : n \in DOMAIN b} = {<<"alter", n, Changed(wanted[n], config[n])>> : n \in alter}
    BY <1>2
  <2>6. {<<"delete", n, c[n]>> : n \in DOMAIN c} = {<<"delete", n, "">> : n \in present \ DOMAIN wanted}
    BY <1>2
  <2> QED
    BY <2>1, <2>2, <2>3, <2>4, <2>5, <2>6
<1> DEFINE x == Steps("create", a)
           y == Steps("alter", b)
           z == Steps("delete", c)
           S == Range(x) \cup Range(y) \cup Range(z)
<1>5. x \in Seq(Range(x)) /\ y \in Seq(Range(y)) /\ z \in Seq(Range(z))
  <2> HIDE DEF a, b, c
  <2> QED
    BY <1>3, StepsAreFor
<1> HIDE DEF x, y, z, a, b, c, alter
<1>6. x \in Seq(S) /\ y \in Seq(S) /\ z \in Seq(S)
  BY <1>5, SeqMonotonic
<1> HIDE DEF S
<1>7. x \o y \in Seq(S) /\ Range(x \o y) = Range(x) \cup Range(y)
  BY <1>6, ConcatProperties, RangeConcatenation
<1>8. changes \in Seq(S) /\ Range(changes) = Range(x) \cup Range(y) \cup Range(z)
  <2> DEFINE xy == x \o y
  <2>1. xy \in Seq(S) /\ Range(xy) = Range(x) \cup Range(y)
    BY <1>7
  <2>2. changes = xy \o z
    BY <1>1 DEF x, y, z
  <2> HIDE DEF xy
  <2>3. xy \o z \in Seq(S) /\ Range(xy \o z) = Range(xy) \cup Range(z)
    BY <1>6, <2>1, ConcatProperties, RangeConcatenation
  <2> QED
    BY <2>1, <2>2, <2>3
<1>9. changes \in Seq(Range(changes))
  BY <1>8, SeqOfRange
<1> QED
  BY <1>4, <1>8, <1>9 DEF x, y, z, alter

(* What an import plans, given what it has read, is right. *)
LEMMA PlannedIsRight ==
    ASSUME ask \in Asks, ask.id = "C12", ImportSeen, seen.todo = {},
           NEW changes, changes = ImportChanges(ask.wanted, DOMAIN seen.listed, seen.config)
    PROVE  RightPlan(changes)
<1> DEFINE wanted == ask.wanted
           present == DOMAIN seen.listed
           config == seen.config
<1>1. /\ DOMAIN wanted \subseteq Range(Names) /\ present \subseteq Range(Names)
      /\ \A n \in DOMAIN wanted : DOMAIN wanted[n].config \subseteq Keys
  BY ClusterAssumption DEF ImportSeen, ClusterIds, IsClusterAsk
<1>2. /\ changes \in Seq(Range(changes))
      /\ Range(changes) = {<<"create", n, wanted[n]>> : n \in DOMAIN wanted \ present}
              \cup {<<"alter", n, Changed(wanted[n], config[n])>> :
                        n \in {x \in DOMAIN wanted \cap present : Differing(wanted[x], config[x]) # {}}}
              \cup {<<"delete", n, "">> : n \in present \ DOMAIN wanted}
  <2>1. changes = ImportChanges(wanted, present, config)
    OBVIOUS
  <2> HIDE DEF wanted, present, config
  <2> QED
    BY <1>1, <2>1, ImportChangesAre
<1>3. \A want, had : LET c == Changed(want, had) IN
          /\ DOMAIN c.set = Differing(want, had) /\ Differing(want, had) \subseteq DOMAIN want.config
          /\ \A k \in DOMAIN c.set : c.set[k] = want.config[k]
          /\ c.reset = {}
  BY DEF Changed, Restrict, Differing
<1>4. \A i \in DOMAIN changes : IsChange(changes[i])
  <2> SUFFICES ASSUME NEW i \in DOMAIN changes PROVE IsChange(changes[i])
    OBVIOUS
  <2>1. changes[i] \in Range(changes)
    BY DEF Range
  <2>2. CASE \E n \in DOMAIN wanted \ present : changes[i] = <<"create", n, wanted[n]>>
    BY <2>2 DEF IsChange
  <2>3. CASE \E n \in DOMAIN wanted \cap present : changes[i] = <<"alter", n, Changed(wanted[n], config[n])>>
    <3>1. PICK n \in DOMAIN wanted \cap present : changes[i] = <<"alter", n, Changed(wanted[n], config[n])>>
      BY <2>3
    <3> DEFINE c == Changed(wanted[n], config[n])
    <3>2. /\ DOMAIN c.set \subseteq DOMAIN wanted[n].config /\ c.reset = {}
          /\ \A k \in DOMAIN c.set : c.set[k] = wanted[n].config[k]
      BY <1>3
    <3>3. changes[i] = <<"alter", n, c>>
      BY <3>1
    <3> HIDE DEF c
    <3>4. changes[i][1] = "alter" /\ changes[i][2] = n /\ changes[i][3] = c
      BY <3>3
    <3> QED
      BY <3>2, <3>4 DEF IsChange
  <2>4. CASE \E n \in present \ DOMAIN wanted : changes[i] = <<"delete", n, "">>
    <3>1. PICK n \in present \ DOMAIN wanted : changes[i] = <<"delete", n, "">>
      BY <2>4
    <3>2. n \in Range(Names) \ DOMAIN wanted
      BY <1>1
    <3> DEFINE c == <<"delete", n, "">>
    <3>3. c[1] = "delete" /\ c[2] = n
      OBVIOUS
    <3>4. changes[i] = c
      BY <3>1
    <3> HIDE DEF c
    <3> QED
      BY <3>2, <3>3, <3>4 DEF IsChange
  <2> QED
    BY <1>2, <2>1, <2>2, <2>3, <2>4
<1>5. \A n \in DOMAIN wanted : \A k \in DOMAIN wanted[n].config :
          WasSet(n, k) \/ WantedEmpty(n, k) \/ \E i \in DOMAIN changes : Sets(changes[i], n, k)
  <2> SUFFICES ASSUME NEW n \in DOMAIN wanted, NEW k \in DOMAIN wanted[n].config
               PROVE  WasSet(n, k) \/ WantedEmpty(n, k) \/ \E i \in DOMAIN changes : Sets(changes[i], n, k)
    OBVIOUS
  <2>1. CASE n \notin present
    <3>1. <<"create", n, wanted[n]>> \in Range(changes)
      BY <1>2, <2>1
    <3>2. PICK i \in DOMAIN changes : changes[i] = <<"create", n, wanted[n]>>
      BY <3>1 DEF Range
    <3> QED
      BY <3>2 DEF Sets
  <2>2. CASE n \in present /\ k \in Differing(wanted[n], config[n])
    <3> DEFINE c == Changed(wanted[n], config[n])
    <3>1. <<"alter", n, c>> \in Range(changes)
      BY <1>2, <2>2
    <3>2. k \in DOMAIN c.set
      BY <1>3, <2>2
    <3> HIDE DEF c
    <3>3. PICK i \in DOMAIN changes : changes[i] = <<"alter", n, c>>
      BY <3>1 DEF Range
    <3>4. changes[i][1] = "alter" /\ changes[i][2] = n /\ changes[i][3] = c
      BY <3>3
    <3> QED
      BY <3>2, <3>4 DEF Sets
  <2>3. CASE n \in present /\ k \notin Differing(wanted[n], config[n])
    <3>1. HadConfig(n, config[n])
      BY <2>3 DEF ImportSeen
    <3>2. PICK i \in DOMAIN past : n \in DOMAIN past[i].topics /\ config[n] = Described(past[i].topics[n].config)
      BY <3>1 DEF HadConfig
    <3>3. k \in Keys
      BY <1>1
    <3>4. config[n][k].value = wanted[n].config[k]
      BY <2>3 DEF Differing
    <3>5. config[n][k] = Entry(past[i].topics[n].config, k)
      BY <3>2, <3>3 DEF Described
    <3>6. \A set : Entry(set, k).value = IF k \in Sensitive THEN "" ELSE Effective(set, k)
      BY DEF Entry, Effective
    <3>7. wanted[n].config[k] = IF k \in Sensitive THEN "" ELSE Effective(past[i].topics[n].config, k)
      BY <3>4, <3>5, <3>6
    <3>8. CASE k \in Sensitive
      BY <3>7, <3>8 DEF WantedEmpty
    <3>9. CASE k \notin Sensitive
      BY <3>2, <3>7, <3>9 DEF WasSet
    <3> QED
      BY <3>8, <3>9
  <2> QED
    BY <2>1, <2>2, <2>3
<1> QED
  BY <1>2, <1>4, <1>5 DEF RightPlan

-----------------------------------------------------------------------------
(* What changes the topics. *)
LEMMA TopicsChange ==
    ASSUME [Next]_vars
    PROVE  topics' = topics \/ MovePartitions \/ ImportOne \/ OthersMove \/ \E b \in Brokers : BrokerFails(b)
<1> USE DEF Reading, Applying, Importing, clusterVars
<1>1. CASE UNCHANGED vars
  BY <1>1 DEF vars
<1>2. CASE UNCHANGED clusterVars
  BY <1>2
<1>3. CASE ClusterStep
  BY <1>3 DEF ClusterStep, Handle, ReadOnce, List, Sample, Pause, Throughput, DescribeNext, Export, PlanImport,
              PlanBrokerConfig, AlterBroker, Reread, SkipDelete, ImportFails, Imported
<1>4. CASE TopicStep
  BY <1>4 DEF TopicStep, HandleView, ListTopics, DescribeParts, DescribeBegins, DescribeEnds, DescribeConfigs,
              DescribeSize, Describing, Offsets
<1>5. CASE ClusterOthers
  BY <1>5 DEF ClusterOthers
<1> QED
  BY <1>1, <1>2, <1>3, <1>4, <1>5, StepsAre DEF SharedStep

(* The commands that change the cluster make the calls of their path. *)
LEMMA PathKept ==
    ASSUME Base, Path, [Next]_vars
    PROVE  Path'
<1>1. ask' = ask
  BY QuietKept DEF Base
<1>2. CASE UNCHANGED vars
  BY <1>2 DEF vars, reqVars, Path
<1>3. CASE SharedStep
  BY <1>1, <1>3, ReplyIs DEF SharedStep, Confirm, Attempt, CallFails, At, Goto, Path
<1>4. CASE AskCluster /\ ClusterStep
  <2> USE DEF Path, Reading, Planning, Applying, At, Goto
  <2>1. CASE Handle
    BY <2>1, ReplyIs DEF Handle
  <2>2. CASE ReadOnce
    BY <2>2, ReplyIs DEF ReadOnce
  <2>3. CASE List
    BY <2>3 DEF List
  <2>4. CASE Sample("first") \/ Sample("last")
    BY <2>4, ReplyIs DEF Sample
  <2>5. CASE Pause \/ Throughput
    BY <2>5, ReplyIs DEF Pause, Throughput
  <2>6. CASE DescribeNext
    BY <2>6, ReplyIs DEF DescribeNext
  <2>7. CASE Export \/ PlanImport
    BY <2>7, ReplyIs DEF Export, PlanImport
  <2>8. CASE PlanBrokerConfig
    BY <2>8, ReplyIs DEF PlanBrokerConfig
  <2>9. CASE AlterBroker
    BY <2>9, ReplyIs DEF AlterBroker
  <2>10. CASE Reread
    BY <2>10, ReplyIs DEF Reread
  <2>11. CASE MovePartitions
    BY <2>11, ReplyIs DEF MovePartitions
  <2>12. CASE SkipDelete
    BY <2>12 DEF SkipDelete, Importing
  <2>13. CASE ImportOne \/ ImportFails
    BY <2>13 DEF ImportOne, ImportFails, Importing, Item
  <2>14. CASE Imported
    BY <2>14, ReplyIs DEF Imported
  <2> QED
    BY <1>4, <2>1, <2>2, <2>3, <2>4, <2>5, <2>6, <2>7, <2>8, <2>9, <2>10, <2>11, <2>12, <2>13, <2>14 DEF ClusterStep
<1>5. CASE AskTopics \/ AskSecurity
  BY <1>1, <1>5 DEF AskTopics, AskSecurity, AskCluster, TopicIds, ClusterIds, Path
<1>6. CASE ClusterOthers \/ SecurityOthers
  BY <1>6, OthersLeave DEF Path
<1> QED
  BY <1>2, <1>3, <1>4, <1>5, <1>6, StepsAre

(* A partition that is changed stays one, and has what was asked for. *)
LEMMA AfterIs ==
    ASSUME NEW m, NEW p \in Partition, p.replicas # <<>>,
           m[1] = "reassign" => m[3] \in Seq(Int) /\ m[3] # <<>>
    PROVE  /\ After(m, p) \in Partition /\ After(m, p).replicas # <<>>
           /\ CASE m[1] = "reassign" -> After(m, p).replicas = m[3]
                [] m[1] = "cancel" -> After(m, p).adding \cup After(m, p).removing = {}
                [] OTHER -> After(m, p).leader \in Range(After(m, p).replicas)
<1>1. p.replicas \in Seq(Int) /\ 1 \in DOMAIN p.replicas /\ p.replicas[1] \in Int /\ Range(p.replicas) \subseteq Int
  <2>1. p.replicas \in Seq(Int)
    BY DEF Partition
  <2> QED
    BY <2>1 DEF Range
<1>2. CASE m[1] = "reassign"
  <2>1. After(m, p) = [p EXCEPT !.replicas = m[3], !.adding = Range(m[3]) \ Range(p.replicas),
                                !.removing = Range(p.replicas) \ Range(m[3])]
    BY <1>2 DEF After
  <2>2. m[3] \in Seq(Int) /\ Range(m[3]) \ Range(p.replicas) \in SUBSET Int /\ Range(p.replicas) \ Range(m[3]) \in SUBSET Int
    BY <1>1, <1>2 DEF Range
  <2> DEFINE add == Range(m[3]) \ Range(p.replicas)
             remove == Range(p.replicas) \ Range(m[3])
  <2> HIDE DEF add, remove
  <2>3. After(m, p) = [p EXCEPT !.replicas = m[3], !.adding = add, !.removing = remove]
    BY <2>1 DEF add, remove
  <2>4. add \in SUBSET Int /\ remove \in SUBSET Int
    BY <2>2 DEF add, remove
  <2>5. After(m, p) \in Partition /\ After(m, p).replicas = m[3]
    BY <2>2, <2>3, <2>4 DEF Partition
  <2> QED
    BY <1>2, <2>5
<1>3. CASE m[1] = "cancel"
  <2>1. After(m, p) = [p EXCEPT !.adding = {}, !.removing = {}]
    BY <1>3 DEF After
  <2> QED
    BY <1>3, <2>1 DEF Partition
<1>4. CASE m[1] \notin {"reassign", "cancel"}
  <2>1. After(m, p) = [p EXCEPT !.leader = p.replicas[1], !.isr = @ \cup {p.replicas[1]}]
    BY <1>4 DEF After
  <2>2. p.replicas[1] \in Range(p.replicas)
    BY <1>1 DEF Range
  <2> DEFINE first == p.replicas[1]
  <2> HIDE DEF first
  <2> DEFINE isr == p.isr \cup {first}
  <2>3. After(m, p) = [p EXCEPT !.leader = first, !.isr = isr]
    BY <2>1 DEF first
  <2>4. first \in Int /\ isr \in SUBSET Int
    BY <1>1 DEF first, Partition
  <2> HIDE DEF isr
  <2>5. After(m, p) \in Partition /\ After(m, p).replicas = p.replicas /\ After(m, p).leader = first
    BY <2>3, <2>4 DEF Partition
  <2>6. first \in Range(p.replicas)
    BY <2>2 DEF first
  <2> QED
    BY <1>4, <2>5, <2>6
<1> QED
  BY <1>2, <1>3, <1>4

(* So does one that grows. *)
LEMMA PartEnds ==
    ASSUME NEW p \in Partition, NEW end \in Int
    PROVE  [p EXCEPT !.end = end] \in Partition /\ [p EXCEPT !.end = end].replicas = p.replicas
BY DEF Partition

(* The same of one that loses a broker. *)
LEMMA PartFails ==
    ASSUME NEW p \in Partition, NEW b
    PROVE  Deprived(p, b) \in Partition /\ Deprived(p, b).replicas = p.replicas
<1> DEFINE isr == p.isr \ {b}
           leader == IF p.leader = b THEN -1 ELSE p.leader
<1>1. isr \in SUBSET Int /\ leader \in Int
  BY DEF Partition
<1>2. Deprived(p, b) = [p EXCEPT !.isr = isr, !.leader = leader]
  BY DEF Partition, Deprived
<1> HIDE DEF isr, leader
<1>3. [p EXCEPT !.isr = isr, !.leader = leader] \in Partition /\ [p EXCEPT !.isr = isr, !.leader = leader].replicas = p.replicas
  BY <1>1 DEF Partition
<1> QED
  BY <1>2, <1>3

(* Partitions changed one by one are partitions. *)
LEMMA PartsAre ==
    ASSUME NEW s \in Seq(Partition), NEW q, q = [i \in DOMAIN s |-> q[i]], \A i \in DOMAIN s : q[i] \in Partition
    PROVE  q \in Seq(Partition)
<1>1. Len(s) \in Nat /\ DOMAIN s = 1..Len(s)
  OBVIOUS
<1>2. q \in [1..Len(s) -> Partition]
  BY <1>1
<1> QED
  BY <1>1, <1>2

(* A topic that is changed keeps its shape. *)
LEMMA Reshaped ==
    ASSUME NEW t, HasShape(t),
           NEW parts \in Seq(Partition), \A i \in DOMAIN parts : ask.id = "C9" => parts[i].replicas # <<>>
    PROVE  /\ HasShape([t EXCEPT !.parts = parts])
           /\ [t EXCEPT !.parts = parts].parts = parts
BY TopicWithParts DEF HasShape

(* The same of its configuration. *)
LEMMA Reconfigured ==
    ASSUME NEW t, HasShape(t), NEW config
    PROVE  /\ HasShape([t EXCEPT !.config = config])
           /\ [t EXCEPT !.config = config].config = config
BY TopicWithConfig DEF HasShape

(* So do the topics of which one comes, goes or changes. *)
LEMMA OneChanges ==
    ASSUME ClusterShape, ask' = ask, NEW n \in Range(Names), NEW t, HasShape(t),
           topics' = With(topics, n, t) \/ (n \in DOMAIN topics /\ topics' = [topics EXCEPT ![n] = t])
    PROVE  ClusterShape'
<1>1. /\ DOMAIN topics' = DOMAIN topics \cup {n}
      /\ \A x \in DOMAIN topics' : topics'[x] = IF x = n THEN t ELSE topics[x]
  BY DEF With
<1>2. \A x \in DOMAIN topics' : HasShape(topics'[x])
  BY <1>1 DEF ClusterShape
<1> QED
  BY <1>1, <1>2 DEF ClusterShape, HasShape

(* The same of the topics when one is deleted. *)
LEMMA OneGoes ==
    ASSUME ClusterShape, ask' = ask, NEW n, topics' = Restrict(topics, DOMAIN topics \ {n})
    PROVE  ClusterShape'
BY DEF ClusterShape, HasShape, Restrict

(* Partitions are moved, and no others than those asked for. *)
LEMMA MovesAre ==
    ASSUME ask \in Asks, ask.id = "C9", plan.changes = ask.moves, ClusterShape, MovePartitions
    PROVE  /\ ClusterShape'
           /\ \A i \in DOMAIN plan.changes : ~ Refused(plan.changes[i]) =>
                  Part(plan.changes[i][2])' = After(plan.changes[i], Part(plan.changes[i][2]))
<1> DEFINE changes == plan.changes
           ok == [i \in DOMAIN changes |-> ~ Refused(changes[i])]
           Of(n, k) == {i \in DOMAIN ok : ok[i] /\ changes[i][2] = <<n, k>>}
           Moved(n, k) == IF Of(n, k) = {} THEN topics[n].parts[k]
                          ELSE After(changes[CHOOSE i \in Of(n, k) : TRUE], topics[n].parts[k])
           parts(n) == [k \in DOMAIN topics[n].parts |-> Moved(n, k)]
<1>1. /\ \A i \in DOMAIN changes : changes[i][2] \in Range(Names) \X Nat /\ changes[i][3] \in Seq(Int)
      /\ IsInjective([i \in DOMAIN changes |-> changes[i][2]])
  BY ClusterAssumption DEF ClusterIds, IsClusterAsk
<1>2. topics' = [n \in DOMAIN topics |-> [topics[n] EXCEPT !.parts = parts(n)]]
  BY DEF MovePartitions
<1>3. ask' = ask /\ plan' = plan
  BY DEF MovePartitions, Applying, At
<1>4. \A i \in DOMAIN changes : ~ Refused(changes[i]) /\ changes[i][1] = "reassign" => changes[i][3] # <<>>
  BY DEF Refused
<1>5. ASSUME NEW n \in DOMAIN topics, NEW k \in DOMAIN topics[n].parts
      PROVE  Moved(n, k) \in Partition /\ Moved(n, k).replicas # <<>>
  <2>1. topics[n].parts[k] \in Partition /\ topics[n].parts[k].replicas # <<>>
    BY DEF ClusterShape, HasShape, IsTopic
  <2>2. CASE Of(n, k) = {}
    BY <2>1, <2>2
  <2>3. CASE Of(n, k) # {}
    <3> DEFINE i == CHOOSE i \in Of(n, k) : TRUE
    <3>1. i \in DOMAIN changes /\ ~ Refused(changes[i])
      BY <2>3
    <3>2. Moved(n, k) = After(changes[i], topics[n].parts[k])
      BY <2>3
    <3> HIDE DEF i, Moved, Of, changes
    <3>3. changes[i][1] = "reassign" => changes[i][3] \in Seq(Int) /\ changes[i][3] # <<>>
      BY <1>1, <1>4, <3>1
    <3> QED
      BY <2>1, <3>2, <3>3, AfterIs
  <2> QED
    BY <2>2, <2>3
<1>6. ASSUME NEW n \in DOMAIN topics
      PROVE  HasShape([topics[n] EXCEPT !.parts = parts(n)]) /\ [topics[n] EXCEPT !.parts = parts(n)].parts = parts(n)
  <2> DEFINE t == topics[n]
             q == parts(n)
  <2>1. HasShape(t) /\ t.parts \in Seq(Partition)
    BY DEF ClusterShape, HasShape, IsTopic
  <2> HIDE DEF Moved
  <2>2. q = [k \in DOMAIN t.parts |-> q[k]] /\ DOMAIN q = DOMAIN t.parts
    OBVIOUS
  <2>3. \A k \in DOMAIN t.parts : q[k] \in Partition /\ q[k].replicas # <<>>
    BY <1>5
  <2> HIDE DEF q
  <2>4. q \in Seq(Partition)
    BY <2>1, <2>2, <2>3, PartsAre
  <2>5. HasShape([t EXCEPT !.parts = q]) /\ [t EXCEPT !.parts = q].parts = q
    BY <2>1, <2>2, <2>3, <2>4, Reshaped
  <2> QED
    BY <2>5 DEF q
<1> HIDE DEF parts
<1>7. ClusterShape'
  BY <1>2, <1>3, <1>6 DEF ClusterShape, HasShape
<1>8. ASSUME NEW i \in DOMAIN changes, ~ Refused(changes[i])
      PROVE  Part(changes[i][2])' = After(changes[i], Part(changes[i][2]))
  <2> DEFINE n == changes[i][2][1]
             k == changes[i][2][2]
  <2>1. n \in DOMAIN topics /\ k \in DOMAIN topics[n].parts /\ changes[i][2] = <<n, k>>
    BY <1>1, <1>8 DEF Refused, HasPart, Existing
  <2>2. Of(n, k) = {i}
    <3>1. i \in Of(n, k)
      BY <1>8, <2>1
    <3>2. ASSUME NEW j \in Of(n, k) PROVE j = i
      <4>1. j \in DOMAIN changes /\ changes[j][2] = changes[i][2]
        BY <2>1, <3>2
      <4> QED
        BY <1>1, <4>1 DEF IsInjective
    <3> QED
      BY <3>1, <3>2
  <2>3. Moved(n, k) = After(changes[i], topics[n].parts[k])
    BY <2>2
  <2> HIDE DEF Moved
  <2>4. topics'[n].parts = parts(n)
    BY <1>2, <1>6, <2>1
  <2>5. parts(n)[k] = Moved(n, k)
    BY <2>1 DEF parts
  <2> QED
    BY <1>3, <2>3, <2>4, <2>5 DEF Part
<1> QED
  BY <1>7, <1>8

(* What others do to the topics keeps their shape. *)
LEMMA OthersKeepShape ==
    ASSUME ClusterShape, OthersMove
    PROVE  ClusterShape'
<1>1. ask' = ask
  BY DEF OthersMove, Others, reqVars
<1>2. PICK n \in Range(Names) :
       \/ /\ ~ Existing(n)
          /\ topics' = With(topics, n, Created([partitions |-> 1, rf |-> 1, config |-> <<>>], 1))
       \/ Existing(n) /\ topics' = Restrict(topics, DOMAIN topics \ {n})
       \/ /\ Existing(n)
          /\ \E k \in Keys \ Sensitive, v \in {"1", "2"} : topics' = [topics EXCEPT ![n].config = With(@, k, v)]
       \/ /\ Existing(n)
          /\ \E i \in DOMAIN topics[n].parts :
                /\ topics[n].parts[i].end < MaxEnd
                /\ topics' = [topics EXCEPT ![n].parts[i].end = @ + 1]
       \/ /\ Existing(n) /\ Len(topics[n].parts) = 1
          /\ topics' = [topics EXCEPT ![n].parts = Append(@, [@[1] EXCEPT !.end = 0])]
  BY DEF OthersMove
<1> DEFINE t == topics[n]
<1>3. CASE topics' = With(topics, n, Created([partitions |-> 1, rf |-> 1, config |-> <<>>], 1))
  <2> DEFINE def == [partitions |-> 1, rf |-> 1, config |-> <<>>]
  <2>1. def.partitions \in Nat /\ def.rf \in Nat /\ def.rf = 1
    OBVIOUS
  <2> HIDE DEF def
  <2>2. HasShape(Created(def, 1))
    BY <2>1, CreatedIs DEF HasShape
  <2>3. topics' = With(topics, n, Created(def, 1))
    BY <1>3 DEF def
  <2> QED
    BY <1>1, <2>2, <2>3, OneChanges
<1>4. CASE topics' = Restrict(topics, DOMAIN topics \ {n})
  BY <1>1, <1>4, OneGoes
<1>5. ASSUME Existing(n) PROVE t.parts \in Seq(Partition) /\ HasShape(t) /\ n \in DOMAIN topics
  BY <1>5 DEF ClusterShape, HasShape, IsTopic, Existing
<1>6. ASSUME Existing(n), NEW k, NEW v, topics' = [topics EXCEPT ![n].config = With(@, k, v)] PROVE ClusterShape'
  <2> DEFINE u == [t EXCEPT !.config = With(@, k, v)]
  <2>1. u = [t EXCEPT !.config = With(t.config, k, v)]
    BY <1>5, <1>6 DEF HasShape, IsTopic
  <2>2. topics' = [topics EXCEPT ![n] = u]
    BY <1>6
  <2> HIDE DEF u
  <2>3. HasShape(u)
    BY <1>5, <1>6, <2>1, Reconfigured
  <2> QED
    BY <1>1, <1>5, <1>6, <2>2, <2>3, OneChanges
<1>7. ASSUME Existing(n), NEW i \in DOMAIN t.parts, topics' = [topics EXCEPT ![n].parts[i].end = @ + 1] PROVE ClusterShape'
  <2> DEFINE p == t.parts[i]
             q == [t.parts EXCEPT ![i] = [p EXCEPT !.end = @ + 1]]
             u == [t EXCEPT !.parts = q]
  <2>1. p \in Partition
    BY <1>5, <1>7
  <2>2. [p EXCEPT !.end = @ + 1] \in Partition /\ [p EXCEPT !.end = @ + 1].replicas = p.replicas
    <3>1. p.end + 1 \in Int
      BY <2>1 DEF Partition
    <3>2. [p EXCEPT !.end = @ + 1] = [p EXCEPT !.end = p.end + 1]
      OBVIOUS
    <3> HIDE DEF p
    <3> QED
      BY <2>1, <3>1, <3>2, PartEnds
  <2>3. q \in Seq(Partition) /\ \A j \in DOMAIN q : j \in DOMAIN t.parts /\ q[j].replicas = t.parts[j].replicas
    <3> DEFINE r == [p EXCEPT !.end = @ + 1]
    <3>1. r \in Partition /\ r.replicas = t.parts[i].replicas
      BY <2>2
    <3> HIDE DEF r, p
    <3> QED
      BY <1>5, <1>7, <3>1 DEF r
  <2>4. topics' = [topics EXCEPT ![n] = u]
    BY <1>5, <1>7
  <2> HIDE DEF q
  <2>5. HasShape(u)
    BY <1>5, <1>7, <2>3, Reshaped DEF HasShape
  <2> HIDE DEF u
  <2> QED
    BY <1>1, <1>5, <1>7, <2>4, <2>5, OneChanges
<1>8. ASSUME Existing(n), Len(t.parts) = 1, topics' = [topics EXCEPT ![n].parts = Append(@, [@[1] EXCEPT !.end = 0])]
      PROVE  ClusterShape'
  <2> DEFINE p == t.parts[1]
             r == [p EXCEPT !.end = 0]
             q == Append(t.parts, r)
             u == [t EXCEPT !.parts = q]
  <2>1. p \in Partition /\ 1 \in DOMAIN t.parts
    BY <1>5, <1>8
  <2>2. r \in Partition /\ r.replicas = t.parts[1].replicas
    <3>1. r \in Partition /\ r.replicas = p.replicas
      <4> HIDE DEF p
      <4> QED
        BY <2>1, PartEnds
    <3> QED
      BY <3>1
  <2>3. topics' = [topics EXCEPT ![n] = u]
    BY <1>5, <1>8
  <2> HIDE DEF r
  <2>4. /\ q \in Seq(Partition)
        /\ \A j \in DOMAIN q : q[j].replicas = t.parts[1].replicas
    BY <1>5, <1>8, <2>2
  <2> HIDE DEF q
  <2>5. HasShape(u)
    BY <1>5, <1>8, <2>1, <2>4, Reshaped DEF HasShape
  <2> HIDE DEF u
  <2> QED
    BY <1>1, <1>5, <1>8, <2>3, <2>5, OneChanges
<1> QED
  BY <1>2, <1>3, <1>4, <1>6, <1>7, <1>8

(* So does the failure of a broker. *)
LEMMA FailureKeepsShape ==
    ASSUME ClusterShape, NEW b \in Brokers, BrokerFails(b)
    PROVE  ClusterShape'
<1>1. ask' = ask
  BY DEF BrokerFails, Others, reqVars
<1> DEFINE parts(n) == [i \in DOMAIN topics[n].parts |-> Deprived(topics[n].parts[i], b)]
<1>2. topics' = [n \in DOMAIN topics |-> [topics[n] EXCEPT !.parts = parts(n)]]
  BY DEF BrokerFails
<1>3. ASSUME NEW p \in Partition PROVE Deprived(p, b) \in Partition /\ Deprived(p, b).replicas = p.replicas
  BY PartFails
<1>4. ASSUME NEW n \in DOMAIN topics PROVE HasShape([topics[n] EXCEPT !.parts = parts(n)])
  <2> DEFINE t == topics[n]
             q == parts(n)
  <2>1. HasShape(t) /\ t.parts \in Seq(Partition)
    BY DEF ClusterShape, HasShape, IsTopic
  <2>2. q = [k \in DOMAIN t.parts |-> q[k]] /\ DOMAIN q = DOMAIN t.parts
    OBVIOUS
  <2>3. \A k \in DOMAIN t.parts : q[k] \in Partition /\ q[k].replicas = t.parts[k].replicas
    BY <1>3, <2>1
  <2> HIDE DEF q
  <2>4. q \in Seq(Partition)
    BY <2>1, <2>2, <2>3, PartsAre
  <2>5. \A i \in DOMAIN q : ask.id = "C9" => q[i].replicas # <<>>
    BY <2>1, <2>2, <2>3 DEF HasShape
  <2> HIDE DEF t
  <2>6. HasShape([t EXCEPT !.parts = q])
    BY <2>1, <2>4, <2>5, Reshaped
  <2> QED
    BY <2>6 DEF q, t
<1> HIDE DEF parts
<1> QED
  BY <1>1, <1>2, <1>4 DEF ClusterShape, HasShape

-----------------------------------------------------------------------------
(* What an import asks for. *)
LEMMA WantedIs ==
    ASSUME ask \in Asks, ask.id = "C12"
    PROVE  \A n \in DOMAIN ask.wanted :
              /\ n \in Range(Names)
              /\ ask.wanted[n].partitions \in Nat /\ ask.wanted[n].rf \in Nat
BY ClusterAssumption DEF ClusterIds, IsClusterAsk

(* The change that comes next is one of the plan. *)
LEMMA ChangeIs ==
    ASSUME RightPlan(plan.changes), ImportItems, Len(seen.items) < Len(plan.changes)
    PROVE  Len(seen.items) + 1 \in DOMAIN plan.changes /\ IsChange(Change)
<1>1. Len(seen.items) \in Nat /\ Len(plan.changes) \in Nat /\ DOMAIN plan.changes = 1..Len(plan.changes)
  BY DEF RightPlan, ImportItems
<1>2. Len(seen.items) + 1 \in DOMAIN plan.changes
  BY <1>1
<1> QED
  BY <1>2 DEF RightPlan, Change

(* A change that is made keeps the shape of the topics, and sets what it   *)
(* is to set.                                                              *)
LEMMA ImportOneDoes ==
    ASSUME ask \in Asks, ask.id = "C12", ClusterShape, IsChange(Change), ImportOne
    PROVE  /\ ClusterShape'
           /\ \A n \in DOMAIN ask.wanted : \A k \in DOMAIN ask.wanted[n].config : Sets(Change, n, k) =>
                  n \in DOMAIN topics' /\ Effective(topics'[n].config, k) = ask.wanted[n].config[k]
<1> DEFINE c == Change
           n == c[2]
<1>1. ask' = ask /\ (Existing(n) <=> c[1] # "create") /\ topics' = Effect(n)
  BY DEF ImportOne, Importing, Applying, At
<1>2. IsChange(c)
  OBVIOUS
<1>3. CASE c[1] = "create"
  <2>1. n \in DOMAIN ask.wanted /\ c[3] = ask.wanted[n]
    BY <1>2, <1>3 DEF IsChange
  <2> DEFINE t == Created(c[3], 1)
  <2>2. topics' = With(topics, n, t)
    BY <1>1, <1>3 DEF Effect
  <2>3. HasShape(t) /\ t.config = ask.wanted[n].config /\ n \in Range(Names)
    <3> DEFINE def == c[3]
    <3>1. def.partitions \in Nat /\ def.rf \in Nat /\ n \in Range(Names)
      BY <2>1, WantedIs
    <3> HIDE DEF def
    <3>2. IsTopic(Created(def, 1)) /\ Created(def, 1).config = def.config
      BY <3>1, CreatedIs
    <3> QED
      BY <2>1, <3>1, <3>2 DEF HasShape, def
  <2> HIDE DEF t, c
  <2>4. ClusterShape'
    BY <1>1, <2>2, <2>3, OneChanges
  <2>5. n \in DOMAIN topics' /\ topics'[n] = t
    BY <2>2 DEF With
  <2>6. \A x, k : Sets(c, x, k) => x = n
    BY DEF Sets
  <2>7. \A k \in DOMAIN ask.wanted[n].config : Effective(t.config, k) = ask.wanted[n].config[k]
    BY <2>3 DEF Effective
  <2> QED
    BY <2>4, <2>5, <2>6, <2>7 DEF c
<1>4. CASE c[1] = "alter"
  <2>1. /\ n \in DOMAIN ask.wanted /\ c[3].reset = {}
        /\ \A k \in DOMAIN c[3].set : c[3].set[k] = ask.wanted[n].config[k]
    BY <1>2, <1>4 DEF IsChange
  <2> DEFINE config == Altered(topics[n].config, c[3])
             t == [topics[n] EXCEPT !.config = config]
  <2>2. n \in DOMAIN topics /\ HasShape(topics[n]) /\ n \in Range(Names)
    BY <1>1, <1>4 DEF Existing, ClusterShape
  <2>3. topics' = [topics EXCEPT ![n] = t]
    <3>1. topics' = [topics EXCEPT ![n].config = Altered(@, c[3])]
      BY <1>1, <1>4 DEF Effect
    <3> QED
      BY <2>2, <3>1
  <2>4. \A k \in DOMAIN c[3].set : Effective(config, k) = ask.wanted[n].config[k]
    <3> SUFFICES ASSUME NEW k \in DOMAIN c[3].set PROVE Effective(config, k) = ask.wanted[n].config[k]
      OBVIOUS
    <3>1. k \in DOMAIN config /\ config[k] = c[3].set[k]
      BY <2>1 DEF Altered, Amended
    <3> HIDE DEF config
    <3> QED
      BY <2>1, <3>1 DEF Effective
  <2> HIDE DEF config
  <2>5. HasShape(t) /\ t.config = config
    BY <2>2, Reconfigured
  <2> HIDE DEF t, c
  <2>6. ClusterShape'
    BY <1>1, <2>2, <2>3, <2>5, OneChanges
  <2>7. n \in DOMAIN topics' /\ topics'[n].config = config
    BY <2>2, <2>3, <2>5
  <2>8. \A x, k : Sets(c, x, k) => x = n /\ k \in DOMAIN c[3].set
    BY <1>4 DEF Sets
  <2> QED
    BY <2>4, <2>6, <2>7, <2>8 DEF c
<1>5. CASE c[1] = "delete"
  <2>1. topics' = Restrict(topics, DOMAIN topics \ {n})
    BY <1>1, <1>5 DEF Effect
  <2> HIDE DEF c
  <2>2. ClusterShape'
    BY <1>1, <2>1, OneGoes
  <2>3. \A x, k : ~ Sets(c, x, k)
    BY <1>5 DEF Sets
  <2> QED
    BY <2>2, <2>3 DEF c
<1> QED
  BY <1>2, <1>3, <1>4, <1>5 DEF IsChange

(* The topics keep their shape. *)
LEMMA ShapeKept ==
    ASSUME ClusterInv, [Next]_vars
    PROVE  ClusterShape'
<1>1. ask' = ask /\ ask \in Asks
  BY QuietKept DEF ClusterInv, Base
<1>2. CASE topics' = topics
  BY <1>1, <1>2 DEF ClusterInv, ClusterShape, HasShape
<1>3. CASE MovePartitions
  <2>1. ask.id = "C9" /\ pc = "apply"
    BY <1>3 DEF MovePartitions, Applying, At
  <2> QED
    BY <1>1, <1>3, <2>1, MovesAre DEF ClusterInv, ClusterFound
<1>4. CASE ImportOne
  <2>1. ask.id = "C12" /\ pc = "apply" /\ Len(seen.items) < Len(plan.changes)
    BY <1>4 DEF ImportOne, Importing, Applying, At
  <2> QED
    BY <1>1, <1>4, <2>1, ChangeIs, ImportOneDoes DEF ClusterInv, ClusterFound
<1> QED
  BY <1>2, <1>3, <1>4, OthersKeepShape, FailureKeepsShape, TopicsChange DEF ClusterInv

(* What was found stays found, since the history only grows. *)
LEMMA ClusterFoundKept ==
    ASSUME Base, [Next]_vars
    PROVE  /\ ask' = ask
           /\ \A n, k : WasSet(n, k) => WasSet(n, k)'
           /\ \A n, config : HadConfig(n, config) => HadConfig(n, config)'
           /\ BrokerWas => BrokerWas'
<1>1. /\ \A i \in DOMAIN past : i \in DOMAIN past' /\ past'[i] = past[i]
      /\ ask' = ask
  BY PastGrows, QuietKept DEF Base
<1>2. \A n, k : WasSet(n, k) => WasSet(n, k)'
  BY <1>1 DEF WasSet
<1>3. \A n, config : HadConfig(n, config) => HadConfig(n, config)'
  BY <1>1 DEF HadConfig
<1>4. BrokerWas => BrokerWas'
  BY <1>1 DEF BrokerWas
<1> QED
  BY <1>1, <1>2, <1>3, <1>4

(* So a plan stays right. *)
LEMMA RightPlanKept ==
    ASSUME Base, [Next]_vars, NEW changes, RightPlan(changes)
    PROVE  RightPlan(changes)'
<1>1. ask' = ask /\ \A n, k : WasSet(n, k) => WasSet(n, k)'
  BY ClusterFoundKept
<1>2. \A c : IsChange(c) => IsChange(c)'
  BY <1>1 DEF IsChange
<1>3. \A n, k : WantedEmpty(n, k) => WantedEmpty(n, k)'
  BY <1>1 DEF WantedEmpty
<1>4. \A c, n, k : Sets(c, n, k) => Sets(c, n, k)'
  BY DEF Sets
<1> QED
  BY <1>1, <1>2, <1>3, <1>4 DEF RightPlan

(* And an item that answers for a change does so ever after. *)
LEMMA ItemKept ==
    ASSUME Base, [Next]_vars, done \subseteq done', NEW e, NEW c, ItemOf(e, c)
    PROVE  ItemOf(e, c)'
<1>1. ask' = ask /\ \A n, k : WasSet(n, k) => WasSet(n, k)'
  BY ClusterFoundKept
<1>2. Action(c)' = Action(c)
  BY <1>1 DEF Action
<1>3. \A n, k : Sets(c, n, k)' => Sets(c, n, k)
  BY DEF Sets
<1> QED
  BY <1>1, <1>2, <1>3 DEF ItemOf

(* As long as nothing is added, plan and items stay right together. *)
LEMMA ItemsKept ==
    ASSUME Base, [Next]_vars, RightPlan(plan.changes), ImportItems,
           plan' = plan, seen' = seen, done' = done
    PROVE  RightPlan(plan.changes)' /\ ImportItems'
<1> DEFINE changes == plan.changes
<1>1. ask' = ask
  BY ClusterFoundKept
<1>2. RightPlan(changes)'
  <2> SUFFICES ASSUME NEW x, x = changes, RightPlan(x) PROVE RightPlan(x)'
    OBVIOUS
  <2> QED
    BY RightPlanKept
<1>3. \A e, c : ItemOf(e, c) => ItemOf(e, c)'
  BY ItemKept
<1>4. ImportItems'
  BY <1>1, <1>3 DEF ImportItems
<1> QED
  BY <1>2, <1>4

(* One item more, for the next change. *)
LEMMA OneMore ==
    ASSUME Base, [Next]_vars, RightPlan(plan.changes), ImportItems, Len(seen.items) < Len(plan.changes),
           plan' = plan, done \subseteq done',
           NEW e, seen'.items = Append(seen.items, e),
           NEW c, c = Change, ItemOf(e, c)',
           \A d \in done' \ done : d = <<e[1], e[2]>> /\ (d[1] = "delete" => d[2] \notin DOMAIN ask.wanted /\ ask.allowDelete)
    PROVE  ImportItems'
<1> DEFINE items == seen.items
           more == seen'.items
           changes == plan.changes
<1>1. ask' = ask
  BY ClusterFoundKept
<1>2. Len(items) \in Nat /\ Len(changes) \in Nat /\ items \in Seq(Range(items)) /\ DOMAIN items = 1..Len(items)
  BY DEF RightPlan, ImportItems
<1>3. /\ Len(more) = Len(items) + 1 /\ DOMAIN more = 1..(Len(items) + 1)
      /\ more[Len(items) + 1] = e /\ \A i \in 1..Len(items) : more[i] = items[i]
      /\ more \in Seq(Range(items) \cup {e})
  <2> DEFINE S == Range(items) \cup {e}
  <2>1. items \in Seq(S) /\ e \in S
    BY <1>2
  <2> HIDE DEF S
  <2>2. /\ Len(Append(items, e)) = Len(items) + 1 /\ DOMAIN Append(items, e) = 1..(Len(items) + 1)
        /\ Append(items, e)[Len(items) + 1] = e /\ \A i \in 1..Len(items) : Append(items, e)[i] = items[i]
        /\ Append(items, e) \in Seq(S)
    BY <2>1
  <2> QED
    BY <2>2 DEF S
<1>4. more \in Seq(Range(more))
  <2> HIDE DEF more
  <2> QED
    BY <1>3, SeqOfRange
<1>5. ASSUME NEW i \in DOMAIN more, NEW x, x = more[i], NEW y, y = changes[i]
      PROVE  ItemOf(x, y)'
  <2>1. CASE i \in 1..Len(items)
    <3>1. x = items[i] /\ i \in DOMAIN items
      BY <1>2, <1>3, <1>5, <2>1
    <3>2. ItemOf(x, y)
      BY <1>5, <3>1 DEF ImportItems
    <3> QED
      BY <3>2, ItemKept
  <2>2. CASE i = Len(items) + 1
    <3>1. x = e /\ y = c
      BY <1>3, <1>5, <2>2 DEF Change
    <3> QED
      BY <3>1
  <2> QED
    BY <1>2, <1>3, <1>5, <2>1, <2>2
<1>6. ASSUME NEW d \in done'
      PROVE  /\ \E i \in DOMAIN more : <<more[i][1], more[i][2]>> = d
             /\ d[1] = "delete" => d[2] \notin DOMAIN ask.wanted /\ ask.allowDelete
  <2>1. CASE d \in done
    <3>1. PICK i \in DOMAIN items : <<items[i][1], items[i][2]>> = d
      BY <2>1 DEF ImportItems
    <3>2. i \in DOMAIN more /\ more[i] = items[i]
      BY <1>2, <1>3, <3>1
    <3>3. d[1] = "delete" => d[2] \notin DOMAIN ask.wanted /\ ask.allowDelete
      BY <2>1 DEF ImportItems
    <3> QED
      BY <3>1, <3>2, <3>3
  <2>2. CASE d \notin done
    <3>1. Len(items) + 1 \in DOMAIN more
      BY <1>2, <1>3
    <3> QED
      BY <1>3, <1>6, <2>2, <3>1
  <2> QED
    BY <2>1, <2>2
<1>7. Len(more) <= Len(changes)
  BY <1>2, <1>3
<1>8. \A i \in DOMAIN more : \A x, y : x = more[i] /\ y = changes[i] => ItemOf(x, y)'
  BY <1>5
<1> HIDE DEF more, changes
<1>9. \A i \in DOMAIN seen'.items : \A x, y : x = seen'.items[i] /\ y = plan'.changes[i] => ItemOf(x, y)'
  BY <1>8 DEF more, changes
<1> QED
  BY <1>1, <1>4, <1>6, <1>7, <1>9 DEF ImportItems, more, changes

(* What an import that is over tells. *)
Finished ==
    /\ RightPlan(plan.changes) /\ ImportItems
    /\ Len(seen.items) = Len(plan.changes) /\ reply.value = seen.items

(* That is right: every change is answered for. *)
LEMMA FinishedTells == Finished => ImportAsTold
<1> SUFFICES ASSUME Finished PROVE ImportAsTold
  OBVIOUS
<1> DEFINE items == seen.items
           changes == plan.changes
           Failed(n) == \E i \in DOMAIN items : items[i][2] = n /\ ~ items[i][3]
<1>1. DOMAIN items = DOMAIN changes
  BY DEF Finished, RightPlan, ImportItems
<1>2. ASSUME NEW i \in DOMAIN items
      PROVE  /\ items[i][2] = changes[i][2]
             /\ items[i][1] = IF changes[i][1] = "delete" /\ ~ ask.allowDelete THEN "skipped" ELSE changes[i][1]
             /\ items[i][3] /\ items[i][1] # "skipped" => <<items[i][1], items[i][2]>> \in done
  <2>1. ItemOf(items[i], changes[i])
    BY DEF Finished, ImportItems
  <2> HIDE DEF items, changes
  <2> QED
    BY <2>1 DEF ItemOf, Action
<1>3. ASSUME NEW n \in DOMAIN ask.wanted, ~ Failed(n), NEW k \in DOMAIN ask.wanted[n].config
      PROVE  WasSet(n, k) \/ WantedEmpty(n, k)
  <2>1. WasSet(n, k) \/ WantedEmpty(n, k) \/ \E i \in DOMAIN changes : Sets(changes[i], n, k)
    BY DEF Finished, RightPlan
  <2>2. ASSUME NEW i \in DOMAIN changes, Sets(changes[i], n, k) PROVE WasSet(n, k)
    <3>1. ItemOf(items[i], changes[i])
      BY <1>1, <2>2 DEF Finished, ImportItems
    <3>2. changes[i][2] = n /\ changes[i][1] \in {"create", "alter"}
      BY <2>2 DEF Sets
    <3>3. items[i][1] = changes[i][1] /\ items[i][2] = n
      BY <3>1, <3>2 DEF ItemOf, Action
    <3>4. items[i][3]
      BY <1>1, <1>3, <2>2, <3>3
    <3>5. items[i][1] # "skipped"
      BY <3>2, <3>3
    <3> HIDE DEF items, changes
    <3> QED
      BY <2>2, <3>1, <3>3, <3>4, <3>5 DEF ItemOf
  <2> QED
    BY <2>1, <2>2
<1>4. \A d \in done :
          /\ \E i \in DOMAIN items : <<items[i][1], items[i][2]>> = d
          /\ d[1] = "delete" => d[2] \notin DOMAIN ask.wanted /\ ask.allowDelete
  BY DEF Finished, ImportItems
<1>5. reply.value = items
  BY DEF Finished
<1> HIDE DEF items, changes
<1> QED
  BY <1>1, <1>2, <1>3, <1>4, <1>5 DEF ImportAsTold, WantedEmpty, changes

(* No success, nothing to keep of what it says. *)
LEMMA NothingApplied == Quiet /\ NoSuccess => AppliedAsTold
BY DEF AppliedAsTold, Quiet, NoSuccess, SecurityIds

(* Nor has a step that does not answer. *)
LEMMA EndsOrGoesOn ==
    ASSUME Base', NoSuccess' \/ pc' # "done"
    PROVE  AppliedAsTold'
<1>1. Quiet' /\ NoSuccess' => AppliedAsTold'
  BY NothingApplied, PTL
<1> QED
  BY <1>1 DEF Base, Quiet, NoSuccess

(* A request of another kind applies nothing. *)
LEMMA OtherRequests ==
    ASSUME Quiet', ask'.id \notin {"C5", "C9", "C12"}
    PROVE  ClusterFound' /\ AppliedAsTold'
BY DEF ClusterFound, AppliedAsTold, Quiet, SecurityIds

-----------------------------------------------------------------------------
(* The steps of a request that changes the cluster.  Which of them are its *)
(* own is told by the call it is at.                                       *)
LEMMA StepsOfRequest ==
    ASSUME Path, ClusterStep
    PROVE  /\ ask.id = "C5" => Handle \/ PlanBrokerConfig \/ AlterBroker \/ Reread
           /\ ask.id = "C9" => Handle \/ MovePartitions
           /\ ask.id = "C12" => Handle \/ List \/ DescribeNext \/ PlanImport \/ SkipDelete \/ ImportOne
                                \/ ImportFails \/ Imported
<1> USE DEF Path, Reading, Applying, At
<1>1. ASSUME ReadOnce \/ Sample("first") \/ Sample("last") \/ Pause \/ Throughput \/ Export
      PROVE  ask.id \notin {"C5", "C9", "C12"}
  BY <1>1 DEF ReadOnce, Sample, Pause, Throughput, Export
<1>2. PlanBrokerConfig => ask.id \notin {"C9", "C12"}
  BY DEF PlanBrokerConfig
<1>3. /\ AlterBroker \/ Reread => ask.id = "C5"
      /\ MovePartitions => ask.id = "C9"
      /\ SkipDelete \/ ImportOne \/ ImportFails \/ Imported => ask.id = "C12"
  BY DEF AlterBroker, Reread, MovePartitions, SkipDelete, ImportOne, ImportFails, Imported, Importing
<1>4. List \/ DescribeNext \/ PlanImport => ask.id \notin {"C5", "C9"}
  BY DEF List, DescribeNext, PlanImport
<1> QED
  BY <1>1, <1>2, <1>3, <1>4 DEF ClusterStep

(* Gates and failures find nothing, and change nothing. *)
LEMMA SharedApplies ==
    ASSUME ClusterInv, [Next]_vars, SharedStep
    PROVE  ClusterFound' /\ AppliedAsTold'
<1>1. /\ ask' = ask /\ Base' /\ (BrokerWas => BrokerWas')
      /\ plan' = plan /\ seen' = seen /\ done' = done
  BY BaseKept, ClusterFoundKept DEF ClusterInv, SharedStep, Confirm, Attempt, CallFails
<1>2. /\ reply'.code # "ok"
      /\ pc' = "done" \/ (pc \in {"confirm", "attempt"} /\ pc' \in {"attempt", "apply"})
  <2>1. pc # "done" => reply.code = ""
    BY DEF ClusterInv, Base, Quiet
  <2>2. CASE Confirm
    <3>1. CASE ask.dryRun
      BY <2>2, <3>1, ReplyIs DEF Confirm, At
    <3>2. CASE ~ ask.dryRun /\ ask.confirm # plan.target
      BY <2>2, <3>2, ReplyIs DEF Confirm, At
    <3>3. CASE ~ ask.dryRun /\ ask.confirm = plan.target
      BY <2>1, <2>2, <3>3 DEF Confirm, At, Goto
    <3> QED
      BY <3>1, <3>2, <3>3
  <2>3. CASE Attempt
    <3>1. CASE Goto("apply")
      BY <2>1, <2>3, <3>1 DEF Attempt, At, Goto
    <3>2. CASE Reply("AuditUnavailable", <<>>)
      BY <2>3, <3>2 DEF Attempt, At, Reply
    <3> QED
      BY <2>3, <3>1, <3>2 DEF Attempt
  <2>4. CASE CallFails
    BY <2>4 DEF CallFails, Reply
  <2> QED
    BY <2>2, <2>3, <2>4 DEF SharedStep
<1>3. CASE ask.id \in {"C5", "C9"}
  <2>1. ClusterFound'
    BY <1>1, <1>2, <1>3 DEF ClusterInv, ClusterFound
  <2> QED
    BY <1>1, <1>2, <2>1, EndsOrGoesOn DEF NoSuccess
<1>4. CASE ask.id = "C12"
  <2>1. SeenShape'
    BY <1>1, <1>4 DEF ClusterInv, ClusterFound, SeenShape
  <2>2. pc' \in {"attempt", "apply"} => RightPlan(plan.changes)' /\ ImportItems'
    BY <1>1, <1>2, <1>4, ItemsKept DEF ClusterInv, ClusterFound
  <2>3. pc' = "attempt" => seen'.items = <<>>
    BY <1>1, <1>2, <1>4 DEF ClusterInv, ClusterFound
  <2>4. ClusterFound'
    BY <1>1, <1>2, <1>4, <2>1, <2>2, <2>3 DEF ClusterFound
  <2> QED
    BY <1>1, <1>2, <2>4, EndsOrGoesOn DEF NoSuccess
<1> QED
  BY <1>1, <1>3, <1>4, OtherRequests DEF Base

(* What others do leaves what was found and read. *)
LEMMA FoundStays ==
    ASSUME ClusterInv, [Next]_vars, UNCHANGED <<ask, pc, seen, plan, reply, done>>
    PROVE  ClusterFound'
<1>1. (BrokerWas => BrokerWas') /\ \A n, config : HadConfig(n, config) => HadConfig(n, config)'
  BY ClusterFoundKept DEF ClusterInv
<1>2. ImportSeen => ImportSeen'
  BY <1>1 DEF ImportSeen
<1>3. RightPlan(plan.changes) /\ ImportItems => RightPlan(plan.changes)' /\ ImportItems'
  BY ItemsKept DEF ClusterInv
<1>4. SeenShape => SeenShape'
  BY DEF SeenShape
<1> QED
  BY <1>1, <1>2, <1>3, <1>4 DEF ClusterInv, ClusterFound

(* And they answer nothing. *)
LEMMA OthersApply ==
    ASSUME ClusterInv, [Next]_vars, ClusterOthers \/ SecurityOthers
    PROVE  ClusterFound' /\ AppliedAsTold'
<1>1. UNCHANGED <<ask, pc, seen, plan, reply, done>> /\ pc # "done" /\ Base'
  BY OthersLeave, BaseKept DEF ClusterInv
<1> QED
  BY <1>1, FoundStays, EndsOrGoesOn

(* C9: the plan is what was asked for, and what is told of each move was   *)
(* found when it was made.                                                 *)
LEMMA MovesFind ==
    ASSUME ClusterInv, [Next]_vars, ask.id = "C9", ClusterStep
    PROVE  ClusterFound' /\ AppliedAsTold'
<1>1. Base' /\ ask' = ask /\ ask \in Asks
  BY BaseKept, QuietKept DEF ClusterInv, Base
<1>2. CASE Handle
  <2>1. plan'.changes = ask.moves /\ pc' = "confirm"
    BY <1>2 DEF Handle, Planning, Planned, Goto
  <2>2. ClusterFound'
    BY <1>1, <2>1 DEF ClusterFound
  <2> QED
    BY <1>1, <2>1, <2>2, EndsOrGoesOn
<1>3. CASE MovePartitions
  <2> DEFINE changes == plan.changes
             ok == [i \in DOMAIN changes |-> ~ Refused(changes[i])]
             P == [i \in DOMAIN changes |-> Part(changes[i][2])']
  <2>1. plan' = plan /\ pc' = "done" /\ pc = "apply" /\ plan.changes = ask.moves
    BY <1>3, ReplyIs DEF MovePartitions, Applying, At, ClusterInv, ClusterFound
  <2>2. ClusterFound'
    BY <1>1, <2>1 DEF ClusterFound
  <2>3. CASE reply'.code # "ok"
    BY <1>1, <2>2, <2>3, EndsOrGoesOn DEF NoSuccess
  <2>4. CASE reply'.code = "ok"
    <3>1. reply'.value = Items(changes, ok)
      BY <1>3, <2>4, ReplyIs DEF MovePartitions, Reply
    <3>2. done' = {m \in Range(changes) : ~ Refused(m)}
      BY <1>3 DEF MovePartitions
    <3>3. ASSUME NEW i \in DOMAIN changes
          PROVE  LET m == changes[i]
                     p == topics'[m[2][1]].parts[m[2][2]]
                 IN  /\ reply'.value[i] = <<m[1], m[2], m \in done'>>
                     /\ reply'.value[i][3] =>
                           CASE m[1] = "reassign" -> p.replicas = m[3]
                             [] m[1] = "cancel" -> p.adding \cup p.removing = {}
                             [] OTHER -> p.leader \in Range(p.replicas)
      <4> DEFINE m == changes[i]
                 was == Part(m[2])
                 p == topics'[m[2][1]].parts[m[2][2]]
                 moved == ~ Refused(m)
                 isDone == m \in done'
                 Told(x) == CASE m[1] = "reassign" -> x.replicas = m[3]
                              [] m[1] = "cancel" -> x.adding \cup x.removing = {}
                              [] OTHER -> x.leader \in Range(x.replicas)
      <4>1. reply'.value[i] = <<m[1], m[2], moved>>
        BY <3>1 DEF Items
      <4>2. moved = isDone
        BY <3>2 DEF Range
      <4>3. ASSUME moved PROVE Told(p)
        <5>1. p = After(m, was)
          BY <1>1, <1>3, <2>1, <4>3, MovesAre DEF ClusterInv, Part
        <5>2. HasPart(m[2])
          BY <4>3 DEF Refused
        <5>3. was \in Partition /\ was.replicas # <<>>
          BY <5>2 DEF HasPart, Existing, Part, ClusterInv, ClusterShape, HasShape, IsTopic
        <5>4. m[3] \in Seq(Int)
          BY <1>1, <2>1, ClusterAssumption DEF ClusterIds, IsClusterAsk
        <5>5. m[1] = "reassign" => m[3] # <<>>
          BY <4>3 DEF Refused
        <5> HIDE DEF m, was, p
        <5> QED
          BY <5>1, <5>3, <5>4, <5>5, AfterIs
      <4> HIDE DEF moved, isDone
      <4>4. reply'.value[i] = <<m[1], m[2], isDone>> /\ (reply'.value[i][3] => moved)
        BY <4>1, <4>2
      <4> HIDE DEF Told
      <4>5. reply'.value[i] = <<m[1], m[2], m \in done'>>
        BY <4>4 DEF isDone
      <4>6. reply'.value[i][3] => Told(p)
        BY <4>3, <4>4
      <4> QED
        BY <4>5, <4>6 DEF Told
    <3>4. MovesAsTold'
      <4>1. plan'.changes = changes
        BY <2>1
      <4> QED
        BY <3>3, <4>1 DEF MovesAsTold, Part
    <3> QED
      BY <1>1, <2>2, <2>4, <3>4 DEF AppliedAsTold
  <2> QED
    BY <2>3, <2>4
<1> QED
  BY <1>2, <1>3, StepsOfRequest DEF ClusterInv

(* C5: what is altered is in effect, and what is told was so then or after. *)
LEMMA BrokerFinds ==
    ASSUME ClusterInv, [Next]_vars, ask.id = "C5", ClusterStep
    PROVE  ClusterFound' /\ AppliedAsTold'
<1>1. Base' /\ ask' = ask /\ (BrokerWas => BrokerWas')
  BY BaseKept, ClusterFoundKept DEF ClusterInv
<1>2. /\ Len(past') \in DOMAIN past' /\ past'[Len(past')].configs = configs'
      /\ \A i \in DOMAIN past : i \in DOMAIN past' /\ past'[i] = past[i] /\ i <= Len(past')
  BY PastGrows DEF ClusterInv, Base, Now
<1>3. CASE pc' \notin {"reread", "done"}
  BY <1>1, <1>3, EndsOrGoesOn DEF ClusterFound
<1>4. CASE pc' = "done" /\ reply'.code # "ok"
  BY <1>1, <1>4, EndsOrGoesOn DEF ClusterFound, NoSuccess
<1>5. CASE Handle
  <2>1. pc' = "current"
    BY <1>5 DEF Handle, Goto
  <2> QED
    BY <1>3, <2>1
<1>6. CASE PlanBrokerConfig
  <2>1. pc' = "confirm" \/ (pc' = "done" /\ reply'.code = "NotFound")
    BY <1>6, ReplyIs DEF PlanBrokerConfig, Planning, Goto
  <2> QED
    BY <1>3, <1>4, <2>1
<1>7. CASE AlterBroker
  <2>1. CASE ~ Known(ask.broker)
    <3>1. pc' = "done" /\ reply'.code = "NotFound"
      BY <1>7, <2>1, ReplyIs DEF AlterBroker
    <3> QED
      BY <1>4, <3>1
  <2>2. CASE Known(ask.broker)
    <3>1. configs' = [configs EXCEPT ![ask.broker] = Altered(@, ask.change)]
      BY <1>7, <2>2 DEF AlterBroker
    <3>2. pc' = "reread" \/ (pc' = "done" /\ reply'.code = "KafkaError")
      BY <1>7, <2>2, ReplyIs DEF AlterBroker, Goto
    <3> DEFINE at == configs'[ask.broker]
    <3>3. ask.broker \in DOMAIN configs' /\ at = Altered(configs[ask.broker], ask.change)
      BY <2>2, <3>1 DEF Known
    <3>4. /\ \A k \in DOMAIN ask.change.set \ ask.change.reset : Effective(at, k) = ask.change.set[k]
          /\ DOMAIN at \cap ask.change.reset = {}
      BY <3>3 DEF Altered, Amended, Effective
    <3> HIDE DEF at
    <3>5. BrokerWas'
      BY <1>1, <1>2, <3>3, <3>4 DEF BrokerWas, at
    <3>6. CASE pc' = "reread"
      BY <1>1, <3>5, <3>6, EndsOrGoesOn DEF ClusterFound
    <3> QED
      BY <1>4, <3>2, <3>6
  <2> QED
    BY <2>1, <2>2
<1>8. CASE Reread
  <2>1. CASE ~ Known(ask.broker)
    <3>1. pc' = "done" /\ reply'.code = "NotFound"
      BY <1>8, <2>1, ReplyIs DEF Reread
    <3> QED
      BY <1>4, <3>1
  <2>2. CASE Known(ask.broker)
    <3>1. /\ pc' = "done" /\ reply'.code = "ok" /\ reply'.value = Shown(Described(configs[ask.broker]))
          /\ pc = "reread" /\ configs' = configs
      BY <1>8, <2>2, ReplyIs DEF Reread, Reading, At, clusterVars
    <3>2. PICK i \in DOMAIN past :
              /\ ask.broker \in DOMAIN past[i].configs
              /\ \A k \in DOMAIN ask.change.set \ ask.change.reset :
                     Effective(past[i].configs[ask.broker], k) = ask.change.set[k]
              /\ DOMAIN past[i].configs[ask.broker] \cap ask.change.reset = {}
      BY <3>1 DEF ClusterInv, ClusterFound, BrokerWas
    <3> DEFINE j == Len(past')
    <3>3. /\ j \in DOMAIN past' /\ ask.broker \in DOMAIN past'[j].configs
          /\ reply'.value = Shown(Described(past'[j].configs[ask.broker]))
          /\ i \in DOMAIN past' /\ past'[i] = past[i] /\ i <= j
      BY <1>2, <2>2, <3>1 DEF Known
    <3> HIDE DEF j
    <3>4. BrokerAsTold'
      BY <1>1, <3>2, <3>3 DEF BrokerAsTold
    <3> QED
      BY <1>1, <3>1, <3>4 DEF AppliedAsTold, ClusterFound
  <2> QED
    BY <2>1, <2>2
<1> QED
  BY <1>5, <1>6, <1>7, <1>8, StepsOfRequest DEF ClusterInv

-----------------------------------------------------------------------------
(* C12: what it has read, what it plans, and what it has answered for. *)
LEMMA ImportReads ==
    ASSUME ClusterInv, [Next]_vars, ask.id = "C12", Handle \/ List \/ DescribeNext
    PROVE  ClusterFound' /\ AppliedAsTold'
<1>1. Base' /\ ask' = ask /\ \A n, config : HadConfig(n, config) => HadConfig(n, config)'
  BY BaseKept, ClusterFoundKept DEF ClusterInv
<1>2. SeenShape /\ (pc \notin {"apply", "done"} => seen.items = <<>>)
  BY DEF ClusterInv, ClusterFound
<1>3. CASE Handle
  <2>1. pc = "http" /\ pc' = "list" /\ seen' = seen
    BY <1>3 DEF Handle, Reading, At, Goto
  <2>2. SeenShape' /\ seen'.items = <<>>
    BY <1>2, <2>1 DEF SeenShape
  <2> QED
    BY <1>1, <2>1, <2>2, EndsOrGoesOn DEF ClusterFound
<1>4. CASE List
  <2>1. pc = "list" /\ pc' = "describe"
    BY <1>4 DEF List, Reading, At, Goto
  <2>2. PICK listed, todo : /\ seen' = [seen EXCEPT !.listed = listed, !.todo = todo]
                            /\ DOMAIN listed = Matching /\ todo = Matching \cap Wanted
    <3> DEFINE Listed(p) == [n \in Matching |-> [partitions |-> Len(topics[n].parts), rf |-> Len(p[n].replicas)]]
    <3>1. PICK p : seen' = [seen EXCEPT !.listed = Listed(p),
                                        !.todo = IF ask.id = "C12" THEN Matching \cap Wanted ELSE Matching]
      BY <1>4 DEF List
    <3>2. DOMAIN Listed(p) = Matching
      OBVIOUS
    <3> HIDE DEF Listed
    <3> QED
      BY <3>1, <3>2
  <2>3. SeenShape' /\ seen'.items = <<>> /\ seen'.listed = listed /\ seen'.todo = todo
    BY <1>2, <2>1, <2>2 DEF SeenShape
  <2>4. Matching \subseteq Range(Names) /\ Wanted = DOMAIN ask.wanted
    BY DEF Matching, Public, Wanted, ClusterInv, ClusterShape
  <2>5. ImportSeen'
    BY <1>1, <2>2, <2>3, <2>4 DEF ImportSeen
  <2> QED
    BY <1>1, <2>1, <2>3, <2>5, EndsOrGoesOn DEF ClusterFound
<1>5. CASE DescribeNext
  <2>1. pc = "describe" /\ UNCHANGED topics
    BY <1>5 DEF DescribeNext, Reading, At, clusterVars
  <2>2. PICK n \in seen.todo :
            IF ~ Existing(n) THEN Reply("NotFound", <<>>) /\ UNCHANGED seen
            ELSE /\ seen' = [seen EXCEPT !.todo = @ \ {n}, !.config = With(@, n, Described(topics[n].config))]
                 /\ Goto("describe")
    BY <1>5 DEF DescribeNext
  <2>3. CASE ~ Existing(n)
    <3>1. pc' = "done" /\ reply'.code = "NotFound" /\ seen' = seen
      BY <2>2, <2>3, ReplyIs
    <3>2. SeenShape'
      BY <1>2, <3>1 DEF SeenShape
    <3> QED
      BY <1>1, <3>1, <3>2, EndsOrGoesOn DEF ClusterFound, NoSuccess
  <2>4. CASE Existing(n)
    <3> DEFINE todo == seen.todo \ {n}
               config == With(seen.config, n, Described(topics[n].config))
    <3>1. seen' = [seen EXCEPT !.todo = todo, !.config = config] /\ pc' = "describe"
      BY <1>2, <2>2, <2>4 DEF SeenShape, Goto
    <3>2. /\ DOMAIN config = DOMAIN seen.config \cup {n} /\ config[n] = Described(topics[n].config)
          /\ \A x \in DOMAIN seen.config \ {n} : config[x] = seen.config[x]
      BY DEF With
    <3> HIDE DEF config
    <3>3. /\ SeenShape' /\ seen'.items = <<>> /\ seen'.listed = seen.listed
          /\ seen'.todo = todo /\ seen'.config = config
      BY <1>2, <2>1, <3>1 DEF SeenShape
    <3>4. ASSUME NEW c, c = Described(topics[n].config) PROVE HadConfig(n, c)'
      <4>1. /\ Len(past') \in DOMAIN past' /\ past'[Len(past')].topics = topics
        BY <2>1, PastGrows DEF ClusterInv, Base, Now
      <4> QED
        BY <2>4, <3>4, <4>1 DEF HadConfig, Existing
    <3>5. ImportSeen
      BY <2>1 DEF ClusterInv, ClusterFound
    <3>6. ASSUME NEW x \in (DOMAIN ask.wanted \cap DOMAIN seen.listed) \ todo
          PROVE  x \in DOMAIN config /\ \A c : c = config[x] => HadConfig(x, c)'
      <4>1. CASE x = n
        BY <3>2, <3>4, <4>1
      <4>2. CASE x # n
        <5>1. x \in DOMAIN seen.config /\ HadConfig(x, seen.config[x])
          BY <3>5, <3>6, <4>2 DEF ImportSeen
        <5>2. config[x] = seen.config[x]
          BY <3>2, <4>2, <5>1
        <5> QED
          BY <1>1, <3>2, <5>1, <5>2
      <4> QED
        BY <4>1, <4>2
    <3>7. ImportSeen'
      BY <1>1, <3>3, <3>5, <3>6 DEF ImportSeen
    <3> QED
      BY <1>1, <3>1, <3>3, <3>7, EndsOrGoesOn DEF ClusterFound
  <2> QED
    BY <2>3, <2>4
<1> QED
  BY <1>3, <1>4, <1>5

(* What it plans is right, and nothing is answered for yet. *)
LEMMA ImportPlans ==
    ASSUME ClusterInv, [Next]_vars, ask.id = "C12", PlanImport
    PROVE  ClusterFound' /\ AppliedAsTold'
<1>1. Base' /\ ask' = ask /\ ask \in Asks /\ Quiet
  BY BaseKept, ClusterFoundKept DEF ClusterInv, Base
<1>2. /\ pc = "describe" /\ pc' = "confirm" /\ seen' = seen /\ done' = done /\ seen.todo = {}
      /\ plan'.changes = ImportChanges(ask.wanted, DOMAIN seen.listed, seen.config)
  BY DEF PlanImport, Planning, Planned, Goto, Reading, At
<1>3. SeenShape /\ seen.items = <<>> /\ ImportSeen /\ done = {}
  BY <1>1, <1>2 DEF ClusterInv, ClusterFound, Quiet
<1>4. ASSUME NEW changes, changes = ImportChanges(ask.wanted, DOMAIN seen.listed, seen.config)
      PROVE  RightPlan(changes)' /\ changes \in Seq(Range(changes))
  <2>1. RightPlan(changes)
    BY <1>1, <1>2, <1>3, <1>4, PlannedIsRight
  <2>2. RightPlan(changes)'
    BY <2>1, RightPlanKept DEF ClusterInv
  <2> QED
    BY <2>1, <2>2 DEF RightPlan
<1>5. RightPlan(plan.changes)'
  BY <1>2, <1>4
<1>6. Len(plan'.changes) \in Nat
  BY <1>2, <1>4
<1>7. ImportItems'
  <2>1. seen'.items = <<>> /\ Len(<<>>) = 0 /\ DOMAIN <<>> = {} /\ <<>> \in Seq(Range(<<>>)) /\ done' = {}
    BY <1>2, <1>3
  <2> QED
    BY <1>6, <2>1 DEF ImportItems
<1>8. SeenShape'
  BY <1>2, <1>3 DEF SeenShape
<1> QED
  BY <1>1, <1>2, <1>3, <1>5, <1>7, <1>8, EndsOrGoesOn DEF ClusterFound

(* Each change is answered for as it was made, or was not. *)
LEMMA ImportApplies ==
    ASSUME ClusterInv, [Next]_vars, ask.id = "C12", SkipDelete \/ ImportOne \/ ImportFails
    PROVE  ClusterFound' /\ AppliedAsTold'
<1>1. Base' /\ ask' = ask /\ ask \in Asks
  BY BaseKept, ClusterFoundKept DEF ClusterInv, Base
<1>2. pc = "apply" /\ plan' = plan /\ Len(seen.items) < Len(plan.changes)
  BY DEF SkipDelete, ImportOne, ImportFails, Importing, Applying, At
<1>3. SeenShape /\ RightPlan(plan.changes) /\ ImportItems /\ Base /\ ClusterShape
  BY <1>2 DEF ClusterInv, ClusterFound
<1>0. PICK c : c = Change
  OBVIOUS
<1>4. IsChange(c)
  BY <1>2, <1>3, <1>0, ChangeIs
<1>5. RightPlan(plan.changes)'
  <2>1. ASSUME NEW x, x = plan.changes PROVE RightPlan(x)'
    BY <1>3, <2>1, RightPlanKept
  <2> QED
    BY <1>2, <2>1
<1>6. ASSUME NEW e, seen' = [seen EXCEPT !.items = Append(@, e)], pc' = "apply", done \subseteq done',
             ItemOf(e, c)',
             \A d \in done' \ done : d = <<e[1], e[2]>> /\ (d[1] = "delete" => d[2] \notin DOMAIN ask.wanted /\ ask.allowDelete)
      PROVE  ClusterFound' /\ AppliedAsTold'
  <2>1. seen'.items = Append(seen.items, e) /\ SeenShape'
    <3> DEFINE items == Append(seen.items, e)
    <3>1. seen' = [seen EXCEPT !.items = items]
      BY <1>6
    <3> HIDE DEF items
    <3>2. seen'.items = items /\ SeenShape'
      BY <1>3, <3>1 DEF SeenShape
    <3> QED
      BY <3>2 DEF items
  <2>2. ImportItems'
    BY <1>2, <1>3, <1>6, <1>0, <2>1, OneMore
  <2> QED
    BY <1>1, <1>5, <1>6, <2>1, <2>2, EndsOrGoesOn DEF ClusterFound
<1>7. CASE SkipDelete
  <2>1. PICK e : e = <<"skipped", c[2], TRUE>>
    OBVIOUS
  <2>2. seen' = [seen EXCEPT !.items = Append(@, e)] /\ pc' = "apply" /\ done' = done
    BY <1>7, <1>0, <2>1 DEF SkipDelete, Goto
  <2>3. c[1] = "delete" /\ ~ ask.allowDelete
    BY <1>7, <1>0 DEF SkipDelete
  <2>4. e[1] = "skipped" /\ e[2] = c[2]
    BY <2>1
  <2>5. ItemOf(e, c)'
    BY <1>1, <2>3, <2>4 DEF ItemOf, Action
  <2> QED
    BY <1>6, <2>2, <2>5
<1>8. CASE ImportFails
  <2>1. PICK e : e = <<c[1], c[2], FALSE>>
    OBVIOUS
  <2>2. seen' = [seen EXCEPT !.items = Append(@, e)] /\ pc' = "apply" /\ done' = done
    BY <1>8, <1>0, <2>1 DEF ImportFails, Item, Goto
  <2>3. c[1] = "delete" => ask.allowDelete
    BY <1>8, <1>0 DEF ImportFails
  <2>4. e[1] = c[1] /\ e[2] = c[2] /\ e[3] # TRUE
    BY <2>1
  <2>5. ItemOf(e, c)'
    BY <1>1, <2>3, <2>4 DEF ItemOf, Action
  <2> QED
    BY <1>6, <2>2, <2>5
<1>9. CASE ImportOne
  <2>1. PICK ok \in BOOLEAN : Item(ok)
    BY <1>9 DEF ImportOne
  <2>2. PICK e : e = <<c[1], c[2], ok>>
    OBVIOUS
  <2>3. seen' = [seen EXCEPT !.items = Append(@, e)] /\ pc' = "apply"
    BY <1>0, <2>1, <2>2 DEF Item, Goto
  <2>4. (c[1] = "delete" => ask.allowDelete) /\ done' = done \cup {<<c[1], c[2]>>}
    BY <1>9, <1>0 DEF ImportOne
  <2>5. e[1] = c[1] /\ e[2] = c[2]
    BY <2>2
  <2>6. ASSUME NEW n \in DOMAIN ask.wanted, NEW k \in DOMAIN ask.wanted[n].config, Sets(c, n, k)
        PROVE  WasSet(n, k)'
    <3>1. n \in DOMAIN topics' /\ Effective(topics'[n].config, k) = ask.wanted[n].config[k]
      BY <1>1, <1>3, <1>4, <1>9, <1>0, <2>6, ImportOneDoes
    <3>2. Len(past') \in DOMAIN past' /\ past'[Len(past')].topics = topics'
      BY <1>3, PastGrows DEF Base, Now
    <3> QED
      BY <1>1, <3>1, <3>2 DEF WasSet
  <2>7. c[1] # "delete" => c[2] \in DOMAIN ask.wanted
    BY <1>4 DEF IsChange
  <2>8. ItemOf(e, c)'
    <3>1. Action(c)' = c[1]
      BY <1>1, <2>4 DEF Action
    <3>2. \A k \in DOMAIN ask.wanted[c[2]].config : Sets(c, c[2], k)' => WasSet(c[2], k)'
      BY <1>1, <2>6, <2>7 DEF Sets
    <3>3. <<e[1], e[2]>> \in done'
      BY <2>4, <2>5
    <3> QED
      BY <1>1, <2>5, <3>1, <3>2, <3>3 DEF ItemOf
  <2>9. c[1] = "delete" => c[2] \notin DOMAIN ask.wanted
    BY <1>4 DEF IsChange
  <2>10. ASSUME NEW d \in done' \ done
         PROVE  d = <<e[1], e[2]>> /\ (d[1] = "delete" => d[2] \notin DOMAIN ask.wanted /\ ask.allowDelete)
    <3>1. d = <<c[1], c[2]>> /\ d[1] = c[1] /\ d[2] = c[2]
      BY <2>4
    <3> QED
      BY <2>4, <2>5, <2>9, <3>1
  <2> QED
    BY <1>6, <2>3, <2>4, <2>8, <2>10
<1> QED
  BY <1>7, <1>8, <1>9

(* And it tells at its end what it has done. *)
LEMMA ImportEnds ==
    ASSUME ClusterInv, [Next]_vars, ask.id = "C12", Imported
    PROVE  ClusterFound' /\ AppliedAsTold'
<1>1. Base' /\ ask' = ask
  BY BaseKept, ClusterFoundKept DEF ClusterInv
<1>2. /\ pc = "apply" /\ pc' = "done" /\ reply'.code = "ok" /\ reply'.value = seen.items
      /\ plan' = plan /\ seen' = seen /\ done' = done /\ Len(seen.items) = Len(plan.changes)
  BY ReplyIs DEF Imported, Applying, At
<1>3. SeenShape /\ RightPlan(plan.changes) /\ ImportItems
  BY <1>2 DEF ClusterInv, ClusterFound
<1>4. RightPlan(plan.changes)' /\ ImportItems'
  BY <1>2, <1>3, ItemsKept DEF ClusterInv
<1>5. Finished' => ImportAsTold'
  BY FinishedTells, PTL
<1>6. ImportAsTold'
  BY <1>2, <1>4, <1>5 DEF Finished
<1>7. SeenShape'
  BY <1>2, <1>3 DEF SeenShape
<1> QED
  BY <1>1, <1>2, <1>6, <1>7 DEF ClusterFound, AppliedAsTold

-----------------------------------------------------------------------------
(* The start. *)
LEMMA InitCluster ==
    ASSUME Init
    PROVE  ClusterShape /\ Path /\ ClusterFound /\ AppliedAsTold
<1>1. /\ ask \in Asks /\ pc = "http" /\ seen = Unseen /\ done = {} /\ reply.code = ""
  BY DEF Init, Start
<1>2. ClusterShape
  BY ClusterAssumption DEF Init, ClusterInit, ClusterShape, HasShape
<1>3. seen.items = <<>> /\ SeenShape
  BY <1>1 DEF Unseen, SeenShape
<1> QED
  BY <1>1, <1>2, <1>3 DEF Path, ClusterFound, AppliedAsTold

(* What a request that changes the cluster has found, planned and done,    *)
(* and what it tells, is right, whatever others do between its calls.      *)
THEOREM ClusterInvariance == Spec => []ClusterInv
<1>1. Init => ClusterInv
  BY InitBase, InitCluster DEF ClusterInv
<1>2. ClusterInv /\ [Next]_vars => ClusterInv'
  <2> SUFFICES ASSUME ClusterInv, [Next]_vars PROVE ClusterFound' /\ AppliedAsTold'
    BY BaseKept, ShapeKept, PathKept DEF ClusterInv
  <2>1. ask' = ask /\ Base'
    BY BaseKept, ClusterFoundKept DEF ClusterInv
  <2>2. CASE UNCHANGED vars
    <3>1. /\ ask' = ask /\ pc' = pc /\ seen' = seen /\ plan' = plan /\ reply' = reply /\ done' = done
          /\ past' = past /\ topics' = topics
      BY <2>2 DEF vars, reqVars, clusterVars
    <3>2. ImportAsTold => ImportAsTold'
      BY <3>1 DEF ImportAsTold, WasSet
    <3>3. BrokerAsTold => BrokerAsTold'
      BY <3>1 DEF BrokerAsTold
    <3>4. MovesAsTold => MovesAsTold'
      BY <3>1 DEF MovesAsTold, Part
    <3>5. AppliedAsTold'
      BY <3>1, <3>2, <3>3, <3>4 DEF ClusterInv, AppliedAsTold
    <3> QED
      BY <3>1, <3>5, FoundStays
  <2>3. CASE ask.id \notin {"C5", "C9", "C12"}
    BY <2>1, <2>3, OtherRequests DEF Base
  <2>4. CASE SharedStep
    BY <2>4, SharedApplies
  <2>5. CASE ClusterOthers \/ SecurityOthers
    BY <2>5, OthersApply
  <2>6. CASE ClusterStep
    <3>1. CASE ask.id = "C5"
      BY <2>6, <3>1, BrokerFinds
    <3>2. CASE ask.id = "C9"
      BY <2>6, <3>2, MovesFind
    <3>3. CASE ask.id = "C12"
      BY <2>6, <3>3, StepsOfRequest, ImportReads, ImportPlans, ImportApplies, ImportEnds DEF ClusterInv
    <3> QED
      BY <2>3, <3>1, <3>2, <3>3
  <2>7. CASE AskTopics \/ AskSecurity
    BY <2>3, <2>7 DEF AskTopics, AskSecurity, AskCluster, TopicIds, ClusterIds
  <2> QED
    BY <2>2, <2>4, <2>5, <2>6, <2>7, StepsAre
<1> QED
  BY <1>1, <1>2, PTL DEF Spec

(* C5, C9 and C12 do what they tell and nothing else, whatever others do   *)
(* between their calls.                                                    *)
THEOREM AppliedTold == Spec => []AppliedAsTold
<1>1. ClusterInv => AppliedAsTold
  BY DEF ClusterInv
<1> QED
  BY <1>1, ClusterInvariance, PTL

-----------------------------------------------------------------------------
(* What the operators of the views compute: C10 adds up over a finite set. *)

(* What holds of a set once it holds of what is left without an element    *)
(* holds of every finite set.                                              *)
LEMMA Removing ==
    ASSUME NEW D, IsFiniteSet(D), NEW P,
           \A s \in SUBSET D : (\A x \in s : s \ {x} \in P) => s \in P
    PROVE  SUBSET D \subseteq P
<1> DEFINE Bad == {n \in Nat : \E s \in SUBSET D : s \notin P /\ Cardinality(s) = n}
<1> SUFFICES ASSUME NEW t \in SUBSET D, t \notin P PROVE FALSE
  OBVIOUS
<1>1. \A s \in SUBSET D : IsFiniteSet(s) /\ Cardinality(s) \in Nat
  BY FS_Subset, FS_CardinalityType
<1>2. Cardinality(t) \in Bad
  BY <1>1
<1>3. PICK n \in Bad : \A m \in Bad : n <= m
  <2>1. Bad \subseteq Nat /\ Bad # {}
    BY <1>2
  <2> HIDE DEF Bad
  <2> QED
    BY <2>1, Least
<1>4. PICK s \in SUBSET D : s \notin P /\ Cardinality(s) = n
  BY <1>3
<1>5. \A x \in s : s \ {x} \in P
  <2> SUFFICES ASSUME NEW x \in s, s \ {x} \notin P PROVE FALSE
    OBVIOUS
  <2>1. s \ {x} \in SUBSET D /\ Cardinality(s \ {x}) = n - 1
    BY <1>1, <1>4, FS_RemoveElement
  <2>2. n - 1 \in Bad
    BY <1>1, <2>1
  <2> QED
    BY <1>3, <2>2
<1> QED
  BY <1>4, <1>5

(* The sum of the weights of each set of places. *)
AnyOf(s) == CHOOSE x \in s : TRUE

Sums(F, D, w) == F = [s \in SUBSET D |-> IF s = {} THEN 0 ELSE w[AnyOf(s)] + F[s \ {AnyOf(s)}]]

(* There are such sums. *)
LEMMA SumsExist ==
    ASSUME NEW D, IsFiniteSet(D), NEW w
    PROVE  \E F : Sums(F, D, w)
<1> DEFINE Sub(n) == {s \in SUBSET D : Cardinality(s) <= n}
           Body(F, s) == IF s = {} THEN 0 ELSE w[AnyOf(s)] + F[s \ {AnyOf(s)}]
           Good(F, n) == F = [s \in Sub(n) |-> Body(F, s)]
           Bad == {n \in Nat : ~ \E F : Good(F, n)}
<1>1. \A s \in SUBSET D : IsFiniteSet(s) /\ Cardinality(s) \in Nat /\ Cardinality(s) <= Cardinality(D)
  BY FS_Subset, FS_CardinalityType
<1>2. ASSUME NEW n \in Nat, NEW F, Good(F, n) PROVE \E G : Good(G, n + 1)
  <2> DEFINE G == [s \in Sub(n + 1) |-> Body(F, s)]
  <2>1. ASSUME NEW s \in Sub(n + 1), s # {} PROVE F[s \ {AnyOf(s)}] = G[s \ {AnyOf(s)}]
    <3> DEFINE t == s \ {AnyOf(s)}
    <3>1. AnyOf(s) \in s
      BY <2>1 DEF AnyOf
    <3>2. Cardinality(t) = Cardinality(s) - 1 /\ t \in SUBSET D
      BY <1>1, <3>1, FS_RemoveElement
    <3>3. t \in Sub(n) /\ t \in Sub(n + 1)
      BY <1>1, <3>2
    <3> HIDE DEF t, Sub
    <3>4. F[t] = Body(F, t)
      BY <1>2, <3>3
    <3>5. G[t] = Body(F, t)
      BY <3>3
    <3> QED
      BY <3>4, <3>5 DEF t
  <2>2. \A s \in Sub(n + 1) : Body(F, s) = Body(G, s)
    <3> HIDE DEF G, Sub
    <3> QED
      BY <2>1
  <2>3. G = [s \in Sub(n + 1) |-> Body(G, s)]
    <3>1. G = [s \in Sub(n + 1) |-> G[s]] /\ \A s \in Sub(n + 1) : G[s] = Body(F, s)
      OBVIOUS
    <3> HIDE DEF G, Sub, Body
    <3> QED
      BY <2>2, <3>1
  <2> HIDE DEF G
  <2> QED
    BY <2>3
<1>3. \E F : Good(F, 0)
  <2> DEFINE F == [s \in Sub(0) |-> 0]
  <2>1. \A s \in Sub(0) : s = {}
    BY <1>1, FS_EmptySet
  <2>2. Good(F, 0)
    BY <2>1
  <2> HIDE DEF F, Good
  <2> QED
    BY <2>2
<1>4. Bad = {}
  <2> SUFFICES ASSUME Bad # {} PROVE FALSE
    OBVIOUS
  <2>1. PICK n \in Bad : \A m \in Bad : n <= m
    <3>1. Bad \subseteq Nat
      OBVIOUS
    <3> HIDE DEF Bad
    <3> QED
      BY <3>1, Least
  <2> HIDE DEF Good
  <2>2. n # 0 /\ n - 1 \in Nat /\ n - 1 \notin Bad
    BY <1>3, <2>1
  <2>3. \E G : Good(G, (n - 1) + 1)
    BY <1>2, <2>2
  <2> QED
    BY <2>1, <2>3
<1>5. PICK F : Good(F, Cardinality(D))
  <2> HIDE DEF Good
  <2> QED
    BY <1>1, <1>4
<1>6. Sub(Cardinality(D)) = SUBSET D
  BY <1>1
<1>7. F = [s \in SUBSET D |-> Body(F, s)]
  <2> HIDE DEF Sub, Body
  <2> QED
    BY <1>5, <1>6
<1> QED
  BY <1>7 DEF Sums

(* They do not depend on the order in which the places are taken. *)
LEMMA SumsAre ==
    ASSUME NEW D, IsFiniteSet(D), NEW w, \A x \in D : w[x] \in Int, NEW F, Sums(F, D, w)
    PROVE  F[{}] = 0 /\ \A s \in SUBSET D : F[s] \in Int /\ \A x \in s : F[s] = w[x] + F[s \ {x}]
<1> DEFINE Q == {s \in SUBSET D : F[s] \in Int}
           P == {s \in SUBSET D : \A x \in s : F[s] = w[x] + F[s \ {x}]}
<1>1. \A s \in SUBSET D : F[s] = IF s = {} THEN 0 ELSE w[AnyOf(s)] + F[s \ {AnyOf(s)}]
  BY DEF Sums
<1>2. \A s \in SUBSET D : s # {} => AnyOf(s) \in s
  BY DEF AnyOf
<1>3. SUBSET D \subseteq Q
  <2>1. ASSUME NEW s \in SUBSET D, \A x \in s : s \ {x} \in Q PROVE s \in Q
    <3>1. CASE s = {}
      <4>1. F[s] = 0
        <5> HIDE DEF Q
        <5> QED
          BY <1>1, <3>1
      <4> QED
        BY <4>1
    <3>2. CASE s # {}
      <4> DEFINE y == AnyOf(s)
      <4>1. y \in s /\ F[s] = w[y] + F[s \ {y}]
        BY <1>1, <1>2, <3>2
      <4> HIDE DEF y
      <4>2. F[s \ {y}] \in Int /\ w[y] \in Int
        BY <2>1, <4>1
      <4> QED
        BY <4>1, <4>2
    <3> QED
      BY <3>1, <3>2
  <2> HIDE DEF Q
  <2> QED
    BY <2>1, Removing
<1>4. ASSUME NEW s \in SUBSET D, \A x \in s : s \ {x} \in P, NEW x \in s PROVE F[s] = w[x] + F[s \ {x}]
  <2> DEFINE y == AnyOf(s)
  <2>1. y \in s /\ F[s] = w[y] + F[s \ {y}]
    BY <1>1, <1>2
  <2> HIDE DEF y
  <2>2. CASE x # y
    <3> DEFINE t == (s \ {x}) \ {y}
    <3>1. x \in s \ {y} /\ y \in s \ {x} /\ (s \ {y}) \ {x} = t /\ t \in SUBSET D
      BY <2>1, <2>2
    <3>2. F[s \ {y}] = w[x] + F[(s \ {y}) \ {x}]
      BY <1>4, <2>1, <3>1
    <3>3. F[s \ {x}] = w[y] + F[(s \ {x}) \ {y}]
      BY <1>4, <3>1
    <3>4. F[t] \in Int /\ w[x] \in Int /\ w[y] \in Int
      BY <1>3, <2>1, <3>1
    <3>5. F[s \ {y}] = w[x] + F[t] /\ F[s \ {x}] = w[y] + F[t]
      BY <3>1, <3>2, <3>3
    <3> HIDE DEF t
    <3> QED
      BY <2>1, <3>4, <3>5
  <2> QED
    BY <2>1, <2>2
<1>5. SUBSET D \subseteq P
  <2>1. \A s \in SUBSET D : (\A x \in s : s \ {x} \in P) => s \in P
    BY <1>4
  <2> HIDE DEF P
  <2> QED
    BY <2>1, Removing
<1> QED
  BY <1>1, <1>3, <1>5

(* What a fold of C10 is: the total of one listing, and how much more      *)
(* there is in a listing than there was.                                   *)
LEMMA TotalIs ==
    ASSUME NEW ends
    PROVE  Total(ends) = (CHOOSE F : Sums(F, DOMAIN ends, ends))[DOMAIN ends]
BY DEF Total, FoldFunction, FoldFunctionOnSet, MapThenFoldSet, Sums, AnyOf

LEMMA RateIs ==
    ASSUME NEW before, NEW after, \A x \in DOMAIN after : after[x] \in Int, \A x \in DOMAIN before : before[x] \in Int,
           IsFiniteSet(DOMAIN after), DOMAIN before \subseteq DOMAIN after
    PROVE  Rate(before, after) = Total(after) - Total(before)
<1> DEFINE D == DOMAIN after
           B == DOMAIN before
           w == [x \in D |-> after[x] - (IF x \in B THEN before[x] ELSE 0)]
           Weighed(F) == F = [s \in SUBSET D |-> IF s = {} THEN 0
                                 ELSE LET i == CHOOSE i \in s : TRUE
                                      IN  after[i] - (IF i \in DOMAIN before THEN before[i] ELSE 0) + F[s \ {i}]]
<1>1. Rate(before, after) = (CHOOSE F : Weighed(F))[D]
  BY DEF Rate, FoldSet, MapThenFoldSet
<1>2. \A F : Weighed(F) <=> Sums(F, D, w)
  <2> SUFFICES ASSUME NEW F PROVE Weighed(F) <=> Sums(F, D, w)
    OBVIOUS
  <2>1. \A s \in SUBSET D : s # {} => AnyOf(s) \in D /\ AnyOf(s) \in s
    BY DEF AnyOf
  <2>2. \A x \in D : w[x] = after[x] - (IF x \in B THEN before[x] ELSE 0)
    OBVIOUS
  <2> DEFINE R1(s) == IF s = {} THEN 0 ELSE after[AnyOf(s)] - (IF AnyOf(s) \in B THEN before[AnyOf(s)] ELSE 0)
                              + F[s \ {AnyOf(s)}]
             R2(s) == IF s = {} THEN 0 ELSE w[AnyOf(s)] + F[s \ {AnyOf(s)}]
  <2>3. \A s \in SUBSET D : R1(s) = R2(s)
    <3> HIDE DEF w
    <3> QED
      BY <2>1, <2>2
  <2>4. [s \in SUBSET D |-> R1(s)] = [s \in SUBSET D |-> R2(s)]
    <3> HIDE DEF R1, R2, D
    <3> QED
      BY <2>3
  <2>5. Weighed(F) <=> F = [s \in SUBSET D |-> R1(s)]
    BY DEF AnyOf
  <2>6. Sums(F, D, w) <=> F = [s \in SUBSET D |-> R2(s)]
    BY DEF Sums
  <2> QED
    BY <2>4, <2>5, <2>6
<1>3. PICK R : R = (CHOOSE F : Weighed(F))
  OBVIOUS
<1>4. Sums(R, D, w)
  <2> HIDE DEF Weighed, w, D
  <2>1. \E F : Weighed(F)
    BY <1>2, SumsExist DEF D
  <2> QED
    BY <1>2, <1>3, <2>1
<1>5. PICK A : A = (CHOOSE F : Sums(F, D, after)) /\ Sums(A, D, after)
  <2> HIDE DEF D
  <2> QED
    BY SumsExist DEF D
<1>6. IsFiniteSet(B)
  BY FS_Subset
<1>7. PICK C : C = (CHOOSE F : Sums(F, B, before)) /\ Sums(C, B, before)
  BY <1>6, SumsExist
<1>8. \A x \in D : w[x] \in Int
  OBVIOUS
<1>9. R[{}] = 0 /\ \A s \in SUBSET D : R[s] \in Int /\ \A x \in s : R[s] = w[x] + R[s \ {x}]
  <2> HIDE DEF w, D
  <2> QED
    BY <1>4, <1>8, SumsAre DEF D
<1>10. A[{}] = 0 /\ \A s \in SUBSET D : A[s] \in Int /\ \A x \in s : A[s] = after[x] + A[s \ {x}]
  BY <1>5, SumsAre
<1>11. C[{}] = 0 /\ \A s \in SUBSET B : C[s] \in Int /\ \A x \in s : C[s] = before[x] + C[s \ {x}]
  BY <1>6, <1>7, SumsAre
<1> DEFINE P == {s \in SUBSET D : R[s] = A[s] - C[s \cap B]}
<1>12. ASSUME NEW s \in SUBSET D, \A x \in s : s \ {x} \in P PROVE s \in P
  <2>1. CASE s = {}
    <3>1. s \cap B = {}
      BY <2>1
    <3> QED
      BY <1>9, <1>10, <1>11, <2>1, <3>1
  <2>2. CASE s # {}
    <3>1. PICK x \in s : TRUE
      BY <2>2
    <3>2. R[s] = w[x] + R[s \ {x}] /\ A[s] = after[x] + A[s \ {x}] /\ after[x] \in Int
      BY <1>9, <1>10
    <3>3. R[s \ {x}] = A[s \ {x}] - C[(s \ {x}) \cap B] /\ A[s \ {x}] \in Int
      BY <1>10, <1>12
    <3>4. CASE x \in B
      <4>1. (s \ {x}) \cap B = (s \cap B) \ {x} /\ x \in s \cap B /\ s \cap B \in SUBSET B /\ (s \cap B) \ {x} \in SUBSET B
        BY <3>4
      <4>2. C[s \cap B] = before[x] + C[(s \cap B) \ {x}] /\ before[x] \in Int /\ C[(s \cap B) \ {x}] \in Int
        BY <1>11, <3>4, <4>1
      <4>3. w[x] = after[x] - before[x]
        BY <3>4
      <4>4. C[(s \ {x}) \cap B] = C[(s \cap B) \ {x}]
        BY <4>1
      <4> HIDE DEF w, B
      <4> QED
        BY <3>2, <3>3, <4>2, <4>3, <4>4
    <3>5. CASE x \notin B
      <4>1. (s \ {x}) \cap B = s \cap B /\ s \cap B \in SUBSET B
        BY <3>5
      <4>2. C[s \cap B] \in Int
        BY <1>11, <4>1
      <4>3. w[x] = after[x]
        BY <3>2, <3>5
      <4>4. C[(s \ {x}) \cap B] = C[s \cap B]
        BY <4>1
      <4> HIDE DEF w, B
      <4> QED
        BY <3>2, <3>3, <4>2, <4>3, <4>4
    <3> QED
      BY <3>4, <3>5
  <2> QED
    BY <2>1, <2>2
<1>13. SUBSET D \subseteq P
  <2>1. IsFiniteSet(D)
    OBVIOUS
  <2> HIDE DEF P, D
  <2> QED
    BY <1>12, <2>1, Removing
<1>14. D \in P /\ D \cap B = B
  BY <1>13
<1>15. Total(after) = A[D] /\ Total(before) = C[B]
  BY <1>5, <1>7, TotalIs
<1> HIDE DEF w, Weighed
<1> QED
  BY <1>1, <1>3, <1>14, <1>15

-----------------------------------------------------------------------------
(* T1.  The places of the names of a set among all names. *)
PlacesOf(S) == {i \in DOMAIN Names : Names[i] \in S}

RankOf(i, S) == Cardinality({j \in PlacesOf(S) : j < i})

(* As many places come before that of a name as names come before it in    *)
(* the sorted sequence.                                                    *)
LEMMA Ranks ==
    ASSUME NEW S, S \subseteq Range(Names), NEW s, s = Sorted(S)
    PROVE  /\ Len(s) = Cardinality(PlacesOf(S)) /\ Len(s) \in Nat /\ s \in Seq(S)
           /\ \E at \in [1..Len(s) -> PlacesOf(S)] :
                 /\ \A r \in 1..Len(s) : Names[at[r]] = s[r] /\ RankOf(at[r], S) = r - 1
                 /\ \A i \in PlacesOf(S) : \E r \in 1..Len(s) : at[r] = i
<1>1. /\ s \in Seq(S) /\ Range(s) = S /\ Ascending(s) /\ Len(s) \in Nat /\ DOMAIN s = 1..Len(s)
      /\ Names \in Seq(STRING) /\ IsInjective(Names) /\ Len(Names) \in Nat /\ DOMAIN Names = 1..Len(Names)
  BY SortedIs, ClusterAssumption
<1> DEFINE places == PlacesOf(S)
           at == [r \in 1..Len(s) |-> CHOOSE i \in places : Names[i] = s[r]]
<1>2. \A r \in 1..Len(s) : \E i \in places : Names[i] = s[r]
  BY <1>1 DEF PlacesOf, Range
<1>3. at \in [1..Len(s) -> places] /\ \A r \in 1..Len(s) : Names[at[r]] = s[r]
  BY <1>2
<1> HIDE DEF at
<1>4. places \subseteq 1..Len(Names) /\ \A i, j \in places : Names[i] = Names[j] => i = j
  BY <1>1 DEF PlacesOf, IsInjective
<1>5. \A a, b \in 1..Len(s) : a < b => at[a] < at[b]
  <2> SUFFICES ASSUME NEW a \in 1..Len(s), NEW b \in 1..Len(s), a < b PROVE at[a] < at[b]
    OBVIOUS
  <2>1. PICK i, j \in DOMAIN Names : i < j /\ Names[i] = s[a] /\ Names[j] = s[b]
    BY <1>1 DEF Ascending
  <2>2. i = at[a] /\ j = at[b]
    <3>1. /\ at[a] \in DOMAIN Names /\ Names[at[a]] = s[a]
          /\ at[b] \in DOMAIN Names /\ Names[at[b]] = s[b]
      BY <1>3, <1>4 DEF PlacesOf
    <3>2. \A x, y \in DOMAIN Names : Names[x] = Names[y] => x = y
      BY <1>1 DEF IsInjective
    <3> HIDE DEF at
    <3> QED
      BY <2>1, <3>1, <3>2
  <2> QED
    BY <2>1, <2>2
<1>6. \A i \in places : \E r \in 1..Len(s) : at[r] = i
  <2> SUFFICES ASSUME NEW i \in places PROVE \E r \in 1..Len(s) : at[r] = i
    OBVIOUS
  <2>1. PICK r \in 1..Len(s) : s[r] = Names[i]
    BY <1>1 DEF PlacesOf, Range
  <2> QED
    BY <1>3, <1>4, <2>1
<1>7. ASSUME NEW n \in 0..Len(s), NEW T, T = {j \in places : \E r \in 1..n : at[r] = j}
      PROVE  Cardinality(T) = n
  <2> DEFINE f == [r \in 1..n |-> at[r]]
  <2>1. \A r \in 1..n : r \in 1..Len(s)
    BY <1>1
  <2>2. f \in Bijection(1..n, T)
    <3>1. f \in [1..n -> T]
      BY <1>3, <1>7, <2>1
    <3>2. \A a, b \in 1..n : f[a] = f[b] => a = b
      <4> SUFFICES ASSUME NEW a \in 1..n, NEW b \in 1..n, at[a] = at[b], a # b PROVE FALSE
        OBVIOUS
      <4>1. at[a] < at[b] \/ at[b] < at[a]
        BY <1>5, <2>1
      <4>2. at[a] \in Nat /\ at[b] \in Nat
        BY <1>3, <1>4, <2>1
      <4> QED
        BY <4>1, <4>2
    <3>3. \A t \in T : \E r \in 1..n : f[r] = t
      BY <1>7
    <3> HIDE DEF f
    <3> QED
      BY <3>1, <3>2, <3>3 DEF Bijection, Injection, Surjection, IsInjective
  <2>3. ExistsBijection(1..n, T)
    BY <2>2 DEF ExistsBijection
  <2>4. IsFiniteSet(1..n) /\ Cardinality(1..n) = n
    BY <1>1, FS_Interval
  <2> QED
    BY <2>3, <2>4, FS_Bijection
<1>8. Len(s) = Cardinality(places)
  <2>1. places = {j \in places : \E r \in 1..Len(s) : at[r] = j}
    BY <1>6
  <2> QED
    BY <1>1, <1>7, <2>1
<1>9. ASSUME NEW r \in 1..Len(s) PROVE RankOf(at[r], S) = r - 1
  <2>1. r - 1 \in 0..Len(s)
    BY <1>1
  <2>2. {j \in places : j < at[r]} = {j \in places : \E q \in 1..(r - 1) : at[q] = j}
    <3>1. ASSUME NEW j \in places, j < at[r] PROVE \E q \in 1..(r - 1) : at[q] = j
      <4>1. PICK q \in 1..Len(s) : at[q] = j
        BY <1>6
      <4>2. ~ (r < q) /\ r # q
        <5>1. at[r] \in Nat /\ at[q] \in Nat
          BY <1>3, <1>4
        <5> QED
          BY <1>5, <3>1, <4>1, <5>1
      <4> QED
        BY <4>1, <4>2
    <3>2. ASSUME NEW q \in 1..(r - 1) PROVE at[q] < at[r]
      BY <1>5
    <3> QED
      BY <3>1, <3>2
  <2>3. Cardinality({j \in places : j < at[r]}) = r - 1
    BY <1>7, <2>1, <2>2
  <2> QED
    BY <2>3 DEF RankOf
<1> QED
  BY <1>1, <1>3, <1>6, <1>8, <1>9

(* An int that holds its value, and one that is too large and wraps. *)
LEMMA Fits == ASSUME NEW n \in 0..IntMax PROVE AsInt(n) = n
BY PagingAssumption DEF AsInt

LEMMA Wraps == ASSUME NEW n \in (IntMax + 1)..(2 * IntMax) PROVE AsInt(n) < 0 /\ AsInt(n) \in Int
BY PagingAssumption DEF AsInt

(* A part of a sequence. *)
LEMMA Slice ==
    ASSUME NEW S, NEW s \in Seq(S), NEW m \in Nat, NEW n \in Nat, m <= n, n <= Len(s)
    PROVE  /\ DOMAIN SubSeq(s, m + 1, n) = 1..(n - m)
           /\ \A k \in 1..(n - m) : SubSeq(s, m + 1, n)[k] = s[m + k]
<1>1. Len(s) \in Nat /\ DOMAIN s = 1..Len(s)
  OBVIOUS
<1>2. \A k \in 1..(n - m) : (m + 1) + k - 1 = m + k
  OBVIOUS
<1>3. SubSeq(s, m + 1, n) = [k \in 1..(n - m) |-> s[(m + 1) + k - 1]]
  BY <1>1
<1> QED
  BY <1>2, <1>3

(* Where the items of a page are in the listing, if its first place is a   *)
(* number that an int can hold.                                            *)
LEMMA PageHolds ==
    ASSUME NEW S, NEW rows \in Seq(S), NEW page, NEW size \in 1..IntMax,
           NEW first \in Nat, first <= IntMax, PageStart(page, size) = first, ~ Panics(page, size, Len(rows))
    PROVE  /\ \A k : k \in DOMAIN PageOf(rows, page, size) <=> k \in 1..size /\ first + k \in 1..Len(rows)
           /\ \A k \in DOMAIN PageOf(rows, page, size) : PageOf(rows, page, size)[k] = rows[first + k]
<1>1. IntMax \in Nat /\ Len(rows) \in Nat /\ DOMAIN rows = 1..Len(rows) /\ size \in Nat
  BY PagingAssumption
<1> DEFINE end == PageEnd(page, size, Len(rows))
           items == PageOf(rows, page, size)
<1>3. first + size <= IntMax => end = IF first + size < Len(rows) THEN first + size ELSE Len(rows)
  <2>1. first + size <= IntMax => AsInt(first + size) = first + size
    BY <1>1, Fits
  <2> QED
    BY <2>1 DEF PageEnd
<1>4. first + size > IntMax /\ first < Len(rows) => end < first
  <2>1. first + size > IntMax => AsInt(first + size) < 0 /\ AsInt(first + size) \in Int
    BY <1>1, Wraps
  <2> QED
    BY <1>1, <2>1 DEF PageEnd
<1>5. CASE first >= Len(rows)
  <2>1. items = <<>>
    BY <1>1, <1>5 DEF PageOf, IsPage
  <2>2. DOMAIN <<>> = {}
    OBVIOUS
  <2>3. \A k \in 1..size : first + k \notin 1..Len(rows)
    BY <1>1, <1>5
  <2> QED
    BY <2>1, <2>2, <2>3
<1>6. CASE first < Len(rows)
  <2>1. IsPage(page, size, Len(rows))
    BY <1>1, <1>6 DEF IsPage
  <2>2. ~ (end < first)
    BY <2>1 DEF Panics
  <2>3. first + size <= IntMax
    BY <1>1, <1>4, <1>6, <2>2
  <2>4. end = IF first + size < Len(rows) THEN first + size ELSE Len(rows)
    BY <1>3, <2>3
  <2>5. items = SubSeq(rows, first + 1, end)
    BY <2>1 DEF PageOf
  <2> HIDE DEF end, items
  <2>10. \A m, n, z \in Nat : \A e : m < n /\ e = (IF m + z < n THEN m + z ELSE n) => e \in Nat /\ m <= e /\ e <= n
    OBVIOUS
  <2>6. end \in Nat /\ first <= end /\ end <= Len(rows)
    BY <1>1, <1>6, <2>4, <2>10
  <2>7. /\ DOMAIN SubSeq(rows, first + 1, end) = 1..(end - first)
        /\ \A k \in 1..(end - first) : SubSeq(rows, first + 1, end)[k] = rows[first + k]
    <3>1. \A n \in Nat : first <= n /\ n <= Len(rows) =>
             /\ DOMAIN SubSeq(rows, first + 1, n) = 1..(n - first)
             /\ \A k \in 1..(n - first) : SubSeq(rows, first + 1, n)[k] = rows[first + k]
      BY Slice
    <3> QED
      BY <2>6, <3>1
  <2>8. \A k : k \in 1..(end - first) <=> k \in 1..size /\ first + k \in 1..Len(rows)
    <3>1. \A m, n, z, e \in Nat :
             m < n /\ e = (IF m + z < n THEN m + z ELSE n) => \A k : k \in 1..(e - m) <=> k \in 1..z /\ m + k \in 1..n
      OBVIOUS
    <3> QED
      BY <1>1, <1>6, <2>4, <2>6, <3>1
  <2> QED
    BY <2>5, <2>7, <2>8 DEF items
<1> QED
  BY <1>1, <1>5, <1>6

(* The numbers that T1 is asked for. *)
LEMMA PageAsked ==
    ASSUME ask \in Asks, ask.id = "T1", PageSize > 0
    PROVE  PageSize \in 1..IntMax /\ (ask.page - 1) * PageSize \in Nat
<1>1. IsTopicAsk(ask) /\ IntMax \in Nat /\ PageDefault \in 1..IntMax
  BY PagingAssumption, TopicViewsAssumption DEF TopicIds
<1>2. ask.page \in 1..IntMax /\ ask.pageSize \in Int /\ ask.pageSize <= IntMax
  BY <1>1 DEF IsTopicAsk
<1>3. PageSize \in 1..IntMax
  BY <1>1, <1>2 DEF PageSize
<1>4. \A m, n \in Nat : (m + 1 - 1) * n \in Nat
  OBVIOUS
<1>5. PICK m \in Nat : ask.page = m + 1
  BY <1>1, <1>2
<1> QED
  BY <1>1, <1>3, <1>4, <1>5

(* So T1 answers with the page that was asked for. *)
LEMMA PageIs ==
    ASSUME ask \in Asks, ask.id = "T1", DOMAIN topics \subseteq Range(Names),
           PageSize > 0, (ask.page - 1) * PageSize <= IntMax,
           ~ Panics(ask.page, PageSize, Len(Fitting)),
           NEW value, value.total = Len(Fitting), DOMAIN value.items = DOMAIN PageOf(Fitting, ask.page, PageSize),
           \A k \in DOMAIN value.items : value.items[k].name = PageOf(Fitting, ask.page, PageSize)[k]
    PROVE  IsPageOf(value)
<1> DEFINE S == {n \in DOMAIN topics : (ask.internal \/ ~ topics[n].internal) /\ ask.pattern \in {"", n}}
           fits == {i \in DOMAIN Names : Existing(Names[i])
                       /\ (ask.internal \/ ~ topics[Names[i]].internal) /\ ask.pattern \in {"", Names[i]}}
           before == (ask.page - 1) * PageSize
           size == PageSize
<1>1. fits = PlacesOf(S)
  BY DEF PlacesOf, Existing
<1>2. Fitting = Sorted(S)
  BY DEF Fitting
<1>3. size \in 1..IntMax /\ before \in Nat
  BY PageAsked
<1> HIDE DEF S, fits
<1>4. PICK s : s = Fitting
  OBVIOUS
<1>5. S \subseteq Range(Names)
  BY DEF S
<1>6. Len(s) = Cardinality(fits) /\ Len(s) \in Nat /\ s \in Seq(S)
  BY <1>1, <1>2, <1>4, <1>5, Ranks
<1>7. PICK at \in [1..Len(s) -> fits] :
          /\ \A r \in 1..Len(s) : Names[at[r]] = s[r] /\ RankOf(at[r], S) = r - 1
          /\ \A i \in fits : \E r \in 1..Len(s) : at[r] = i
  BY <1>1, <1>2, <1>4, <1>5, Ranks
<1> DEFINE Rank(i) == Cardinality({j \in fits : j < i})
<1>8. \A i : RankOf(i, S) = Rank(i)
  BY <1>1 DEF RankOf
<1>9. /\ before \in Nat
      /\ \A k : k \in DOMAIN value.items <=> k \in 1..size /\ before + k \in 1..Len(s)
      /\ \A k \in DOMAIN value.items : value.items[k].name = s[before + k]
  <2>1. before = (ask.page - 1) * size
    OBVIOUS
  <2> DEFINE items == PageOf(s, ask.page, size)
  <2>2. /\ \A k : k \in DOMAIN items <=> k \in 1..size /\ before + k \in 1..Len(s)
        /\ \A k \in DOMAIN items : items[k] = s[before + k]
    <3>1. before <= IntMax /\ ~ Panics(ask.page, size, Len(s))
      BY <1>4
    <3>2. before \in 0..IntMax
      BY <1>3, <3>1, PagingAssumption
    <3> HIDE DEF before
    <3>3. PageStart(ask.page, size) = before
      BY <2>1, <3>2, Fits DEF PageStart
    <3> HIDE DEF size
    <3> QED
      BY <1>3, <1>6, <3>1, <3>3, PageHolds
  <2>3. DOMAIN value.items = DOMAIN items /\ \A k \in DOMAIN value.items : value.items[k].name = items[k]
    BY <1>4
  <2> HIDE DEF items, before, size
  <2> QED
    BY <1>3, <2>2, <2>3
<1> HIDE DEF before, size, Rank
<1>10. DOMAIN s = 1..Len(s) /\ size \in Nat
  BY <1>3, <1>6, PagingAssumption
<1> DEFINE shown == {x \in fits : before <= Rank(x) /\ Rank(x) < before + size}
           L == {<<k, value.items[k].name>> : k \in DOMAIN value.items}
           R == {<<Rank(i) + 1 - before, Names[i]>> : i \in shown}
<1>11. ASSUME NEW k \in DOMAIN value.items PROVE <<k, value.items[k].name>> \in R
  <2>1. before + k \in 1..Len(s) /\ k \in 1..size
    BY <1>9, <1>10
  <2> DEFINE r == before + k
             i == at[r]
  <2>2. r \in 1..Len(s) /\ r = before + k
    BY <2>1
  <2> HIDE DEF r
  <2>3. i \in fits /\ Names[i] = s[r] /\ Rank(i) = r - 1
    BY <1>7, <1>8, <2>2
  <2> HIDE DEF i
  <2>4. i \in shown /\ Rank(i) + 1 - before = k
    BY <1>9, <1>10, <2>1, <2>2, <2>3
  <2>5. <<Rank(i) + 1 - before, Names[i]>> \in R
    BY <2>4
  <2> QED
    BY <1>9, <2>2, <2>3, <2>4, <2>5
<1>12. ASSUME NEW i \in shown PROVE <<Rank(i) + 1 - before, Names[i]>> \in L
  <2>1. PICK r \in 1..Len(s) : at[r] = i
    BY <1>7
  <2>2. Rank(i) = r - 1 /\ Names[i] = s[r]
    BY <1>7, <1>8, <2>1
  <2> DEFINE k == r - before
  <2>3. k \in 1..size /\ before + k = r /\ k = Rank(i) + 1 - before
    BY <1>9, <1>10, <2>2
  <2> HIDE DEF k
  <2>4. k \in DOMAIN value.items /\ value.items[k].name = s[r]
    BY <1>9, <1>10, <2>3
  <2>5. <<k, value.items[k].name>> \in L
    BY <2>4
  <2> QED
    BY <2>2, <2>3, <2>4, <2>5
<1>13. L = R
  <2>1. L \subseteq R
    <3> HIDE DEF R
    <3> QED
      BY <1>11
  <2>2. R \subseteq L
    <3> HIDE DEF L, shown
    <3> QED
      BY <1>12
  <2> QED
    BY <2>1, <2>2
<1>14. value.total = Cardinality(fits)
  BY <1>4, <1>6
<1> QED
  BY <1>13, <1>14 DEF IsPageOf, fits, before, size, Rank

-----------------------------------------------------------------------------
(* C4.  What two sequences hold that are put together. *)
LEMMA Joined ==
    ASSUME NEW E, NEW s \in Seq(E), NEW t \in Seq(E)
    PROVE  /\ s \o t \in Seq(E) /\ Range(s \o t) = Range(s) \cup Range(t)
           /\ IsInjective(s) /\ IsInjective(t) /\ Range(s) \cap Range(t) = {} => IsInjective(s \o t)
<1> DEFINE u == s \o t
<1>1. /\ u \in Seq(E) /\ Len(u) = Len(s) + Len(t) /\ Len(s) \in Nat /\ Len(t) \in Nat
      /\ DOMAIN s = 1..Len(s) /\ DOMAIN t = 1..Len(t) /\ DOMAIN u = 1..(Len(s) + Len(t))
      /\ \A i \in 1..Len(s) : u[i] = s[i]
      /\ \A i \in 1..Len(t) : u[Len(s) + i] = t[i]
  OBVIOUS
<1> HIDE DEF u
<1>2. \A i \in DOMAIN u : (i \in DOMAIN s /\ u[i] = s[i]) \/ (i - Len(s) \in DOMAIN t /\ u[i] = t[i - Len(s)])
  <2> SUFFICES ASSUME NEW i \in DOMAIN u, i \notin DOMAIN s
               PROVE  i - Len(s) \in DOMAIN t /\ u[i] = t[i - Len(s)]
    BY <1>1
  <2>1. i - Len(s) \in 1..Len(t) /\ Len(s) + (i - Len(s)) = i
    BY <1>1
  <2> QED
    BY <1>1, <2>1
<1>3. Range(u) = Range(s) \cup Range(t)
  <2>1. Range(u) \subseteq Range(s) \cup Range(t)
    BY <1>2 DEF Range
  <2>2. Range(s) \subseteq Range(u)
    BY <1>1 DEF Range
  <2>3. ASSUME NEW j \in DOMAIN t PROVE t[j] \in Range(u)
    <3>1. Len(s) + j \in DOMAIN u /\ u[Len(s) + j] = t[j]
      BY <1>1
    <3> QED
      BY <3>1 DEF Range
  <2> QED
    BY <2>1, <2>2, <2>3 DEF Range
<1>4. ASSUME IsInjective(s), IsInjective(t), Range(s) \cap Range(t) = {} PROVE IsInjective(u)
  <2> SUFFICES ASSUME NEW a \in DOMAIN u, NEW b \in DOMAIN u, u[a] = u[b] PROVE a = b
    BY DEF IsInjective
  <2>1. a \in Int /\ b \in Int
    BY <1>1
  <2>2. CASE a \in DOMAIN s /\ u[a] = s[a] /\ b \in DOMAIN s /\ u[b] = s[b]
    BY <1>4, <2>2 DEF IsInjective
  <2>3. CASE a - Len(s) \in DOMAIN t /\ u[a] = t[a - Len(s)] /\ b - Len(s) \in DOMAIN t /\ u[b] = t[b - Len(s)]
    <3>1. a - Len(s) = b - Len(s)
      BY <1>4, <2>3 DEF IsInjective
    <3> QED
      BY <1>1, <2>1, <3>1
  <2>4. \A i \in DOMAIN s, j \in DOMAIN t : s[i] # t[j]
    BY <1>4 DEF Range
  <2> QED
    BY <1>2, <2>2, <2>3, <2>4
<1> QED
  BY <1>1, <1>3, <1>4 DEF u

(* And many that are: all that each of them holds, and nothing twice if    *)
(* none holds anything twice and no two the same.                          *)
LEMMA Flattened ==
    ASSUME NEW E, NEW ss \in Seq(Seq(E))
    PROVE  /\ FlattenSeq(ss) \in Seq(E)
           /\ Range(FlattenSeq(ss)) = UNION {Range(ss[k]) : k \in DOMAIN ss}
           /\ (/\ \A k \in DOMAIN ss : IsInjective(ss[k])
               /\ \A k, l \in DOMAIN ss : k # l => Range(ss[k]) \cap Range(ss[l]) = {}) => IsInjective(FlattenSeq(ss))
<1>1. Len(ss) \in Nat /\ DOMAIN ss = 1..Len(ss) /\ \A k \in DOMAIN ss : ss[k] \in Seq(E)
  OBVIOUS
<1> DEFINE Body(F, i) == IF i = 1 THEN ss[i] ELSE F[i - 1] \o ss[i]
           Good(F, n) == F = [i \in 1..n |-> Body(F, i)]
           Of(n) == UNION {Range(ss[k]) : k \in 1..n}
           Apart == /\ \A k \in DOMAIN ss : IsInjective(ss[k])
                    /\ \A k, l \in DOMAIN ss : k # l => Range(ss[k]) \cap Range(ss[l]) = {}
           Right(s, n) == s \in Seq(E) /\ Range(s) = Of(n) /\ (Apart => IsInjective(s))
           Bad == {n \in Nat : n \in 1..Len(ss) /\ ~ \E F : Good(F, n) /\ \A i \in 1..n : Right(F[i], i)}
<1> HIDE DEF Apart, Right, Of
<1>2. Right(ss[1], 1) \/ Len(ss) = 0
  <2> SUFFICES ASSUME Len(ss) # 0 PROVE Right(ss[1], 1)
    OBVIOUS
  <2>1. 1 \in DOMAIN ss /\ 1..1 = {1}
    BY <1>1
  <2>2. Of(1) = Range(ss[1])
    BY <2>1 DEF Of
  <2> QED
    BY <1>1, <2>1, <2>2 DEF Apart, Right
<1>3. ASSUME NEW n \in 1..Len(ss), n + 1 \in 1..Len(ss), NEW s, Right(s, n) PROVE Right(s \o ss[n + 1], n + 1)
  <2>1. s \o ss[n + 1] \in Seq(E) /\ Range(s \o ss[n + 1]) = Range(s) \cup Range(ss[n + 1])
    BY <1>1, <1>3, Joined DEF Right
  <2>2. Of(n + 1) = Of(n) \cup Range(ss[n + 1])
    <3>1. 1..(n + 1) = 1..n \cup {n + 1}
      BY <1>1
    <3> QED
      BY <3>1 DEF Of
  <2>3. ASSUME Apart PROVE IsInjective(s \o ss[n + 1])
    <3>1. n + 1 \in DOMAIN ss /\ \A k \in 1..n : k \in DOMAIN ss /\ k # n + 1
      BY <1>1, <1>3
    <3>2. IsInjective(ss[n + 1]) /\ \A k \in 1..n : Range(ss[k]) \cap Range(ss[n + 1]) = {}
      BY <2>3, <3>1 DEF Apart
    <3>3. Range(s) \cap Range(ss[n + 1]) = {}
      BY <1>3, <3>2 DEF Right, Of
    <3> QED
      BY <1>1, <1>3, <2>3, <3>1, <3>2, <3>3, Joined DEF Right
  <2> QED
    BY <1>3, <2>1, <2>2, <2>3 DEF Right
<1>4. ASSUME NEW n \in 1..Len(ss), n + 1 \in 1..Len(ss), NEW F, Good(F, n), \A i \in 1..n : Right(F[i], i)
      PROVE  \E G : Good(G, n + 1) /\ \A i \in 1..(n + 1) : Right(G[i], i)
  <2> DEFINE G == [i \in 1..(n + 1) |-> Body(F, i)]
  <2>1. n \in Nat /\ n + 1 # 1 /\ (n + 1) - 1 = n /\ n + 1 \in 1..(n + 1)
    BY <1>1
  <2>2. \A i \in 1..n : i \in 1..(n + 1)
    BY <2>1
  <2>3. \A i \in 1..(n + 1) : i \in 1..n \/ i = n + 1
    BY <2>1
  <2>4. \A i \in 1..(n + 1) : i # 1 => i - 1 \in 1..n
    BY <2>1
  <2>5. \A i \in 1..(n + 1) : G[i] = Body(F, i)
    OBVIOUS
  <2>6. \A i \in 1..n : F[i] = Body(F, i)
    BY <1>4
  <2>7. \A i \in 1..n : G[i] = F[i]
    <3> HIDE DEF G, Body
    <3> QED
      BY <2>2, <2>5, <2>6
  <2>8. \A i \in 1..(n + 1) : Body(F, i) = Body(G, i)
    <3> HIDE DEF G
    <3> QED
      BY <2>4, <2>7
  <2>9. Good(G, n + 1)
    <3>1. G = [i \in 1..(n + 1) |-> G[i]]
      OBVIOUS
    <3> HIDE DEF G, Body
    <3> QED
      BY <2>5, <2>8, <3>1
  <2>10. G[n + 1] = F[n] \o ss[n + 1]
    <3> HIDE DEF G
    <3> QED
      BY <2>1, <2>5
  <2> HIDE DEF G, Good
  <2>11. Right(G[n + 1], n + 1)
    <3>1. Right(F[n], n)
      BY <1>4, <2>1
    <3> QED
      BY <1>3, <1>4, <2>10, <3>1
  <2>12. \A i \in 1..(n + 1) : Right(G[i], i)
    BY <1>4, <2>3, <2>7, <2>11
  <2> QED
    BY <2>9, <2>12
<1>5. ASSUME Len(ss) # 0 PROVE \E F : Good(F, 1) /\ \A i \in 1..1 : Right(F[i], i)
  <2> DEFINE F == [i \in 1..1 |-> ss[i]]
  <2>1. Good(F, 1) /\ F[1] = ss[1]
    OBVIOUS
  <2> HIDE DEF F, Good, Right
  <2> QED
    BY <1>2, <1>5, <2>1
<1>6. Bad = {}
  <2> SUFFICES ASSUME Bad # {} PROVE FALSE
    OBVIOUS
  <2>1. PICK n \in Bad : \A m \in Bad : n <= m
    <3>1. Bad \subseteq Nat
      OBVIOUS
    <3> HIDE DEF Bad
    <3> QED
      BY <3>1, Least
  <2> HIDE DEF Good, Right
  <2>2. n # 1 /\ n \in 1..Len(ss)
    BY <1>1, <1>5
  <2>3. n \in Nat /\ n - 1 \in Nat /\ n - 1 \in 1..Len(ss) /\ (n - 1) + 1 = n /\ ~ (n <= n - 1)
    BY <1>1, <2>2
  <2>6. n - 1 \notin Bad
    <3> HIDE DEF Bad
    <3> QED
      BY <2>1, <2>3
  <2>4. PICK F : Good(F, n - 1) /\ \A i \in 1..(n - 1) : Right(F[i], i)
    BY <2>3, <2>6
  <2>5. \E G : Good(G, (n - 1) + 1) /\ \A i \in 1..((n - 1) + 1) : Right(G[i], i)
    BY <1>4, <2>2, <2>3, <2>4
  <2> QED
    BY <2>3, <2>5
<1>7. CASE Len(ss) = 0
  <2>1. FlattenSeq(ss) = ss /\ DOMAIN ss = {} /\ ss = <<>>
    BY <1>1, <1>7 DEF FlattenSeq
  <2> QED
    BY <2>1 DEF Range, IsInjective
<1>8. CASE Len(ss) # 0
  <2> DEFINE L == Len(ss)
             A == CHOOSE F : Good(F, L)
  <2>1. FlattenSeq(ss) = A[L]
    BY <1>8 DEF FlattenSeq
  <2>2. L \in 1..Len(ss) /\ L \in Nat
    BY <1>1, <1>8
  <2>3. PICK F : Good(F, L) /\ \A i \in 1..L : Right(F[i], i)
    <3> HIDE DEF Good
    <3> QED
      BY <1>6, <2>2
  <2>4. Good(A, L)
    <3> HIDE DEF Good
    <3> QED
      BY <2>3
  <2>5. \A i \in 1..L : A[i] = F[i]
    <3> DEFINE Other == {i \in Nat : i \in 1..L /\ A[i] # F[i]}
    <3> HIDE DEF A
    <3>5. \A i \in 1..L : i \in Nat
      BY <2>2
    <3> SUFFICES ASSUME Other # {} PROVE FALSE
      BY <3>5
    <3>1. PICK n \in Other : \A m \in Other : n <= m
      <4>1. Other \subseteq Nat
        OBVIOUS
      <4> HIDE DEF Other
      <4> QED
        BY <4>1, Least
    <3>2. n \in 1..L /\ A[n] = Body(A, n) /\ F[n] = Body(F, n)
      BY <2>3, <2>4
    <3>6. n # 1 => n - 1 \in 1..L /\ ~ (n <= n - 1)
      BY <2>2, <3>2
    <3>3. n # 1 => n - 1 \in 1..L /\ n - 1 \notin Other
      BY <3>1, <3>6
    <3>4. n # 1 => A[n - 1] = F[n - 1]
      BY <3>3
    <3> QED
      BY <3>2, <3>4
  <2> HIDE DEF A, Good
  <2>6. Right(A[L], L)
    BY <2>2, <2>3, <2>5
  <2>7. Right(FlattenSeq(ss), Len(ss))
    BY <2>1, <2>6
  <2> QED
    BY <1>1, <2>7 DEF Right, Apart, Of
<1> QED
  BY <1>7, <1>8

(* The entry of one issue, or none. *)
OneOrNone(e, there) == IF there THEN <<e>> ELSE <<>>

LEMMA One ==
    ASSUME NEW E, NEW e \in E, NEW there \in BOOLEAN
    PROVE  /\ OneOrNone(e, there) \in Seq(E) /\ Range(OneOrNone(e, there)) = IF there THEN {e} ELSE {}
           /\ IsInjective(OneOrNone(e, there))
<1>1. CASE there
  <2>1. <<e>> \in Seq(E) /\ DOMAIN <<e>> = {1} /\ <<e>>[1] = e
    OBVIOUS
  <2> QED
    BY <1>1, <2>1 DEF OneOrNone, Range, IsInjective
<1>2. CASE ~ there
  <2>1. <<>> \in Seq(E) /\ DOMAIN <<>> = {}
    OBVIOUS
  <2> QED
    BY <1>2, <2>1 DEF OneOrNone, Range, IsInjective
<1> QED
  BY <1>1, <1>2

(* A partition has each issue that it has once. *)
Entries == (DOMAIN topics) \X Nat \X Issues

IssuesOf(n, i) == {<<n, i, issue>> : issue \in {x \in Issues : HasIssue(topics[n].parts[i], x)}}

LEMMA PartitionIssuesAre ==
    ASSUME NEW n \in DOMAIN topics, NEW i \in Nat
    PROVE  /\ PartitionIssues(n, i) \in Seq(Entries) /\ Range(PartitionIssues(n, i)) = IssuesOf(n, i)
           /\ IsInjective(PartitionIssues(n, i))
<1> DEFINE p == topics[n].parts[i]
           Has(issue) == HasIssue(p, issue) = TRUE
           If(issue) == OneOrNone(<<n, i, issue>>, Has(issue))
           s == If("offline")
           t == If("under_replicated")
           u == If("non_preferred_leader")
           st == s \o t
<1>1. PartitionIssues(n, i) = st \o u
  BY DEF PartitionIssues, OneOrNone
<1>2. \A issue \in Issues : <<n, i, issue>> \in Entries /\ Has(issue) \in BOOLEAN
  BY DEF Entries
<1>3. \A issue \in Issues : /\ If(issue) \in Seq(Entries) /\ IsInjective(If(issue))
                            /\ Range(If(issue)) = IF Has(issue) THEN {<<n, i, issue>>} ELSE {}
  <2> HIDE DEF Has
  <2> QED
    BY <1>2, One
<1> HIDE DEF If, Has
<1>4. /\ s \in Seq(Entries) /\ IsInjective(s) /\ Range(s) = IF Has("offline") THEN {<<n, i, "offline">>} ELSE {}
      /\ t \in Seq(Entries) /\ IsInjective(t)
      /\ Range(t) = IF Has("under_replicated") THEN {<<n, i, "under_replicated">>} ELSE {}
      /\ u \in Seq(Entries) /\ IsInjective(u)
      /\ Range(u) = IF Has("non_preferred_leader") THEN {<<n, i, "non_preferred_leader">>} ELSE {}
  BY <1>3 DEF Issues
<1> HIDE DEF s, t, u
<1>5. st \in Seq(Entries) /\ Range(st) = Range(s) \cup Range(t) /\ IsInjective(st)
  <2>1. Range(s) \cap Range(t) = {}
    BY <1>4
  <2> QED
    BY <1>4, <2>1, Joined
<1> HIDE DEF st
<1>6. /\ st \o u \in Seq(Entries) /\ Range(st \o u) = Range(s) \cup Range(t) \cup Range(u) /\ IsInjective(st \o u)
  <2>1. Range(st) \cap Range(u) = {}
    BY <1>4, <1>5
  <2> QED
    BY <1>4, <1>5, <2>1, Joined
<1>7. IssuesOf(n, i) = Range(s) \cup Range(t) \cup Range(u)
  <2>1. IssuesOf(n, i) = {<<n, i, issue>> : issue \in {x \in Issues : Has(x)}}
    BY DEF IssuesOf, Has
  <2> QED
    BY <1>4, <2>1 DEF Issues
<1> QED
  BY <1>1, <1>6, <1>7

(* So the issues of all partitions are listed, each once. *)
LEMMA AllIssuesAre ==
    ASSUME ClusterShape
    PROVE  /\ AllIssues \in Seq(Entries) /\ IsInjective(AllIssues)
           /\ Range(AllIssues) = UNION {IssuesOf(tp[1], tp[2]) : tp \in Placed}
<1> DEFINE names == Sorted(DOMAIN topics)
           Parts(n) == [i \in DOMAIN topics[n].parts |-> PartitionIssues(n, i)]
           ss == [k \in DOMAIN names |-> FlattenSeq(Parts(names[k]))]
           OfTopic(n) == UNION {IssuesOf(n, i) : i \in DOMAIN topics[n].parts}
<1>1. /\ names \in Seq(DOMAIN topics) /\ Range(names) = DOMAIN topics
      /\ DOMAIN names = 1..Len(names) /\ Len(names) \in Nat
      /\ \A k, l \in DOMAIN names : k # l => names[k] # names[l]
  <2>1. names \in Seq(DOMAIN topics) /\ Range(names) = DOMAIN topics /\ Ascending(names)
    BY SortedIs DEF ClusterShape
  <2> HIDE DEF names
  <2>2. \A k, l \in DOMAIN names : k < l => names[k] # names[l]
    <3> SUFFICES ASSUME NEW k \in DOMAIN names, NEW l \in DOMAIN names, k < l PROVE names[k] # names[l]
      OBVIOUS
    <3>1. PICK i, j \in DOMAIN Names : i < j /\ Names[i] = names[k] /\ Names[j] = names[l]
      BY <2>1 DEF Ascending
    <3>2. i # j
      BY <3>1, ClusterAssumption
    <3> QED
      BY <3>1, <3>2, ClusterAssumption DEF IsInjective
  <2>3. DOMAIN names = 1..Len(names) /\ Len(names) \in Nat
    BY <2>1
  <2> QED
    BY <2>1, <2>2, <2>3
<1>2. ASSUME NEW n \in DOMAIN topics
      PROVE  /\ FlattenSeq(Parts(n)) \in Seq(Entries) /\ Range(FlattenSeq(Parts(n))) = OfTopic(n)
             /\ IsInjective(FlattenSeq(Parts(n)))
  <2> DEFINE parts == topics[n].parts
             q == Parts(n)
  <2>1. DOMAIN parts = 1..Len(parts) /\ Len(parts) \in Nat
    <3>1. parts \in Seq(Partition)
      BY DEF ClusterShape, HasShape, IsTopic
    <3> QED
      BY <3>1
  <2>2. \A i \in DOMAIN parts : i \in Nat
    BY <2>1
  <2>3. \A i \in DOMAIN parts : q[i] \in Seq(Entries) /\ Range(q[i]) = IssuesOf(n, i) /\ IsInjective(q[i])
    BY <2>2, PartitionIssuesAre
  <2>4. DOMAIN q = DOMAIN parts
    OBVIOUS
  <2> HIDE DEF q, parts
  <2>5. q \in Seq(Seq(Entries))
    <3>1. q \in [1..Len(parts) -> Seq(Entries)]
      <4>1. q = [i \in DOMAIN q |-> q[i]]
        BY DEF q
      <4> QED
        BY <2>1, <2>3, <2>4, <4>1
    <3> QED
      BY <2>1, <3>1
  <2>6. \A k, l \in DOMAIN q : k # l => Range(q[k]) \cap Range(q[l]) = {}
    BY <2>3, <2>4 DEF IssuesOf
  <2>7. /\ FlattenSeq(q) \in Seq(Entries) /\ IsInjective(FlattenSeq(q))
        /\ Range(FlattenSeq(q)) = UNION {Range(q[k]) : k \in DOMAIN q}
    BY <2>3, <2>4, <2>5, <2>6, Flattened
  <2>8. UNION {Range(q[k]) : k \in DOMAIN q} = UNION {IssuesOf(n, i) : i \in DOMAIN parts}
    BY <2>3, <2>4
  <2> QED
    BY <2>7, <2>8 DEF q, parts
<1>3. AllIssues = FlattenSeq(ss)
  BY DEF AllIssues
<1> HIDE DEF Parts, names, OfTopic
<1>4. /\ DOMAIN ss = DOMAIN names
      /\ \A k \in DOMAIN names : /\ names[k] \in DOMAIN topics
                                 /\ ss[k] \in Seq(Entries) /\ Range(ss[k]) = OfTopic(names[k]) /\ IsInjective(ss[k])
  BY <1>1, <1>2
<1>5. ss \in Seq(Seq(Entries))
  <2>1. ss = [k \in DOMAIN ss |-> ss[k]]
    OBVIOUS
  <2> HIDE DEF ss
  <2>2. ss \in [1..Len(names) -> Seq(Entries)]
    BY <1>1, <1>4, <2>1
  <2> QED
    BY <1>1, <2>2
<1> HIDE DEF ss
<1>6. \A n : \A e \in OfTopic(n) : e[1] = n
  BY DEF OfTopic, IssuesOf
<1>7. \A k, l \in DOMAIN ss : k # l => Range(ss[k]) \cap Range(ss[l]) = {}
  BY <1>1, <1>4, <1>6
<1>8. /\ FlattenSeq(ss) \in Seq(Entries) /\ IsInjective(FlattenSeq(ss))
      /\ Range(FlattenSeq(ss)) = UNION {Range(ss[k]) : k \in DOMAIN ss}
  BY <1>4, <1>5, <1>7, Flattened
<1>9. UNION {Range(ss[k]) : k \in DOMAIN ss} = UNION {OfTopic(n) : n \in DOMAIN topics}
  BY <1>1, <1>4 DEF Range
<1>10. UNION {OfTopic(n) : n \in DOMAIN topics} = UNION {IssuesOf(tp[1], tp[2]) : tp \in Placed}
  <2>1. \A n \in DOMAIN topics : \A i \in DOMAIN topics[n].parts : <<n, i>> \in Placed
    BY DEF Placed
  <2>2. \A tp \in Placed : tp[1] \in DOMAIN topics /\ tp[2] \in DOMAIN topics[tp[1]].parts
    BY DEF Placed
  <2>3. ASSUME NEW e, e \in UNION {OfTopic(n) : n \in DOMAIN topics}
        PROVE  e \in UNION {IssuesOf(tp[1], tp[2]) : tp \in Placed}
    <3>1. PICK n \in DOMAIN topics : \E i \in DOMAIN topics[n].parts : e \in IssuesOf(n, i)
      BY <2>3 DEF OfTopic
    <3>3. PICK i \in DOMAIN topics[n].parts : e \in IssuesOf(n, i)
      BY <3>1
    <3> DEFINE tp == <<n, i>>
    <3>2. tp \in Placed /\ tp[1] = n /\ tp[2] = i
      BY <2>1
    <3> HIDE DEF tp
    <3> QED
      BY <3>2, <3>3
  <2>4. ASSUME NEW tp \in Placed, NEW e \in IssuesOf(tp[1], tp[2]) PROVE e \in UNION {OfTopic(n) : n \in DOMAIN topics}
    BY <2>2, <2>4 DEF OfTopic
  <2> QED
    BY <2>3, <2>4
<1> QED
  BY <1>3, <1>8, <1>9, <1>10

(* One element more than two. *)
LEMMA Third ==
    ASSUME NEW a, NEW b, NEW c
    PROVE  Append(<<a, b>>, c) = <<a, b, c>>
<1> DEFINE S == {a, b, c}
<1>1. ASSUME NEW s \in Seq(S), NEW e \in S, NEW t \in Seq(S), Len(s) = 2, Len(t) = 3, t[1] = s[1], t[2] = s[2], t[3] = e
      PROVE  Append(s, e) = t
  <2> HIDE DEF S
  <2>1. /\ Append(s, e) \in Seq(S) /\ Len(Append(s, e)) = Len(s) + 1
        /\ \A i \in 1..Len(s) : Append(s, e)[i] = s[i]
        /\ Append(s, e)[Len(s) + 1] = e
    BY AppendProperties
  <2>2. Len(s) \in Nat
    OBVIOUS
  <2> DEFINE u == Append(s, e)
  <2> HIDE DEF u
  <2>3. Len(u) = 3 /\ u \in Seq(S) /\ u[1] = s[1] /\ u[2] = s[2] /\ u[3] = e
    BY <1>1, <2>1, <2>2 DEF u
  <2>4. \A i \in 1..Len(u) : u[i] = t[i]
    BY <1>1, <2>3
  <2>5. u = t
    BY <1>1, <2>3, <2>4, SeqEqual
  <2> QED
    BY <2>5 DEF u
<1>2. <<a, b>> \in Seq(S) /\ c \in S /\ <<a, b, c>> \in Seq(S)
  OBVIOUS
<1> QED
  BY <1>1, <1>2

(* C4 counts what is wrong, and lists it. *)
LEMMA HealthIs ==
    ASSUME ClusterShape, NEW health, health = Health, NEW issue \in Issues,
           NEW bad, bad = {tp \in Placed : HasIssue(Part(tp), issue)}
    PROVE  /\ health.counts[issue] = Cardinality(bad)
           /\ {e \in Range(health.affected) : e[3] = issue} \subseteq {Append(tp, issue) : tp \in bad}
           /\ ~ health.truncated => {Append(tp, issue) : tp \in bad} \subseteq Range(health.affected)
<1> DEFINE all == AllIssues
           K == {k \in DOMAIN all : all[k][3] = issue}
           m == IF Len(all) < MaxAffected THEN Len(all) ELSE MaxAffected
<1>1. /\ health.counts[issue] = Cardinality(K) /\ health.affected = SubSeq(all, 1, m)
      /\ health.truncated = (Len(all) > MaxAffected)
  BY DEF Health
<1>2. all \in Seq(Entries) /\ IsInjective(all) /\ Range(all) = UNION {IssuesOf(tp[1], tp[2]) : tp \in Placed}
  BY AllIssuesAre
<1> HIDE DEF all
<1>3. Len(all) \in Nat /\ DOMAIN all = 1..Len(all) /\ MaxAffected \in Nat
  BY <1>2, ClusterAssumption
<1>4. \A tp \in Placed : tp = <<tp[1], tp[2]>> /\ tp[1] \in DOMAIN topics /\ Append(tp, issue) = <<tp[1], tp[2], issue>>
  <2>1. \A tp \in Placed : tp = <<tp[1], tp[2]>> /\ tp[1] \in DOMAIN topics
    BY DEF Placed
  <2>3. ASSUME NEW tp \in Placed PROVE Append(tp, issue) = <<tp[1], tp[2], issue>>
    BY <2>1, Third
  <2> QED
    BY <2>1, <2>3
<1>5. \A k \in K : <<all[k][1], all[k][2]>> \in bad /\ all[k] = <<all[k][1], all[k][2], issue>>
  <2> SUFFICES ASSUME NEW k \in K PROVE <<all[k][1], all[k][2]>> \in bad /\ all[k] = <<all[k][1], all[k][2], issue>>
    OBVIOUS
  <2>1. all[k] \in Range(all) /\ all[k][3] = issue
    BY DEF Range
  <2>2. PICK tp \in Placed : all[k] \in IssuesOf(tp[1], tp[2])
    BY <1>2, <2>1
  <2>3. all[k] = <<tp[1], tp[2], issue>> /\ HasIssue(topics[tp[1]].parts[tp[2]], issue)
    BY <2>1, <2>2 DEF IssuesOf
  <2>4. tp \in bad
    BY <2>3 DEF Part
  <2> QED
    BY <1>4, <2>3, <2>4
<1>6. \A tp \in bad : \E k \in K : all[k] = <<tp[1], tp[2], issue>>
  <2> SUFFICES ASSUME NEW tp \in bad PROVE \E k \in K : all[k] = <<tp[1], tp[2], issue>>
    OBVIOUS
  <2> DEFINE e == <<tp[1], tp[2], issue>>
  <2>1. e \in IssuesOf(tp[1], tp[2]) /\ e[3] = issue /\ tp \in Placed
    BY DEF IssuesOf, Part
  <2> HIDE DEF e
  <2>2. e \in Range(all)
    BY <1>2, <2>1
  <2> QED
    BY <2>1, <2>2 DEF Range, e
<1>7. Cardinality(K) = Cardinality(bad)
  <2> DEFINE f == [k \in K |-> <<all[k][1], all[k][2]>>]
  <2>1. f \in [K -> bad]
    BY <1>5
  <2>2. \A k, l \in K : f[k] = f[l] => k = l
    <3> SUFFICES ASSUME NEW k \in K, NEW l \in K, <<all[k][1], all[k][2]>> = <<all[l][1], all[l][2]>> PROVE k = l
      OBVIOUS
    <3>1. all[k] = all[l]
      BY <1>5
    <3> QED
      BY <1>2, <3>1 DEF IsInjective
  <2>3. \A tp \in bad : \E k \in K : f[k] = tp
    <3> SUFFICES ASSUME NEW tp \in bad PROVE \E k \in K : f[k] = tp
      OBVIOUS
    <3>1. PICK k \in K : all[k] = <<tp[1], tp[2], issue>>
      BY <1>6
    <3>2. f[k] = <<tp[1], tp[2]>> /\ tp \in Placed
      BY <3>1
    <3> HIDE DEF f
    <3> QED
      BY <1>4, <3>2
  <2>4. DOMAIN f = K
    OBVIOUS
  <2> HIDE DEF f
  <2>5. f \in Bijection(K, bad)
    BY <2>1, <2>2, <2>3, <2>4 DEF Bijection, Injection, Surjection, IsInjective
  <2>6. IsFiniteSet(K)
    <3>1. K \in SUBSET (1..Len(all)) /\ IsFiniteSet(1..Len(all))
      BY <1>3, FS_Interval
    <3> HIDE DEF K
    <3> QED
      BY <3>1, FS_Subset
  <2> HIDE DEF K
  <2> QED
    BY <2>5, <2>6, FS_Bijection DEF ExistsBijection
<1> HIDE DEF K
<1>8. Range(health.affected) \subseteq Range(all)
  <2>1. m \in Nat /\ m <= Len(all)
    BY <1>3
  <2> HIDE DEF m
  <2>2. /\ DOMAIN SubSeq(all, 1, m) = 1..m
        /\ \A k \in 1..m : SubSeq(all, 1, m)[k] = all[k] /\ k \in DOMAIN all
    BY <1>2, <1>3, <2>1
  <2> QED
    BY <1>1, <2>2 DEF Range
<1>9. {e \in Range(health.affected) : e[3] = issue} \subseteq {Append(tp, issue) : tp \in bad}
  <2> SUFFICES ASSUME NEW e \in Range(health.affected), e[3] = issue PROVE \E tp \in bad : e = Append(tp, issue)
    OBVIOUS
  <2>1. PICK k \in K : all[k] = e
    BY <1>8 DEF Range, K
  <2> DEFINE tp == <<e[1], e[2]>>
  <2>2. tp \in bad /\ e = <<e[1], e[2], issue>> /\ tp[1] = e[1] /\ tp[2] = e[2]
    BY <1>5, <2>1
  <2> HIDE DEF tp
  <2>3. tp \in Placed
    BY <2>2
  <2>4. e = Append(tp, issue)
    BY <1>4, <2>2, <2>3
  <2> QED
    BY <2>2, <2>4
<1>10. ASSUME ~ health.truncated PROVE {Append(tp, issue) : tp \in bad} \subseteq Range(health.affected)
  <2>0. ~ (Len(all) > MaxAffected)
    BY <1>1, <1>10, Zenon
  <2>1. m = Len(all)
    <3>1. \A l, n \in Nat : ~ (l > n) => l = (IF l < n THEN l ELSE n)
      OBVIOUS
    <3> QED
      BY <1>3, <2>0, <3>1
  <2>2. SubSeq(all, 1, Len(all)) = all
    BY <1>2
  <2>3. health.affected = all
    BY <1>1, <2>1, <2>2
  <2> SUFFICES ASSUME NEW tp \in bad PROVE Append(tp, issue) \in Range(all)
    BY <2>3
  <2>4. PICK k \in K : all[k] = <<tp[1], tp[2], issue>>
    BY <1>6
  <2>5. tp \in Placed /\ k \in DOMAIN all
    BY DEF K
  <2> QED
    BY <1>4, <2>4, <2>5 DEF Range
<1> QED
  BY <1>1, <1>7, <1>9, <1>10

-----------------------------------------------------------------------------
(* The views: requests that change nothing, so that the topics change as   *)
(* others change them.                                                     *)
ViewIds == {"C4", "C10", "C11", "T1", "T2"}

(* A topic that stays has no fewer partitions and no fewer records later. *)
Later(s, t) == DOMAIN s.parts \subseteq DOMAIN t.parts /\ \A k \in DOMAIN s.parts : s.parts[k].end <= t.parts[k].end

(* The history is one of topics, and each grows as long as it stays. *)
History ==
    /\ \A i \in DOMAIN past : \A n \in DOMAIN past[i].topics :
          n \in Range(Names) /\ IsTopic(past[i].topics[n]) /\ DOMAIN past[i].topics[n].config \subseteq Keys
    /\ \A i, j \in DOMAIN past : i <= j =>
          \A n \in DOMAIN past[i].topics :
             (\A k \in i..j : n \in DOMAIN past[k].topics) => Later(past[i].topics[n], past[j].topics[n])

(* Where the partitions of a topic end are numbers. *)
LEMMA EndsAreInts ==
    ASSUME NEW parts \in Seq(Partition)
    PROVE  /\ \A k \in DOMAIN parts : parts[k] \in Partition /\ parts[k].end \in Int
           /\ DOMAIN parts = 1..Len(parts) /\ Len(parts) \in Nat
<1>1. \A p \in Partition : p.end \in Int
  BY DEF Partition
<1>2. \A k \in DOMAIN parts : parts[k] \in Partition
  OBVIOUS
<1> QED
  BY <1>1, <1>2

(* What a topic is later of. *)
LEMMA LaterSelf == ASSUME NEW t, IsTopic(t) PROVE Later(t, t)
<1>1. t.parts \in Seq(Partition)
  BY DEF IsTopic
<1>2. \A k \in DOMAIN t.parts : t.parts[k].end \in Int
  BY <1>1, EndsAreInts
<1> QED
  BY <1>2 DEF Later

LEMMA LaterStill ==
    ASSUME NEW s, NEW t, NEW u, IsTopic(s), IsTopic(t), IsTopic(u), Later(s, t), Later(t, u)
    PROVE  Later(s, u)
<1>1. \A x \in {s, t, u} : \A k \in DOMAIN x.parts : x.parts[k].end \in Int
  <2> TAKE x \in {s, t, u}
  <2>1. x.parts \in Seq(Partition)
    BY DEF IsTopic
  <2> QED
    BY <2>1, EndsAreInts
<1>2. \A k \in DOMAIN s.parts : k \in DOMAIN t.parts /\ k \in DOMAIN u.parts
  BY DEF Later
<1> QED
  BY <1>1, <1>2 DEF Later

(* What others do to one topic. *)
LEMMA OthersGrow ==
    ASSUME ClusterShape, \A n \in DOMAIN topics : DOMAIN topics[n].config \subseteq Keys, OthersMove
    PROVE  \A n \in DOMAIN topics' :
              DOMAIN topics'[n].config \subseteq Keys /\ (n \in DOMAIN topics => Later(topics[n], topics'[n]))
<1>1. \A n \in DOMAIN topics : IsTopic(topics[n]) /\ Later(topics[n], topics[n]) /\ topics[n].parts \in Seq(Partition)
  BY LaterSelf DEF ClusterShape, HasShape, IsTopic
<1>2. PICK n \in Range(Names) :
       \/ /\ ~ Existing(n)
          /\ topics' = With(topics, n, Created([partitions |-> 1, rf |-> 1, config |-> <<>>], 1))
       \/ Existing(n) /\ topics' = Restrict(topics, DOMAIN topics \ {n})
       \/ /\ Existing(n)
          /\ \E k \in Keys \ Sensitive, v \in {"1", "2"} : topics' = [topics EXCEPT ![n].config = With(@, k, v)]
       \/ /\ Existing(n)
          /\ \E i \in DOMAIN topics[n].parts :
                /\ topics[n].parts[i].end < MaxEnd
                /\ topics' = [topics EXCEPT ![n].parts[i].end = @ + 1]
       \/ /\ Existing(n) /\ Len(topics[n].parts) = 1
          /\ topics' = [topics EXCEPT ![n].parts = Append(@, [@[1] EXCEPT !.end = 0])]
  BY DEF OthersMove
<1> DEFINE t == topics[n]
           Goal == \A x \in DOMAIN topics' :
                      DOMAIN topics'[x].config \subseteq Keys /\ (x \in DOMAIN topics => Later(topics[x], topics'[x]))
<1>3. ASSUME NEW u, Existing(n), topics' = [topics EXCEPT ![n] = u], DOMAIN u.config \subseteq Keys, Later(t, u)
      PROVE  Goal
  <2>1. DOMAIN topics' = DOMAIN topics /\ \A x \in DOMAIN topics : topics'[x] = IF x = n THEN u ELSE topics[x]
    BY <1>3
  <2> QED
    BY <1>1, <1>3, <2>1
<1>4. CASE ~ Existing(n) /\ topics' = With(topics, n, Created([partitions |-> 1, rf |-> 1, config |-> <<>>], 1))
  <2> DEFINE u == Created([partitions |-> 1, rf |-> 1, config |-> <<>>], 1)
  <2>1. u.config = <<>> /\ DOMAIN <<>> = {}
    BY DEF Created
  <2> HIDE DEF u
  <2>2. DOMAIN topics' = DOMAIN topics \cup {n} /\ \A x \in DOMAIN topics' : topics'[x] = IF x = n THEN u ELSE topics[x]
    BY <1>4 DEF With, u
  <2> QED
    BY <1>1, <1>4, <2>1, <2>2 DEF Existing
<1>5. CASE topics' = Restrict(topics, DOMAIN topics \ {n})
  BY <1>1, <1>5 DEF Restrict
<1>6. ASSUME Existing(n), NEW k \in Keys, NEW v, topics' = [topics EXCEPT ![n].config = With(@, k, v)] PROVE Goal
  <2> DEFINE config == With(t.config, k, v)
             u == [t EXCEPT !.config = config]
  <2>1. topics' = [topics EXCEPT ![n] = u]
    BY <1>6 DEF Existing
  <2>2. DOMAIN config \subseteq Keys
    BY <1>6 DEF With, Existing
  <2> HIDE DEF config
  <2>3. u.parts = t.parts /\ u.config = config
    BY <1>1, <1>6, TopicWithConfig DEF Existing
  <2> HIDE DEF u
  <2>4. Later(t, u)
    BY <1>1, <1>6, <2>3 DEF Later, Existing
  <2> QED
    BY <1>3, <1>6, <2>1, <2>2, <2>3, <2>4
<1>7. ASSUME Existing(n), NEW i \in DOMAIN t.parts, topics' = [topics EXCEPT ![n].parts[i].end = @ + 1] PROVE Goal
  <2> DEFINE p == t.parts[i]
             r == [p EXCEPT !.end = p.end + 1]
             q == [t.parts EXCEPT ![i] = r]
             u == [t EXCEPT !.parts = q]
  <2>1. p \in Partition /\ p.end \in Int /\ t.parts \in Seq(Partition)
    BY <1>1, <1>7, EndsAreInts DEF Existing
  <2>2. topics' = [topics EXCEPT ![n] = u]
    BY <1>7 DEF Existing
  <2>3. r \in Partition /\ r.end = p.end + 1
    <3>1. p.end + 1 \in Int
      BY <2>1
    <3>2. \A e \in Int : \A x \in Partition : [x EXCEPT !.end = e] \in Partition /\ [x EXCEPT !.end = e].end = e
      BY DEF Partition
    <3> HIDE DEF p
    <3> QED
      BY <2>1, <3>1, <3>2
  <2> HIDE DEF r
  <2>4. /\ q \in Seq(Partition) /\ DOMAIN q = DOMAIN t.parts
        /\ \A k \in DOMAIN q : q[k] = IF k = i THEN r ELSE t.parts[k]
    BY <2>1, <2>3
  <2> HIDE DEF q
  <2>5. u.parts = q /\ u.config = t.config
    BY <1>1, <1>7, <2>4, TopicWithParts DEF Existing
  <2> HIDE DEF u
  <2>6. \A k \in DOMAIN t.parts : t.parts[k].end \in Int
    BY <2>1, EndsAreInts
  <2>7. Later(t, u)
    BY <2>1, <2>3, <2>4, <2>5, <2>6 DEF Later
  <2>8. DOMAIN u.config \subseteq Keys
    BY <1>7, <2>5 DEF Existing
  <2> QED
    BY <1>3, <1>7, <2>2, <2>7, <2>8
<1>8. ASSUME Existing(n), Len(t.parts) = 1, topics' = [topics EXCEPT ![n].parts = Append(@, [@[1] EXCEPT !.end = 0])]
      PROVE  Goal
  <2> DEFINE p == t.parts[1]
             r == [p EXCEPT !.end = 0]
             q == Append(t.parts, r)
             u == [t EXCEPT !.parts = q]
  <2>1. p \in Partition /\ t.parts \in Seq(Partition) /\ DOMAIN t.parts = 1..1
    BY <1>1, <1>8 DEF Existing
  <2>2. topics' = [topics EXCEPT ![n] = u]
    BY <1>8 DEF Existing
  <2>3. r \in Partition
    <3>1. \A x \in Partition : [x EXCEPT !.end = 0] \in Partition
      BY PartEnds
    <3> HIDE DEF p
    <3> QED
      BY <2>1, <3>1
  <2> HIDE DEF r
  <2>4. q \in Seq(Partition) /\ 1 \in DOMAIN q /\ q[1] = t.parts[1]
    BY <1>8, <2>1, <2>3
  <2> HIDE DEF q
  <2>5. u.parts = q /\ u.config = t.config
    BY <1>1, <1>8, <2>4, TopicWithParts DEF Existing
  <2> HIDE DEF u
  <2>6. t.parts[1].end \in Int
    BY <2>1, EndsAreInts
  <2>7. Later(t, u)
    BY <2>1, <2>4, <2>5, <2>6 DEF Later
  <2>8. DOMAIN u.config \subseteq Keys
    BY <1>8, <2>5 DEF Existing
  <2> QED
    BY <1>3, <1>8, <2>2, <2>7, <2>8
<1> QED
  BY <1>2, <1>4, <1>5, <1>6, <1>7, <1>8

(* The same when a broker fails. *)
LEMMA FailuresGrow ==
    ASSUME ClusterShape, \A n \in DOMAIN topics : DOMAIN topics[n].config \subseteq Keys, NEW b \in Brokers, BrokerFails(b)
    PROVE  \A n \in DOMAIN topics' :
              DOMAIN topics'[n].config \subseteq Keys /\ (n \in DOMAIN topics => Later(topics[n], topics'[n]))
<1> DEFINE parts(n) == [i \in DOMAIN topics[n].parts |-> Deprived(topics[n].parts[i], b)]
<1>1. topics' = [n \in DOMAIN topics |-> [topics[n] EXCEPT !.parts = parts(n)]]
  BY DEF BrokerFails
<1>2. ASSUME NEW p \in Partition PROVE Deprived(p, b) \in Partition /\ Deprived(p, b).end = p.end /\ p.end \in Int
  <2> DEFINE isr == p.isr \ {b}
             leader == IF p.leader = b THEN -1 ELSE p.leader
  <2>1. Deprived(p, b) = [p EXCEPT !.isr = isr, !.leader = leader]
    BY DEF Partition, Deprived
  <2> HIDE DEF isr, leader
  <2>2. [p EXCEPT !.isr = isr, !.leader = leader].end = p.end /\ p.end \in Int
    BY DEF Partition
  <2> QED
    BY <2>1, <2>2, PartFails
<1>3. ASSUME NEW n \in DOMAIN topics
      PROVE  DOMAIN topics'[n].config \subseteq Keys /\ Later(topics[n], topics'[n])
  <2> DEFINE t == topics[n]
             q == parts(n)
  <2>1. IsTopic(t) /\ t.parts \in Seq(Partition)
    BY DEF ClusterShape, HasShape, IsTopic
  <2>2. q = [k \in DOMAIN t.parts |-> q[k]] /\ DOMAIN q = DOMAIN t.parts
    OBVIOUS
  <2>3. \A k \in DOMAIN t.parts : q[k] \in Partition /\ q[k].end = t.parts[k].end /\ t.parts[k].end \in Int
    BY <1>2, <2>1
  <2>4. topics'[n] = [t EXCEPT !.parts = q]
    BY <1>1
  <2> HIDE DEF q
  <2>5. q \in Seq(Partition)
    BY <2>1, <2>2, <2>3, PartsAre
  <2>6. [t EXCEPT !.parts = q].parts = q /\ [t EXCEPT !.parts = q].config = t.config
    BY <2>1, <2>5, TopicWithParts
  <2> QED
    BY <2>2, <2>3, <2>4, <2>6 DEF Later
<1> QED
  BY <1>1, <1>3

(* The topics that a view finds are changed by others only. *)
LEMMA ViewTopics ==
    ASSUME [Next]_vars, ask.id \in ViewIds
    PROVE  topics' = topics \/ OthersMove \/ \E b \in Brokers : BrokerFails(b)
BY TopicsChange DEF MovePartitions, ImportOne, Importing, ViewIds

(* So the history is kept. *)
LEMMA HistoryKept ==
    ASSUME ClusterInv, [Next]_vars, ask.id \in ViewIds, History
    PROVE  History'
<1>1. /\ PastIsKept /\ PastIsKept' /\ ClusterShape /\ ClusterShape'
  BY PastGrows, ShapeKept DEF ClusterInv, Base
<1> DEFINE m == Len(past)
<1>2. m \in DOMAIN past /\ past[m].topics = topics /\ DOMAIN past = 1..m /\ m \in Nat
  BY <1>1 DEF PastIsKept, Now
<1> HIDE DEF m
<1>3. \A n \in DOMAIN topics : DOMAIN topics[n].config \subseteq Keys /\ IsTopic(topics[n])
  BY <1>2 DEF History
<1>4. \A n \in DOMAIN topics' : /\ DOMAIN topics'[n].config \subseteq Keys /\ IsTopic(topics'[n]) /\ n \in Range(Names)
                                /\ n \in DOMAIN topics => Later(topics[n], topics'[n])
  <2>1. CASE topics' = topics
    BY <1>1, <1>3, <2>1, LaterSelf DEF ClusterShape
  <2>2. CASE OthersMove
    BY <1>1, <1>3, <2>2, OthersGrow DEF ClusterShape, HasShape
  <2>3. CASE \E b \in Brokers : BrokerFails(b)
    BY <1>1, <1>3, <2>3, FailuresGrow DEF ClusterShape, HasShape
  <2> QED
    BY <2>1, <2>2, <2>3, ViewTopics
<1>5. CASE past' = past
  BY <1>5 DEF History
<1>6. CASE past' # past
  <2>1. /\ DOMAIN past' = 1..(m + 1) /\ past'[m + 1].topics = topics'
        /\ \A i \in 1..m : past'[i] = past[i]
    <3>1. past' = Append(past, Now')
      BY <1>6 DEF Next, vars
    <3>2. past \in Seq(Range(past) \cup {Now'})
      BY <1>1 DEF PastIsKept
    <3> DEFINE S == Range(past) \cup {Now'}
               now == Now'
    <3>3. now \in S
      OBVIOUS
    <3> HIDE DEF S, now
    <3>4. past \in Seq(S) /\ past' = Append(past, now)
      BY <3>1, <3>2 DEF S, now
    <3>5. /\ Len(past') = m + 1 /\ past' \in Seq(S) /\ past'[m + 1] = now /\ \A i \in 1..m : past'[i] = past[i]
      BY <3>3, <3>4, AppendProperties DEF m
    <3>6. now.topics = topics'
      BY DEF now, Now
    <3> QED
      BY <3>5, <3>6
  <2>2. ASSUME NEW i \in DOMAIN past', NEW n \in DOMAIN past'[i].topics
        PROVE  n \in Range(Names) /\ IsTopic(past'[i].topics[n]) /\ DOMAIN past'[i].topics[n].config \subseteq Keys
    <3>1. CASE i \in 1..m
      BY <1>2, <2>1, <2>2, <3>1 DEF History
    <3>2. CASE i = m + 1
      BY <1>4, <2>1, <2>2, <3>2
    <3> QED
      BY <1>2, <2>1, <3>1, <3>2
  <2>3. ASSUME NEW i \in DOMAIN past', NEW j \in DOMAIN past', i <= j, NEW n \in DOMAIN past'[i].topics,
               \A k \in i..j : n \in DOMAIN past'[k].topics
        PROVE  Later(past'[i].topics[n], past'[j].topics[n])
    <3>0. i \in 1..(m + 1) /\ j \in 1..(m + 1)
      BY <2>1
    <3>1. CASE j \in 1..m
      <4>1. i \in 1..m /\ \A k \in i..j : k \in 1..m
        BY <1>2, <2>3, <3>0, <3>1
      <4>2. \A k \in i..j : n \in DOMAIN past[k].topics
        BY <2>1, <2>3, <4>1
      <4>3. past'[i] = past[i] /\ past'[j] = past[j]
        BY <2>1, <3>1, <4>1
      <4> QED
        BY <1>2, <2>3, <3>1, <4>1, <4>2, <4>3 DEF History
    <3>2. CASE j = m + 1 /\ i = m + 1
      BY <2>2, <2>3, <3>2, LaterSelf
    <3>3. CASE j = m + 1 /\ i \in 1..m
      <4>1. \A k \in i..m : k \in i..j /\ k \in 1..m
        BY <1>2, <3>3
      <4>2. \A k \in i..m : n \in DOMAIN past[k].topics
        BY <2>1, <2>3, <4>1
      <4>3. past'[i] = past[i] /\ i \in DOMAIN past /\ i <= m /\ n \in DOMAIN past[i].topics /\ m \in i..m
        BY <1>2, <2>1, <2>3, <3>3
      <4>4. Later(past[i].topics[n], topics[n]) /\ n \in DOMAIN topics
        BY <1>2, <4>2, <4>3 DEF History
      <4>5. past'[j].topics = topics' /\ n \in DOMAIN topics'
        <5>1. j \in i..j
          BY <3>0, <2>3
        <5> QED
          BY <2>1, <2>3, <3>3, <5>1
      <4>6. Later(topics[n], topics'[n]) /\ IsTopic(topics[n]) /\ IsTopic(topics'[n]) /\ IsTopic(past[i].topics[n])
        BY <1>2, <1>3, <1>4, <4>3, <4>4, <4>5 DEF History
      <4> QED
        BY <4>3, <4>4, <4>5, <4>6, LaterStill
    <3> QED
      BY <1>2, <3>0, <3>1, <3>2, <3>3
  <2> QED
    BY <2>2, <2>3 DEF History
<1> QED
  BY <1>5, <1>6

-----------------------------------------------------------------------------
(* The calls that the views make. *)
ViewPath ==
    /\ ask.id = "C4" => pc \in {"http", "read", "done"}
    /\ ask.id = "C10" => pc \in {"http", "list", "first", "last", "done"}
    /\ ask.id = "C11" => pc \in {"http", "list", "describe", "done"}
    /\ ask.id = "T1" => pc \in {"http", "look", "done"}
    /\ ask.id = "T2" => pc \in {"http", "parts", "begins", "ends", "configs", "done"}

(* C10: the end offsets read of a topic are those of a moment, and those   *)
(* read again are not of an earlier one.                                   *)
HadEnds(n, ends) == \E i \in DOMAIN past : n \in DOMAIN past[i].topics /\ ends = EndsAt(i, n)

HadEndsThen(n, first, last) ==
    \E i, j \in DOMAIN past :
        /\ i <= j /\ n \in DOMAIN past[i].topics \cap DOMAIN past[j].topics
        /\ first = EndsAt(i, n) /\ last = EndsAt(j, n)

SampleFound ==
    ask.id = "C10" =>
        /\ pc \in {"http", "list", "first"} => seen.last = <<>>
        /\ pc \in {"first", "last"} => seen.todo \subseteq DOMAIN seen.listed
        /\ pc = "first" =>
              \A n \in DOMAIN seen.listed \ seen.todo : n \in DOMAIN seen.first /\ HadEnds(n, seen.first[n])
        /\ pc = "last" => \A n \in DOMAIN seen.listed : HadEnds(n, seen.first[n])
        /\ pc = "last" => \A n \in DOMAIN seen.last : HadEndsThen(n, seen.first[n], seen.last[n])

(* C11: the topics listed are those of a moment that are not internal and  *)
(* fit, and the configurations read are of that or later ones.             *)
HadConfigSince(i, n, config) ==
    \E j \in i..Len(past) : n \in DOMAIN past[j].topics /\ config = Described(ConfigAt(j, n))

ExportOf(i) ==
    /\ DOMAIN seen.listed
         = {n \in DOMAIN past[i].topics : ~ past[i].topics[n].internal /\ ask.pattern \in {"", n}}
    /\ \A n \in DOMAIN seen.listed : seen.listed[n].partitions = Len(past[i].topics[n].parts)
    /\ seen.todo \subseteq DOMAIN seen.listed
    /\ \A n \in DOMAIN seen.listed \ seen.todo : n \in DOMAIN seen.config /\ HadConfigSince(i, n, seen.config[n])

ExportFound == ask.id = "C11" /\ pc = "describe" => \E i \in DOMAIN past : ExportOf(i)

(* T2: the partitions, where they begin and where they end, one after the  *)
(* other.                                                                  *)
ReadParts(i) == ask.topic \in DOMAIN past[i].topics /\ seen.listed = past[i].topics[ask.topic].parts

ReadBegins(i) ==
    /\ ask.topic \in DOMAIN past[i].topics
    /\ DOMAIN seen.first = DOMAIN past[i].topics[ask.topic].parts
    /\ \A k \in DOMAIN seen.first : seen.first[k] \in Int /\ seen.first[k] <= past[i].topics[ask.topic].parts[k].end

ReadEnds(i) == ask.topic \in DOMAIN past[i].topics /\ seen.last = EndsAt(i, ask.topic)

DescribeFound ==
    ask.id = "T2" =>
        /\ pc = "begins" => \E i \in DOMAIN past : ReadParts(i)
        /\ pc = "ends" => \E i, j \in DOMAIN past : i <= j /\ ReadParts(i) /\ ReadBegins(j)
        /\ pc = "configs" =>
              \E i, j, k \in DOMAIN past : i <= j /\ j <= k /\ ReadParts(i) /\ ReadBegins(j) /\ ReadEnds(k)

ViewFound ==
    ask.id \in ViewIds => History /\ SeenShape /\ ViewPath /\ SampleFound /\ ExportFound /\ DescribeFound

ViewInv == ClusterInv /\ ViewFound /\ ViewIsReal

-----------------------------------------------------------------------------
(* The steps of a view. *)
LEMMA ViewSteps ==
    ASSUME [Next]_vars, ask.id \in ViewIds, ViewPath
    PROVE  \/ UNCHANGED vars
           \/ ClusterOthers
           \/ CallFails
           \/ ask.id = "C4" /\ (Handle \/ ReadOnce)
           \/ ask.id = "C10" /\ (Handle \/ List \/ Sample("first") \/ Pause \/ Sample("last") \/ Throughput)
           \/ ask.id = "C11" /\ (Handle \/ List \/ DescribeNext \/ Export)
           \/ ask.id = "T1" /\ (HandleView \/ ListTopics)
           \/ ask.id = "T2" /\ (HandleView \/ DescribeParts \/ DescribeBegins \/ DescribeEnds \/ DescribeConfigs)
<1> USE DEF ViewIds, ViewPath
<1>1. ~ AskSecurity /\ (AskCluster => ask.id \in {"C4", "C10", "C11"}) /\ (AskTopics => ask.id \in {"T1", "T2"})
  BY DEF AskSecurity, AskCluster, AskTopics, ClusterIds, TopicIds
<1>2. SharedStep => CallFails
  BY DEF SharedStep, Confirm, Attempt, At
<1>3. ASSUME ask.id \in {"C4", "C10", "C11"}, ClusterStep
      PROVE  \/ ask.id = "C4" /\ (Handle \/ ReadOnce)
             \/ ask.id = "C10" /\ (Handle \/ List \/ Sample("first") \/ Pause \/ Sample("last") \/ Throughput)
             \/ ask.id = "C11" /\ (Handle \/ List \/ DescribeNext \/ Export)
  <2> USE DEF Reading, Applying, At
  <2>1. ~ PlanImport /\ ~ PlanBrokerConfig /\ ~ AlterBroker /\ ~ Reread /\ ~ MovePartitions
    BY <1>3 DEF PlanImport, PlanBrokerConfig, AlterBroker, Reread, MovePartitions
  <2>2. ~ SkipDelete /\ ~ ImportOne /\ ~ ImportFails /\ ~ Imported
    BY <1>3 DEF SkipDelete, ImportOne, ImportFails, Imported, Importing
  <2>3. ReadOnce => ask.id = "C4"
    BY <1>3 DEF ReadOnce
  <2>4. Sample("first") \/ Pause \/ Sample("last") \/ Throughput => ask.id = "C10"
    BY <1>3 DEF Sample, Pause, Throughput
  <2>5. (List => ask.id # "C4") /\ (DescribeNext \/ Export => ask.id = "C11")
    BY <1>3 DEF List, DescribeNext, Export
  <2> QED
    BY <1>3, <2>1, <2>2, <2>3, <2>4, <2>5 DEF ClusterStep
<1>4. ASSUME ask.id \in {"T1", "T2"}, TopicStep
      PROVE  \/ ask.id = "T1" /\ (HandleView \/ ListTopics)
             \/ ask.id = "T2" /\ (HandleView \/ DescribeParts \/ DescribeBegins \/ DescribeEnds \/ DescribeConfigs)
  BY <1>4 DEF TopicStep, ListTopics, DescribeParts, DescribeBegins, DescribeEnds, DescribeConfigs, DescribeSize,
              Describing, Offsets
<1> QED
  BY <1>1, <1>2, <1>3, <1>4, StepsAre

-----------------------------------------------------------------------------
(* No success, nothing to keep of what it says. *)
LEMMA NothingViewed == NoSuccess => ViewIsReal
BY DEF NoSuccess, ViewIsReal, ThroughputIsReal, ExportIsReal, HealthIsReal, PagesAreReal, DescriptionIsReal

(* Nor has a step that does not answer. *)
LEMMA ViewEndsOrGoesOn ==
    ASSUME Base', NoSuccess' \/ pc' # "done"
    PROVE  ViewIsReal'
<1>1. NoSuccess' => ViewIsReal'
  BY NothingViewed, PTL
<1> QED
  BY <1>1 DEF Base, Quiet, NoSuccess

(* What was found stays found, since the history only grows. *)
LEMMA ViewFindingsKept ==
    ASSUME Base, [Next]_vars
    PROVE  /\ ask' = ask
           /\ \A n, ends : HadEnds(n, ends) => HadEnds(n, ends)'
           /\ \A n, first, last : HadEndsThen(n, first, last) => HadEndsThen(n, first, last)'
           /\ \A i \in DOMAIN past : /\ i \in DOMAIN past' /\ past'[i] = past[i] /\ i <= Len(past')
                                     /\ \A n, config : HadConfigSince(i, n, config) => HadConfigSince(i, n, config)'
           /\ Len(past') \in DOMAIN past' /\ past'[Len(past')].topics = topics'
           /\ DOMAIN past = 1..Len(past) /\ DOMAIN past' = 1..Len(past') /\ Len(past) \in Nat /\ Len(past') \in Nat
<1>1. /\ \A i \in DOMAIN past : i \in DOMAIN past' /\ past'[i] = past[i] /\ i <= Len(past')
      /\ Len(past') \in DOMAIN past' /\ past'[Len(past')].topics = topics'
      /\ DOMAIN past = 1..Len(past) /\ DOMAIN past' = 1..Len(past') /\ Len(past) \in Nat /\ Len(past') \in Nat
      /\ ask' = ask
  BY PastGrows, QuietKept DEF Base, Now, PastIsKept
<1>2. \A n, ends : HadEnds(n, ends) => HadEnds(n, ends)'
  BY <1>1 DEF HadEnds, EndsAt
<1>3. \A n, first, last : HadEndsThen(n, first, last) => HadEndsThen(n, first, last)'
  BY <1>1 DEF HadEndsThen, EndsAt
<1>4. ASSUME NEW i \in DOMAIN past, NEW n, NEW config, HadConfigSince(i, n, config)
      PROVE  HadConfigSince(i, n, config)'
  <2>1. PICK j \in i..Len(past) : n \in DOMAIN past[j].topics /\ config = Described(past[j].topics[n].config)
    BY <1>4 DEF HadConfigSince, ConfigAt
  <2>2. j \in DOMAIN past /\ j \in i..Len(past')
    BY <1>1, <2>1
  <2> QED
    BY <1>1, <2>1, <2>2 DEF HadConfigSince, ConfigAt
<1> QED
  BY <1>1, <1>2, <1>3, <1>4

(* A view that is over has nothing more to find. *)
LEMMA ViewOver ==
    ASSUME ViewInv, [Next]_vars, ask.id \in ViewIds, pc' = "done", seen' = seen
    PROVE  ViewFound'
<1>1. ask' = ask /\ History' /\ SeenShape
  BY HistoryKept, ViewFindingsKept DEF ViewInv, ViewFound, ClusterInv
<1>2. SeenShape'
  BY <1>1 DEF SeenShape
<1> QED
  BY <1>1, <1>2 DEF ViewFound, ViewPath, SampleFound, ExportFound, DescribeFound

-----------------------------------------------------------------------------
(* C10: what is read of a topic when it is read. *)
LEMMA EndsRead ==
    ASSUME Base, [Next]_vars, UNCHANGED topics, NEW n \in DOMAIN topics
    PROVE  /\ HadEnds(n, Ends(n))'
           /\ \A first : HadEnds(n, first) => HadEndsThen(n, first, Ends(n))'
<1>1. /\ Len(past') \in DOMAIN past' /\ past'[Len(past')].topics = topics
      /\ \A i \in DOMAIN past : i \in DOMAIN past' /\ past'[i] = past[i] /\ i <= Len(past')
  BY ViewFindingsKept
<1>2. PICK j : j = Len(past')
  OBVIOUS
<1>3. n \in DOMAIN past'[j].topics /\ Ends(n)' = EndsAt(j, n)'
  BY <1>1, <1>2 DEF Ends, EndsAt
<1>4. HadEnds(n, Ends(n))'
  BY <1>1, <1>2, <1>3 DEF HadEnds
<1>5. ASSUME NEW first, HadEnds(n, first) PROVE HadEndsThen(n, first, Ends(n))'
  <2>1. PICK i \in DOMAIN past : n \in DOMAIN past[i].topics /\ first = EndsAt(i, n)
    BY <1>5 DEF HadEnds
  <2>2. i \in DOMAIN past' /\ i <= j /\ n \in DOMAIN past'[i].topics /\ first = EndsAt(i, n)'
    BY <1>1, <1>2, <2>1 DEF EndsAt
  <2> QED
    BY <1>1, <1>2, <1>3, <2>2 DEF HadEndsThen
<1> QED
  BY <1>4, <1>5

(* C10 refuses to sample for too long. *)
LEMMA SamplesAsked ==
    ASSUME ask.id = "C10", Handle, Seconds \in Int, SecondsCeiling \in Int
    PROVE  IF Seconds > SecondsCeiling THEN Reply("BoundExceeded", <<>>)
           ELSE Goto(IF ask.topic = "" THEN "list" ELSE "first")
<1>1. CASE Seconds > SecondsCeiling
  <2>1. ~ (Seconds <= SecondsCeiling)
    BY <1>1
  <2> QED
    BY <1>1, <2>1, Zenon DEF Handle
<1>2. CASE ~ (Seconds > SecondsCeiling)
  <2>1. Seconds <= SecondsCeiling
    BY <1>2
  <2> QED
    BY <1>2, <2>1, Zenon DEF Handle
<1> QED
  BY <1>1, <1>2

(* C10 begins with the topic that is asked for, or those that are listed. *)
LEMMA SamplesBegin ==
    ASSUME ViewInv, [Next]_vars, ask.id = "C10", Handle \/ List \/ Pause
    PROVE  ViewFound' /\ ViewIsReal'
<1>1. /\ Base' /\ ask' = ask /\ History' /\ SeenShape /\ SampleFound /\ ViewPath
      /\ \A n, ends : HadEnds(n, ends) => HadEnds(n, ends)'
  BY BaseKept, HistoryKept, ViewFindingsKept DEF ViewInv, ViewFound, ClusterInv, ViewIds
<1>2. ASSUME SeenShape', ViewPath', SampleFound', pc' # "done" PROVE ViewFound' /\ ViewIsReal'
  BY <1>1, <1>2, ViewEndsOrGoesOn DEF ViewFound, ViewIds, ExportFound, DescribeFound
<1>3. CASE Handle
  <2>1. pc = "http" /\ seen.last = <<>>
    BY <1>1, <1>3 DEF Handle, Reading, At, SampleFound
  <2>0. Seconds \in Int /\ SecondsCeiling \in Int
    <3>1. ask.seconds \in Int
      BY ClusterAssumption DEF ViewInv, ClusterInv, Base, ClusterIds, IsClusterAsk
    <3> QED
      BY <3>1, ClusterAssumption DEF Seconds
  <2>2. CASE Seconds > SecondsCeiling
    <3>1. pc' = "done" /\ reply'.code = "BoundExceeded"
      BY <1>3, <2>0, <2>2, SamplesAsked, ReplyIs
    <3>2. /\ SeenShape'
      BY <1>1, <1>3 DEF Handle, SeenShape
    <3>3. ViewFound'
      BY <1>1, <3>1, <3>2 DEF ViewFound, ViewIds, ViewPath, SampleFound, ExportFound, DescribeFound
    <3> QED
      BY <1>1, <3>1, <3>3, ViewEndsOrGoesOn DEF NoSuccess
  <2>3. CASE ~ (Seconds > SecondsCeiling)
    <3>1. pc' = IF ask.topic = "" THEN "list" ELSE "first"
      BY <1>3, <2>0, <2>3, SamplesAsked DEF Goto
    <3>2. CASE ask.topic = ""
      <4>1. seen' = seen /\ pc' = "list"
        BY <1>3, <3>1, <3>2 DEF Handle
      <4>2. SeenShape' /\ seen'.last = <<>>
        BY <1>1, <2>1, <4>1 DEF SeenShape
      <4> QED
        BY <1>1, <1>2, <4>1, <4>2 DEF ViewPath, SampleFound
    <3>3. CASE ask.topic # ""
      <4> DEFINE todo == {ask.topic}
                 listed == [n \in {ask.topic} |-> 0]
      <4>1. seen' = [seen EXCEPT !.todo = todo, !.listed = listed] /\ pc' = "first" /\ DOMAIN listed = todo
        BY <1>3, <3>1, <3>3 DEF Handle
      <4> HIDE DEF todo, listed
      <4>2. SeenShape' /\ seen'.last = <<>> /\ seen'.todo = todo /\ seen'.listed = listed
        BY <1>1, <2>1, <4>1 DEF SeenShape
      <4> QED
        BY <1>1, <1>2, <4>1, <4>2 DEF ViewPath, SampleFound
    <3> QED
      BY <3>2, <3>3
  <2> QED
    BY <2>2, <2>3
<1>4. CASE List
  <2>1. pc = "list" /\ pc' = "first" /\ seen.last = <<>>
    BY <1>1, <1>4 DEF List, Reading, At, Goto, SampleFound
  <2>2. PICK listed, todo : seen' = [seen EXCEPT !.listed = listed, !.todo = todo] /\ DOMAIN listed = todo
    <3> DEFINE Listed(p) == [n \in Matching |-> [partitions |-> Len(topics[n].parts), rf |-> Len(p[n].replicas)]]
    <3>1. PICK p : seen' = [seen EXCEPT !.listed = Listed(p),
                                        !.todo = IF ask.id = "C12" THEN Matching \cap Wanted ELSE Matching]
      BY <1>4 DEF List
    <3>2. DOMAIN Listed(p) = Matching
      OBVIOUS
    <3> HIDE DEF Listed
    <3> QED
      BY <3>1, <3>2
  <2>3. SeenShape' /\ seen'.last = <<>> /\ seen'.todo = todo /\ seen'.listed = listed
    BY <1>1, <2>1, <2>2 DEF SeenShape
  <2> QED
    BY <1>1, <1>2, <2>1, <2>2, <2>3 DEF ViewPath, SampleFound
<1>5. CASE Pause
  <2>1. pc = "first" /\ pc' = "last" /\ seen.todo = {} /\ seen.last = <<>>
    BY <1>1, <1>5 DEF Pause, Reading, At, Goto, SampleFound
  <2> DEFINE todo == DOMAIN seen.listed
  <2>2. seen' = [seen EXCEPT !.todo = todo]
    BY <1>5 DEF Pause
  <2> HIDE DEF todo
  <2>3. SeenShape' /\ seen'.last = <<>> /\ seen'.todo = todo /\ seen'.listed = seen.listed /\ seen'.first = seen.first
    BY <1>1, <2>1, <2>2 DEF SeenShape
  <2>4. \A n \in DOMAIN seen.listed : HadEnds(n, seen.first[n])'
    <3>1. \A n \in DOMAIN seen.listed : HadEnds(n, seen.first[n])
      BY <1>1, <2>1 DEF SampleFound
    <3>2. ASSUME NEW n \in DOMAIN seen.listed, NEW f, f = seen.first[n] PROVE HadEnds(n, f)'
      BY <1>1, <3>1, <3>2
    <3> QED
      BY <2>3, <3>2 DEF HadEnds
  <2>5. DOMAIN <<>> = {}
    OBVIOUS
  <2> QED
    BY <1>1, <1>2, <2>1, <2>3, <2>4, <2>5 DEF ViewPath, SampleFound, todo
<1> QED
  BY <1>3, <1>4, <1>5

(* C10 goes on with the next topic. *)
LEMMA SamplesGoOn ==
    ASSUME ViewInv, [Next]_vars, ask.id = "C10", NEW step \in {"first", "last"}, Sample(step)
    PROVE  ViewFound' /\ ViewIsReal'
<1>1. /\ Base /\ Base' /\ ask' = ask /\ History' /\ SeenShape /\ SampleFound /\ ViewPath
      /\ \A n, ends : HadEnds(n, ends) => HadEnds(n, ends)'
      /\ \A n, first, last : HadEndsThen(n, first, last) => HadEndsThen(n, first, last)'
  BY BaseKept, HistoryKept, ViewFindingsKept DEF ViewInv, ViewFound, ClusterInv, ViewIds
<1>2. pc = step /\ topics' = topics /\ (pc = "first" => seen.last = <<>>) /\ seen.todo \subseteq DOMAIN seen.listed
  BY <1>1 DEF Sample, Reading, At, clusterVars, SampleFound
<1>3. PICK n \in seen.todo :
          IF ~ Existing(n) THEN Reply("NotFound", <<>>) /\ UNCHANGED seen
          ELSE IF Leaderless(n) THEN Reply("KafkaError", <<>>) /\ UNCHANGED seen
          ELSE /\ seen' = [seen EXCEPT !.todo = @ \ {n},
                              !.first = IF step = "first" THEN With(@, n, Ends(n)) ELSE @,
                              !.last = IF step = "last" THEN With(@, n, Ends(n)) ELSE @]
               /\ Goto(step)
  BY DEF Sample
<1>4. CASE ~ Existing(n) \/ Leaderless(n)
  <2>1. seen' = seen /\ pc' = "done" /\ NoSuccess'
    BY <1>3, <1>4, ReplyIs DEF NoSuccess
  <2> QED
    BY <1>1, <2>1, ViewOver, ViewEndsOrGoesOn DEF ViewIds
<1>5. CASE Existing(n) /\ ~ Leaderless(n)
  <2> DEFINE ends == Ends(n)
             todo == seen.todo \ {n}
             first == IF step = "first" THEN With(seen.first, n, ends) ELSE seen.first
             last == IF step = "last" THEN With(seen.last, n, ends) ELSE seen.last
  <2>1. seen' = [seen EXCEPT !.todo = todo, !.first = first, !.last = last] /\ pc' = step
    BY <1>1, <1>3, <1>5 DEF SeenShape, Goto
  <2>2. step = "first" => /\ n \in DOMAIN first /\ first[n] = ends /\ last = seen.last
                          /\ \A x \in DOMAIN seen.first \ {n} : x \in DOMAIN first /\ first[x] = seen.first[x]
    BY DEF With
  <2>3. step = "last" => /\ DOMAIN last = DOMAIN seen.last \cup {n} /\ last[n] = ends /\ first = seen.first
                         /\ \A x \in DOMAIN seen.last \ {n} : last[x] = seen.last[x]
    BY DEF With
  <2>4. HadEnds(n, ends)' /\ \A f : HadEnds(n, f) => HadEndsThen(n, f, ends)'
    BY <1>1, <1>2, <1>5, EndsRead DEF Existing
  <2>5. ends' = ends
    BY <1>2 DEF Ends
  <2> HIDE DEF first, last
  <2>6. SeenShape' /\ seen'.todo = todo /\ seen'.listed = seen.listed /\ seen'.first = first /\ seen'.last = last
    BY <1>1, <2>1 DEF SeenShape
  <2> HIDE DEF ends
  <2>7. CASE step = "first"
    <3>1. ASSUME NEW m \in DOMAIN seen.listed \ todo, NEW f, f = first[m] PROVE m \in DOMAIN first /\ HadEnds(m, f)'
      <4>1. CASE m = n
        BY <2>2, <2>4, <2>5, <2>7, <3>1, <4>1 DEF HadEnds
      <4>2. CASE m # n
        <5>1. m \in DOMAIN seen.first /\ HadEnds(m, seen.first[m])
          BY <1>1, <1>2, <2>7, <3>1, <4>2 DEF SampleFound
        <5>2. m \in DOMAIN first /\ f = seen.first[m]
          BY <2>2, <2>7, <3>1, <4>2, <5>1
        <5> QED
          BY <1>1, <5>1, <5>2
      <4> QED
        BY <4>1, <4>2
    <3>2. SampleFound'
      BY <1>1, <1>2, <2>1, <2>2, <2>6, <2>7, <3>1 DEF SampleFound, HadEnds
    <3> QED
      BY <1>1, <2>1, <2>6, <2>7, <3>2, ViewEndsOrGoesOn DEF ViewFound, ViewIds, ViewPath, ExportFound, DescribeFound
  <2>8. CASE step = "last"
    <3>1. ASSUME NEW m \in DOMAIN last, NEW f, f = first[m], NEW l, l = last[m] PROVE HadEndsThen(m, f, l)'
      <4>1. CASE m = n
        <5>1. HadEnds(n, f)
          BY <1>1, <1>2, <1>3, <2>3, <2>8, <3>1, <4>1 DEF SampleFound
        <5> QED
          BY <2>3, <2>4, <2>5, <2>8, <3>1, <4>1, <5>1 DEF HadEndsThen
      <4>2. CASE m # n
        <5>1. HadEndsThen(m, seen.first[m], seen.last[m]) /\ f = seen.first[m] /\ l = seen.last[m]
          BY <1>1, <1>2, <2>3, <2>8, <3>1, <4>2 DEF SampleFound
        <5> QED
          BY <1>1, <5>1
      <4> QED
        BY <4>1, <4>2
    <3>2. ASSUME NEW m \in DOMAIN seen.listed, NEW f, f = first[m] PROVE HadEnds(m, f)'
      BY <1>1, <1>2, <2>3, <2>8, <3>2 DEF SampleFound
    <3>3. SampleFound'
      BY <1>1, <1>2, <2>1, <2>3, <2>6, <2>8, <3>1, <3>2 DEF SampleFound, HadEnds, HadEndsThen
    <3> QED
      BY <1>1, <2>1, <2>6, <2>8, <3>3, ViewEndsOrGoesOn DEF ViewFound, ViewIds, ViewPath, ExportFound, DescribeFound
  <2> QED
    BY <2>7, <2>8
<1> QED
  BY <1>4, <1>5

(* And tells what it found. *)
LEMMA ThroughputTells ==
    ASSUME ViewInv, [Next]_vars, ask.id = "C10", Throughput
    PROVE  ViewFound' /\ ViewIsReal'
<1>1. /\ Base' /\ ask' = ask /\ History' /\ SampleFound /\ ViewPath
      /\ \A n, first, last : HadEndsThen(n, first, last) => HadEndsThen(n, first, last)'
      /\ DOMAIN past' = 1..Len(past')
  BY BaseKept, HistoryKept, ViewFindingsKept DEF ViewInv, ViewFound, ClusterInv, ViewIds
<1> DEFINE Shows(n) == [moved |-> Rate(seen.first[n], seen.last[n]), seconds |-> Seconds,
                        first |-> seen.first[n], last |-> seen.last[n]]
<1>2. /\ pc = "last" /\ pc' = "done" /\ seen' = seen
      /\ reply'.value = [n \in DOMAIN seen.last |-> Shows(n)]
  BY ReplyIs DEF Throughput, Reading, At
<1>3. ViewFound'
  BY <1>2, ViewOver DEF ViewIds
<1>4. ASSUME NEW n \in DOMAIN seen.last
      PROVE  \E i, j \in DOMAIN past' :
                LET r == reply'.value[n] IN
                /\ i <= j /\ n \in DOMAIN past'[i].topics \cap DOMAIN past'[j].topics
                /\ r.first = EndsAt(i, n)' /\ r.last = EndsAt(j, n)'
                /\ (\A k \in i..j : n \in DOMAIN past'[k].topics) => r.moved = Total(r.last) - Total(r.first)
  <2> DEFINE first == seen.first[n]
             last == seen.last[n]
             r == reply'.value[n]
  <2>1. r.first = first /\ r.last = last /\ r.moved = Rate(first, last)
    BY <1>2
  <2>2. HadEndsThen(n, first, last)
    BY <1>1, <1>2 DEF SampleFound
  <2> HIDE DEF first, last, r
  <2>3. PICK i, j \in DOMAIN past' : /\ i <= j /\ n \in DOMAIN past'[i].topics \cap DOMAIN past'[j].topics
                                     /\ first = EndsAt(i, n)' /\ last = EndsAt(j, n)'
    <3>1. ASSUME NEW f, NEW l, HadEndsThen(n, f, l)
          PROVE  \E i, j \in DOMAIN past' : /\ i <= j /\ n \in DOMAIN past'[i].topics \cap DOMAIN past'[j].topics
                                            /\ f = EndsAt(i, n)' /\ l = EndsAt(j, n)'
      <4>1. HadEndsThen(n, f, l)'
        BY <1>1, <3>1
      <4> QED
        BY <4>1 DEF HadEndsThen
    <3> QED
      BY <2>2, <3>1
  <2>4. ASSUME \A k \in i..j : n \in DOMAIN past'[k].topics PROVE r.moved = Total(last) - Total(first)
    <3> DEFINE s == past'[i].topics[n].parts
               t == past'[j].topics[n].parts
    <3>1. s \in Seq(Partition) /\ t \in Seq(Partition)
      BY <1>1, <2>3 DEF History, IsTopic
    <3>2. DOMAIN s \subseteq DOMAIN t
      BY <1>1, <2>3, <2>4 DEF History, Later
    <3>3. first = [k \in DOMAIN s |-> s[k].end] /\ last = [k \in DOMAIN t |-> t[k].end]
      BY <2>3 DEF EndsAt
    <3> HIDE DEF s, t
    <3>4. /\ (\A k \in DOMAIN s : s[k].end \in Int) /\ (\A k \in DOMAIN t : t[k].end \in Int)
          /\ DOMAIN t = 1..Len(t) /\ Len(t) \in Nat
      BY <3>1, EndsAreInts
    <3>5. IsFiniteSet(1..Len(t))
      <4>1. \A m \in Nat : IsFiniteSet(1..m)
        BY FS_Interval
      <4> QED
        BY <3>4, <4>1
    <3>6. /\ DOMAIN first = DOMAIN s /\ DOMAIN last = DOMAIN t
          /\ (\A k \in DOMAIN last : last[k] \in Int) /\ (\A k \in DOMAIN first : first[k] \in Int)
      BY <3>3, <3>4
    <3>7. IsFiniteSet(DOMAIN last) /\ DOMAIN first \subseteq DOMAIN last
      BY <3>2, <3>4, <3>5, <3>6
    <3>8. Rate(first, last) = Total(last) - Total(first)
      BY <3>6, <3>7, RateIs
    <3> QED
      BY <2>1, <3>8
  <2> QED
    BY <2>1, <2>3, <2>4 DEF r
<1>5. ThroughputIsReal'
  <2>1. DOMAIN reply'.value = DOMAIN seen.last
    BY <1>2
  <2> QED
    BY <1>4, <2>1 DEF ThroughputIsReal
<1> QED
  BY <1>1, <1>3, <1>5 DEF ViewIsReal, ExportIsReal, HealthIsReal, PagesAreReal, DescriptionIsReal

(* What is exported of a configuration is what is set, secrets blank. *)
LEMMA OverridesAre ==
    ASSUME NEW set, DOMAIN set \subseteq Keys
    PROVE  Overrides(Described(set)) = Blanked(set)
<1> DEFINE E(k) == [value |-> IF k \in Sensitive THEN "" ELSE IF k \in DOMAIN set THEN set[k] ELSE Default[k],
                    dynamic |-> k \in DOMAIN set]
           config == Described(set)
<1>1. \A k \in Keys : config[k] = E(k)
  BY DEF Described, Entry
<1>2. \A k : E(k).dynamic = (k \in DOMAIN set) /\ (k \in DOMAIN set => E(k).value = IF k \in Sensitive THEN "" ELSE set[k])
  OBVIOUS
<1> HIDE DEF E, config
<1>3. \A k \in Keys : config[k].dynamic = (k \in DOMAIN set)
  BY <1>1, <1>2
<1>4. {x \in Keys : config[x].dynamic} = DOMAIN set
  BY <1>3
<1>5. \A k \in DOMAIN set : config[k].value = IF k \in Sensitive THEN "" ELSE set[k]
  BY <1>1, <1>2
<1> DEFINE D == {x \in Keys : config[x].dynamic}
<1>6. Overrides(config) = [k \in D |-> config[k].value]
  BY DEF Overrides
<1>7. D = DOMAIN set
  BY <1>4
<1> HIDE DEF D
<1> QED
  BY <1>5, <1>6, <1>7 DEF Blanked, config

(* To import what was exported where nothing has changed is to delete at   *)
(* most, what does not fit the pattern.                                    *)
LEMMA ImportedAgain ==
    ASSUME DOMAIN topics \subseteq Range(Names), \A n \in DOMAIN topics : DOMAIN topics[n].config \subseteq Keys,
           NEW value, DOMAIN value = {n \in Public : ask.pattern \in {"", n}},
           \A n \in DOMAIN value : value[n].config = Blanked(topics[n].config),
           NEW again, again = ImportChanges(value, Public, [n \in Public |-> Described(topics[n].config)])
    PROVE  \A i \in DOMAIN again : again[i][1] = "delete" /\ ask.pattern # ""
<1> DEFINE config == [n \in Public |-> Described(topics[n].config)]
<1>1. DOMAIN value \subseteq Public /\ Public \subseteq Range(Names) /\ \A n \in Public : n \in DOMAIN topics
  BY DEF Public
<1>2. ASSUME NEW n \in DOMAIN value PROVE Differing(value[n], config[n]) = {}
  <2> DEFINE set == topics[n].config
             c == config[n]
             v == value[n].config
  <2>1. c = Described(set) /\ v = Blanked(set) /\ DOMAIN set \subseteq Keys
    BY <1>1
  <2> HIDE DEF set, c, v
  <2>2. \A k \in DOMAIN v : k \in Keys /\ v[k] = IF k \in Sensitive THEN "" ELSE set[k]
    BY <2>1 DEF Blanked
  <2>3. \A k \in DOMAIN v : c[k].value = IF k \in Sensitive THEN "" ELSE set[k]
    BY <2>1 DEF Described, Entry, Blanked
  <2>4. Differing(value[n], c) = {k \in DOMAIN v : c[k].value # v[k]}
    BY DEF Differing, v
  <2> QED
    BY <2>2, <2>3, <2>4 DEF c
<1> HIDE DEF config
<1>3. again = ImportChanges(value, Public, config)
  BY DEF config
<1>4. \A i \in DOMAIN again : \E n \in Public \ DOMAIN value : again[i] = <<"delete", n, "">>
  <2>1. Range(again) = {<<"create", n, value[n]>> : n \in DOMAIN value \ Public}
                   \cup {<<"alter", n, Changed(value[n], config[n])>> :
                             n \in {x \in DOMAIN value \cap Public : Differing(value[x], config[x]) # {}}}
                   \cup {<<"delete", n, "">> : n \in Public \ DOMAIN value}
    <3>1. DOMAIN value \subseteq Range(Names)
      BY <1>1
    <3> QED
      BY <1>1, <1>3, <3>1, ImportChangesAre
  <2>2. \A i \in DOMAIN again : again[i] \in Range(again)
    BY DEF Range
  <2> QED
    BY <1>1, <1>2, <2>1, <2>2
<1>5. \A n \in Public \ DOMAIN value : ask.pattern # ""
  OBVIOUS
<1> SUFFICES ASSUME NEW i \in DOMAIN again PROVE again[i][1] = "delete" /\ ask.pattern # ""
  OBVIOUS
<1>6. PICK n \in Public \ DOMAIN value : again[i] = <<"delete", n, "">>
  BY <1>4
<1>7. ask.pattern # ""
  BY <1>5
<1>8. ASSUME NEW x, NEW e, e = <<"delete", x, "">> PROVE e[1] = "delete"
  BY <1>8
<1>9. again[i][1] = "delete"
  BY <1>6, <1>8
<1> QED
  BY <1>7, <1>9

-----------------------------------------------------------------------------
(* C11 begins with the topics there are. *)
LEMMA ExportBegins ==
    ASSUME ViewInv, [Next]_vars, ask.id = "C11", Handle \/ List
    PROVE  ViewFound' /\ ViewIsReal'
<1>1. /\ Base /\ Base' /\ ask' = ask /\ History' /\ SeenShape /\ ViewPath
      /\ Len(past') \in DOMAIN past' /\ past'[Len(past')].topics = topics'
  BY BaseKept, HistoryKept, ViewFindingsKept DEF ViewInv, ViewFound, ClusterInv, ViewIds
<1>2. CASE Handle
  <2>1. IF ask.pattern = "(" THEN Reply("InvalidRegex", <<>>) ELSE Goto("list")
    BY <1>2, Zenon DEF Handle
  <2>2. seen' = seen
    BY <1>2 DEF Handle
  <2>3. CASE ask.pattern = "("
    <3>1. pc' = "done" /\ NoSuccess'
      BY <2>1, <2>3, ReplyIs DEF NoSuccess
    <3> QED
      BY <1>1, <2>2, <3>1, ViewOver, ViewEndsOrGoesOn DEF ViewIds
  <2>4. CASE ask.pattern # "("
    <3>1. pc' = "list"
      BY <2>1, <2>4 DEF Goto
    <3>2. SeenShape'
      BY <1>1, <2>2 DEF SeenShape
    <3> QED
      BY <1>1, <3>1, <3>2, ViewEndsOrGoesOn DEF ViewFound, ViewPath, SampleFound, ExportFound, DescribeFound
  <2> QED
    BY <2>3, <2>4
<1>3. CASE List
  <2>1. pc' = "describe" /\ topics' = topics
    BY <1>3 DEF List, Reading, Goto, clusterVars
  <2> DEFINE Listed(p) == [n \in Matching |-> [partitions |-> Len(topics[n].parts), rf |-> Len(p[n].replicas)]]
  <2>2. PICK p : seen' = [seen EXCEPT !.listed = Listed(p),
                                      !.todo = IF ask.id = "C12" THEN Matching \cap Wanted ELSE Matching]
    BY <1>3 DEF List
  <2> DEFINE listed == Listed(p)
  <2>3. DOMAIN listed = Matching /\ \A n \in DOMAIN listed : listed[n].partitions = Len(topics[n].parts)
    OBVIOUS
  <2> HIDE DEF listed
  <2>4. seen' = [seen EXCEPT !.listed = listed, !.todo = Matching]
    BY <2>2 DEF listed
  <2>5. SeenShape' /\ seen'.listed = listed /\ seen'.todo = Matching
    BY <1>1, <2>4 DEF SeenShape
  <2>6. Matching = {n \in DOMAIN topics : ~ topics[n].internal /\ ask.pattern \in {"", n}}
    BY DEF Matching, Public
  <2>7. PICK m : m \in DOMAIN past' /\ past'[m].topics = topics
    BY <1>1, <2>1
  <2>8. ExportOf(m)'
    BY <1>1, <2>3, <2>5, <2>6, <2>7 DEF ExportOf
  <2>9. ExportFound'
    BY <2>7, <2>8 DEF ExportFound
  <2> QED
    BY <1>1, <2>1, <2>5, <2>9, ViewEndsOrGoesOn DEF ViewFound, ViewPath, SampleFound, DescribeFound
<1> QED
  BY <1>2, <1>3

(* And goes on with the next configuration. *)
LEMMA ExportGoesOn ==
    ASSUME ViewInv, [Next]_vars, ask.id = "C11", DescribeNext
    PROVE  ViewFound' /\ ViewIsReal'
<1>1. /\ Base /\ Base' /\ ask' = ask /\ History' /\ SeenShape /\ ViewPath /\ ExportFound
      /\ Len(past') \in DOMAIN past' /\ past'[Len(past')].topics = topics'
      /\ DOMAIN past' = 1..Len(past') /\ Len(past') \in Nat
      /\ \A i \in DOMAIN past : /\ i \in DOMAIN past' /\ past'[i] = past[i] /\ i <= Len(past')
                                /\ \A n, config : HadConfigSince(i, n, config) => HadConfigSince(i, n, config)'
  BY BaseKept, HistoryKept, ViewFindingsKept DEF ViewInv, ViewFound, ClusterInv, ViewIds
<1>2. pc = "describe" /\ topics' = topics
  BY DEF DescribeNext, Reading, At, clusterVars
<1>3. PICK n \in seen.todo :
          IF ~ Existing(n) THEN Reply("NotFound", <<>>) /\ UNCHANGED seen
          ELSE /\ seen' = [seen EXCEPT !.todo = @ \ {n}, !.config = With(@, n, Described(topics[n].config))]
               /\ Goto("describe")
  BY DEF DescribeNext
<1>4. CASE ~ Existing(n)
  <2>1. seen' = seen /\ pc' = "done" /\ NoSuccess'
    BY <1>3, <1>4, ReplyIs DEF NoSuccess
  <2> QED
    BY <1>1, <2>1, ViewOver, ViewEndsOrGoesOn DEF ViewIds
<1>5. CASE Existing(n)
  <2> DEFINE described == Described(topics[n].config)
             todo == seen.todo \ {n}
             config == With(seen.config, n, described)
  <2>1. seen' = [seen EXCEPT !.todo = todo, !.config = config] /\ pc' = "describe"
    BY <1>1, <1>3, <1>5 DEF SeenShape, Goto
  <2>2. /\ n \in DOMAIN config /\ config[n] = described
        /\ \A x \in DOMAIN seen.config \ {n} : x \in DOMAIN config /\ config[x] = seen.config[x]
    BY DEF With
  <2> HIDE DEF config
  <2>3. SeenShape' /\ seen'.todo = todo /\ seen'.config = config /\ seen'.listed = seen.listed
    BY <1>1, <2>1 DEF SeenShape
  <2>4. PICK i \in DOMAIN past : ExportOf(i)
    BY <1>1, <1>2 DEF ExportFound
  <2>5. i \in DOMAIN past' /\ past'[i] = past[i] /\ i <= Len(past') /\ i \in Nat
    BY <1>1, <2>4
  <2>6. ASSUME NEW c, c = described PROVE HadConfigSince(i, n, c)'
    <3> DEFINE m == Len(past')
    <3>1. m \in i..Len(past') /\ n \in DOMAIN past'[m].topics /\ c = Described(past'[m].topics[n].config)
      BY <1>1, <1>2, <1>5, <2>5, <2>6 DEF Existing
    <3> HIDE DEF m
    <3> QED
      BY <3>1 DEF HadConfigSince, ConfigAt
  <2> HIDE DEF described
  <2>7. ASSUME NEW x \in DOMAIN seen.listed \ todo, NEW c, c = config[x]
        PROVE  x \in DOMAIN config /\ HadConfigSince(i, x, c)'
    <3>1. CASE x = n
      BY <2>2, <2>6, <2>7, <3>1
    <3>2. CASE x # n
      <4>1. x \in DOMAIN seen.config /\ HadConfigSince(i, x, seen.config[x])
        BY <2>4, <2>7, <3>2 DEF ExportOf
      <4>2. x \in DOMAIN config /\ c = seen.config[x]
        BY <2>2, <2>7, <3>2, <4>1
      <4> QED
        BY <1>1, <2>4, <4>1, <4>2
    <3> QED
      BY <3>1, <3>2
  <2>8. ExportOf(i)'
    <3>1. /\ DOMAIN seen.listed
               = {x \in DOMAIN past'[i].topics : ~ past'[i].topics[x].internal /\ ask.pattern \in {"", x}}
          /\ \A x \in DOMAIN seen.listed : seen.listed[x].partitions = Len(past'[i].topics[x].parts)
          /\ todo \subseteq DOMAIN seen.listed
      BY <2>4, <2>5 DEF ExportOf
    <3>2. \A x \in DOMAIN seen'.listed \ seen'.todo : x \in DOMAIN seen'.config /\ HadConfigSince(i, x, seen.config[x])'
      BY <2>3, <2>7 DEF HadConfigSince
    <3> QED
      BY <1>1, <2>3, <2>5, <3>1, <3>2 DEF ExportOf
  <2>9. ExportFound'
    BY <2>5, <2>8 DEF ExportFound
  <2> QED
    BY <1>1, <2>1, <2>3, <2>9, ViewEndsOrGoesOn DEF ViewFound, ViewPath, SampleFound, DescribeFound
<1> QED
  BY <1>4, <1>5

(* And tells what it found. *)
LEMMA ExportTells ==
    ASSUME ViewInv, [Next]_vars, ask.id = "C11", Export
    PROVE  ViewFound' /\ ViewIsReal'
<1>1. /\ Base /\ Base' /\ ask' = ask /\ History' /\ SeenShape /\ ViewPath /\ ExportFound /\ ClusterShape
      /\ Len(past') \in DOMAIN past' /\ past'[Len(past')].topics = topics'
      /\ DOMAIN past' = 1..Len(past') /\ Len(past') \in Nat
      /\ \A i \in DOMAIN past : /\ i \in DOMAIN past' /\ past'[i] = past[i] /\ i <= Len(past')
                                /\ \A n, config : HadConfigSince(i, n, config) => HadConfigSince(i, n, config)'
  BY BaseKept, HistoryKept, ViewFindingsKept DEF ViewInv, ViewFound, ClusterInv, ViewIds
<1> DEFINE value == Exported(seen.listed, seen.config)
<1>2. /\ pc = "describe" /\ pc' = "done" /\ seen' = seen /\ topics' = topics /\ seen.todo = {}
      /\ reply'.value = value
  BY ReplyIs DEF Export, Reading, At, clusterVars
<1>3. ViewFound'
  BY <1>2, ViewOver DEF ViewIds
<1>4. PICK i \in DOMAIN past : ExportOf(i)
  BY <1>1, <1>2 DEF ExportFound
<1>5. i \in DOMAIN past' /\ past'[i] = past[i] /\ i <= Len(past') /\ i \in Nat
  BY <1>1, <1>4
<1>6. /\ DOMAIN value = {n \in DOMAIN past'[i].topics : ~ past'[i].topics[n].internal /\ ask.pattern \in {"", n}}
      /\ \A n \in DOMAIN value : value[n].partitions = Len(past'[i].topics[n].parts)
      /\ \A n \in DOMAIN value : value[n].config = Overrides(seen.config[n])
  BY <1>4, <1>5 DEF Exported, ExportOf
<1>7. ASSUME NEW n \in DOMAIN value
      PROVE  \E j \in i..Len(past') : n \in DOMAIN past'[j].topics /\ value[n].config = Blanked(past'[j].topics[n].config)
  <2> DEFINE c == seen.config[n]
  <2>1. HadConfigSince(i, n, c)
    BY <1>2, <1>4, <1>7 DEF ExportOf, Exported
  <2> HIDE DEF c
  <2>2. HadConfigSince(i, n, c)'
    <3>1. ASSUME NEW d, HadConfigSince(i, n, d)
          PROVE  \E j \in i..Len(past') : n \in DOMAIN past'[j].topics /\ d = Described(past'[j].topics[n].config)
      <4>1. HadConfigSince(i, n, d)'
        BY <1>1, <1>4, <3>1
      <4> QED
        BY <4>1 DEF HadConfigSince, ConfigAt
    <3>2. \E j \in i..Len(past') : n \in DOMAIN past'[j].topics /\ c = Described(past'[j].topics[n].config)
      BY <2>1, <3>1
    <3>3. c' = c
      BY <1>2 DEF c
    <3> QED
      BY <3>2, <3>3 DEF HadConfigSince, ConfigAt
  <2>3. PICK j \in i..Len(past') : n \in DOMAIN past'[j].topics /\ c = Described(past'[j].topics[n].config)
    <3>1. c' = c
      BY <1>2 DEF c
    <3> QED
      BY <2>2, <3>1 DEF HadConfigSince, ConfigAt
  <2>4. DOMAIN past'[j].topics[n].config \subseteq Keys
    <3>1. j \in DOMAIN past'
      BY <1>1, <1>5
    <3> QED
      BY <1>1, <2>3, <3>1 DEF History
  <2>5. Overrides(c) = Blanked(past'[j].topics[n].config)
    BY <2>3, <2>4, OverridesAre
  <2>6. value[n].config = Overrides(c)
    BY <1>6, <1>7 DEF c
  <2> QED
    BY <2>3, <2>5, <2>6
<1> HIDE DEF value
<1>8. ASSUME Len(past') = 1, NEW again, again = ImportChanges(value, Public, [n \in Public |-> Described(topics[n].config)])
      PROVE  \A k \in DOMAIN again : again[k][1] = "delete" /\ ask.pattern # ""
  <2>1. i = 1 /\ past'[1].topics = topics /\ i..Len(past') = {1}
    BY <1>1, <1>2, <1>5, <1>8
  <2>2. DOMAIN value = {n \in Public : ask.pattern \in {"", n}}
    BY <1>6, <2>1 DEF Public
  <2>3. \A n \in DOMAIN value : value[n].config = Blanked(topics[n].config)
    BY <1>7, <2>1
  <2>4. DOMAIN topics \subseteq Range(Names) /\ \A n \in DOMAIN topics : DOMAIN topics[n].config \subseteq Keys
    BY <1>1, <2>1, <1>5 DEF History
  <2> QED
    BY <1>8, <2>2, <2>3, <2>4, ImportedAgain
<1>9. ExportIsReal'
  <2>1. /\ \A n \in DOMAIN value :
              /\ n \in DOMAIN past'[i].topics /\ ~ past'[i].topics[n].internal
              /\ value[n].partitions = Len(past'[i].topics[n].parts)
              /\ \E j \in i..Len(past') :
                    n \in DOMAIN past'[j].topics /\ value[n].config = Blanked(past'[j].topics[n].config)
    BY <1>6, <1>7
  <2>2. Public' = Public
    BY <1>2 DEF Public
  <2>3. Len(past') = 1 => LET again == ImportChanges(value, Public, [n \in Public |-> Described(topics[n].config)])
                          IN  \A k \in DOMAIN again : again[k][1] = "delete" /\ ask.pattern # ""
    BY <1>8
  <2> QED
    BY <1>1, <1>2, <1>5, <2>1, <2>2, <2>3 DEF ExportIsReal, ConfigAt
<1> QED
  BY <1>1, <1>3, <1>9 DEF ViewIsReal, ThroughputIsReal, HealthIsReal, PagesAreReal, DescriptionIsReal

(* T2: what was read of the partitions stays read. *)
LEMMA ReadsKept ==
    ASSUME Base, [Next]_vars, NEW i \in DOMAIN past
    PROVE  /\ i \in DOMAIN past' /\ past'[i] = past[i] /\ i <= Len(past') /\ i \in Nat
           /\ seen'.listed = seen.listed /\ ReadParts(i) => ReadParts(i)'
           /\ seen'.first = seen.first /\ ReadBegins(i) => ReadBegins(i)'
           /\ seen'.last = seen.last /\ ReadEnds(i) => ReadEnds(i)'
<1>1. i \in DOMAIN past' /\ past'[i] = past[i] /\ i <= Len(past') /\ ask' = ask /\ i \in Nat
  BY ViewFindingsKept
<1>2. seen'.listed = seen.listed /\ ReadParts(i) => ReadParts(i)'
  BY <1>1 DEF ReadParts
<1>3. seen'.first = seen.first /\ ReadBegins(i) => ReadBegins(i)'
  BY <1>1 DEF ReadBegins
<1>4. seen'.last = seen.last /\ ReadEnds(i) => ReadEnds(i)'
  BY <1>1 DEF ReadEnds, EndsAt
<1> QED
  BY <1>1, <1>2, <1>3, <1>4

(* T2 reads the partitions. *)
LEMMA PartsFound ==
    ASSUME ViewInv, [Next]_vars, ask.id = "T2", HandleView \/ DescribeParts
    PROVE  ViewFound' /\ ViewIsReal'
<1>1. /\ Base /\ Base' /\ ask' = ask /\ History' /\ SeenShape /\ ViewPath
      /\ Len(past') \in DOMAIN past' /\ past'[Len(past')].topics = topics'
  BY BaseKept, HistoryKept, ViewFindingsKept DEF ViewInv, ViewFound, ClusterInv, ViewIds
<1>2. CASE HandleView
  <2>1. pc' = "parts" /\ seen' = seen
    BY <1>2 DEF HandleView, Goto
  <2>2. SeenShape'
    BY <1>1, <2>1 DEF SeenShape
  <2> QED
    BY <1>1, <2>1, <2>2, ViewEndsOrGoesOn DEF ViewFound, ViewPath, SampleFound, ExportFound, DescribeFound
<1>3. CASE DescribeParts
  <2>1. topics' = topics
    BY <1>3 DEF DescribeParts, Describing, Reading, clusterVars
  <2>2. CASE ~ Existing(ask.topic)
    <3>1. seen' = seen /\ pc' = "done" /\ NoSuccess'
      BY <1>3, <2>2, ReplyIs DEF DescribeParts, NoSuccess
    <3> QED
      BY <1>1, <3>1, ViewOver, ViewEndsOrGoesOn DEF ViewIds
  <2>3. CASE Existing(ask.topic)
    <3>1. seen' = [seen EXCEPT !.listed = topics[ask.topic].parts] /\ pc' = "begins"
      BY <1>3, <2>3 DEF DescribeParts, Goto
    <3>2. SeenShape' /\ seen'.listed = topics[ask.topic].parts
      BY <1>1, <3>1 DEF SeenShape
    <3>3. PICK i : i \in DOMAIN past' /\ past'[i].topics = topics
      BY <1>1, <2>1
    <3>4. ReadParts(i)'
      BY <1>1, <2>3, <3>2, <3>3 DEF ReadParts, Existing
    <3>5. DescribeFound'
      BY <3>1, <3>3, <3>4 DEF DescribeFound
    <3> QED
      BY <1>1, <3>1, <3>2, <3>5, ViewEndsOrGoesOn DEF ViewFound, ViewPath, SampleFound, ExportFound
  <2> QED
    BY <2>2, <2>3
<1> QED
  BY <1>2, <1>3

(* Then where they begin. *)
LEMMA BeginsFound ==
    ASSUME ViewInv, [Next]_vars, ask.id = "T2", DescribeBegins
    PROVE  ViewFound' /\ ViewIsReal'
<1>1. /\ Base /\ Base' /\ ask' = ask /\ History' /\ SeenShape /\ ViewPath /\ DescribeFound /\ ClusterShape
      /\ Len(past') \in DOMAIN past' /\ past'[Len(past')].topics = topics'
  BY BaseKept, HistoryKept, ViewFindingsKept DEF ViewInv, ViewFound, ClusterInv, ViewIds
<1>2. pc = "begins" /\ topics' = topics
  BY DEF DescribeBegins, Offsets, Describing, Reading, At, clusterVars
<1>3. CASE ~ Existing(ask.topic) \/ Leaderless(ask.topic)
  <2>1. seen' = seen /\ pc' = "done" /\ NoSuccess'
    BY <1>3, ReplyIs DEF DescribeBegins, Offsets, NoSuccess
  <2> QED
    BY <1>1, <2>1, ViewOver, ViewEndsOrGoesOn DEF ViewIds
<1>4. CASE Existing(ask.topic) /\ ~ Leaderless(ask.topic)
  <2> DEFINE parts == topics[ask.topic].parts
  <2>1. pc' = "ends"
    BY <1>4 DEF DescribeBegins, Offsets, Goto
  <2>2. PICK b \in [DOMAIN parts -> 0..MaxEnd] :
            (\A k \in DOMAIN parts : b[k] <= parts[k].end) /\ seen' = [seen EXCEPT !.first = b]
    BY <1>4 DEF DescribeBegins, Offsets
  <2>3. SeenShape' /\ seen'.first = b /\ seen'.listed = seen.listed
    BY <1>1, <2>2 DEF SeenShape
  <2>4. PICK i \in DOMAIN past : ReadParts(i)
    BY <1>1, <1>2 DEF DescribeFound
  <2>5. i \in DOMAIN past' /\ i <= Len(past') /\ ReadParts(i)'
    BY <1>1, <2>3, <2>4, ReadsKept
  <2>6. PICK j : j \in DOMAIN past' /\ past'[j].topics = topics /\ i <= j
    BY <1>1, <1>2, <2>5
  <2>7. ReadBegins(j)'
    <3>1. \A k \in DOMAIN b : b[k] \in Int /\ b[k] <= parts[k].end
      BY <2>2
    <3>2. ask.topic \in DOMAIN topics /\ DOMAIN b = DOMAIN parts
      BY <1>4, <2>2 DEF Existing
    <3> QED
      BY <1>1, <2>3, <2>6, <3>1, <3>2 DEF ReadBegins
  <2>8. DescribeFound'
    BY <2>1, <2>5, <2>6, <2>7 DEF DescribeFound
  <2> QED
    BY <1>1, <2>1, <2>3, <2>8, ViewEndsOrGoesOn DEF ViewFound, ViewPath, SampleFound, ExportFound
<1> QED
  BY <1>3, <1>4

(* Then where they end. *)
LEMMA EndsFound ==
    ASSUME ViewInv, [Next]_vars, ask.id = "T2", DescribeEnds
    PROVE  ViewFound' /\ ViewIsReal'
<1>1. /\ Base /\ Base' /\ ask' = ask /\ History' /\ SeenShape /\ ViewPath /\ DescribeFound
      /\ Len(past') \in DOMAIN past' /\ past'[Len(past')].topics = topics'
  BY BaseKept, HistoryKept, ViewFindingsKept DEF ViewInv, ViewFound, ClusterInv, ViewIds
<1>2. pc = "ends" /\ topics' = topics
  BY DEF DescribeEnds, Offsets, Describing, Reading, At, clusterVars
<1>3. CASE ~ Existing(ask.topic) \/ Leaderless(ask.topic)
  <2>1. seen' = seen /\ pc' = "done" /\ NoSuccess'
    BY <1>3, ReplyIs DEF DescribeEnds, Offsets, NoSuccess
  <2> QED
    BY <1>1, <2>1, ViewOver, ViewEndsOrGoesOn DEF ViewIds
<1>4. CASE Existing(ask.topic) /\ ~ Leaderless(ask.topic)
  <2> DEFINE ends == Ends(ask.topic)
  <2>1. pc' = "configs" /\ seen' = [seen EXCEPT !.last = ends]
    BY <1>4 DEF DescribeEnds, Offsets, Goto
  <2> HIDE DEF ends
  <2>2. SeenShape' /\ seen'.first = seen.first /\ seen'.listed = seen.listed /\ seen'.last = ends
    BY <1>1, <2>1 DEF SeenShape
  <2>3. PICK i, j \in DOMAIN past : i <= j /\ ReadParts(i) /\ ReadBegins(j)
    BY <1>1, <1>2 DEF DescribeFound
  <2>4. i \in DOMAIN past' /\ ReadParts(i)' /\ j \in DOMAIN past' /\ j <= Len(past') /\ ReadBegins(j)'
    BY <1>1, <2>2, <2>3, ReadsKept
  <2>5. PICK k : k \in DOMAIN past' /\ past'[k].topics = topics /\ j <= k
    BY <1>1, <1>2, <2>4
  <2>6. ReadEnds(k)'
    BY <1>1, <1>4, <2>2, <2>5 DEF ReadEnds, EndsAt, Ends, Existing, ends
  <2>7. DescribeFound'
    BY <2>1, <2>3, <2>4, <2>5, <2>6 DEF DescribeFound
  <2> QED
    BY <1>1, <2>1, <2>2, <2>7, ViewEndsOrGoesOn DEF ViewFound, ViewPath, SampleFound, ExportFound
<1> QED
  BY <1>3, <1>4

(* And shows them with the configuration. *)
LEMMA DescriptionTells ==
    ASSUME ViewInv, [Next]_vars, ask.id = "T2", DescribeConfigs
    PROVE  ViewFound' /\ ViewIsReal'
<1>1. /\ Base /\ Base' /\ ask' = ask /\ History' /\ SeenShape /\ ViewPath /\ DescribeFound
      /\ Len(past') \in DOMAIN past' /\ past'[Len(past')].topics = topics'
      /\ DOMAIN past' = 1..Len(past') /\ Len(past') \in Nat
  BY BaseKept, HistoryKept, ViewFindingsKept DEF ViewInv, ViewFound, ClusterInv, ViewIds
<1>2. pc = "configs" /\ topics' = topics /\ seen' = seen /\ pc' = "done"
  BY ReplyIs DEF DescribeConfigs, Describing, Reading, At, clusterVars
<1>3. ViewFound'
  BY <1>2, ViewOver DEF ViewIds
<1>4. CASE ~ Existing(ask.topic)
  <2>1. Reply("NotFound", <<>>)
    BY <1>4, Zenon DEF DescribeConfigs
  <2>2. NoSuccess'
    BY <2>1, ReplyIs DEF NoSuccess
  <2> QED
    BY <1>1, <1>3, <2>2, ViewEndsOrGoesOn
<1>5. CASE Existing(ask.topic)
  <2> DEFINE topic == ask.topic
             parts == [n \in DOMAIN seen.listed |-> Detail(n)]
             sum == FoldFunction(LAMBDA p, rest : p.approx + rest, 0, parts)
             config == topics[topic].config
             shown == reply'.value.parts
  <2>1. reply'.value = [parts |-> parts, approx |-> sum, configs |-> Shown(Described(config))]
    BY <1>5, ReplyIs DEF DescribeConfigs
  <2>2. shown = parts /\ reply'.value.configs = Shown(Described(config))
    <3> HIDE DEF parts, sum, config
    <3> QED
      BY <2>1
  <2>3. PICK i, j, k \in DOMAIN past : i <= j /\ j <= k /\ ReadParts(i) /\ ReadBegins(j) /\ ReadEnds(k)
    BY <1>1, <1>2 DEF DescribeFound
  <2>4. /\ i \in DOMAIN past' /\ j \in DOMAIN past' /\ k \in DOMAIN past' /\ k <= Len(past')
        /\ past'[i] = past[i] /\ past'[j] = past[j] /\ past'[k] = past[k] /\ i <= k
        /\ i \in Nat /\ j \in Nat /\ k \in Nat
    <3>1. /\ i \in DOMAIN past' /\ j \in DOMAIN past' /\ k \in DOMAIN past' /\ k <= Len(past')
          /\ past'[i] = past[i] /\ past'[j] = past[j] /\ past'[k] = past[k]
          /\ i \in Nat /\ j \in Nat /\ k \in Nat
      BY <1>1, <2>3, ReadsKept
    <3> QED
      BY <2>3, <3>1
  <2>5. PICK m : m \in DOMAIN past' /\ past'[m].topics = topics /\ k <= m
    BY <1>1, <1>2, <2>4
  <2> DEFINE s == past'[i].topics[topic].parts
             t == past'[j].topics[topic].parts
             u == past'[k].topics[topic].parts
             first == seen.first
             last == seen.last
             listed == seen.listed
  <2>6. /\ topic \in DOMAIN past'[i].topics /\ topic \in DOMAIN past'[j].topics /\ topic \in DOMAIN past'[k].topics
        /\ listed = s /\ last = [n \in DOMAIN u |-> u[n].end] /\ DOMAIN first = DOMAIN t
        /\ \A n \in DOMAIN first : first[n] \in Int /\ first[n] <= t[n].end
    BY <2>3, <2>4 DEF ReadParts, ReadBegins, ReadEnds, EndsAt
  <2> DEFINE b(n) == OrZero(first, n)
             e(n) == OrZero(last, n)
             Row(n) == [leader |-> listed[n].leader, replicas |-> listed[n].replicas, isr |-> listed[n].isr,
                        begin |-> b(n), end |-> e(n), approx |-> e(n) - b(n)]
  <2>7. DOMAIN shown = DOMAIN listed /\ \A n \in DOMAIN listed : shown[n] = Row(n)
    BY <2>2 DEF Detail
  <2>8. \A n \in DOMAIN listed : /\ shown[n].leader = listed[n].leader /\ shown[n].replicas = listed[n].replicas
                                 /\ shown[n].isr = listed[n].isr /\ shown[n].end = e(n) /\ shown[n].approx = e(n) - b(n)
    <3> TAKE n \in DOMAIN listed
    <3> HIDE DEF shown, listed, b, e
    <3>1. shown[n] = [leader |-> listed[n].leader, replicas |-> listed[n].replicas, isr |-> listed[n].isr,
                        begin |-> b(n), end |-> e(n), approx |-> e(n) - b(n)]
      BY <2>7
    <3> QED
      BY <3>1
  <2> HIDE DEF shown, parts, sum, config, s, t, u, listed, first, last
  <2>10. \A n \in DOMAIN shown : shown[n].end = OrZero(last, n)
    BY <2>7, <2>8
  <2>11. ASSUME \A x \in DOMAIN past' : topic \in DOMAIN past'[x].topics, NEW n \in DOMAIN shown
         PROVE  shown[n].approx >= 0
    <3>1. /\ DOMAIN s \subseteq DOMAIN t /\ DOMAIN t \subseteq DOMAIN u
          /\ \A x \in DOMAIN t : t[x].end <= u[x].end
      <4>1. (\A x \in i..j : x \in DOMAIN past') /\ (\A x \in j..k : x \in DOMAIN past')
        BY <1>1, <2>4
      <4>2. Later(past'[i].topics[topic], past'[j].topics[topic]) /\ Later(past'[j].topics[topic], past'[k].topics[topic])
        BY <1>1, <2>3, <2>4, <2>6, <2>11, <4>1 DEF History
      <4> QED
        BY <4>2 DEF Later, s, t, u
    <3>2. (\A x \in DOMAIN t : t[x].end \in Int) /\ (\A x \in DOMAIN u : u[x].end \in Int)
      <4>1. t \in Seq(Partition) /\ u \in Seq(Partition)
        BY <1>1, <2>4, <2>6 DEF History, IsTopic, t, u
      <4> QED
        BY <4>1, EndsAreInts
    <3>3. n \in DOMAIN s /\ n \in DOMAIN t /\ n \in DOMAIN u
      BY <2>6, <2>7, <2>11, <3>1
    <3>4. b(n) = first[n] /\ e(n) = u[n].end
      BY <2>6, <3>3 DEF OrZero
    <3>5. b(n) \in Int /\ e(n) \in Int /\ b(n) <= e(n)
      BY <2>6, <3>1, <3>2, <3>3, <3>4
    <3>6. shown[n].approx = e(n) - b(n)
      BY <2>7, <2>8, <2>11
    <3> HIDE DEF b, e
    <3> QED
      BY <3>5, <3>6
  <2>12. reply'.value.configs = Shown(Described(past'[m].topics[topic].config)) /\ topic \in DOMAIN past'[m].topics
    BY <1>5, <2>2, <2>5 DEF config, Existing
  <2>13. last = EndsAt(k, topic)'
    BY <1>1, <2>6 DEF EndsAt, u
  <2>14. DescriptionIsReal'
    <3>1. topic = ask'.topic
      BY <1>1
    <3>2. /\ DOMAIN reply'.value.parts = DOMAIN past'[i].topics[ask'.topic].parts
          /\ \A x \in {"leader", "replicas", "isr"} : \A n \in DOMAIN reply'.value.parts :
                reply'.value.parts[n][x] = past'[i].topics[ask'.topic].parts[n][x]
      <4>1. DOMAIN shown = DOMAIN s /\ \A x \in {"leader", "replicas", "isr"} : \A n \in DOMAIN shown : shown[n][x] = s[n][x]
        BY <2>6, <2>7, <2>8
      <4> HIDE DEF topic
      <4> QED
        BY <3>1, <4>1 DEF shown, s
    <3>3. \A x \in {"leader", "replicas", "isr"} :
             [n \in DOMAIN reply'.value.parts |-> reply'.value.parts[n][x]]
               = [n \in DOMAIN past'[i].topics[ask'.topic].parts |-> past'[i].topics[ask'.topic].parts[n][x]]
      BY <3>2
    <3>4. /\ i <= k /\ k <= m /\ ask'.topic \in DOMAIN past'[i].topics
          /\ ask'.topic \in DOMAIN past'[k].topics /\ ask'.topic \in DOMAIN past'[m].topics
          /\ \A n \in DOMAIN reply'.value.parts : reply'.value.parts[n].end = OrZero(EndsAt(k, ask.topic), n)'
          /\ reply'.value.configs = Shown(Described(ConfigAt(m, ask.topic)))'
      <4>1. EndsAt(k, ask.topic)' = last /\ ConfigAt(m, ask.topic)' = past'[m].topics[ask'.topic].config
        BY <1>1, <2>13 DEF ConfigAt, EndsAt
      <4> HIDE DEF topic
      <4> QED
        BY <2>4, <2>5, <2>6, <2>10, <2>12, <3>1, <4>1 DEF shown
    <3>5. (\A x \in DOMAIN past' : ask'.topic \in DOMAIN past'[x].topics)
             => \A n \in DOMAIN reply'.value.parts : reply'.value.parts[n].approx >= 0
      <4> HIDE DEF topic
      <4> QED
        BY <2>11, <3>1 DEF shown
    <3> QED
      BY <2>4, <2>5, <3>3, <3>4, <3>5 DEF DescriptionIsReal
  <2> QED
    BY <1>1, <1>3, <2>14 DEF ViewIsReal, ThroughputIsReal, ExportIsReal, HealthIsReal, PagesAreReal
<1> QED
  BY <1>4, <1>5

-----------------------------------------------------------------------------
(* C4 and T1 are one call. *)
LEMMA HealthTells ==
    ASSUME ViewInv, [Next]_vars, ask.id = "C4", Handle \/ ReadOnce
    PROVE  ViewFound' /\ ViewIsReal'
<1>1. /\ Base' /\ ask' = ask /\ History' /\ SeenShape /\ ClusterShape
  BY BaseKept, HistoryKept, ViewFindingsKept DEF ViewInv, ViewFound, ClusterInv, ViewIds
<1>2. CASE Handle
  <2>1. Goto("read")
    BY <1>2, Zenon DEF Handle
  <2>2. seen' = seen /\ pc' = "read"
    BY <1>2, <2>1 DEF Handle, Goto
  <2>3. SeenShape'
    BY <1>1, <2>2 DEF SeenShape
  <2> QED
    BY <1>1, <2>2, <2>3, ViewEndsOrGoesOn DEF ViewFound, ViewPath, SampleFound, ExportFound, DescribeFound
<1>3. CASE ReadOnce
  <2> DEFINE health == Health
  <2>1. View = health
    BY Zenon DEF View
  <2>2. topics' = topics /\ seen' = seen
    BY <1>3 DEF ReadOnce, Reading, clusterVars
  <2> HIDE DEF health
  <2>3. pc' = "done" /\ reply'.value = health
    BY <1>3, <2>1, ReplyIs DEF ReadOnce
  <2>4. ViewFound'
    BY <2>2, <2>3, ViewOver DEF ViewIds
  <2>5. ASSUME NEW issue \in Issues, NEW bad, bad = {tp \in Placed : HasIssue(Part(tp), issue)}
        PROVE  /\ health.counts[issue] = Cardinality(bad)
               /\ {e \in Range(health.affected) : e[3] = issue} \subseteq {Append(tp, issue) : tp \in bad}
               /\ ~ health.truncated => {Append(tp, issue) : tp \in bad} \subseteq Range(health.affected)
    BY <1>1, <2>5, HealthIs DEF health
  <2>6. ASSUME NEW issue \in Issues, NEW bad, bad = {tp \in Placed : HasIssue(Part(tp), issue)}'
        PROVE  /\ reply'.value.counts[issue] = Cardinality(bad)
               /\ {e \in Range(reply'.value.affected) : e[3] = issue} \subseteq {Append(tp, issue) : tp \in bad}
               /\ ~ reply'.value.truncated => {Append(tp, issue) : tp \in bad} \subseteq Range(reply'.value.affected)
    <3>1. bad = {tp \in Placed : HasIssue(Part(tp), issue)}
      BY <2>2, <2>6 DEF Placed, Part
    <3> QED
      BY <2>3, <2>5, <3>1
  <2>7. HealthIsReal'
    BY <2>6 DEF HealthIsReal
  <2> QED
    BY <1>1, <2>4, <2>7 DEF ViewIsReal, ThroughputIsReal, ExportIsReal, PagesAreReal, DescriptionIsReal
<1> QED
  BY <1>2, <1>3

LEMMA PageStays ==
    ASSUME topics' = topics, ask' = ask, NEW value, IsPageOf(value)
    PROVE  IsPageOf(value)'
<1> DEFINE fits == {i \in DOMAIN Names : Existing(Names[i])
                       /\ (ask.internal \/ ~ topics[Names[i]].internal) /\ ask.pattern \in {"", Names[i]}}
           size == PageSize
           before == (ask.page - 1) * size
           Rank(i) == Cardinality({j \in fits : j < i})
           Is(f, b, z) ==
               /\ value.total = Cardinality(f)
               /\ {<<k, value.items[k].name>> : k \in DOMAIN value.items}
                    = {<<Cardinality({j \in f : j < i}) + 1 - b, Names[i]>> :
                          i \in {x \in f : /\ b <= Cardinality({j \in f : j < x})
                                          /\ Cardinality({j \in f : j < x}) < b + z}}
<1>1. fits' = fits
  BY DEF Existing
<1>2. size' = size
  BY DEF PageSize
<1>3. Is(fits, before, size)
  BY DEF IsPageOf
<1>4. Is(fits', before', size') => IsPageOf(value)'
  BY DEF IsPageOf
<1> HIDE DEF size
<1>5. before' = before
  BY <1>2
<1> HIDE DEF fits, before, Is
<1> QED
  BY <1>1, <1>2, <1>3, <1>4, <1>5

LEMMA PagesTell ==
    ASSUME ViewInv, [Next]_vars, ask.id = "T1", HandleView \/ ListTopics
    PROVE  ViewFound' /\ ViewIsReal'
<1>1. /\ Base /\ Base' /\ ask' = ask /\ History' /\ SeenShape /\ ClusterShape
  BY BaseKept, HistoryKept, ViewFindingsKept DEF ViewInv, ViewFound, ClusterInv, ViewIds
<1>2. CASE HandleView
  <2>1. seen' = seen /\ ((pc' = "done" /\ NoSuccess') \/ pc' = "look")
    BY <1>2, ReplyIs DEF HandleView, Goto, NoSuccess
  <2>2. SeenShape'
    BY <1>1, <2>1 DEF SeenShape
  <2>3. ViewFound'
    BY <1>1, <2>1, <2>2 DEF ViewFound, ViewPath, SampleFound, ExportFound, DescribeFound
  <2> QED
    BY <1>1, <2>1, <2>3, ViewEndsOrGoesOn
<1>3. CASE ListTopics
  <2>1. topics' = topics /\ seen' = seen /\ pc' = "done"
    BY <1>3, ReplyIs DEF ListTopics, Reading, clusterVars
  <2>2. ViewFound'
    BY <2>1, ViewOver DEF ViewIds
  <2>3. CASE Panics(ask.page, PageSize, Len(Fitting))
    <3>1. NoSuccess'
      BY <1>3, <2>3, ReplyIs DEF ListTopics, NoSuccess
    <3> QED
      BY <1>1, <2>2, <3>1, ViewEndsOrGoesOn
  <2>4. CASE ~ Panics(ask.page, PageSize, Len(Fitting))
    <3> DEFINE page == PageOf(Fitting, ask.page, PageSize)
               Row(n, rf) == [name |-> n, partitions |-> Len(topics[n].parts), rf |-> rf[n]]
               Listing(rf) == [items |-> [i \in DOMAIN page |-> Row(page[i], rf)], total |-> Len(Fitting)]
    <3>1. PICK rf : Reply("ok", Listing(rf))
      BY <1>3, <2>4 DEF ListTopics
    <3>2. /\ Listing(rf).total = Len(Fitting) /\ DOMAIN Listing(rf).items = DOMAIN page
          /\ \A k \in DOMAIN page : Listing(rf).items[k].name = page[k]
      <4> HIDE DEF page
      <4> QED
        OBVIOUS
    <3> HIDE DEF page, Listing
    <3>3. PICK value : /\ reply'.value = value /\ value.total = Len(Fitting) /\ DOMAIN value.items = DOMAIN page
                       /\ \A k \in DOMAIN value.items : value.items[k].name = page[k]
      BY <3>1, <3>2, ReplyIs
    <3>4. PageSize > 0 /\ (ask.page - 1) * PageSize <= IntMax => IsPageOf(value)
      BY <1>1, <2>4, <3>3, PageIs DEF Base, ClusterShape, page
    <3>5. IsPageOf(value) => IsPageOf(value)'
      BY <1>1, <2>1, PageStays
    <3>6. IsPageOf(value)' => IsPageOf(reply.value)'
      BY <3>3 DEF IsPageOf
    <3>7. PageSize' = PageSize /\ ask' = ask
      BY <1>1 DEF PageSize
    <3>8. PagesAreReal'
      <4> DEFINE size == PageSize
      <4>1. size' = size
        BY <3>7
      <4> HIDE DEF size
      <4>2. size > 0 /\ (ask.page - 1) * size <= IntMax => IsPageOf(reply.value)'
        BY <3>4, <3>5, <3>6 DEF size
      <4>3. size' > 0 /\ (ask'.page - 1) * size' <= IntMax => IsPageOf(reply.value)'
        BY <3>7, <4>1, <4>2
      <4> QED
        BY <4>3 DEF PagesAreReal, size
    <3> QED
      BY <1>1, <2>2, <3>8 DEF ViewIsReal, ThroughputIsReal, ExportIsReal, HealthIsReal, DescriptionIsReal
  <2> QED
    BY <2>3, <2>4
<1> QED
  BY <1>2, <1>3

-----------------------------------------------------------------------------
(* A view whose call fails, and what others do meanwhile. *)
LEMMA ViewFails ==
    ASSUME ViewInv, [Next]_vars, ask.id \in ViewIds, CallFails
    PROVE  ViewFound' /\ ViewIsReal'
<1>1. Base'
  BY BaseKept DEF ViewInv, ClusterInv
<1>2. pc' = "done" /\ seen' = seen /\ NoSuccess'
  BY ReplyIs DEF CallFails, NoSuccess
<1> QED
  BY <1>1, <1>2, ViewOver, ViewEndsOrGoesOn

LEMMA OthersView ==
    ASSUME ViewInv, [Next]_vars, ask.id \in ViewIds, UNCHANGED <<pc, seen>>
    PROVE  ViewFound'
<1>1. /\ Base /\ ask' = ask /\ pc' = pc /\ seen' = seen /\ History'
      /\ SeenShape /\ ViewPath /\ SampleFound /\ ExportFound /\ DescribeFound
  BY HistoryKept, ViewFindingsKept DEF ViewInv, ViewFound, ClusterInv
<1>2. /\ \A n, ends : HadEnds(n, ends) => HadEnds(n, ends)'
      /\ \A n, first, last : HadEndsThen(n, first, last) => HadEndsThen(n, first, last)'
      /\ \A i \in DOMAIN past : /\ i \in DOMAIN past' /\ past'[i] = past[i]
                                /\ \A n, config : HadConfigSince(i, n, config) => HadConfigSince(i, n, config)'
  BY <1>1, ViewFindingsKept
<1>3. SeenShape' /\ ViewPath'
  BY <1>1 DEF SeenShape, ViewPath
<1>4. SampleFound'
  <2>1. ASSUME NEW n, NEW f, f = seen.first[n], HadEnds(n, f) PROVE HadEnds(n, f)'
    BY <1>2, <2>1
  <2>2. ASSUME NEW n, NEW f, f = seen.first[n], NEW l, l = seen.last[n], HadEndsThen(n, f, l) PROVE HadEndsThen(n, f, l)'
    BY <1>2, <2>2
  <2> QED
    BY <1>1, <2>1, <2>2 DEF SampleFound, HadEnds, HadEndsThen
<1>5. ExportFound'
  <2>1. ASSUME NEW i \in DOMAIN past, ExportOf(i) PROVE ExportOf(i)'
    <3>1. ASSUME NEW x \in DOMAIN seen.listed \ seen.todo, NEW c, c = seen.config[x]
          PROVE  x \in DOMAIN seen.config /\ HadConfigSince(i, x, c)'
      <4>1. x \in DOMAIN seen.config /\ HadConfigSince(i, x, seen.config[x])
        BY <2>1 DEF ExportOf
      <4> QED
        BY <1>2, <3>1, <4>1
    <3>2. i \in DOMAIN past' /\ past'[i] = past[i]
      BY <1>2
    <3> QED
      BY <1>1, <2>1, <3>1, <3>2 DEF ExportOf, HadConfigSince, ConfigAt
  <2> QED
    BY <1>1, <1>2, <2>1 DEF ExportFound
<1>6. DescribeFound'
  <2>1. ASSUME NEW i \in DOMAIN past
        PROVE  /\ ReadParts(i) => ReadParts(i)'
               /\ ReadBegins(i) => ReadBegins(i)'
               /\ ReadEnds(i) => ReadEnds(i)'
    BY <1>1, ReadsKept
  <2> QED
    BY <1>1, <1>2, <2>1 DEF DescribeFound
<1> QED
  BY <1>1, <1>3, <1>4, <1>5, <1>6 DEF ViewFound

(* Where nothing happens, what was told stays real. *)
LEMMA StillReal ==
    ASSUME UNCHANGED vars, ViewIsReal
    PROVE  ViewIsReal'
<1>1. ask' = ask /\ reply' = reply /\ past' = past /\ topics' = topics
  BY DEF vars, reqVars, clusterVars
<1>2. ThroughputIsReal'
  BY <1>1 DEF ViewIsReal, ThroughputIsReal, EndsAt
<1>3. ExportIsReal'
  BY <1>1 DEF ViewIsReal, ExportIsReal, ConfigAt, Public
<1>4. HealthIsReal'
  BY <1>1 DEF ViewIsReal, HealthIsReal, Placed, Part
<1>5. PagesAreReal'
  <2>1. PageSize' = PageSize
    BY <1>1 DEF PageSize
  <2>2. ASSUME NEW v, IsPageOf(v) PROVE IsPageOf(v)'
    BY <1>1, <2>2, PageStays
  <2>3. IsPageOf(reply.value) => IsPageOf(reply.value)'
    BY <1>1, <2>2 DEF IsPageOf
  <2> QED
    BY <1>1, <2>1, <2>3 DEF ViewIsReal, PagesAreReal
<1>6. DescriptionIsReal'
  <2>1. \A i, n : EndsAt(i, n)' = EndsAt(i, n) /\ ConfigAt(i, n)' = ConfigAt(i, n)
    BY <1>1 DEF EndsAt, ConfigAt
  <2> QED
    BY <1>1, <2>1 DEF ViewIsReal, DescriptionIsReal
<1> QED
  BY <1>2, <1>3, <1>4, <1>5, <1>6 DEF ViewIsReal

(* A view begins without having found anything. *)
LEMMA InitView ==
    ASSUME Init
    PROVE  ViewFound
<1>1. pc = "http" /\ seen = Unseen /\ past = <<Now>>
  BY DEF Init, Start
<1>2. SeenShape /\ seen.last = <<>>
  BY <1>1 DEF Unseen, SeenShape
<1>3. DOMAIN past = {1} /\ past[1].topics = topics
  <2> DEFINE now == Now
  <2>1. now.topics = topics
    BY DEF Now
  <2> HIDE DEF now
  <2> QED
    BY <1>1, <2>1 DEF now
<1>4. \A n \in DOMAIN topics : n \in Range(Names) /\ IsTopic(topics[n]) /\ DOMAIN topics[n].config \subseteq Keys
  BY ClusterAssumption DEF Init, ClusterInit
<1>5. \A n \in DOMAIN topics : Later(topics[n], topics[n])
  BY <1>4, LaterSelf
<1>6. History
  BY <1>3, <1>4, <1>5 DEF History
<1> QED
  BY <1>1, <1>2, <1>6 DEF ViewFound, ViewPath, SampleFound, ExportFound, DescribeFound

(* What a view has found was there, one thing not before the other, and    *)
(* what it shows is that, whatever others do between its calls.            *)
THEOREM ViewInvariance == Spec => []ViewInv
<1>1. Init => ViewFound /\ ViewIsReal
  <2> SUFFICES ASSUME Init PROVE ViewFound /\ ViewIsReal
    OBVIOUS
  <2>1. NoSuccess
    BY DEF Init, Start, NoSuccess
  <2> QED
    BY <2>1, InitView, NothingViewed
<1>2. ViewInv /\ [Next]_vars => ViewFound' /\ ViewIsReal'
  <2> SUFFICES ASSUME ViewInv, [Next]_vars PROVE ViewFound' /\ ViewIsReal'
    OBVIOUS
  <2>1. ask' = ask /\ Base'
    BY BaseKept, ViewFindingsKept DEF ViewInv, ClusterInv
  <2>2. CASE ask.id \notin ViewIds
    BY <2>1, <2>2 DEF ViewIds, ViewFound, ViewIsReal, ThroughputIsReal, ExportIsReal, HealthIsReal, PagesAreReal,
                      DescriptionIsReal
  <2>3. CASE ask.id \in ViewIds
    <3>1. CASE UNCHANGED vars
      <4>1. UNCHANGED <<pc, seen>>
        BY <3>1 DEF vars, reqVars
      <4> QED
        BY <2>3, <3>1, <4>1, OthersView, StillReal DEF ViewInv
    <3>2. CASE ClusterOthers
      <4>1. UNCHANGED <<pc, seen>> /\ pc' # "done"
        BY <3>2, OthersLeave
      <4> QED
        BY <2>1, <2>3, <4>1, OthersView, ViewEndsOrGoesOn
    <3>3. CASE CallFails
      BY <2>3, <3>3, ViewFails
    <3>4. CASE ask.id = "C4" /\ (Handle \/ ReadOnce)
      BY <3>4, HealthTells
    <3>5. CASE ask.id = "C10" /\ (Handle \/ List \/ Sample("first") \/ Pause \/ Sample("last") \/ Throughput)
      BY <3>5, SamplesBegin, SamplesGoOn, ThroughputTells
    <3>6. CASE ask.id = "C11" /\ (Handle \/ List \/ DescribeNext \/ Export)
      BY <3>6, ExportBegins, ExportGoesOn, ExportTells
    <3>7. CASE ask.id = "T1" /\ (HandleView \/ ListTopics)
      BY <3>7, PagesTell
    <3>8. CASE ask.id = "T2" /\ (HandleView \/ DescribeParts \/ DescribeBegins \/ DescribeEnds \/ DescribeConfigs)
      BY <3>8, PartsFound, BeginsFound, EndsFound, DescriptionTells
    <3> QED
      BY <2>3, <3>1, <3>2, <3>3, <3>4, <3>5, <3>6, <3>7, <3>8, ViewSteps DEF ViewInv, ViewFound
  <2> QED
    BY <2>2, <2>3
<1>3. Init /\ ClusterInv => ViewInv
  BY <1>1 DEF ViewInv
<1>4. ViewInv /\ [Next]_vars /\ ClusterInv' => ViewInv'
  BY <1>2 DEF ViewInv
<1> QED
  BY <1>3, <1>4, ClusterInvariance, PTL DEF Spec

(* T1, T2, C4, C10 and C11 show what there was, whatever others do between *)
(* their calls.                                                            *)
THEOREM ViewShown == Spec => []ViewIsReal
<1>1. ViewInv => ViewIsReal
  BY DEF ViewInv
<1> QED
  BY <1>1, ViewInvariance, PTL
=============================================================================
