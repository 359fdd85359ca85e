--------------------------- MODULE SecurityAdmin ---------------------------
(***************************************************************************)
(* The security commands, S1 and S2 (internal/service/security), from      *)
(* their HTTP handlers to their replies, over credentials and quotas that  *)
(* others change meanwhile.  Every port call is a step.                    *)
(***************************************************************************)
EXTENDS AdminCommand

CONSTANTS
    Users, Mechanisms,
    DefaultIterations,
    QuotaKeys,     \* the quotas Kafka knows
    WireKeys,      \* those an answer has a field for
    Secrets        \* the credentials and quotas there may be at first

VARIABLES
    users,    \* the iterations of each mechanism of each user
    quotas    \* the quotas of each entity that has any

securityVars == <<users, quotas>>

SecurityIds == {"S1", "S2"}

(* An entity of quotas is a set of components: what of, and which.  Kafka  *)
(* takes it if there is one, and none has an empty name.                   *)
Components == {"user", "client-id", "ip"} \X STRING

Named(entity) == entity # {} /\ \A c \in entity : c[2] # ""

(* What the bodies and queries of S1 and S2 hold. *)
IsSecurityAsk(a) ==
    /\ a.op \in (IF a.id = "S1" THEN {"list", "create", "delete"} ELSE {"list", "alter"})
    /\ a.user \in Users /\ a.mechanism \in Mechanisms \cup {""} /\ a.iterations \in Int
    /\ a.type \in {"", "user", "client-id", "ip"}
    /\ a.entity \subseteq Components
    /\ DOMAIN a.set \subseteq WireKeys /\ a.remove \subseteq QuotaKeys

ASSUME SecurityAssumption ==
    /\ \A a \in Asks : a.id \in SecurityIds => IsSecurityAsk(a)
    /\ DefaultIterations \in Nat \ {0}
    /\ WireKeys \subseteq QuotaKeys
    /\ \A s \in Secrets : DOMAIN s.users = Users /\ \A e \in DOMAIN s.quotas : Named(e) /\ e \subseteq Components

Securing(step) == At(step) /\ UNCHANGED <<securityVars, seen, done>>

HasUser(u) == DOMAIN users[u] # {}

-----------------------------------------------------------------------------
(* The descriptor of an entity does not tell the default, which has no     *)
(* name, from an empty name, and that of no entity at all is what a caller *)
(* who confirms nothing sends.                                             *)
Descriptor(entity) ==
    {<<c[1], IF c[2] = "default" THEN "" ELSE c[2]>> : c \in entity}

QuotaTarget(entity) == IF entity = {} THEN NoPlan.target ELSE <<"S2", Descriptor(entity)>>

QuotasOf(values, entity) == IF entity \in DOMAIN values THEN values[entity] ELSE <<>>

CurrentQuotas(entity) ==
    LET same == {e \in DOMAIN quotas : Descriptor(e) = Descriptor(entity)}
    IN  IF same = {} THEN {<<>>} ELSE {quotas[e] : e \in same}

Fields(values) == Restrict(values, DOMAIN values \cap WireKeys)

QuotaOr(values, k) == IF k \in DOMAIN values THEN {values[k]} ELSE {}

QuotaChanges(values) ==
    {<<k, QuotaOr(values, k), {ask.set[k]}>> : k \in DOMAIN ask.set}
        \cup {<<k, QuotaOr(values, k), {}>> : k \in ask.remove}

-----------------------------------------------------------------------------
HandleSecurity ==
    /\ Securing("http")
    /\ UNCHANGED plan
    /\ Goto(IF ask.op = "create" THEN "attempt" ELSE "describe")

(* DescribeUserSCRAMs and DescribeClientQuotas. *)
ListSecurity ==
    /\ Securing("describe")
    /\ ask.op = "list"
    /\ Reply("ok", CASE ask.id = "S1" -> {<<u, users[u]>> : u \in {x \in Users : HasUser(x)}}
                     [] ask.id = "S2" -> {<<e, Fields(quotas[e])>> : e \in
                            {x \in DOMAIN quotas : ask.type = "" \/ \E c \in x : c[1] = ask.type}})
    /\ UNCHANGED plan

PlanDelete ==
    /\ Securing("describe")
    /\ ask.op = "delete"
    /\ IF ~ HasUser(ask.user) \/ ask.mechanism \notin DOMAIN users[ask.user] \cup {""}
       THEN Reply("NotFound", <<>>) /\ UNCHANGED plan
       ELSE /\ Planned(<<"S1", {ask.user}>>,
                       IF ask.mechanism = "" THEN <<DOMAIN users[ask.user]>> ELSE <<{ask.mechanism}>>)
            /\ Goto("confirm")

PlanAlterQuota ==
    /\ Securing("describe")
    /\ ask.op = "alter"
    /\ \E values \in CurrentQuotas(ask.entity) : Planned(QuotaTarget(ask.entity), <<QuotaChanges(values)>>)
    /\ Goto("confirm")

-----------------------------------------------------------------------------
(* S1 create: Kafka would overwrite what is there, so the service asks     *)
(* first, after the ATTEMPT.                                               *)
Mutant_UserHasMechanism ==
    /\ Securing("apply")
    /\ ask.op = "create"
    /\ Goto("upsert")
    /\ UNCHANGED plan

UserHasMechanism ==
    /\ Securing("apply")
    /\ ask.op = "create"
    /\ IF ask.mechanism \in DOMAIN users[ask.user] THEN Reply("AlreadyExists", <<>>) ELSE Goto("upsert")
    /\ UNCHANGED plan

Iterations == IF ask.iterations = 0 THEN DefaultIterations ELSE ask.iterations

Changing(step) == At(step) /\ UNCHANGED <<seen, plan>>

(* The answer to a change that took effect may be lost. *)
Upsert ==
    /\ Changing("upsert")
    /\ users' = [users EXCEPT ![ask.user] = With(@, ask.mechanism, Iterations)]
    /\ done' = {<<ask.user, ask.mechanism>>}
    /\ Reply("ok", <<ask.user, ask.mechanism>>) \/ Reply("KafkaError", <<>>)
    /\ UNCHANGED quotas

(* Of a user that lacks a mechanism to be deleted, Kafka may delete those  *)
(* it has or none.                                                         *)
ApplyDelete ==
    /\ Changing("apply")
    /\ ask.op = "delete"
    /\ LET has == DOMAIN users[ask.user]
           told == plan.changes[1]
       IN  \E gone \in {told \cap has} \cup (IF told \subseteq has THEN {} ELSE {{}}) :
              /\ users' = [users EXCEPT ![ask.user] = Restrict(@, has \ gone)]
              /\ done' = IF gone = {} THEN {} ELSE {gone}
              /\ IF told \subseteq has THEN Reply("ok", ask.user) \/ Reply("KafkaError", <<>>)
                 ELSE Reply("NotFound", <<>>)
    /\ UNCHANGED quotas

ApplyAlterQuota ==
    /\ Changing("apply")
    /\ ask.op = "alter"
    /\ IF ~ Named(ask.entity) THEN Reply("KafkaError", <<>>) /\ UNCHANGED <<quotas, done>>
       ELSE LET new == Amended(QuotasOf(quotas, ask.entity), ask.set, ask.remove)
            IN  /\ quotas' = IF DOMAIN new = {} THEN Restrict(quotas, DOMAIN quotas \ {ask.entity})
                             ELSE With(quotas, ask.entity, new)
                /\ done' = {ask.entity}
                /\ Goto("reread") \/ Reply("KafkaError", <<>>)
    /\ UNCHANGED users

RereadQuota ==
    /\ Securing("reread")
    /\ ask.op = "alter"
    /\ \E values \in CurrentQuotas(ask.entity) : Reply("ok", Fields(values))
    /\ UNCHANGED plan

-----------------------------------------------------------------------------
(* Others set and delete credentials and quotas. *)
SecurityOthers ==
    /\ Others
    /\ \/ /\ \E u \in Users, m \in Mechanisms :
                users' \in {[users EXCEPT ![u] = With(@, m, 1)], [users EXCEPT ![u] = Restrict(@, DOMAIN @ \ {m})]}
          /\ UNCHANGED quotas
       \/ /\ \E e \in {x \in DOMAIN quotas \cup {ask.entity} : Named(x)}, k \in QuotaKeys :
                quotas' \in {With(quotas, e, [x \in {k} |-> 3]), Restrict(quotas, DOMAIN quotas \ {e})}
          /\ UNCHANGED users

SecurityStep ==
    \/ HandleSecurity \/ ListSecurity \/ PlanDelete \/ PlanAlterQuota \/ UserHasMechanism \/ Upsert
    \/ ApplyDelete \/ ApplyAlterQuota \/ RereadQuota

SecurityInit == \E s \in Secrets : users = s.users /\ quotas = s.quotas
-----------------------------------------------------------------------------
(* S1 and S2 do what they tell, whatever others do between their calls.  A *)
(* creation that succeeds found the user without the mechanism and leaves  *)
(* it with the iterations asked for; a deletion that succeeds removes what *)
(* the user had when it was planned, and only that; an alteration that     *)
(* succeeds had its values in effect, and answers with values that were    *)
(* there then or later.  Refusals and previews change nothing.             *)
CredentialsAsTold ==
    ask.id \in SecurityIds =>
        /\ reply.code = "ok" /\ ask.op = "create" =>
               /\ \E i \in DOMAIN past : ask.mechanism \notin DOMAIN past[i].users[ask.user]
               /\ users[ask.user][ask.mechanism] = Iterations
        /\ reply.code = "ok" /\ ask.op = "delete" =>
               LET told == plan.changes[1] IN
               /\ done = {told}
               /\ DOMAIN users[ask.user] \cap told = {}
               /\ \E i \in DOMAIN past :
                     LET has == DOMAIN past[i].users[ask.user]
                     IN  told = IF ask.mechanism = "" THEN has ELSE has \cap {ask.mechanism}
        /\ reply.code = "ok" /\ ask.op = "alter" =>
               \E i, j \in DOMAIN past :
                   LET Of(k) == QuotasOf(past[k].quotas, ask.entity) IN
                   /\ i <= j /\ reply.value = Fields(Of(j))
                   /\ \A key \in DOMAIN ask.set \ ask.remove : key \in DOMAIN Of(i) /\ Of(i)[key] = ask.set[key]
                   /\ ask.remove \cap DOMAIN Of(i) = {}
        /\ reply.code \in {"plan", "ConfirmationMismatch", "AuditUnavailable", "AlreadyExists"} => done = {}
=============================================================================
