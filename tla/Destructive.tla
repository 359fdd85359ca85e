---------------------------- MODULE Destructive ----------------------------
(***************************************************************************)
(* core.Destructive: the lifecycle every destructive command of the        *)
(* gateway runs through, with the two-phase audit trail of audit.Auditor.  *)
(*                                                                         *)
(* A request is one HTTP call.  It passes the gates, resolves a plan, is   *)
(* either a preview (dry run) or must confirm the plan's target, writes    *)
(* its ATTEMPT to every audit sink, applies the plan to the cluster and    *)
(* writes its RESULT.  Requests run concurrently; a write to an external   *)
(* sink can fail, and a failed write may or may not have been recorded;    *)
(* stdout never fails, but keeps nothing under a log level above info; the *)
(* gateway process can die at any point and keeps nothing.                 *)
(*                                                                         *)
(* What a plan is, and what applying it does to the cluster, belongs to    *)
(* each command: here the outcome of plan() and apply() is any outcome,    *)
(* and some commands succeed without having changed anything.              *)
(***************************************************************************)
EXTENDS Naturals, Gates

CONSTANTS
    Requests,       \* the HTTP calls the gateway receives
    Calls,          \* what a call can carry: see Call below
    Policies,       \* the configurations the gateway can be started with
    LogLevels,      \* the values of telemetry.log_level it can be started with
    Plans,          \* the plans a command can resolve
    Confirms,       \* the values of the confirm field
    ConfirmTarget,  \* the confirm target of each plan (core.Plan)
    NumSinks,       \* sink 1 is stdout; sink 2, if any, is the audit topic
    ExternalSinks,  \* the sinks whose Write can fail
    NoPlan          \* not a plan

Call == [id : DestructiveIds, tier : {"reader", "operator"}, breakGlass : BOOLEAN,
         dryRun : BOOLEAN, confirm : Confirms]

Sinks == 1..NumSinks

ASSUME SinkAssumption ==
    /\ NumSinks \in Nat \ {0}
    /\ ExternalSinks \subseteq Sinks

ASSUME InputAssumption ==
    /\ Calls \subseteq Call
    /\ Policies \subseteq Policy
    /\ LogLevels \subseteq {"debug", "info", "warn", "error"}
    /\ ConfirmTarget \in [Plans -> Confirms]
    /\ NoPlan \notin Plans

VARIABLES
    policy,   \* Runner.Policy, fixed at start-up
    logLevel, \* telemetry.log_level, fixed at start-up
    call,     \* what each request asked for
    stage,    \* where each request's handler is
    plan,     \* the plan the handler holds
    sink,     \* the next sink its Attempt or Result writes to
    result,   \* the RESULT event it is about to write
    reply,    \* the answer it has decided on
    trail,    \* the events each sink has recorded
    applied   \* history: the plan that took effect on the cluster for a request

vars == <<policy, logLevel, call, stage, plan, sink, result, reply, trail, applied>>

Stages == {"idle", "gate", "plan", "confirm", "attempt", "apply", "result", "done", "lost"}

Replies ==
    {"none", "plan", "ok", "PlanError", "ApplyError", "ConfirmationMismatch", "AuditUnavailable"}
        \cup Refusals

Event == [req : Requests, phase : {"ATTEMPT", "RESULT"}, outcome : Outcomes \cup {""},
          severity : Severities, dryRun : BOOLEAN]

-----------------------------------------------------------------------------
CallerOf(r) == [tier |-> call[r].tier, breakGlass |-> call[r].breakGlass]

Gate(r) == Check(CallerOf(r), call[r].id, policy)

(* The base event of newEvent, as Attempt writes it: no outcome, and no    *)
(* severity either, which only a RESULT is given.                          *)
AttemptEvent(r) ==
    [req |-> r, phase |-> "ATTEMPT", outcome |-> "", severity |-> "", dryRun |-> FALSE]

(* resultEvent, and the REJECTED event of CheckAudited, whose base event   *)
(* has not been given its dryRun flag yet.                                 *)
ResultEvent(r, outcome) ==
    [req |-> r, phase |-> "RESULT", outcome |-> outcome,
     severity |-> SeverityFor(call[r].id, outcome, call[r].breakGlass),
     dryRun |-> call[r].dryRun /\ outcome # "REJECTED"]

NoCall == [id |-> "none", tier |-> "reader", breakGlass |-> FALSE, dryRun |-> FALSE, confirm |-> "none"]

NoResult == [req |-> "none"]

-----------------------------------------------------------------------------
Init ==
    /\ policy \in Policies
    /\ logLevel \in LogLevels
    /\ call = [r \in Requests |-> NoCall]
    /\ stage = [r \in Requests |-> "idle"]
    /\ plan = [r \in Requests |-> NoPlan]
    /\ sink = [r \in Requests |-> 1]
    /\ result = [r \in Requests |-> NoResult]
    /\ reply = [r \in Requests |-> "none"]
    /\ trail = [k \in Sinks |-> {}]
    /\ applied = [r \in Requests |-> NoPlan]

Goto(r, s) == stage' = [stage EXCEPT ![r] = s]

Answer(r, a) == reply' = [reply EXCEPT ![r] = a]

(* SlogSink writes its event as an Info record of the process's logger:    *)
(* above that level the record is dropped and Write returns nil.           *)
Keeping == {k \in Sinks : k = 1 => logLevel \in {"debug", "info"}}

Recorded(k, ev) == trail' = IF k \in Keeping THEN [trail EXCEPT ![k] = @ \cup {ev}] ELSE trail

(* Write the RESULT ev to every sink, then answer. *)
Report(r, ev) ==
    /\ result' = [result EXCEPT ![r] = ev]
    /\ sink' = [sink EXCEPT ![r] = 1]
    /\ Goto(r, "result")

Receive(r) ==
    /\ stage[r] = "idle"
    /\ \E c \in Calls : call' = [call EXCEPT ![r] = c]
    /\ Goto(r, "gate")
    /\ UNCHANGED <<policy, logLevel, plan, sink, result, reply, trail, applied>>

Mutant_RefusalFallsThrough(r) ==
    /\ stage[r] = "gate"
    /\ Gate(r) # "pass"
    /\ Recorded(1, ResultEvent(r, "REJECTED"))
    /\ Goto(r, "plan")
    /\ UNCHANGED <<policy, logLevel, call, plan, sink, result, reply, applied>>

(* CheckAudited: a refusal is audited with one REJECTED RESULT. *)
GateRefuses(r) ==
    /\ stage[r] = "gate"
    /\ Gate(r) # "pass"
    /\ Report(r, ResultEvent(r, "REJECTED"))
    /\ Answer(r, Gate(r))
    /\ UNCHANGED <<policy, logLevel, call, plan, trail, applied>>

GatePasses(r) ==
    /\ stage[r] = "gate"
    /\ Gate(r) = "pass"
    /\ Goto(r, "plan")
    /\ UNCHANGED <<policy, logLevel, call, plan, sink, result, reply, trail, applied>>

(* plan() fails: nothing has been decided, so nothing is audited. *)
PlanFails(r) ==
    /\ stage[r] = "plan"
    /\ Goto(r, "done")
    /\ Answer(r, "PlanError")
    /\ UNCHANGED <<policy, logLevel, call, plan, sink, result, trail, applied>>

PlanResolves(r, p) ==
    /\ stage[r] = "plan"
    /\ plan' = [plan EXCEPT ![r] = p]
    /\ Goto(r, "confirm")
    /\ UNCHANGED <<policy, logLevel, call, sink, result, reply, trail, applied>>

(* A dry run ends with its plan, before the confirm field is looked at. *)
Preview(r) ==
    /\ stage[r] = "confirm"
    /\ call[r].dryRun
    /\ Report(r, ResultEvent(r, "SUCCEEDED"))
    /\ Answer(r, "plan")
    /\ UNCHANGED <<policy, logLevel, call, plan, trail, applied>>

ConfirmRefused(r) ==
    /\ stage[r] = "confirm"
    /\ ~ call[r].dryRun
    /\ call[r].confirm # ConfirmTarget[plan[r]]
    /\ Goto(r, "done")
    /\ Answer(r, "ConfirmationMismatch")
    /\ UNCHANGED <<policy, logLevel, call, plan, sink, result, trail, applied>>

Mutant_AnyConfirm(r) ==
    /\ stage[r] = "confirm"
    /\ ~ call[r].dryRun
    /\ Goto(r, "attempt")
    /\ sink' = [sink EXCEPT ![r] = 1]
    /\ UNCHANGED <<policy, logLevel, call, plan, result, reply, trail, applied>>

Mutant_ApplyBeforeAttempt(r) ==
    /\ stage[r] = "confirm"
    /\ ~ call[r].dryRun
    /\ call[r].confirm = ConfirmTarget[plan[r]]
    /\ Goto(r, "attempt")
    /\ sink' = [sink EXCEPT ![r] = 1]
    /\ applied' = [applied EXCEPT ![r] = plan[r]]
    /\ UNCHANGED <<policy, logLevel, call, plan, result, reply, trail>>

ConfirmAccepted(r) ==
    /\ stage[r] = "confirm"
    /\ ~ call[r].dryRun
    /\ call[r].confirm = ConfirmTarget[plan[r]]
    /\ Goto(r, "attempt")
    /\ sink' = [sink EXCEPT ![r] = 1]
    /\ UNCHANGED <<policy, logLevel, call, plan, result, reply, trail, applied>>

-----------------------------------------------------------------------------
(* A failed Write may have reached the topic all the same (a lost reply). *)
MaybeRecorded(k, ev) == Recorded(k, ev) \/ UNCHANGED trail

Mutant_FirstSinkSuffices(r) ==
    /\ stage[r] = "attempt"
    /\ Recorded(sink[r], AttemptEvent(r))
    /\ Goto(r, "apply")
    /\ UNCHANGED <<policy, logLevel, call, plan, sink, result, reply, applied>>

Mutant_FailOpen(r) ==
    /\ stage[r] = "attempt"
    /\ sink[r] \in ExternalSinks
    /\ Goto(r, "apply")
    /\ UNCHANGED <<policy, logLevel, call, plan, sink, result, reply, trail, applied>>

(* Auditor.Attempt: sink after sink, and the first error fails closed. *)
AttemptWritten(r) ==
    /\ stage[r] = "attempt"
    /\ Recorded(sink[r], AttemptEvent(r))
    /\ sink' = [sink EXCEPT ![r] = @ + 1]
    /\ stage' = [stage EXCEPT ![r] = IF sink[r] = NumSinks THEN "apply" ELSE "attempt"]
    /\ UNCHANGED <<policy, logLevel, call, plan, result, reply, applied>>

AttemptFails(r) ==
    /\ stage[r] = "attempt"
    /\ sink[r] \in ExternalSinks
    /\ MaybeRecorded(sink[r], AttemptEvent(r))
    /\ Goto(r, "done")
    /\ Answer(r, "AuditUnavailable")
    /\ UNCHANGED <<policy, logLevel, call, plan, sink, result, applied>>

(* The commands whose apply() answers item by item: every item may have    *)
(* failed, or none been found, and apply() still returns no error.         *)
ItemwiseIds == {"T8", "G6", "C9", "C12", "M8"}

ApplySucceeds(r) ==
    /\ stage[r] = "apply"
    /\ \/ applied' = [applied EXCEPT ![r] = plan[r]]
       \/ call[r].id \in ItemwiseIds /\ UNCHANGED applied
    /\ Report(r, ResultEvent(r, "SUCCEEDED"))
    /\ Answer(r, "ok")
    /\ UNCHANGED <<policy, logLevel, call, plan, trail>>

Mutant_ErrorSwallowed(r) ==
    /\ stage[r] = "apply"
    /\ Report(r, ResultEvent(r, "SUCCEEDED"))
    /\ Answer(r, "ok")
    /\ UNCHANGED <<policy, logLevel, call, plan, trail, applied>>

Mutant_FailureUnreported(r) ==
    /\ stage[r] = "apply"
    /\ applied' = [applied EXCEPT ![r] = plan[r]]
    /\ Goto(r, "done")
    /\ Answer(r, "ApplyError")
    /\ UNCHANGED <<policy, logLevel, call, plan, sink, result, trail>>

(* An error from apply() says nothing about the cluster: the operation may *)
(* have taken effect (a failed read-back), or not ...                      *)
ApplyFails(r) ==
    /\ stage[r] = "apply"
    /\ \/ applied' = [applied EXCEPT ![r] = plan[r]]
       \/ UNCHANGED applied
    /\ Report(r, ResultEvent(r, "FAILED"))
    /\ Answer(r, "ApplyError")
    /\ UNCHANGED <<policy, logLevel, call, plan, trail>>

(* ... or not yet: a request that timed out can still reach the brokers    *)
(* after the command, or the item, has been answered as failed.            *)
LateEffect(r) ==
    /\ reply[r] = "ApplyError" \/ (reply[r] = "ok" /\ call[r].id \in ItemwiseIds)
    /\ applied[r] = NoPlan
    /\ applied' = [applied EXCEPT ![r] = plan[r]]
    /\ UNCHANGED <<policy, logLevel, call, stage, plan, sink, result, reply, trail>>

Mutant_ResultRestarted(r) ==
    /\ stage[r] = "result"
    /\ \/ /\ Recorded(sink[r], result[r])
          /\ sink' = [sink EXCEPT ![r] = @ + 1]
          /\ stage' = [stage EXCEPT ![r] = IF sink[r] = NumSinks THEN "done" ELSE "result"]
       \/ /\ sink[r] \in ExternalSinks
          /\ sink' = [sink EXCEPT ![r] = 1]
          /\ UNCHANGED <<stage, trail>>
    /\ UNCHANGED <<policy, logLevel, call, plan, result, reply, applied>>

(* Auditor.Result: every sink in turn, errors ignored. *)
ResultWritten(r) ==
    /\ stage[r] = "result"
    /\ \/ Recorded(sink[r], result[r])
       \/ sink[r] \in ExternalSinks /\ UNCHANGED trail
    /\ sink' = [sink EXCEPT ![r] = @ + 1]
    /\ stage' = [stage EXCEPT ![r] = IF sink[r] = NumSinks THEN "done" ELSE "result"]
    /\ UNCHANGED <<policy, logLevel, call, plan, result, reply, applied>>

(* The process dies, and is restarted with the configuration it had: the   *)
(* handlers in flight are gone, the sinks and the cluster keep what they   *)
(* have.  An apply in flight takes effect or not; nobody is told.          *)
InFlight == {r \in Requests : stage[r] \notin {"idle", "done", "lost"}}

Crash ==
    /\ InFlight # {}
    /\ stage' = [r \in Requests |-> IF r \in InFlight THEN "lost" ELSE stage[r]]
    /\ \E T \in SUBSET {r \in Requests : stage[r] = "apply"} :
           applied' = [r \in Requests |-> IF r \in T THEN plan[r] ELSE applied[r]]
    /\ UNCHANGED <<policy, logLevel, call, plan, sink, result, reply, trail>>

-----------------------------------------------------------------------------
Handle(r) ==
    \/ GateRefuses(r) \/ GatePasses(r)
    \/ PlanFails(r) \/ \E p \in Plans : PlanResolves(r, p)
    \/ Preview(r) \/ ConfirmRefused(r) \/ ConfirmAccepted(r)
    \/ AttemptWritten(r) \/ AttemptFails(r)
    \/ ApplySucceeds(r) \/ ApplyFails(r)
    \/ ResultWritten(r)

Next == Crash \/ \E r \in Requests : Receive(r) \/ Handle(r) \/ LateEffect(r)

Spec == Init /\ [][Next]_vars

(* A handler's goroutine runs until it answers; every port call returns.   *)
(* Nothing makes a client call, and nothing makes the process die.         *)
FairSpec == Spec /\ \A r \in Requests : WF_vars(Handle(r))

-----------------------------------------------------------------------------
(* Every variable has its type. *)
TypeOK ==
    /\ policy \in Policies
    /\ logLevel \in LogLevels
    /\ call \in [Requests -> Calls \cup {NoCall}]
    /\ stage \in [Requests -> Stages]
    /\ plan \in [Requests -> Plans \cup {NoPlan}]
    /\ sink \in [Requests -> Nat \ {0}]
    /\ result \in [Requests -> Event \cup {NoResult}]
    /\ reply \in [Requests -> Replies]
    /\ trail \in [Sinks -> SUBSET Event]
    /\ applied \in [Requests -> Plans \cup {NoPlan}]

(* The events of a request on a sink. *)
Of(r, k) == {e \in trail[k] : e.req = r}

Executed(e) == e.phase = "RESULT" /\ e.outcome # "REJECTED" /\ ~ e.dryRun

(* Fail closed (destructive.go, Attempt before apply): a request that      *)
(* changed the cluster has its ATTEMPT on every sink that keeps what it is *)
(* given, whatever failed or crashed since.                                *)
FailClosed ==
    \A r \in Requests : applied[r] # NoPlan => \A k \in Keeping : AttemptEvent(r) \in trail[k]

(* docs/operations.md:98 has the stdout sink "always on", and :181 adds    *)
(* "so the audit trail is never lost" whatever befalls the audit topic: a  *)
(* change has left its ATTEMPT somewhere.                                  *)
TrailNeverLost ==
    \A r \in Requests : applied[r] # NoPlan => \E k \in Sinks : AttemptEvent(r) \in trail[k]

(* What changed the cluster was allowed by the gates, was no dry run, and  *)
(* is the very plan whose target the caller confirmed.                     *)
AuthorisedChange ==
    \A r \in Requests : applied[r] # NoPlan =>
        /\ Gate(r) = "pass"
        /\ ~ call[r].dryRun
        /\ applied[r] = plan[r]
        /\ call[r].confirm = ConfirmTarget[applied[r]]

(* On each sink the RESULT of an executed command stands beside its        *)
(* ATTEMPT: an audit reader never meets an outcome nobody announced.       *)
ResultHasAttempt ==
    \A k \in Sinks : \A e \in trail[k] : Executed(e) => AttemptEvent(e.req) \in trail[k]

(* One verdict per request: no two sinks, and no two events of one sink,   *)
(* disagree about how a request ended.                                     *)
OneVerdict ==
    \A k, l \in Sinks : \A e \in trail[k], f \in trail[l] :
        e.req = f.req /\ e.phase = "RESULT" /\ f.phase = "RESULT" => e = f

(* The trail tells the truth: SUCCEEDED means the confirmed plan took      *)
(* effect, except of a command that answers item by item; REJECTED or a    *)
(* dry run means the request never touched the cluster, nor announced that *)
(* it would.                                                               *)
TruthfulTrail ==
    \A k \in Sinks : \A e \in trail[k] : e.phase = "RESULT" =>
        IF Executed(e)
        THEN e.outcome = "SUCCEEDED" => applied[e.req] # NoPlan \/ call[e.req].id \in ItemwiseIds
        ELSE applied[e.req] = NoPlan /\ \A l \in Sinks : AttemptEvent(e.req) \notin trail[l]

(* A caller told that the audit is unavailable can repeat the call: the    *)
(* cluster is untouched, though an orphan ATTEMPT may remain.              *)
UnavailableIsUntouched ==
    \A r \in Requests : reply[r] = "AuditUnavailable" =>
        applied[r] = NoPlan /\ \A k \in Sinks : \A e \in Of(r, k) : e.phase = "ATTEMPT"

(* Once a caller has the answer to a refused, previewed or executed        *)
(* command, a sink that neither fails nor drops holds its RESULT.          *)
StdoutRecords ==
    \A r \in Requests :
        stage[r] = "done" /\ reply[r] \notin {"PlanError", "ConfirmationMismatch", "AuditUnavailable"}
            => \A k \in Keeping \ ExternalSinks : result[r] \in trail[k]

(* A request received is answered, unless the process dies under it. *)
Answered == \A r \in Requests : stage[r] = "gate" ~> stage[r] \in {"done", "lost"}

(* A change to the cluster is followed by its RESULT on stdout, unless the *)
(* log level drops it or the process dies in between.                      *)
ChangeReported ==
    \A r \in Requests : \A k \in Sinks \ ExternalSinks :
        k \in Keeping /\ applied[r] # NoPlan ~> stage[r] = "lost" \/ \E e \in Of(r, k) : Executed(e)

-----------------------------------------------------------------------------
(* The refinement: what an audit reader and the cluster see.               *)
Declared == {r \in Requests : Keeping # {} /\ \A k \in Keeping : AttemptEvent(r) \in trail[k]}

Changed == {r \in Requests : applied[r] # NoPlan}

Said(r, outcome) == \E k \in Sinks : \E e \in Of(r, k) : Executed(e) /\ e.outcome = outcome

Verdict ==
    [r \in Requests |->
        IF Said(r, "SUCCEEDED")
        THEN IF call[r].id \in ItemwiseIds THEN "ITEMISED" ELSE "SUCCEEDED"
        ELSE IF Said(r, "FAILED") THEN "FAILED" ELSE NoPlan]

Abstract == INSTANCE AuditedChange
    WITH silent <- (Keeping = {}), declared <- Declared, changed <- Changed,
         verdict <- Verdict, Unreported <- NoPlan

(* The lifecycle keeps the promise of AuditedChange: declared on every     *)
(* sink that keeps anything before it changes anything, changed once, one  *)
(* verdict, never a false success of a command that is all or nothing.     *)
KeepsAuditPromise == Abstract!Spec
=============================================================================
