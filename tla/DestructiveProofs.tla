------------------------- MODULE DestructiveProofs -------------------------
(***************************************************************************)
(* The destructive lifecycle keeps its audit promises for any number of    *)
(* requests, sinks, plans and configurations.                              *)
(***************************************************************************)
EXTENDS Destructive, TLAPS

(* What a confirmed request has established before its ATTEMPT. *)
Authorised(r) ==
    /\ Gate(r) = "pass"
    /\ ~ call[r].dryRun
    /\ plan[r] \in Plans
    /\ call[r].confirm = ConfirmTarget[plan[r]]

AttemptUpTo(r, n) == \A k \in Keeping : k < n => AttemptEvent(r) \in trail[k]

FullAttempt(r) == \A k \in Keeping : AttemptEvent(r) \in trail[k]

OnlyRecords(r, E) == \A k \in Sinks : \A e \in trail[k] : e.req = r => e \in E

Before == {"idle", "gate", "plan", "confirm"}

Refused == Refusals \cup {"plan"}

(* How far the handler is. *)
StageInv(r) ==
    /\ stage[r] \in Before \cup {"attempt", "apply"} => reply[r] = "none" /\ applied[r] = NoPlan
    /\ stage[r] \in {"plan", "confirm"} => Gate(r) = "pass"
    /\ stage[r] = "confirm" => plan[r] \in Plans
    /\ stage[r] = "attempt" => Authorised(r) /\ sink[r] \in Sinks /\ AttemptUpTo(r, sink[r])
    /\ stage[r] = "apply" => Authorised(r) /\ FullAttempt(r)
    /\ stage[r] = "result" =>
           /\ reply[r] \in Refused \cup {"ok", "ApplyError"}
           /\ sink[r] \in Sinks
           /\ \A k \in Keeping \ ExternalSinks : k < sink[r] => result[r] \in trail[k]
    /\ stage[r] = "done" =>
           /\ reply[r] # "none"
           /\ reply[r] \in Refused \cup {"ok", "ApplyError"} =>
                  \A k \in Keeping \ ExternalSinks : result[r] \in trail[k]

(* What the sinks hold of a request, by what its handler has decided. *)
TrailInv(r) ==
    /\ stage[r] \in Before \/ reply[r] \in {"PlanError", "ConfirmationMismatch"} => OnlyRecords(r, {})
    /\ reply[r] \in {"none", "AuditUnavailable"} => OnlyRecords(r, {AttemptEvent(r)})
    /\ reply[r] \in {"ok", "ApplyError"} =>
           /\ OnlyRecords(r, {AttemptEvent(r), result[r]})
           /\ result[r] = ResultEvent(r, IF reply[r] = "ok" THEN "SUCCEEDED" ELSE "FAILED")
           /\ FullAttempt(r)
           /\ Authorised(r)
    /\ reply[r] = "ok" => applied[r] # NoPlan \/ call[r].id \in ItemwiseIds
    /\ reply[r] \in Refused =>
           /\ OnlyRecords(r, {result[r]})
           /\ result[r] = ResultEvent(r, IF reply[r] = "plan" THEN "SUCCEEDED" ELSE "REJECTED")
    /\ reply[r] = "plan" => call[r].dryRun
    /\ reply[r] \notin {"none", "ok", "ApplyError"} => applied[r] = NoPlan

(* What a change to the cluster rests on. *)
ChangeInv(r) ==
    applied[r] # NoPlan => FullAttempt(r) /\ Authorised(r) /\ applied[r] = plan[r]

RequestInv(r) == StageInv(r) /\ TrailInv(r) /\ ChangeInv(r)

(* A sink that drops what it is given holds nothing. *)
DropsAll == \A k \in Sinks \ Keeping : trail[k] = {}

(* The inductive invariant: every handler's progress, decision and trail   *)
(* agree (core.Destructive with audit.Auditor).                            *)
IInv == TypeOK /\ DropsAll /\ \A r \in Requests : RequestInv(r)
-----------------------------------------------------------------------------
(* The gates answer with a refusal or let the request pass. *)
LEMMA CheckType ==
    ASSUME NEW caller, NEW id, NEW pol
    PROVE  Check(caller, id, pol) \in Refusals \cup {"pass"}
BY DEF Check, WriteRefusal, LockRefusal, Refusals

(* The ATTEMPT of a request is an event of that request. *)
LEMMA AttemptEventType ==
    ASSUME NEW r \in Requests
    PROVE  /\ AttemptEvent(r) \in Event
           /\ AttemptEvent(r).req = r
           /\ AttemptEvent(r).phase = "ATTEMPT"
BY DEF AttemptEvent, Event, Outcomes, Severities

(* The RESULT of a request that was received is an event of that request. *)
LEMMA ResultEventType ==
    ASSUME NEW r \in Requests, TypeOK, NEW outcome \in Outcomes
    PROVE  /\ ResultEvent(r, outcome) \in Event
           /\ ResultEvent(r, outcome).req = r
           /\ ResultEvent(r, outcome).phase = "RESULT"
           /\ ResultEvent(r, outcome).outcome = outcome
           /\ Executed(ResultEvent(r, outcome)) <=> ~ call[r].dryRun /\ outcome # "REJECTED"
<1>1. call[r].dryRun \in BOOLEAN
  <2>1. call[r] \in Calls \cup {NoCall}
    BY DEF TypeOK
  <2>2. call[r] \in Calls => call[r] \in Call
    BY InputAssumption
  <2>3. \A c \in Call : c.dryRun \in BOOLEAN
    BY DEF Call
  <2>4. NoCall.dryRun \in BOOLEAN
    BY DEF NoCall
  <2> QED
    BY <2>1, <2>2, <2>3, <2>4
<1>2. SeverityFor(call[r].id, outcome, call[r].breakGlass) \in Severities
  BY DEF SeverityFor, Severities
<1>3. ResultEvent(r, outcome).dryRun <=> call[r].dryRun /\ outcome # "REJECTED"
  BY <1>1 DEF ResultEvent
<1>4. /\ ResultEvent(r, outcome) \in Event
      /\ ResultEvent(r, outcome).req = r
      /\ ResultEvent(r, outcome).phase = "RESULT"
      /\ ResultEvent(r, outcome).outcome = outcome
  BY <1>1, <1>2 DEF ResultEvent, Event
<1> QED
  BY <1>3, <1>4 DEF Executed

(* A handler that stands still, with its part of every sink, keeps its     *)
(* invariant.                                                              *)
LEMMA Frame ==
    ASSUME NEW q \in Requests, RequestInv(q),
           policy' = policy, logLevel' = logLevel, call'[q] = call[q], stage'[q] = stage[q], plan'[q] = plan[q],
           sink'[q] = sink[q], result'[q] = result[q], reply'[q] = reply[q],
           applied'[q] = applied[q],
           \A k \in Sinks : trail[k] \subseteq trail'[k],
           \A k \in Sinks : \A e \in trail'[k] : e.req = q => e \in trail[k]
    PROVE  RequestInv(q)'
<1>0. Keeping' = Keeping /\ Keeping \subseteq Sinks
  BY DEF Keeping
<1>1. Gate(q)' = Gate(q)
  BY DEF Gate, CallerOf
<1>2. Authorised(q)' = Authorised(q)
  BY <1>1 DEF Authorised
<1>3. FullAttempt(q) => FullAttempt(q)'
  BY <1>0 DEF FullAttempt, AttemptEvent
<1>4. \A n : AttemptUpTo(q, n) => AttemptUpTo(q, n)'
  BY <1>0 DEF AttemptUpTo, AttemptEvent
<1>5. \A E : OnlyRecords(q, E) => OnlyRecords(q, E)'
  BY DEF OnlyRecords
<1>6. \A o : ResultEvent(q, o)' = ResultEvent(q, o)
  BY DEF ResultEvent
<1>7. StageInv(q)'
  BY <1>0, <1>1, <1>2, <1>3, <1>4 DEF RequestInv, StageInv, AttemptUpTo
<1>8. TrailInv(q)'
  BY <1>2, <1>3, <1>5, <1>6 DEF RequestInv, TrailInv
<1>9. ChangeInv(q)'
  BY <1>2, <1>3 DEF RequestInv, ChangeInv
<1> QED
  BY <1>7, <1>8, <1>9 DEF RequestInv
-----------------------------------------------------------------------------
(* The initial states are well typed. *)
LEMMA TypeInit == Init => TypeOK
BY DEF Init, TypeOK, Stages, Replies

(* A handler that is writing its RESULT holds an event. *)
LEMMA ResultHeld ==
    ASSUME IInv, NEW r \in Requests, stage[r] = "result"
    PROVE  result[r] \in Event /\ result[r].req = r
<1>1. \E o \in Outcomes : result[r] = ResultEvent(r, o)
  BY DEF IInv, RequestInv, StageInv, TrailInv, Outcomes, Refused
<1> QED
  BY <1>1, ResultEventType DEF IInv

(* Every step keeps the types. *)
LEMMA TypeStep == IInv /\ [Next]_vars => TypeOK'
<1> SUFFICES ASSUME IInv, [Next]_vars PROVE TypeOK'
  OBVIOUS
<1>0. TypeOK
  BY DEF IInv
<1>1. ASSUME NEW r \in Requests, Receive(r) PROVE TypeOK'
  BY <1>0, <1>1 DEF Receive, Goto, TypeOK, Stages, Replies
<1>2. ASSUME NEW r \in Requests, GateRefuses(r) PROVE TypeOK'
  BY <1>0, <1>2, CheckType, ResultEventType DEF GateRefuses, Report, Answer, Goto, TypeOK, Stages, Replies, Gate, Outcomes
<1>3. ASSUME NEW r \in Requests, GatePasses(r) PROVE TypeOK'
  BY <1>0, <1>3 DEF GatePasses, Goto, TypeOK, Stages, Replies
<1>4. ASSUME NEW r \in Requests, PlanFails(r) PROVE TypeOK'
  BY <1>0, <1>4 DEF PlanFails, Answer, Goto, TypeOK, Stages, Replies
<1>5. ASSUME NEW r \in Requests, NEW p \in Plans, PlanResolves(r, p) PROVE TypeOK'
  BY <1>0, <1>5 DEF PlanResolves, Goto, TypeOK, Stages, Replies
<1>6. ASSUME NEW r \in Requests, Preview(r) PROVE TypeOK'
  BY <1>0, <1>6, ResultEventType DEF Preview, Report, Answer, Goto, TypeOK, Stages, Replies, Outcomes
<1>7. ASSUME NEW r \in Requests, ConfirmRefused(r) PROVE TypeOK'
  BY <1>0, <1>7 DEF ConfirmRefused, Answer, Goto, TypeOK, Stages, Replies
<1>8. ASSUME NEW r \in Requests, ConfirmAccepted(r) PROVE TypeOK'
  BY <1>0, <1>8 DEF ConfirmAccepted, Goto, TypeOK, Stages, Replies
<1>9. ASSUME NEW r \in Requests, AttemptWritten(r) PROVE TypeOK'
  <2>1. trail' \in [Sinks -> SUBSET Event]
    BY <1>0, <1>9, AttemptEventType DEF AttemptWritten, Recorded, TypeOK
  <2>2. stage' \in [Requests -> Stages] /\ sink' \in [Requests -> Nat \ {0}]
    BY <1>0, <1>9 DEF AttemptWritten, TypeOK, Stages
  <2> QED
    BY <1>0, <1>9, <2>1, <2>2 DEF AttemptWritten, TypeOK
<1>10. ASSUME NEW r \in Requests, AttemptFails(r) PROVE TypeOK'
  BY <1>0, <1>10, AttemptEventType DEF AttemptFails, MaybeRecorded, Recorded, Answer, Goto, TypeOK, Stages, Replies
<1>11. ASSUME NEW r \in Requests, ApplySucceeds(r) PROVE TypeOK'
  BY <1>0, <1>11, ResultEventType DEF ApplySucceeds, Report, Answer, Goto, TypeOK, Stages, Replies, Outcomes
<1>12. ASSUME NEW r \in Requests, ApplyFails(r) PROVE TypeOK'
  BY <1>0, <1>12, ResultEventType DEF ApplyFails, Report, Answer, Goto, TypeOK, Stages, Replies, Outcomes
<1>13. ASSUME NEW r \in Requests, LateEffect(r) PROVE TypeOK'
  BY <1>0, <1>13 DEF LateEffect, TypeOK, Stages, Replies
<1>14. ASSUME NEW r \in Requests, ResultWritten(r) PROVE TypeOK'
  <2>1. trail' \in [Sinks -> SUBSET Event]
    BY <1>0, <1>14, ResultHeld DEF ResultWritten, Recorded, TypeOK
  <2>2. stage' \in [Requests -> Stages] /\ sink' \in [Requests -> Nat \ {0}]
    BY <1>0, <1>14 DEF ResultWritten, TypeOK, Stages
  <2> QED
    BY <1>0, <1>14, <2>1, <2>2 DEF ResultWritten, TypeOK
<1>15. CASE Crash
  BY <1>0, <1>15 DEF Crash, InFlight, TypeOK, Stages
<1>16. CASE UNCHANGED vars
  BY <1>0, <1>16 DEF vars, TypeOK
<1> QED
  BY <1>1, <1>2, <1>3, <1>4, <1>5, <1>6, <1>7, <1>8, <1>9, <1>10, <1>11, <1>12, <1>13, <1>14, <1>15, <1>16 DEF Next, Handle
-----------------------------------------------------------------------------
(* A step of one request's handler leaves the others' invariant alone.     *)
LEMMA OthersStandStill ==
    ASSUME IInv, NEW r \in Requests, NEW q \in Requests, q # r,
           Receive(r) \/ Handle(r) \/ LateEffect(r)
    PROVE  RequestInv(q)'
<1> USE DEF IInv
<1>1. /\ policy' = policy /\ logLevel' = logLevel
      /\ call'[q] = call[q] /\ stage'[q] = stage[q] /\ plan'[q] = plan[q]
      /\ sink'[q] = sink[q] /\ result'[q] = result[q] /\ reply'[q] = reply[q]
      /\ applied'[q] = applied[q]
  <2>1. CASE Receive(r)
    BY <2>1 DEF Receive, Goto, TypeOK
  <2>2. CASE GateRefuses(r)
    BY <2>2 DEF GateRefuses, Report, Answer, Goto, TypeOK
  <2>3. CASE GatePasses(r)
    BY <2>3 DEF GatePasses, Goto, TypeOK
  <2>4. CASE PlanFails(r)
    BY <2>4 DEF PlanFails, Answer, Goto, TypeOK
  <2>5. CASE \E p \in Plans : PlanResolves(r, p)
    BY <2>5 DEF PlanResolves, Goto, TypeOK
  <2>6. CASE Preview(r)
    BY <2>6 DEF Preview, Report, Answer, Goto, TypeOK
  <2>7. CASE ConfirmRefused(r)
    BY <2>7 DEF ConfirmRefused, Answer, Goto, TypeOK
  <2>8. CASE ConfirmAccepted(r)
    BY <2>8 DEF ConfirmAccepted, Goto, TypeOK
  <2>9. CASE AttemptWritten(r)
    BY <2>9 DEF AttemptWritten, TypeOK
  <2>10. CASE AttemptFails(r)
    BY <2>10 DEF AttemptFails, Answer, Goto, TypeOK
  <2>11. CASE ApplySucceeds(r)
    BY <2>11 DEF ApplySucceeds, Report, Answer, Goto, TypeOK
  <2>12. CASE ApplyFails(r)
    BY <2>12 DEF ApplyFails, Report, Answer, Goto, TypeOK
  <2>13. CASE LateEffect(r)
    BY <2>13 DEF LateEffect, TypeOK
  <2>14. CASE ResultWritten(r)
    BY <2>14 DEF ResultWritten, TypeOK
  <2> QED
    BY <2>1, <2>2, <2>3, <2>4, <2>5, <2>6, <2>7, <2>8, <2>9, <2>10, <2>11, <2>12, <2>13, <2>14 DEF Handle
<1>2. /\ \A k \in Sinks : trail[k] \subseteq trail'[k]
      /\ \A k \in Sinks : \A e \in trail'[k] : e.req = q => e \in trail[k]
  <2>1. CASE AttemptWritten(r)
    BY <2>1, AttemptEventType DEF AttemptWritten, Recorded, TypeOK
  <2>2. CASE AttemptFails(r)
    BY <2>2, AttemptEventType DEF AttemptFails, MaybeRecorded, Recorded, TypeOK
  <2>3. CASE ResultWritten(r)
    BY <2>3, ResultHeld DEF ResultWritten, Recorded, TypeOK
  <2>4. CASE UNCHANGED trail
    BY <2>4
  <2> QED
    BY <2>1, <2>2, <2>3, <2>4
       DEF Handle, Receive, GateRefuses, GatePasses, PlanFails, PlanResolves, Preview, ConfirmRefused,
           ConfirmAccepted, ApplySucceeds, ApplyFails, LateEffect
<1> QED
  BY <1>1, <1>2, Frame
(* A step of a handler keeps its own invariant. *)
LEMMA OwnStep ==
    ASSUME IInv, NEW r \in Requests, Receive(r) \/ Handle(r) \/ LateEffect(r)
    PROVE  RequestInv(r)'
<1> DEFINE Inv == StageInv(r) /\ TrailInv(r) /\ ChangeInv(r)
<1>0. TypeOK /\ Inv
  BY DEF IInv, RequestInv
<1>a. ASSUME policy' = policy, call'[r] = call[r]
      PROVE  Gate(r)' = Gate(r) /\ \A o : ResultEvent(r, o)' = ResultEvent(r, o)
  BY <1>a DEF Gate, CallerOf, ResultEvent
<1>b. ASSUME policy' = policy, call'[r] = call[r], plan'[r] = plan[r]
      PROVE  Authorised(r)' = Authorised(r)
  BY <1>a, <1>b DEF Authorised
<1>k. /\ logLevel' = logLevel => Keeping' = Keeping
      /\ Keeping \subseteq Sinks
  BY DEF Keeping
<1>c. ASSUME UNCHANGED <<logLevel, trail>>
      PROVE  /\ FullAttempt(r)' = FullAttempt(r)
             /\ \A n : AttemptUpTo(r, n)' = AttemptUpTo(r, n)
             /\ \A E : OnlyRecords(r, E)' = OnlyRecords(r, E)
  BY <1>c, <1>k DEF FullAttempt, AttemptUpTo, OnlyRecords, AttemptEvent
<1>d. Gate(r) \in Refusals \cup {"pass"}
  BY CheckType DEF Gate
<1>1. CASE Receive(r)
  <2>1. StageInv(r)'
    BY <1>0, <1>a, <1>b, <1>c, <1>d, <1>k, <1>1 DEF Receive, Goto, StageInv, TypeOK, Before, Refused, Refusals
  <2>2. TrailInv(r)'
    BY <1>0, <1>a, <1>b, <1>c, <1>d, <1>k, <1>1 DEF Receive, Goto, StageInv, TrailInv, TypeOK, Before, Refused, Refusals
  <2>3. ChangeInv(r)'
    BY <1>0, <1>a, <1>b, <1>c, <1>1 DEF Receive, Goto, StageInv, ChangeInv, TypeOK, Before
  <2> QED
    BY <2>1, <2>2, <2>3 DEF RequestInv
<1>2. CASE GateRefuses(r)
  <2>s. 1 \in Sinks /\ \A k \in Sinks : ~ (k < 1)
    BY SinkAssumption DEF Sinks
  <2>0. /\ stage[r] = "gate" /\ stage'[r] = "result" /\ sink'[r] = 1
        /\ reply'[r] = Gate(r) /\ Gate(r) \in Refusals
        /\ result'[r] = ResultEvent(r, "REJECTED")
        /\ UNCHANGED <<policy, logLevel, call, plan, trail, applied>>
    BY <1>0, <1>2, <1>d DEF GateRefuses, Report, Answer, Goto, TypeOK
  <2>1. StageInv(r)'
    BY <1>k, <2>s, <2>0 DEF StageInv, Before, Refused
  <2>2. TrailInv(r)'
    <3>1. OnlyRecords(r, {}) /\ applied[r] = NoPlan
      BY <1>0, <2>0 DEF TrailInv, StageInv, Before
    <3>2. OnlyRecords(r, {result[r]})'
      BY <2>0, <3>1 DEF OnlyRecords
    <3> QED
      BY <1>a, <2>0, <3>1, <3>2 DEF TrailInv, Before, Refused, Refusals
  <2>3. ChangeInv(r)'
    BY <1>0, <2>0 DEF StageInv, ChangeInv, Before
  <2> QED
    BY <2>1, <2>2, <2>3 DEF RequestInv
<1>3. CASE GatePasses(r)
  <2>1. StageInv(r)'
    BY <1>0, <1>a, <1>b, <1>c, <1>d, <1>k, <1>3 DEF GatePasses, Goto, StageInv, TypeOK, Before, Refused, Refusals
  <2>2. TrailInv(r)'
    BY <1>0, <1>a, <1>b, <1>c, <1>d, <1>k, <1>3 DEF GatePasses, Goto, StageInv, TrailInv, TypeOK, Before, Refused, Refusals
  <2>3. ChangeInv(r)'
    BY <1>0, <1>a, <1>b, <1>c, <1>3 DEF GatePasses, Goto, StageInv, ChangeInv, TypeOK, Before
  <2> QED
    BY <2>1, <2>2, <2>3 DEF RequestInv
<1>4. CASE PlanFails(r)
  <2>1. StageInv(r)'
    BY <1>0, <1>a, <1>b, <1>c, <1>d, <1>k, <1>4 DEF PlanFails, Answer, Goto, StageInv, TypeOK, Before, Refused, Refusals
  <2>2. TrailInv(r)'
    BY <1>0, <1>a, <1>b, <1>c, <1>d, <1>k, <1>4 DEF PlanFails, Answer, Goto, StageInv, TrailInv, TypeOK, Before, Refused, Refusals
  <2>3. ChangeInv(r)'
    BY <1>0, <1>a, <1>b, <1>c, <1>4 DEF PlanFails, Answer, Goto, StageInv, ChangeInv, TypeOK, Before
  <2> QED
    BY <2>1, <2>2, <2>3 DEF RequestInv
<1>5. CASE \E p \in Plans : PlanResolves(r, p)
  <2>1. StageInv(r)'
    BY <1>0, <1>a, <1>b, <1>c, <1>d, <1>k, <1>5 DEF PlanResolves, Goto, StageInv, TypeOK, Before, Refused, Refusals
  <2>2. TrailInv(r)'
    BY <1>0, <1>a, <1>b, <1>c, <1>d, <1>k, <1>5 DEF PlanResolves, Goto, StageInv, TrailInv, TypeOK, Before, Refused, Refusals
  <2>3. ChangeInv(r)'
    BY <1>0, <1>a, <1>b, <1>c, <1>5 DEF PlanResolves, Goto, StageInv, ChangeInv, TypeOK, Before
  <2> QED
    BY <2>1, <2>2, <2>3 DEF RequestInv
<1>6. CASE Preview(r)
  <2>s. 1 \in Sinks /\ \A k \in Sinks : ~ (k < 1)
    BY SinkAssumption DEF Sinks
  <2>0. /\ stage[r] = "confirm" /\ stage'[r] = "result" /\ sink'[r] = 1
        /\ reply'[r] = "plan" /\ call[r].dryRun
        /\ result'[r] = ResultEvent(r, "SUCCEEDED")
        /\ UNCHANGED <<policy, logLevel, call, plan, trail, applied>>
    BY <1>0, <1>6 DEF Preview, Report, Answer, Goto, TypeOK
  <2>1. StageInv(r)'
    BY <1>k, <2>s, <2>0 DEF StageInv, Before, Refused
  <2>2. TrailInv(r)'
    <3>1. OnlyRecords(r, {}) /\ applied[r] = NoPlan
      BY <1>0, <2>0 DEF TrailInv, StageInv, Before
    <3>2. OnlyRecords(r, {result[r]})'
      BY <2>0, <3>1 DEF OnlyRecords
    <3> QED
      BY <1>a, <2>0, <3>1, <3>2 DEF TrailInv, Before, Refused, Refusals
  <2>3. ChangeInv(r)'
    BY <1>0, <2>0 DEF StageInv, ChangeInv, Before
  <2> QED
    BY <2>1, <2>2, <2>3 DEF RequestInv
<1>7. CASE ConfirmRefused(r)
  <2>1. StageInv(r)'
    BY <1>0, <1>a, <1>b, <1>c, <1>d, <1>k, <1>7 DEF ConfirmRefused, Answer, Goto, StageInv, TypeOK, Before, Refused, Refusals
  <2>2. TrailInv(r)'
    BY <1>0, <1>a, <1>b, <1>c, <1>d, <1>k, <1>7 DEF ConfirmRefused, Answer, Goto, StageInv, TrailInv, TypeOK, Before, Refused, Refusals
  <2>3. ChangeInv(r)'
    BY <1>0, <1>a, <1>b, <1>c, <1>7 DEF ConfirmRefused, Answer, Goto, StageInv, ChangeInv, TypeOK, Before
  <2> QED
    BY <2>1, <2>2, <2>3 DEF RequestInv
<1>8. CASE ConfirmAccepted(r)
  <2>0. /\ stage[r] = "confirm" /\ stage'[r] = "attempt" /\ sink'[r] = 1
        /\ ~ call[r].dryRun /\ call[r].confirm = ConfirmTarget[plan[r]]
        /\ UNCHANGED <<policy, logLevel, call, plan, result, reply, trail, applied>>
    BY <1>0, <1>8 DEF ConfirmAccepted, Goto, TypeOK
  <2>1. StageInv(r)'
    <3>1. 1 \in Sinks /\ AttemptUpTo(r, 1)'
      BY SinkAssumption DEF Sinks, AttemptUpTo, Keeping
    <3>2. Authorised(r)'
      BY <1>0, <1>b, <2>0 DEF StageInv, Authorised
    <3> QED
      BY <1>0, <2>0, <3>1, <3>2 DEF StageInv, Before
  <2>2. TrailInv(r)'
    <3>1. OnlyRecords(r, {AttemptEvent(r)})'
      BY <1>0, <1>c, <2>0 DEF TrailInv, StageInv, Before
    <3> QED
      BY <1>0, <2>0, <3>1 DEF TrailInv, StageInv, Before, Refused, Refusals
  <2>3. ChangeInv(r)'
    BY <1>0, <2>0 DEF StageInv, ChangeInv, Before
  <2> QED
    BY <2>1, <2>2, <2>3 DEF RequestInv
<1>9. CASE ApplySucceeds(r)
  <2>s. 1 \in Sinks /\ \A k \in Sinks : ~ (k < 1)
    BY SinkAssumption DEF Sinks
  <2>0. /\ stage[r] = "apply" /\ stage'[r] = "result" /\ sink'[r] = 1
        /\ reply'[r] = "ok"
        /\ applied'[r] = plan[r] \/ (applied'[r] = NoPlan /\ call[r].id \in ItemwiseIds)
        /\ result'[r] = ResultEvent(r, "SUCCEEDED")
        /\ UNCHANGED <<policy, logLevel, call, plan, trail>>
    BY <1>0, <1>9 DEF ApplySucceeds, Report, Answer, Goto, StageInv, TypeOK, Before
  <2>1. StageInv(r)'
    BY <1>k, <2>s, <2>0 DEF StageInv, Before, Refused
  <2>2. Authorised(r)' /\ FullAttempt(r)' /\ plan[r] # NoPlan
    BY <1>0, <1>b, <1>c, <2>0, InputAssumption DEF StageInv, Authorised
  <2>3. TrailInv(r)'
    <3>1. OnlyRecords(r, {AttemptEvent(r), result[r]})'
      BY <1>0, <2>0 DEF StageInv, TrailInv, OnlyRecords, Before
    <3> QED
      BY <1>a, <2>0, <2>2, <3>1 DEF TrailInv, Before, Refused, Refusals
  <2>4. ChangeInv(r)'
    BY <2>0, <2>2 DEF ChangeInv
  <2> QED
    BY <2>1, <2>3, <2>4 DEF RequestInv
<1>10. CASE ApplyFails(r)
  <2>s. 1 \in Sinks /\ \A k \in Sinks : ~ (k < 1)
    BY SinkAssumption DEF Sinks
  <2>0. /\ stage[r] = "apply" /\ stage'[r] = "result" /\ sink'[r] = 1
        /\ reply'[r] = "ApplyError" /\ applied'[r] \in {plan[r], NoPlan}
        /\ result'[r] = ResultEvent(r, "FAILED")
        /\ UNCHANGED <<policy, logLevel, call, plan, trail>>
    BY <1>0, <1>10 DEF ApplyFails, Report, Answer, Goto, StageInv, TypeOK, Before
  <2>1. StageInv(r)'
    BY <1>k, <2>s, <2>0 DEF StageInv, Before, Refused
  <2>2. Authorised(r)' /\ FullAttempt(r)' /\ plan[r] # NoPlan
    BY <1>0, <1>b, <1>c, <2>0, InputAssumption DEF StageInv, Authorised
  <2>3. TrailInv(r)'
    <3>1. OnlyRecords(r, {AttemptEvent(r), result[r]})'
      BY <1>0, <2>0 DEF StageInv, TrailInv, OnlyRecords, Before
    <3> QED
      BY <1>a, <2>0, <2>2, <3>1 DEF TrailInv, Before, Refused, Refusals
  <2>4. ChangeInv(r)'
    BY <2>0, <2>2 DEF ChangeInv
  <2> QED
    BY <2>1, <2>3, <2>4 DEF RequestInv
<1>11. CASE LateEffect(r)
  <2>0. /\ reply[r] \in {"ok", "ApplyError"} /\ applied'[r] = plan[r]
        /\ reply[r] = "ok" => call[r].id \in ItemwiseIds
        /\ UNCHANGED <<policy, logLevel, call, stage, plan, sink, result, reply, trail>>
    BY <1>0, <1>11 DEF LateEffect, TypeOK
  <2>1. StageInv(r)'
    BY <1>0, <1>a, <1>b, <1>c, <1>k, <2>0 DEF StageInv, Before
  <2>2. TrailInv(r)'
    BY <1>0, <1>a, <1>b, <1>c, <2>0 DEF StageInv, TrailInv, Before, Refused, Refusals
  <2>3. ChangeInv(r)'
    BY <1>0, <1>b, <1>c, <2>0 DEF TrailInv, ChangeInv
  <2> QED
    BY <2>1, <2>2, <2>3 DEF RequestInv
<1>12. CASE AttemptWritten(r)
  <2>0. /\ stage[r] = "attempt" /\ sink[r] \in Sinks /\ sink'[r] = sink[r] + 1
        /\ stage'[r] = IF sink[r] = NumSinks THEN "apply" ELSE "attempt"
        /\ \A k \in Sinks :
               trail'[k] = IF k = sink[r] /\ k \in Keeping THEN trail[k] \cup {AttemptEvent(r)} ELSE trail[k]
        /\ UNCHANGED <<policy, logLevel, call, plan, result, reply, applied>>
    BY <1>0, <1>12 DEF AttemptWritten, Recorded, StageInv, TypeOK
  <2>k. AttemptEvent(r)' = AttemptEvent(r)
    BY DEF AttemptEvent
  <2>1. Authorised(r)'
    BY <1>0, <1>b, <2>0 DEF StageInv
  <2>2. AttemptUpTo(r, sink[r])'
    <3>1. AttemptUpTo(r, sink[r])
      BY <1>0, <2>0 DEF StageInv
    <3>2. \A k \in Sinks : k < sink[r] + 1 => k < sink[r] \/ k = sink[r]
      BY <2>0, SinkAssumption DEF Sinks
    <3> QED
      BY <1>k, <2>0, <2>k, <3>1, <3>2 DEF AttemptUpTo
  <2>3. sink[r] = NumSinks => FullAttempt(r)'
    <3>0. NumSinks \in Nat /\ sink'[r] = sink[r] + 1
      BY <2>0, SinkAssumption
    <3>s. \A k \in Sinks : k < NumSinks + 1
      BY <3>0 DEF Sinks
    <3>1. sink[r] = NumSinks => \A k \in Keeping : k < sink'[r]
      BY <1>k, <3>0, <3>s
    <3> QED
      BY <1>k, <2>0, <2>2, <3>1 DEF AttemptUpTo, FullAttempt
  <2>4. sink[r] # NumSinks => sink'[r] \in Sinks
    BY <2>0, SinkAssumption DEF Sinks
  <2>5. StageInv(r)'
    BY <1>0, <2>0, <2>1, <2>2, <2>3, <2>4 DEF StageInv, Before, Refused, AttemptUpTo
  <2>6. TrailInv(r)'
    <3>1. OnlyRecords(r, {AttemptEvent(r)})'
      BY <1>0, <2>0 DEF StageInv, TrailInv, OnlyRecords, Before
    <3> QED
      BY <1>0, <2>0, <3>1 DEF StageInv, TrailInv, Before, Refused, Refusals
  <2>7. ChangeInv(r)'
    BY <1>0, <2>0 DEF StageInv, ChangeInv, Before
  <2> QED
    BY <2>5, <2>6, <2>7 DEF RequestInv
<1>13. CASE AttemptFails(r)
  <2>0. /\ stage[r] = "attempt" /\ sink[r] \in Sinks
        /\ stage'[r] = "done" /\ reply'[r] = "AuditUnavailable"
        /\ \A k \in Sinks : trail'[k] \subseteq trail[k] \cup {AttemptEvent(r)}
        /\ UNCHANGED <<policy, logLevel, call, plan, sink, result, applied>>
    BY <1>0, <1>13 DEF AttemptFails, MaybeRecorded, Recorded, Answer, Goto, StageInv, TypeOK
  <2>1. StageInv(r)'
    BY <2>0 DEF StageInv, Before, Refused, Refusals
  <2>2. TrailInv(r)'
    <3>1. OnlyRecords(r, {AttemptEvent(r)})'
      BY <1>0, <2>0 DEF StageInv, TrailInv, OnlyRecords, Before
    <3> QED
      BY <1>0, <2>0, <3>1 DEF StageInv, TrailInv, Before, Refused, Refusals
  <2>3. ChangeInv(r)'
    BY <1>0, <2>0 DEF StageInv, ChangeInv, Before
  <2> QED
    BY <2>1, <2>2, <2>3 DEF RequestInv
<1>14. CASE ResultWritten(r)
  <2>0. /\ stage[r] = "result" /\ sink[r] \in Sinks /\ sink'[r] = sink[r] + 1
        /\ stage'[r] = IF sink[r] = NumSinks THEN "done" ELSE "result"
        /\ \A k \in Sinks : /\ trail[k] \subseteq trail'[k]
                            /\ trail'[k] \subseteq trail[k] \cup {result[r]}
        /\ sink[r] \in Keeping \ ExternalSinks => result[r] \in trail'[sink[r]]
        /\ UNCHANGED <<policy, logLevel, call, plan, result, reply, applied>>
    BY <1>0, <1>14 DEF ResultWritten, Recorded, StageInv, TypeOK
  <2>1. reply[r] \in Refused \cup {"ok", "ApplyError"}
    BY <1>0, <2>0 DEF StageInv
  <2>2. Authorised(r)' = Authorised(r) /\ (FullAttempt(r) => FullAttempt(r)')
    BY <1>b, <1>k, <2>0 DEF FullAttempt, AttemptEvent
  <2>3. \A k \in Keeping \ ExternalSinks : k < sink'[r] => result[r] \in trail'[k]
    BY <1>0, <1>k, <2>0, SinkAssumption DEF StageInv, Sinks
  <2>4. sink[r] = NumSinks => \A k \in Sinks : k < sink'[r]
    BY <2>0, SinkAssumption DEF Sinks
  <2>5. sink[r] # NumSinks => sink'[r] \in Sinks
    BY <2>0, SinkAssumption DEF Sinks
  <2>6. StageInv(r)'
    BY <1>k, <2>0, <2>1, <2>3, <2>4, <2>5 DEF StageInv, Before, Refused, Refusals
  <2>7. \A E : OnlyRecords(r, E) /\ result[r] \in E => OnlyRecords(r, E)'
    BY <2>0 DEF OnlyRecords
  <2>8. TrailInv(r)'
    BY <1>0, <1>a, <2>0, <2>1, <2>2, <2>7 DEF TrailInv, Before, Refused, Refusals
  <2>9. ChangeInv(r)'
    BY <1>0, <2>0, <2>2 DEF ChangeInv
  <2> QED
    BY <2>6, <2>8, <2>9 DEF RequestInv
<1> QED
  BY <1>1, <1>2, <1>3, <1>4, <1>5, <1>6, <1>7, <1>8, <1>9, <1>10, <1>11, <1>12, <1>13, <1>14 DEF Handle

(* A crash loses the handlers in flight, whose applies may have landed. *)
LEMMA CrashStep ==
    ASSUME IInv, NEW q \in Requests, Crash
    PROVE  RequestInv(q)'
<1>0. TypeOK /\ StageInv(q) /\ TrailInv(q) /\ ChangeInv(q)
  BY DEF IInv, RequestInv
<1>1. /\ UNCHANGED <<policy, logLevel, call, plan, sink, result, reply, trail>>
      /\ stage'[q] = stage[q] \/ stage'[q] = "lost"
      /\ stage[q] = "apply" => stage'[q] = "lost"
      /\ applied'[q] = applied[q] \/ (applied'[q] = plan[q] /\ stage[q] = "apply")
  BY <1>0 DEF Crash, InFlight, TypeOK
<1>2. Gate(q)' = Gate(q) /\ Authorised(q)' = Authorised(q) /\ \A o : ResultEvent(q, o)' = ResultEvent(q, o)
  BY <1>1 DEF Gate, CallerOf, Authorised, ResultEvent
<1>k. Keeping' = Keeping
  BY <1>1 DEF Keeping
<1>3. /\ FullAttempt(q)' = FullAttempt(q)
      /\ \A n : AttemptUpTo(q, n)' = AttemptUpTo(q, n)
      /\ \A E : OnlyRecords(q, E)' = OnlyRecords(q, E)
  BY <1>1, <1>k DEF FullAttempt, AttemptUpTo, OnlyRecords, AttemptEvent
<1>4. StageInv(q)'
  BY <1>0, <1>k, <1>1, <1>2, <1>3 DEF StageInv, Before
<1>5. TrailInv(q)'
  BY <1>0, <1>1, <1>2, <1>3, InputAssumption DEF StageInv, TrailInv, Before, Refused, Refusals, Authorised
<1>6. ChangeInv(q)'
  BY <1>0, <1>1, <1>2, <1>3 DEF StageInv, ChangeInv
<1> QED
  BY <1>4, <1>5, <1>6 DEF RequestInv

(* The invariant holds initially. *)
LEMMA InvInit == Init => IInv
<1> SUFFICES ASSUME Init PROVE IInv
  OBVIOUS
<1>1. ASSUME NEW r \in Requests PROVE RequestInv(r)
  BY SinkAssumption DEF Init, RequestInv, StageInv, TrailInv, ChangeInv, OnlyRecords, Before, Refused, Refusals
<1>2. DropsAll
  BY DEF Init, DropsAll
<1> QED
  BY <1>1, <1>2, TypeInit DEF IInv

(* No step puts an event on a sink that drops it. *)
LEMMA DropsStep == IInv /\ [Next]_vars => DropsAll'
<1> SUFFICES ASSUME IInv, [Next]_vars, NEW k \in Sinks, k \notin Keeping'
             PROVE  trail'[k] = {}
  BY DEF DropsAll
<1>1. logLevel' = logLevel
  BY DEF Next, vars, Crash, Handle, Receive, GateRefuses, GatePasses, PlanFails, PlanResolves, Preview,
         ConfirmRefused, ConfirmAccepted, AttemptWritten, AttemptFails, ApplySucceeds, ApplyFails,
         LateEffect, ResultWritten
<1>2. k \notin Keeping /\ trail[k] = {}
  BY <1>1 DEF Keeping, DropsAll, IInv
<1>3. ASSUME NEW r \in Requests, NEW e, Recorded(sink[r], e)
      PROVE  trail'[k] = {}
  BY <1>2, <1>3 DEF Recorded, IInv, TypeOK
<1>4. ASSUME NEW r \in Requests, AttemptWritten(r) \/ AttemptFails(r) \/ ResultWritten(r)
      PROVE  trail'[k] = {}
  BY <1>2, <1>3, <1>4 DEF AttemptWritten, AttemptFails, ResultWritten, MaybeRecorded
<1> QED
  BY <1>2, <1>4
     DEF Next, vars, Crash, Handle, Receive, GateRefuses, GatePasses, PlanFails, PlanResolves, Preview,
         ConfirmRefused, ConfirmAccepted, ApplySucceeds, ApplyFails, LateEffect

(* Every step keeps the invariant. *)
LEMMA InvStep == IInv /\ [Next]_vars => IInv'
<1> SUFFICES ASSUME IInv, [Next]_vars PROVE IInv'
  OBVIOUS
<1>1. TypeOK'
  BY TypeStep
<1>2. ASSUME NEW q \in Requests PROVE RequestInv(q)'
  <2>1. CASE Crash
    BY <2>1, CrashStep
  <2>2. ASSUME NEW r \in Requests, Receive(r) \/ Handle(r) \/ LateEffect(r) PROVE RequestInv(q)'
    BY <2>2, OwnStep, OthersStandStill
  <2>3. CASE UNCHANGED vars
    <3>1. RequestInv(q)
      BY DEF IInv
    <3> QED
      BY <2>3, <3>1, Frame DEF vars
  <2> QED
    BY <2>1, <2>2, <2>3 DEF Next
<1> QED
  BY <1>1, <1>2, DropsStep DEF IInv

(* The inductive invariant holds of every run of the lifecycle. *)
THEOREM Invariance == Spec => []IInv
BY InvInit, InvStep, PTL DEF Spec
-----------------------------------------------------------------------------
(* Every variable keeps its type. *)
THEOREM TypeCorrect == Spec => []TypeOK
BY Invariance, PTL DEF IInv

(* Fail closed: nothing changes on the cluster before every sink that      *)
(* keeps what it is given holds the ATTEMPT, whichever sinks fail or       *)
(* crashes strike.                                                         *)
THEOREM FailsClosed == Spec => []FailClosed
<1>1. IInv => FailClosed
  BY DEF IInv, RequestInv, ChangeInv, FailClosed, FullAttempt
<1> QED
  BY <1>1, Invariance, PTL

(* Only a change the gates allow, which is no dry run and whose plan the   *)
(* caller confirmed, reaches the cluster.                                  *)
THEOREM ChangesAuthorised == Spec => []AuthorisedChange
<1>1. IInv => AuthorisedChange
  BY DEF IInv, RequestInv, ChangeInv, AuthorisedChange, Authorised
<1> QED
  BY <1>1, Invariance, PTL

(* A caller told that the audit is unavailable has changed nothing, and no *)
(* sink holds an outcome of the call.                                      *)
THEOREM UnavailableUntouched == Spec => []UnavailableIsUntouched
<1>1. IInv => UnavailableIsUntouched
  BY AttemptEventType
     DEF IInv, RequestInv, TrailInv, OnlyRecords, UnavailableIsUntouched, Of
<1> QED
  BY <1>1, Invariance, PTL

(* Stdout holds the RESULT of every refused, previewed or executed command *)
(* that was answered, unless its level drops them all.                     *)
THEOREM StdoutComplete == Spec => []StdoutRecords
<1>1. IInv => StdoutRecords
  BY DEF IInv, TypeOK, RequestInv, StageInv, StdoutRecords, Replies, Refused
<1> QED
  BY <1>1, Invariance, PTL
-----------------------------------------------------------------------------
(* A RESULT on any sink is the one its handler decided on. *)
LEMMA ResultDecided ==
    ASSUME IInv, NEW k \in Sinks, NEW e \in trail[k], e.phase = "RESULT"
    PROVE  /\ e.req \in Requests
           /\ e = result[e.req]
           /\ \/ /\ reply[e.req] \in {"ok", "ApplyError"}
                 /\ e.outcome = (IF reply[e.req] = "ok" THEN "SUCCEEDED" ELSE "FAILED")
                 /\ Executed(e)
                 /\ FullAttempt(e.req)
              \/ reply[e.req] \in Refused /\ ~ Executed(e)
<1> DEFINE r == e.req
<1>1. e \in Event /\ r \in Requests
  <2>1. e \in Event
    BY DEF IInv, TypeOK
  <2>2. \A x \in Event : x.req \in Requests
    BY DEF Event
  <2> QED
    BY <2>1, <2>2
<1>2. TypeOK /\ StageInv(r) /\ TrailInv(r) /\ ChangeInv(r)
  BY <1>1 DEF IInv, RequestInv
<1>3. e # AttemptEvent(r)
  BY <1>1, AttemptEventType
<1>4. reply[r] \in {"ok", "ApplyError"} \cup Refused
  BY <1>1, <1>2, <1>3 DEF TypeOK, Replies, Refused, TrailInv, OnlyRecords
<1>5. e = result[r]
  BY <1>1, <1>2, <1>3, <1>4 DEF TrailInv, OnlyRecords
<1>6. CASE reply[r] \in {"ok", "ApplyError"}
  <2>1. /\ e = ResultEvent(r, IF reply[r] = "ok" THEN "SUCCEEDED" ELSE "FAILED")
        /\ FullAttempt(r) /\ ~ call[r].dryRun
    BY <1>2, <1>5, <1>6 DEF TrailInv, Authorised
  <2>2. \E o \in {"SUCCEEDED", "FAILED"} :
            e = ResultEvent(r, o) /\ o = (IF reply[r] = "ok" THEN "SUCCEEDED" ELSE "FAILED")
    BY <2>1
  <2>3. Executed(e) /\ e.outcome = (IF reply[r] = "ok" THEN "SUCCEEDED" ELSE "FAILED")
    BY <1>1, <1>2, <2>1, <2>2, ResultEventType DEF Outcomes
  <2> QED
    BY <1>1, <1>5, <1>6, <2>1, <2>3
<1>7. CASE reply[r] \in Refused
  <2>1. e = ResultEvent(r, IF reply[r] = "plan" THEN "SUCCEEDED" ELSE "REJECTED")
    BY <1>2, <1>5, <1>7 DEF TrailInv
  <2>2. reply[r] = "plan" => call[r].dryRun
    BY <1>2 DEF TrailInv
  <2>3. ~ Executed(e)
    BY <1>1, <1>2, <2>1, <2>2, ResultEventType DEF Outcomes
  <2> QED
    BY <1>1, <1>5, <1>7, <2>3
<1> QED
  BY <1>4, <1>6, <1>7

(* No sink and no pair of sinks ever gives two verdicts on a request. *)
THEOREM VerdictUnique == Spec => []OneVerdict
<1>1. IInv => OneVerdict
  BY ResultDecided DEF OneVerdict
<1> QED
  BY <1>1, Invariance, PTL

(* An executed RESULT always stands beside its ATTEMPT. *)
THEOREM ResultAnnounced == Spec => []ResultHasAttempt
<1>1. IInv => ResultHasAttempt
  <2> SUFFICES ASSUME IInv, NEW k \in Sinks, NEW e \in trail[k], Executed(e)
               PROVE  AttemptEvent(e.req) \in trail[k]
    BY DEF ResultHasAttempt
  <2>1. e.phase = "RESULT"
    BY DEF Executed
  <2> QED
    BY <2>1, ResultDecided DEF FullAttempt, IInv, DropsAll
<1> QED
  BY <1>1, Invariance, PTL

(* The trail never claims a change that was not made, except of a command  *)
(* that answers item by item, and never denies one that was.               *)
THEOREM TrailTruthful == Spec => []TruthfulTrail
<1>1. ASSUME IInv PROVE TruthfulTrail
  <2> SUFFICES ASSUME NEW k \in Sinks, NEW e \in trail[k], e.phase = "RESULT"
               PROVE  IF Executed(e)
                      THEN e.outcome = "SUCCEEDED" =>
                               applied[e.req] # NoPlan \/ call[e.req].id \in ItemwiseIds
                      ELSE /\ applied[e.req] = NoPlan
                           /\ \A l \in Sinks : AttemptEvent(e.req) \notin trail[l]
    BY DEF TruthfulTrail
  <2>0. e.req \in Requests /\ TrailInv(e.req)
    BY <1>1, ResultDecided DEF IInv, RequestInv
  <2>1. CASE Executed(e)
    <3>1. e.outcome = "SUCCEEDED" => reply[e.req] = "ok"
      BY <1>1, <2>1, ResultDecided
    <3> QED
      BY <2>0, <2>1, <3>1 DEF TrailInv
  <2>2. CASE ~ Executed(e)
    <3>1. reply[e.req] \in Refused /\ e = result[e.req]
      BY <1>1, <2>2, ResultDecided
    <3>2. AttemptEvent(e.req) # result[e.req]
      BY <2>0, <3>1, AttemptEventType
    <3>3. OnlyRecords(e.req, {result[e.req]}) /\ applied[e.req] = NoPlan
      BY <2>0, <3>1 DEF TrailInv, Refused, Refusals
    <3> QED
      BY <2>0, <2>2, <3>2, <3>3, AttemptEventType DEF OnlyRecords
  <2> QED
    BY <2>1, <2>2
<1> QED
  BY <1>1, Invariance, PTL
-----------------------------------------------------------------------------
(* The refinement of AuditedChange.  What the abstract specification sees  *)
(* of a step depends on the trail and the applied plans only.              *)
LEMMA Unseen ==
    ASSUME UNCHANGED <<logLevel, trail, applied>>,
           \A q \in Requests : call'[q] = call[q] \/ (OnlyRecords(q, {}) /\ OnlyRecords(q, {})')
    PROVE  UNCHANGED Abstract!vars
<1>1. UNCHANGED <<Keeping, Changed>> /\ \A q, o : Said(q, o)' = Said(q, o)
  BY DEF Keeping, Changed, Said, Of
<1>2. UNCHANGED Declared
  BY <1>1 DEF Declared, AttemptEvent
<1>3. \A q \in Requests : OnlyRecords(q, {}) => \A o : ~ Said(q, o)
  BY DEF OnlyRecords, Said, Of
<1>4. UNCHANGED Verdict
  BY <1>1, <1>3 DEF Verdict
<1> QED
  BY <1>1, <1>2, <1>4 DEF Abstract!vars

(* The plan of a request whose ATTEMPT is complete takes effect: the       *)
(* abstract specification changes.                                         *)
LEMMA EffectsMap ==
    ASSUME IInv, NEW T \in SUBSET Requests,
           \A r \in T : FullAttempt(r) /\ Authorised(r) /\ applied[r] = NoPlan,
           applied' = [r \in Requests |-> IF r \in T THEN plan[r] ELSE applied[r]],
           UNCHANGED <<logLevel, call, trail>>
    PROVE  [Abstract!Next]_(Abstract!vars)
<1>0. UNCHANGED Keeping
  BY DEF Keeping
<1>1. \A r \in T : plan[r] # NoPlan
  BY InputAssumption DEF Authorised
<1>2. Changed' = Changed \cup T
  BY <1>1 DEF Changed
<1>3. UNCHANGED <<Declared, Verdict>>
  BY <1>0 DEF Declared, Verdict, Said, Of, AttemptEvent
<1>4. (Keeping = {} \/ T \subseteq Declared) /\ T \cap Changed = {}
  BY DEF Declared, Changed, FullAttempt
<1>5. CASE T = {}
  BY <1>0, <1>2, <1>3, <1>5 DEF Abstract!vars
<1>6. CASE T # {}
  BY <1>0, <1>2, <1>3, <1>4, <1>6 DEF Abstract!Next, Abstract!Change
<1> QED
  BY <1>5, <1>6

(* An ATTEMPT that reaches a sink may complete a declaration, and says     *)
(* nothing about how the request ends.                                     *)
LEMMA AttemptsMap ==
    ASSUME IInv, NEW r \in Requests, NEW s \in Sinks,
           Recorded(s, AttemptEvent(r)), s \in Keeping,
           UNCHANGED <<logLevel, call, applied>>
    PROVE  [Abstract!Next]_(Abstract!vars)
<1>0. Keeping # {} /\ UNCHANGED Keeping /\ \A q : AttemptEvent(q)' = AttemptEvent(q)
  BY DEF Keeping, AttemptEvent
<1>1. \A k \in Sinks : trail'[k] = IF k = s THEN trail[k] \cup {AttemptEvent(r)} ELSE trail[k]
  BY DEF Recorded, IInv, TypeOK
<1>2. UNCHANGED Changed
  BY DEF Changed
<1>3. UNCHANGED Verdict
  <2>1. ~ Executed(AttemptEvent(r))
    BY AttemptEventType DEF Executed
  <2>2. \A q, o : Said(q, o)' = Said(q, o)
    BY <1>1, <2>1 DEF Said, Of
  <2> QED
    BY <2>2 DEF Verdict
<1>4. \A q \in Requests \ {r} : q \in Declared' <=> q \in Declared
  <2>1. \A q \in Requests \ {r} : AttemptEvent(q) # AttemptEvent(r)
    BY AttemptEventType
  <2>2. Keeping \subseteq Sinks
    BY DEF Keeping
  <2> QED
    BY <1>0, <1>1, <2>1, <2>2 DEF Declared
<1>5. r \in Declared => r \in Declared'
  <2>1. Keeping \subseteq Sinks
    BY DEF Keeping
  <2> QED
    BY <1>0, <1>1, <2>1 DEF Declared
<1>6. Declared \subseteq Requests /\ Declared' \subseteq Requests
  BY DEF Declared
<1>7. CASE r \in Declared' /\ r \notin Declared
  <2>1. Declared' = Declared \cup {r}
    BY <1>4, <1>6, <1>7
  <2> QED
    BY <1>0, <1>2, <1>3, <1>7, <2>1 DEF Abstract!Next, Abstract!Declare
<1>8. CASE ~ (r \in Declared' /\ r \notin Declared)
  <2>1. Declared' = Declared
    BY <1>4, <1>5, <1>6, <1>8
  <2> QED
    BY <1>0, <1>2, <1>3, <2>1 DEF Abstract!vars
<1> QED
  BY <1>7, <1>8
(* A verdict that is out stays as it is; the first RESULT of an executed   *)
(* request on any sink is its verdict.                                     *)
LEMMA ResultsMap ==
    ASSUME IInv, NEW r \in Requests, ResultWritten(r)
    PROVE  [Abstract!Next]_(Abstract!vars)
<1>0. UNCHANGED Keeping /\ Keeping \subseteq Sinks /\ \A q : AttemptEvent(q)' = AttemptEvent(q)
  BY DEF ResultWritten, Keeping, AttemptEvent
<1>1. stage[r] = "result" /\ sink[r] \in Sinks /\ UNCHANGED <<policy, logLevel, call, result, reply, applied>>
  BY DEF ResultWritten, IInv, RequestInv, StageInv
<1>2. result[r] \in Event /\ result[r].req = r
  BY <1>1, ResultHeld
<1>3. \E o \in Outcomes : result[r] = ResultEvent(r, o)
  BY <1>1 DEF IInv, RequestInv, StageInv, TrailInv, Outcomes, Refused
<1>4. result[r].phase = "RESULT"
  BY <1>3, ResultEventType DEF IInv
<1>5. CASE UNCHANGED trail
  BY <1>1, <1>5, Unseen
<1>6. CASE Recorded(sink[r], result[r]) /\ sink[r] \in Keeping
  <2>1. \A k \in Sinks : trail'[k] = IF k = sink[r] THEN trail[k] \cup {result[r]} ELSE trail[k]
    BY <1>1, <1>6 DEF Recorded, IInv, TypeOK
  <2>2. UNCHANGED Changed
    BY <1>1 DEF Changed
  <2>3. UNCHANGED Declared
    <3>1. \A q \in Requests : AttemptEvent(q) # result[r]
      BY <1>4, AttemptEventType
    <3> QED
      BY <1>0, <2>1, <3>1 DEF Declared
  <2>4. \A q, o : Said(q, o)' <=>
                     Said(q, o) \/ (q = r /\ Executed(result[r]) /\ o = result[r].outcome)
    <3> SUFFICES ASSUME NEW q, NEW o
                 PROVE  Said(q, o)' <=>
                            Said(q, o) \/ (q = r /\ Executed(result[r]) /\ o = result[r].outcome)
      OBVIOUS
    <3>1. \A k \in Sinks : \A e :
             e \in Of(q, k)' <=> e \in Of(q, k) \/ (k = sink[r] /\ e = result[r] /\ q = r)
      BY <1>2, <2>1 DEF Of
    <3>2. Said(q, o)' <=> \E k \in Sinks : \E e : e \in Of(q, k)' /\ Executed(e) /\ e.outcome = o
      BY DEF Said
    <3>3. Said(q, o) <=> \E k \in Sinks : \E e : e \in Of(q, k) /\ Executed(e) /\ e.outcome = o
      BY DEF Said
    <3> HIDE DEF Of, Said, Executed
    <3> QED
      BY <1>1, <3>1, <3>2, <3>3
  <2>5. CASE ~ Executed(result[r])
    BY <1>0, <1>1, <2>2, <2>3, <2>4, <2>5 DEF Verdict, Abstract!vars
  <2>6. CASE Executed(result[r])
    <3>1. reply[r] \in {"ok", "ApplyError"}
      <4>1. reply[r] \in Refused \cup {"ok", "ApplyError"}
        BY <1>1 DEF IInv, RequestInv, StageInv
      <4>2. reply[r] \in Refused => ~ Executed(result[r])
        <5> SUFFICES ASSUME reply[r] \in Refused PROVE ~ Executed(result[r])
          OBVIOUS
        <5>1. /\ result[r] = ResultEvent(r, IF reply[r] = "plan" THEN "SUCCEEDED" ELSE "REJECTED")
              /\ reply[r] = "plan" => call[r].dryRun
          BY DEF IInv, RequestInv, TrailInv
        <5> QED
          BY <5>1, ResultEventType DEF IInv, Outcomes
      <4> QED
        BY <2>6, <4>1, <4>2
    <3>2. /\ result[r] = ResultEvent(r, IF reply[r] = "ok" THEN "SUCCEEDED" ELSE "FAILED")
          /\ FullAttempt(r)
          /\ reply[r] = "ok" => applied[r] # NoPlan \/ call[r].id \in ItemwiseIds
      BY <3>1 DEF IInv, RequestInv, TrailInv
    <3>3. result[r].outcome = IF reply[r] = "ok" THEN "SUCCEEDED" ELSE "FAILED"
      BY <3>2, ResultEventType DEF IInv, Outcomes
    <3>4. \A o : Said(r, o) => o = result[r].outcome
      <4> SUFFICES ASSUME NEW k \in Sinks, NEW e \in Of(r, k), Executed(e)
                   PROVE  e.outcome = result[r].outcome
        BY DEF Said
      <4> QED
        BY ResultDecided DEF Of, Executed
    <3>5. r \in Declared
      BY <1>6, <3>2 DEF Declared, FullAttempt
    <3>6. CASE Said(r, result[r].outcome)
      BY <1>0, <1>1, <2>2, <2>3, <2>4, <3>6 DEF Verdict, Abstract!vars
    <3>7. CASE ~ Said(r, result[r].outcome)
      <4> DEFINE v == IF reply[r] = "ok"
                      THEN IF call[r].id \in ItemwiseIds THEN "ITEMISED" ELSE "SUCCEEDED"
                      ELSE "FAILED"
      <4>1. Verdict[r] = NoPlan
        BY <3>4, <3>7 DEF Verdict
      <4>2. Verdict' = [Verdict EXCEPT ![r] = v]
        BY <1>1, <2>4, <2>6, <3>1, <3>3, <3>4, <3>7 DEF Verdict
      <4>3. CASE v = "SUCCEEDED"
        <5>1. r \in Changed
          BY <3>1, <3>2, <4>3 DEF Changed
        <5>2. Abstract!Succeed(r)
          BY <1>0, <2>2, <2>3, <4>1, <4>2, <4>3, <5>1 DEF Abstract!Succeed
        <5> QED
          BY <5>2 DEF Abstract!Next
      <4>4. CASE v \in {"FAILED", "ITEMISED"}
        <5>1. Abstract!FailOrItemise(r)
          BY <1>0, <2>2, <2>3, <3>5, <4>1, <4>2, <4>4 DEF Abstract!FailOrItemise
        <5> QED
          BY <5>1 DEF Abstract!Next
      <4> QED
        BY <3>1, <4>3, <4>4
    <3> QED
      BY <3>6, <3>7
  <2> QED
    BY <2>5, <2>6
<1> QED
  BY <1>5, <1>6 DEF ResultWritten, Recorded

(* Every step is a step of AuditedChange, or none that it sees.            *)
LEMMA StepsMap ==
    ASSUME IInv, [Next]_vars
    PROVE  [Abstract!Next]_(Abstract!vars)
<1>0. TypeOK /\ \A r \in Requests : StageInv(r) /\ TrailInv(r)
  BY DEF IInv, RequestInv
<1>1. CASE Crash
  <2>1. PICK T \in SUBSET {r \in Requests : stage[r] = "apply"} :
            applied' = [r \in Requests |-> IF r \in T THEN plan[r] ELSE applied[r]]
    BY <1>1 DEF Crash
  <2>2. \A r \in T : FullAttempt(r) /\ Authorised(r) /\ applied[r] = NoPlan
    BY <1>0 DEF StageInv
  <2> QED
    BY <1>1, <2>1, <2>2, EffectsMap DEF Crash
<1>2. ASSUME NEW r \in Requests,
             \/ ApplySucceeds(r) \/ ApplyFails(r) \/ LateEffect(r)
      PROVE  [Abstract!Next]_(Abstract!vars)
  <2>1. /\ FullAttempt(r) /\ Authorised(r) /\ applied[r] = NoPlan
        /\ UNCHANGED <<logLevel, call, trail>>
    BY <1>0, <1>2 DEF ApplySucceeds, ApplyFails, LateEffect, StageInv, TrailInv
  <2>2. CASE UNCHANGED applied
    BY <2>1, <2>2, Unseen
  <2>3. CASE applied' = [applied EXCEPT ![r] = plan[r]]
    <3> DEFINE T == {r}
    <3>1. applied' = [q \in Requests |-> IF q \in T THEN plan[q] ELSE applied[q]]
      BY <1>0, <2>3 DEF TypeOK
    <3>2. T \in SUBSET Requests /\ \A q \in T : FullAttempt(q) /\ Authorised(q) /\ applied[q] = NoPlan
      BY <2>1
    <3>3. UNCHANGED <<logLevel, call, trail>>
      BY <2>1
    <3> HIDE DEF T
    <3> QED
      BY <3>1, <3>2, <3>3, EffectsMap
  <2> QED
    BY <1>2, <2>2, <2>3 DEF ApplySucceeds, ApplyFails, LateEffect
<1>3. ASSUME NEW r \in Requests, AttemptWritten(r) \/ AttemptFails(r)
      PROVE  [Abstract!Next]_(Abstract!vars)
  <2>1. sink[r] \in Sinks /\ UNCHANGED <<logLevel, call, applied>>
    BY <1>0, <1>3 DEF AttemptWritten, AttemptFails, StageInv
  <2> QED
    BY <1>3, <2>1, AttemptsMap, Unseen DEF AttemptWritten, AttemptFails, MaybeRecorded, Recorded
<1>4. ASSUME NEW r \in Requests, ResultWritten(r) PROVE [Abstract!Next]_(Abstract!vars)
  BY <1>4, ResultsMap
<1>5. CASE UNCHANGED <<logLevel, call, trail, applied>>
  BY <1>5, Unseen
<1>6. ASSUME NEW r \in Requests, Receive(r) PROVE [Abstract!Next]_(Abstract!vars)
  <2>1. /\ UNCHANGED <<logLevel, trail, applied>> /\ OnlyRecords(r, {}) /\ OnlyRecords(r, {})'
        /\ \A q \in Requests \ {r} : call'[q] = call[q]
    BY <1>0, <1>6 DEF Receive, TypeOK, TrailInv, Before, OnlyRecords
  <2> QED
    BY <2>1, Unseen
<1> QED
  BY <1>1, <1>2, <1>3, <1>4, <1>5, <1>6
     DEF Next, Handle, vars, GateRefuses, GatePasses, PlanFails, PlanResolves, Preview,
         ConfirmRefused, ConfirmAccepted

(* The lifecycle implements AuditedChange, for any number of requests and  *)
(* sinks: a change is declared on every sink that keeps what it is given   *)
(* before it is made, and made at most once; each request has at most one  *)
(* verdict, and no command that is all or nothing has a false success.     *)
THEOREM AuditPromiseKept == Spec => KeepsAuditPromise
<1>1. Init => Abstract!Init
  <2> SUFFICES ASSUME Init PROVE Abstract!Init
    OBVIOUS
  <2>1. 1 \in Sinks /\ \A k \in Sinks : trail[k] = {}
    BY SinkAssumption DEF Init, Sinks
  <2>2. Declared = {} /\ Changed = {}
    BY <2>1 DEF Declared, Changed, Init, Keeping
  <2>3. Verdict = [r \in Requests |-> NoPlan]
    BY <2>1 DEF Verdict, Said, Of
  <2> QED
    BY <2>2, <2>3 DEF Abstract!Init
<1>2. IInv /\ [Next]_vars => [Abstract!Next]_(Abstract!vars)
  BY StepsMap
<1> QED
  BY <1>1, <1>2, Invariance, PTL DEF Spec, KeepsAuditPromise, Abstract!Spec
=============================================================================
