------------------------------- MODULE Gates -------------------------------
(***************************************************************************)
(* The policy half of every gateway command: the command table             *)
(* (internal/command), gates.Check (internal/service/gates) and            *)
(* audit.SeverityFor (internal/audit).  There is no state here: the        *)
(* configuration is immutable after start-up, and a caller and a command   *)
(* id decide everything.                                                   *)
(***************************************************************************)

(* The catalog, by the descriptor fields the gates read. *)
WriteIds ==
    {"M5", "M6", "M7", "M8", "T5", "T6", "T7", "T8", "T9", "T10", "T11", "T12",
     "G4", "G5", "G6", "G7", "C5", "C9", "C12", "S1", "S2"}

ReadIds ==
    {"C1", "C2", "C3", "C4", "C6", "C7", "C8", "C10", "C11",
     "T1", "T2", "T3", "T4", "M1", "M2", "M3", "M4", "G1", "G2", "G3"}

DestructiveIds == WriteIds \ {"M5", "M6", "M7", "T5", "T6"}

DataPlaneIds == {"M1", "M2", "M3", "M4", "M5", "M6", "M7", "M8"}

CommandIds == WriteIds \cup ReadIds

(* core.Caller: the key's tier, and whether a break-glass reason is present. *)
Caller == [tier : {"reader", "operator"}, breakGlass : BOOLEAN]

(* core.Policy, without AuthEnabled, which the HTTP layer alone reads. *)
Policy == [readOnly : BOOLEAN, dataPlaneLock : BOOLEAN, disabled : SUBSET CommandIds]

-----------------------------------------------------------------------------
(* The refusals of a mutating command, in the order the code tries them. *)
WriteRefusal(caller, id, policy) ==
    IF caller.tier # "operator" THEN "TierForbidden"
    ELSE IF policy.readOnly THEN "ReadOnlyMode"
    ELSE IF id \in policy.disabled THEN "OperationDisabled"
    ELSE "pass"

(* Break-glass opens the data-plane lock, for an operator only. *)
LockRefusal(caller, id, policy) ==
    IF /\ id \in DataPlaneIds
       /\ policy.dataPlaneLock
       /\ ~ (caller.breakGlass /\ caller.tier = "operator")
    THEN "DataPlaneLocked"
    ELSE "pass"

(* gates.Check: the write switches first, then, independently, the lock. *)
Check(caller, id, policy) ==
    IF id \in WriteIds /\ WriteRefusal(caller, id, policy) # "pass"
    THEN WriteRefusal(caller, id, policy)
    ELSE LockRefusal(caller, id, policy)

Refusals == {"TierForbidden", "ReadOnlyMode", "OperationDisabled", "DataPlaneLocked"}

-----------------------------------------------------------------------------
(* audit.SeverityFor.  "" is the zero Severity, which an event that never  *)
(* went through SeverityFor still carries.                                 *)
HighSeverityIds == {"T7", "T8", "T11", "T12", "G5"}

Severities == {"", "INFO", "WARN", "HIGH"}

Outcomes == {"SUCCEEDED", "FAILED", "REJECTED"}

SeverityFor(id, outcome, breakGlass) ==
    IF breakGlass THEN "HIGH"
    ELSE IF outcome \in {"REJECTED", "FAILED"} THEN "WARN"
    ELSE IF outcome = "SUCCEEDED" /\ id \in HighSeverityIds THEN "HIGH"
    ELSE "INFO"
=============================================================================
