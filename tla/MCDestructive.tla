--------------------------- MODULE MCDestructive ---------------------------
(* Two concurrent requests over the destructive lifecycle, stdout and an   *)
(* audit topic, a reader and operators, a kill switch of each kind.        *)
EXTENDS DestructiveProofs, TLC

CONSTANTS r1, r2, p1, p2, c1, c2

MCRequests == {r1, r2}

MCPlans == {p1, p2}

MCConfirms == {c1, c2}

(* Two plans a caller must confirm differently. *)
MCConfirmTarget == (p1 :> c1) @@ (p2 :> c2)

MCCall(id, tier, breakGlass, dryRun) ==
    [id |-> id, tier |-> tier, breakGlass |-> breakGlass, dryRun |-> dryRun, confirm |-> c1]

(* T7 is always HIGH and T9 never; M8 is the one behind the data-plane     *)
(* lock, and answers item by item.                                         *)
MCCalls ==
    {MCCall("T7", "operator", FALSE, FALSE), MCCall("T7", "operator", FALSE, TRUE),
     MCCall("T9", "operator", TRUE, FALSE), MCCall("T9", "reader", FALSE, FALSE),
     MCCall("M8", "operator", TRUE, FALSE), MCCall("M8", "operator", FALSE, FALSE)}

MCPolicies ==
    {[readOnly |-> FALSE, dataPlaneLock |-> TRUE, disabled |-> {}],
     [readOnly |-> FALSE, dataPlaneLock |-> FALSE, disabled |-> {"T7"}],
     [readOnly |-> TRUE, dataPlaneLock |-> TRUE, disabled |-> {}]}
=============================================================================
