------------------------------ MODULE MCLimits ------------------------------
(* Instances for TLC, for safety only, of what concurrent parties may not  *)
(* exceed: one holder of the lease in an epoch, and the day's budget.      *)
(* They share no state, so a behaviour follows one of them, `part', and    *)
(* the other stays as it begins.                                           *)
EXTENDS HaSync, Spend

CONSTANTS a, b, t1, t2

VARIABLE part

LimitsInit ==
    /\ part \in {"ha", "spend"}
    /\ Init
    /\ SpendInit /\ (part = "ha" => reports = {})

LimitsNext ==
    \/ part = "ha" /\ Next /\ UNCHANGED <<part, spendVars>>
    \/ part = "spend" /\ SpendNext /\ UNCHANGED <<part, vars>>

LimitsSpec == LimitsInit /\ [][LimitsNext]_<<part, vars, spendVars>>
=============================================================================
