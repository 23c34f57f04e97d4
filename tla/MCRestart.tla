----------------------------- MODULE MCRestart -----------------------------
(* Instances for TLC of the loops that must go on through stops and        *)
(* failures: shipping and pulling, the hunt schedule, the SLA clocks.      *)
(* They share no state, so a behaviour follows one of them, `part', and    *)
(* the others stay as they begin.                                          *)
EXTENDS HaSync, Spend, Sla

CONSTANT a

VARIABLE part

restartVars == <<part, vars, spendVars, slaVars>>

RestartInit ==
    /\ part \in {"ha", "hunts", "sla"}
    /\ Init /\ SlaInit
    /\ SpendInit /\ (part # "hunts" => \A h \in 1 .. Hunts : ~Due(h))

Ha(A) == part = "ha" /\ A /\ UNCHANGED <<part, spendVars, slaVars>>
OfHunts(A) == part = "hunts" /\ A /\ UNCHANGED <<part, vars, slaVars>>
OfSla(A) == part = "sla" /\ A /\ UNCHANGED <<part, vars, spendVars>>

RestartNext == Ha(Next) \/ OfHunts(SpendNext) \/ OfSla(SlaNext)

(* What each part is fair to; the part is fixed, so that the disjunction   *)
(* is that of the one that runs.                                           *)
RestartSpec ==
    /\ RestartInit /\ [][RestartNext]_restartVars
    /\ \A n \in Nodes : WF_restartVars(Ha(Start(n))) /\ WF_restartVars(Ha(Writer(n)))
    /\ WF_restartVars(Ha(Pull) \/ OfHunts(HuntLoop) \/ OfSla(Sweep))
=============================================================================
